--------------------------- MODULE PacemakerProofs ---------------------------
(***************************************************************************)
(* Theorems about Pacemaker: what the board shows is right, for any number *)
(* of compute nodes and of changes.                                        *)
(***************************************************************************)
EXTENDS Pacemaker, PromQLTheorems

\* The variables are of their types; TypeOK adds what is in the files.
Typed ==
  /\ cut \in Hosts \cup {NoNode} /\ owner \in Compute \cup {NoNode}
  /\ down \subseteq Hosts /\ sessions \subseteq Compute
  /\ primary \subseteq Storage /\ diskless \subseteq Storage
  /\ broken \in BOOLEAN /\ neighbour \in BOOLEAN
  /\ events \in 0 .. MaxEvents
  /\ fenced \in [Compute -> 0 .. MaxEvents]

---------------------------------------------------------------------------
(* What a run writes, series by series.                                    *)

\* The members whose fence actions a node's stonith_admin lists.
Remembered(n) == Online(n) \cup (Compute \cap down)

LEMMA RememberedMembers ==
  ASSUME Typed, NEW n \in Compute
  PROVE  Remembered(n) \subseteq Compute
BY DEF Remembered, Online, Typed, Hosts

LEMMA StonithGiven ==
  ASSUME Typed, NEW n \in Compute
  PROVE  StonithReport(n) # NoReport
<1>1. \A l : l \in StonithReport(n) <=>
         \E m \in Remembered(n) : \E k \in 1 .. fenced[m] : l = [target |-> m, action |-> k]
  BY DEF StonithReport, Remembered
<1>2. \A m \in Remembered(n) : \A k \in 1 .. fenced[m] : m \in Compute /\ k \in 1 .. MaxEvents
  BY RememberedMembers, PacemakerAssumption DEF Typed
<1>3. StonithReport(n) \in SUBSET [target : Compute, action : 1 .. MaxEvents]
  BY <1>1, <1>2
<1> QED BY <1>3, ReportAssumption

\* parse_stonith counts a member's lines: as many as it has actions.
LEMMA FenceCounts ==
  ASSUME Typed, NEW n \in Compute, NEW m \in Compute
  PROVE  FenceCount(ParseStonith(StonithReport(n)), m) =
           IF m \in Remembered(n) THEN fenced[m] ELSE 0
<1> DEFINE lines == StonithReport(n)
           mine == {l \in lines : l.target = m}
           D == 1 .. fenced[m]
           f == [k \in D |-> [target |-> m, action |-> k]]
<1>1. \A l : l \in lines <=>
         \E q \in Remembered(n) : \E k \in 1 .. fenced[q] : l = [target |-> q, action |-> k]
  BY DEF StonithReport, Remembered
<1>2. fenced[m] \in Nat
  BY PacemakerAssumption DEF Typed
<1>3. FenceCount(ParseStonith(lines), m) = IF mine = {} THEN 0 ELSE Cardinality(mine)
  <2>1. DOMAIN ParseStonith(lines) = {l.target : l \in lines}
    BY DEF ParseStonith
  <2>2. m \in DOMAIN ParseStonith(lines) <=> mine # {}
    BY <2>1
  <2>3. m \in DOMAIN ParseStonith(lines) => ParseStonith(lines)[m] = Cardinality(mine)
    BY <2>1 DEF ParseStonith
  <2> QED BY <2>2, <2>3 DEF FenceCount
<1>4. CASE m \notin Remembered(n)
  <2>1. mine = {}
    BY <1>1, <1>4
  <2> QED BY <1>3, <1>4, <2>1
<1>5. CASE m \in Remembered(n)
  <2>1. \A l : l \in mine <=> \E k \in D : l = [target |-> m, action |-> k]
    BY <1>1, <1>5
  <2>2. mine = {f[k] : k \in D}
    BY <2>1
  <2>3. \A a, b \in D : f[a] = f[b] => a = b
    OBVIOUS
  <2>4. IsFiniteSet(D) /\ Cardinality(D) = fenced[m]
    BY <1>2, FS_Interval
  <2> HIDE DEF D, f, mine
  <2>5. Cardinality({f[k] : k \in D}) = Cardinality(D)
    BY <2>3, <2>4, IndexedCount
  <2>6. Cardinality(mine) = fenced[m]
    BY <2>2, <2>4, <2>5
  <2>7. mine = {} => fenced[m] = 0
    BY <2>6, FS_EmptySet
  <2> QED BY <1>3, <1>5, <2>6, <2>7
<1> QED BY <1>4, <1>5

\* Where a probe answers, and the fences crm's section then counts.
Answered(n, lost) == [crm |-> n \in Compute /\ lost # "crm",
                      stonith |-> n \in Compute /\ lost # "stonith",
                      iscsi |-> n \in sessions /\ lost # "iscsi",
                      drbd |-> n \in Storage /\ lost # "drbd",
                      daemons |-> lost # "daemons"]
Fences(n, lost, m) == IF lost # "stonith" /\ m \in Remembered(n) THEN fenced[m] ELSE 0
Active(n, lost) == [i \in DOMAIN Units |-> IF i = 3 THEN n \in Storage /\ lost # "lines"
                                          ELSE n \in Compute /\ (i = 1 \/ lost # "lines")]

\* The series a run may write.
QuorateOf(n) == Metric("cluster_quorate", [node |-> n], Flag(n # cut))
OnlineOf(n, m) == Metric("cluster_node_online", [node |-> n, member |-> m], Flag(m \in Online(n)))
UncleanOf(n, m) == Metric("cluster_node_unclean", [node |-> n, member |-> m], Flag(m \notin Online(n)))
FencesOf(n, lost, m) == Metric("cluster_fence_count", [node |-> n, member |-> m], Fences(n, lost, m))
StartedOf(n) == Metric("cluster_resource_started", [node |-> n, resource |-> "qm"],
                       Flag(n # cut /\ owner # NoNode))
OwnerOf(n) == Metric("cluster_resource_owner", [node |-> n, resource |-> "qm", holder |-> owner], 1)
SessionsOf(n) == Metric("cluster_iscsi_sessions", [node |-> n], 1)
RoleOf(n) == Metric("cluster_drbd_role", [node |-> n, resource |-> "mqlun",
                                          role |-> DrbdReport(n).mqlun.role], 1)
DiskOf(n) == Metric("cluster_drbd_disk", [node |-> n, resource |-> "mqlun",
                                          disk |-> DrbdReport(n).mqlun.disk], 1)
ConnOf(n) == Metric("cluster_drbd_conn", [node |-> n, resource |-> "mqlun",
                                          conn |-> DrbdReport(n).mqlun.conn], 1)
ResyncOf(n) == Metric("cluster_drbd_resync_pct", [node |-> n, resource |-> "mqlun"],
                      DrbdReport(n).mqlun.resync_pct)
OutOfSyncOf(n) == Metric("cluster_drbd_out_of_sync_bytes", [node |-> n, resource |-> "mqlun"],
                         DrbdReport(n).mqlun.out_of_sync_bytes)
DaemonOf(n, lost, i) == Metric("cluster_daemon_up", [node |-> n, unit |-> Units[i]],
                               Flag(Active(n, lost)[i]))

\* The series of crm's section, and those of drbd's.
CrmSeries(n, lost, s) ==
  \/ s = QuorateOf(n)
  \/ \E m \in Compute : s \in {OnlineOf(n, m), UncleanOf(n, m), FencesOf(n, lost, m)}
  \/ s = StartedOf(n)
  \/ n # cut /\ owner # NoNode /\ s = OwnerOf(n)

DrbdSeries(n, s) == s \in {RoleOf(n), DiskOf(n), ConnOf(n), ResyncOf(n), OutOfSyncOf(n)}

LEMMA CrmSections ==
  ASSUME NEW n, NEW crm, NEW given, NEW s,
         NEW fences, fences = IF given = NoReport THEN NoLabels ELSE ParseStonith(given)
  PROVE  s \in RenderCrm(n, crm, given) <=>
           \/ s = Metric("cluster_quorate", [node |-> n], Flag(crm.dc_quorum))
           \/ \E m \in DOMAIN crm.nodes : s \in RenderMember(n, m, crm.nodes[m], fences)
           \/ \E rid \in DOMAIN crm.grouped : s \in RenderResource(n, rid, crm.grouped[rid])
BY Zenon DEF RenderCrm

LEMMA RenderedCrm ==
  ASSUME Typed, NEW n \in Compute, NEW lost, NEW s,
         NEW given, given = IF lost = "stonith" THEN NoReport ELSE StonithReport(n)
  PROVE  s \in RenderCrm(n, CrmReport(n), given) <=> CrmSeries(n, lost, s)
<1> DEFINE crm == CrmReport(n)
           fences == IF given = NoReport THEN NoLabels ELSE ParseStonith(given)
<1>1. /\ crm.dc_quorum = (n # cut) /\ DOMAIN crm.nodes = Compute /\ DOMAIN crm.grouped = {"qm"}
      /\ \A m \in Compute : /\ crm.nodes[m].online = (m \in Online(n))
                            /\ crm.nodes[m].unclean = (m \notin Online(n))
      /\ crm.grouped["qm"].role = IF n # cut /\ owner # NoNode THEN "Started" ELSE "Stopped"
      /\ crm.grouped["qm"].node = IF n # cut THEN owner ELSE NoNode
  BY DEF CrmReport
<1>2. \A m \in Compute : FenceCount(fences, m) = Fences(n, lost, m)
  BY StonithGiven, FenceCounts DEF Fences, FenceCount, NoLabels
<1>3. s \in RenderCrm(n, crm, given) <=>
        \/ s = Metric("cluster_quorate", [node |-> n], Flag(crm.dc_quorum))
        \/ \E m \in DOMAIN crm.nodes : s \in RenderMember(n, m, crm.nodes[m], fences)
        \/ \E rid \in DOMAIN crm.grouped : s \in RenderResource(n, rid, crm.grouped[rid])
  BY CrmSections, Zenon
<1> HIDE DEF crm, fences
<1>4. \A m \in Compute : s \in RenderMember(n, m, crm.nodes[m], fences) <=>
        \/ s = Metric("cluster_node_online", [node |-> n, member |-> m], Flag(m \in Online(n)))
        \/ s = Metric("cluster_node_unclean", [node |-> n, member |-> m], Flag(m \notin Online(n)))
        \/ s = Metric("cluster_fence_count", [node |-> n, member |-> m], Fences(n, lost, m))
  BY <1>1, <1>2 DEF RenderMember
<1>5. s \in RenderResource(n, "qm", crm.grouped["qm"]) <=>
        \/ s = Metric("cluster_resource_started", [node |-> n, resource |-> "qm"],
                      Flag(n # cut /\ owner # NoNode))
        \/ /\ n # cut /\ owner # NoNode
           /\ s = Metric("cluster_resource_owner", [node |-> n, resource |-> "qm", holder |-> owner], 1)
  BY <1>1 DEF RenderResource
<1>6. Flag(crm.dc_quorum) = Flag(n # cut)
  BY <1>1
<1> QED BY <1>1, <1>3, <1>4, <1>5, <1>6
        DEF CrmSeries, crm, QuorateOf, OnlineOf, UncleanOf, FencesOf, StartedOf, OwnerOf

LEMMA RenderedDrbd ==
  ASSUME NEW n \in Storage, NEW s
  PROVE  s \in RenderDrbd(n, DrbdReport(n)) <=> DrbdSeries(n, s)
<1>1. DOMAIN DrbdReport(n) = {"mqlun"} /\ DrbdReport(n)["mqlun"] = DrbdReport(n).mqlun
  BY DEF DrbdReport
<1> DEFINE drbd == DrbdReport(n)
<1> HIDE DEF drbd
<1>2. s \in RenderDrbd(n, drbd) <=>
        \E res \in DOMAIN drbd :
          \/ s = Metric("cluster_drbd_role", [node |-> n, resource |-> res, role |-> drbd[res].role], 1)
          \/ s = Metric("cluster_drbd_disk", [node |-> n, resource |-> res, disk |-> drbd[res].disk], 1)
          \/ s = Metric("cluster_drbd_conn", [node |-> n, resource |-> res, conn |-> drbd[res].conn], 1)
          \/ s = Metric("cluster_drbd_resync_pct", [node |-> n, resource |-> res], drbd[res].resync_pct)
          \/ s = Metric("cluster_drbd_out_of_sync_bytes", [node |-> n, resource |-> res],
                        drbd[res].out_of_sync_bytes)
  BY DEF RenderDrbd
<1> QED BY <1>1, <1>2 DEF DrbdSeries, drbd, RoleOf, DiskOf, ConnOf, ResyncOf, OutOfSyncOf

\* A unit reads up exactly if systemctl printed a line for it that says so.
LEMMA ParsedDaemons ==
  ASSUME NEW n, NEW lost
  PROVE  LET lines == IF lost = "lines" THEN SubSeq(ActiveLines(n), 1, 1) ELSE ActiveLines(n)
         IN ParseDaemons(lines) = Active(n, lost) /\ lines # NoReport
<1> DEFINE lines == IF lost = "lines" THEN SubSeq(ActiveLines(n), 1, 1) ELSE ActiveLines(n)
           line(active) == IF active THEN "active" ELSE "inactive"
<1>1. ActiveLines(n) = <<line(n \in Compute), line(n \in Compute), line(n \in Storage)>>
  BY DEF ActiveLines
<1>2. \A S, a, b, c : a \in S /\ b \in S /\ c \in S =>
        /\ <<a, b, c>> \in Seq(S) /\ SubSeq(<<a, b, c>>, 1, 1) \in Seq(S)
        /\ Len(SubSeq(<<a, b, c>>, 1, 1)) = 1 /\ SubSeq(<<a, b, c>>, 1, 1)[1] = a
  OBVIOUS
<1>3. lines \in Seq({"tcp:", "active", "inactive"})
  <2>1. \A p : line(p) \in {"tcp:", "active", "inactive"}
    OBVIOUS
  <2> DEFINE a == line(n \in Compute)
             b == line(n \in Storage)
             S == {"tcp:", "active", "inactive"}
  <2>2. a \in S /\ b \in S
    BY <2>1
  <2>3. ActiveLines(n) = <<a, a, b>>
    BY <1>1
  <2> HIDE DEF line, a, b, S
  <2>4. <<a, a, b>> \in Seq(S) /\ SubSeq(<<a, a, b>>, 1, 1) \in Seq(S)
    BY <1>2, <2>2
  <2> QED BY <2>3, <2>4 DEF S
<1>4. DOMAIN Units = {1, 2, 3} /\ DOMAIN Units = 1 .. 3
  BY DEF Units
<1>5. Len(lines) = IF lost = "lines" THEN 1 ELSE 3
  BY <1>1, <1>2
<1>6. lines[1] = line(n \in Compute)
  BY <1>1, <1>2
<1>7. lost # "lines" => lines[2] = line(n \in Compute) /\ lines[3] = line(n \in Storage)
  BY <1>1, <1>2
<1> HIDE DEF lines
<1>8. \A i \in DOMAIN Units : (i <= Len(lines) /\ lines[i] = "active") = Active(n, lost)[i]
  BY <1>4, <1>5, <1>6, <1>7 DEF Active
<1>9. ParseDaemons(lines) = Active(n, lost)
  BY <1>8 DEF ParseDaemons, Active
<1> QED BY <1>3, <1>9, ReportAssumption DEF lines

LEMMA SourcesGiven ==
  ASSUME Typed, NEW n \in Hosts
  PROVE  /\ CrmReport(n) = NoReport <=> n \notin Compute
         /\ StonithReport(n) = NoReport <=> n \notin Compute
         /\ IscsiReport(n) = IF n \in sessions THEN <<"tcp:">> ELSE NoReport
         /\ IscsiReport(n) = NoReport <=> n \notin sessions
         /\ DrbdReport(n) = NoReport <=> n \notin Storage
<1>1. ASSUME n \in Compute PROVE CrmReport(n) # NoReport
  <2>1. CrmReport(n) \in [dc_quorum : BOOLEAN, nodes : [Compute -> [online : BOOLEAN, unclean : BOOLEAN]],
                     grouped : [qm : [role : {"Started", "Stopped"}, node : Compute \cup {NoNode}]]]
    BY <1>1 DEF CrmReport, Typed
  <2> QED BY <2>1, ReportAssumption
<1>2. ASSUME n \in Storage PROVE DrbdReport(n) # NoReport
  <2>1. DrbdReport(n) \in [mqlun : [role : {"Primary", "Secondary"}, disk : {"UpToDate", "Diskless"},
                             conn : {"Connected", "Connecting", "StandAlone"},
                             resync_pct : Nat, out_of_sync_bytes : Nat]]
    BY <1>2 DEF DrbdReport
  <2> QED BY <2>1, ReportAssumption
<1>3. <<"tcp:">> \in Seq({"tcp:", "active", "inactive"})
  OBVIOUS
<1>4. n \in Compute => StonithReport(n) # NoReport
  BY StonithGiven
<1>5. <<"tcp:">> # NoReport
  BY <1>3, ReportAssumption
<1>6. IscsiReport(n) = IF n \in sessions THEN <<"tcp:">> ELSE NoReport
  BY DEF IscsiReport
<1>7. n \notin Compute => CrmReport(n) = NoReport /\ StonithReport(n) = NoReport
  BY DEF CrmReport, StonithReport
<1>8. n \notin Storage => DrbdReport(n) = NoReport
  BY DEF DrbdReport
<1> QED BY <1>1, <1>2, <1>4, <1>5, <1>6, <1>7, <1>8, Zenon

LEMMA ParsedIscsi == ParseIscsi(<<"tcp:">>) = 1
<1>1. {i \in DOMAIN <<"tcp:">> : <<"tcp:">>[i] \in {"tcp:", "iser:"}} = {1}
  OBVIOUS
<1> QED BY <1>1, FS_Singleton DEF ParseIscsi

\* The series of a run that lost a source, or none: what Body makes of it.
Series(n, lost, s) ==
  LET answered == Answered(n, lost) IN
  \/ answered.crm /\ (CrmSeries(n, lost, s) \/ s = Fresh(n, "crm"))
  \/ answered.stonith /\ s = Fresh(n, "stonith")
  \/ answered.iscsi /\ (s = SessionsOf(n) \/ s = Fresh(n, "iscsi"))
  \/ answered.drbd /\ (DrbdSeries(n, s) \/ s = Fresh(n, "drbd"))
  \/ /\ answered.daemons
     /\ (\E i \in DOMAIN Units : s = DaemonOf(n, lost, i)) \/ s = Fresh(n, "daemons")

LEMMA Collects ==
  ASSUME Typed, NEW n \in Hosts, NEW lost, NEW s
  PROVE  s \in collect(n, lost) <=> Series(n, lost, s)
<1> DEFINE kept(source, report) == IF lost = source THEN NoReport ELSE report
           crm == kept("crm", CrmReport(n))
           stonith == kept("stonith", StonithReport(n))
           iscsi == kept("iscsi", IscsiReport(n))
           drbd == kept("drbd", DrbdReport(n))
           lines == IF lost = "lines" THEN SubSeq(ActiveLines(n), 1, 1) ELSE ActiveLines(n)
           daemons == kept("daemons", lines)
           answered == Answered(n, lost)
<1>1. collect(n, lost) = Body(n, crm, stonith, iscsi, drbd, daemons)
  BY DEF collect
<1>2. /\ answered.crm <=> crm # NoReport
      /\ answered.stonith <=> stonith # NoReport
      /\ answered.iscsi <=> iscsi # NoReport
      /\ answered.drbd <=> drbd # NoReport
      /\ answered.daemons <=> daemons # NoReport
  BY SourcesGiven, ParsedDaemons DEF Answered
<1>3. ASSUME answered.crm PROVE s \in RenderCrm(n, crm, stonith) <=> CrmSeries(n, lost, s)
  <2>1. n \in Compute /\ crm = CrmReport(n)
    BY <1>3 DEF Answered
  <2> QED BY <2>1, RenderedCrm
<1>4. ASSUME answered.iscsi PROVE ParseIscsi(iscsi) = 1
  BY <1>4, SourcesGiven, ParsedIscsi DEF Answered
<1>5. ASSUME answered.drbd PROVE s \in RenderDrbd(n, drbd) <=> DrbdSeries(n, s)
  <2>1. n \in Storage /\ drbd = DrbdReport(n)
    BY <1>5 DEF Answered
  <2> QED BY <2>1, RenderedDrbd
<1>6. ASSUME answered.daemons PROVE ParseDaemons(daemons) = Active(n, lost)
  BY <1>6, ParsedDaemons DEF Answered
<1>7. s \in RenderDaemons(n, Active(n, lost)) <=> \E i \in DOMAIN Units : s = DaemonOf(n, lost, i)
  BY DEF RenderDaemons, Active, DaemonOf
<1> HIDE DEF crm, stonith, iscsi, drbd, daemons, answered
<1>8. s \in Body(n, crm, stonith, iscsi, drbd, daemons) <=>
        \/ crm # NoReport /\ (s \in RenderCrm(n, crm, stonith) \/ s = Fresh(n, "crm"))
        \/ stonith # NoReport /\ s = Fresh(n, "stonith")
        \/ iscsi # NoReport /\ (\/ s = Metric("cluster_iscsi_sessions", [node |-> n], ParseIscsi(iscsi))
                               \/ s = Fresh(n, "iscsi"))
        \/ drbd # NoReport /\ (s \in RenderDrbd(n, drbd) \/ s = Fresh(n, "drbd"))
        \/ /\ daemons # NoReport
           /\ s \in RenderDaemons(n, ParseDaemons(daemons)) \/ s = Fresh(n, "daemons")
  BY DEF Body
<1> QED BY <1>1, <1>2, <1>3, <1>4, <1>5, <1>6, <1>7, <1>8 DEF Series, answered, SessionsOf

---------------------------------------------------------------------------
(* The inductive invariant.  Beside the types: a host is cut off or down,  *)
(* not both; a host that is down is no Primary, since it boots Secondary;  *)
(* the queue manager runs where it has quorum;                             *)
(* every fence action was an event; a file holds what the contract names,  *)
(* of its own host, and counts no more fences than there may be.           *)

Sound(n, s) == /\ Emits(PACEMAKER, s)
               /\ s.labels["node"] = n
               /\ s.name = "cluster_fence_count" => s.value \in 0 .. MaxEvents

IInv == /\ Typed
        /\ cut \notin down
        /\ primary \cap down = {}
        /\ owner # NoNode => owner \notin down \cup {cut}
        /\ \A m \in Compute : fenced[m] <= events
        /\ DOMAIN file = Hosts
        /\ \A n \in Hosts : \A s \in file[n] : Sound(n, s)

LEMMA SeriesSound ==
  ASSUME Typed, NEW n \in Hosts, NEW lost, NEW s, Series(n, lost, s)
  PROVE  Sound(n, s)
<1> USE DEF Sound, Emits, PACEMAKER, Family, Metric
<1>1. CASE CrmSeries(n, lost, s)
  <2>1. \A m \in Compute : Fences(n, lost, m) \in 0 .. MaxEvents
    BY PacemakerAssumption DEF Fences, Typed
  <2> QED BY <1>1, <2>1
          DEF CrmSeries, QuorateOf, OnlineOf, UncleanOf, FencesOf, StartedOf, OwnerOf
<1>2. CASE DrbdSeries(n, s)
  BY <1>2 DEF DrbdSeries, Drbd, RoleOf, DiskOf, ConnOf, ResyncOf, OutOfSyncOf
<1>3. CASE \E source : s = Fresh(n, source)
  BY <1>3 DEF Fresh
<1>4. CASE s = SessionsOf(n)
  BY <1>4 DEF SessionsOf
<1>5. CASE \E i : s = DaemonOf(n, lost, i)
  BY <1>5 DEF DaemonOf
<1> HIDE DEF Sound, Emits, PACEMAKER, Family, Metric
<1> QED BY <1>1, <1>2, <1>3, <1>4, <1>5 DEF Series

LEMMA RunsSound ==
  ASSUME Typed, NEW n \in Hosts, NEW lost
  PROVE  \A s \in collect(n, lost) : Sound(n, s)
BY Collects, SeriesSound

LEMMA Initially == Init => IInv
<1> SUFFICES ASSUME Init PROVE IInv
  OBVIOUS
<1>1. fenced \in [Compute -> 0 .. MaxEvents] /\ \A m \in Compute : fenced[m] = 0
  BY PacemakerAssumption DEF Init
<1>2. primary \subseteq Storage /\ events = 0 /\ 0 \in 0 .. MaxEvents
  BY PacemakerAssumption DEF Init
<1>3. Typed
  BY <1>1, <1>2 DEF Typed, Hosts, Init
<1>4. DOMAIN file = Hosts /\ \A n \in Hosts : file[n] = {}
  BY DEF Init
<1> QED BY <1>1, <1>2, <1>3, <1>4 DEF IInv, Init

\* An event is counted, and there is room for it.
LEMMA EventCounted ==
  ASSUME Typed, Event
  PROVE  events' \in 0 .. MaxEvents /\ events < events'
BY PacemakerAssumption DEF Typed, Event

\* A change of the cluster leaves the files, and the invariant, as they are.
LEMMA ChangeKeeps ==
  ASSUME IInv, Change,
         cut' \in Hosts \cup {NoNode}, owner' \in Compute \cup {NoNode},
         down' \subseteq Hosts, sessions' \subseteq Compute,
         primary' \subseteq Storage, diskless' \subseteq Storage, broken' \in BOOLEAN,
         fenced' = fenced \/ \E n \in Compute : fenced' = [fenced EXCEPT ![n] = @ + 1],
         cut' \notin down', primary' \cap down' = {},
         owner' # NoNode => owner' \notin down' \cup {cut'}
  PROVE  IInv'
<1>1. events' \in 0 .. MaxEvents /\ events < events'
  BY EventCounted DEF IInv, Change
<1>2. \A m \in Compute : fenced[m] \in Nat /\ events \in Nat /\ fenced[m] <= events
  BY PacemakerAssumption DEF IInv, Typed
<1>3. fenced' = [m \in Compute |-> fenced'[m]]
  BY DEF IInv, Typed
<1>4. \A m \in Compute : fenced'[m] = fenced[m] \/ fenced'[m] = fenced[m] + 1
  BY DEF IInv, Typed
<1>5. \A m \in Compute : fenced'[m] \in 0 .. MaxEvents /\ fenced'[m] <= events'
  BY <1>1, <1>2, <1>4, PacemakerAssumption
<1>6. fenced' \in [Compute -> 0 .. MaxEvents]
  BY <1>3, <1>5
<1>7. file' = file /\ neighbour' = neighbour
  BY DEF Change
<1> QED BY <1>1, <1>5, <1>6, <1>7 DEF IInv, Typed, Sound, Emits

LEMMA Inductive == IInv /\ [Next]_vars => IInv'
<1> SUFFICES ASSUME IInv, [Next]_vars PROVE IInv'
  OBVIOUS
<1> USE DEF IInv, Typed
<1>1. ASSUME NEW n \in Compute, Fence(n) PROVE IInv'
  <2>1. Change /\ cut' \in {cut, NoNode} /\ down' = down \ {n} /\ primary' = primary \ {n}
    BY <1>1 DEF Fence
  <2>2. NoNode \notin Hosts
    BY PacemakerAssumption DEF Hosts
  <2> QED BY <1>1, <2>1, <2>2, ChangeKeeps DEF Fence
<1>2. ASSUME NEW n \in Compute, Place(n) PROVE IInv'
  BY <1>2, ChangeKeeps DEF Place
<1>3. ASSUME NEW n \in Compute, Logout(n) PROVE IInv'
  BY <1>3, ChangeKeeps DEF Logout
<1>4. ASSUME NEW n \in Storage, Promote(n) PROVE IInv'
  BY <1>4, ChangeKeeps DEF Promote
<1>5. ASSUME NEW n \in Storage, Demote(n) PROVE IInv'
  BY <1>5, ChangeKeeps DEF Demote
<1>6. ASSUME NEW n \in Storage, Detach(n) PROVE IInv'
  BY <1>6, ChangeKeeps DEF Detach
<1>7. ASSUME NEW n \in Hosts, Isolate(n) PROVE IInv'
  BY <1>7, ChangeKeeps DEF Isolate
<1>8. ASSUME NEW n \in Hosts, Crash(n) PROVE IInv'
  BY <1>8, ChangeKeeps DEF Crash
<1>9. ASSUME NEW n \in Hosts, Boot(n) PROVE IInv'
  BY <1>9, ChangeKeeps DEF Boot
<1>10. ASSUME Heal PROVE IInv'
  <2>1. NoNode \notin Hosts
    BY PacemakerAssumption DEF Hosts
  <2> QED BY <1>10, <2>1, ChangeKeeps DEF Heal
<1>11. ASSUME NEW n \in Hosts, Collect(n) PROVE IInv'
  <2>1. PICK lost : file' = [file EXCEPT ![n] = collect(n, lost)]
    BY <1>11 DEF Collect
  <2>2. clusterVars' = clusterVars /\ Typed
    BY <1>11 DEF Collect
  <2>3. events' \in 0 .. MaxEvents /\ events <= events'
    <3>1. UNCHANGED events \/ Event
      BY <1>11 DEF Collect
    <3> QED BY <3>1, EventCounted, PacemakerAssumption DEF Event
  <2>4. \A s \in collect(n, lost) : Sound(n, s)
    BY <2>2, RunsSound
  <2>5. DOMAIN file' = Hosts /\ \A m \in Hosts : \A s \in file'[m] : Sound(m, s)
    BY <2>1, <2>4
  <2>6. \A m \in Compute : fenced[m] <= events'
    BY <2>3, PacemakerAssumption
  <2> QED BY <2>2, <2>3, <2>5, <2>6 DEF clusterVars, Sound, Emits
<1>12. CASE UNCHANGED vars
  BY <1>12 DEF vars, Sound, Emits
<1> QED BY <1>1, <1>2, <1>3, <1>4, <1>5, <1>6, <1>7, <1>8, <1>9, <1>10, <1>11, <1>12 DEF Next

LEMMA Always == Spec => []IInv
BY Initially, Inductive, PTL DEF Spec

\* Every variable is of its type, and a textfile holds nothing but families
\* the contract declares for this collector, each with exactly the labels
\* it declares, whatever a probe lost and whatever the cluster did.
THEOREM TypeCorrect == Spec => []TypeOK
<1>1. IInv => TypeOK
  BY DEF IInv, Typed, TypeOK, Sound
<1> QED BY <1>1, Always, PTL

---------------------------------------------------------------------------
(* What the board sees.  A series of this cluster's is that of a host that *)
(* is up, under the cluster's group.                                       *)

LEMMA Seen ==
  ASSUME NEW name, NEW x
  PROVE  x \in Samples(Scraped, name) <=>
           \/ \E n \in Hosts \ down : \E s \in file[n] :
                s.name = name /\ x = ScrapedAs("pacemaker", s)
           \/ /\ neighbour
              /\ \E s \in Neighbour : s.name = name /\ x = ScrapedAs("rdqm", s)
<1>1. \A t : t \in Scraped <=>
        \/ \E n \in Hosts \ down : \E s \in file[n] : t = InGroup("pacemaker", s)
        \/ neighbour /\ \E s \in Neighbour : t = InGroup("rdqm", s)
  BY Zenon DEF Scraped, Own
<1>2. x \in Samples(Scraped, name) <=> \E t \in Scraped : t.name = name /\ x = Sample(t.labels, t.value)
  BY SamplesOf
<1>3. ASSUME NEW t, NEW groups, NEW s, t = InGroup(groups, s)
      PROVE  (t.name = name /\ x = Sample(t.labels, t.value)) <=> (s.name = name /\ x = ScrapedAs(groups, s))
  BY <1>3, ScrapedSample
<1>4. ASSUME NEW t \in Scraped, t.name = name, x = Sample(t.labels, t.value)
      PROVE  \/ \E n \in Hosts \ down : \E s \in file[n] : s.name = name /\ x = ScrapedAs("pacemaker", s)
             \/ neighbour /\ \E s \in Neighbour : s.name = name /\ x = ScrapedAs("rdqm", s)
  BY <1>1, <1>3, <1>4
<1>5. ASSUME NEW n \in Hosts \ down, NEW s \in file[n], s.name = name, x = ScrapedAs("pacemaker", s)
      PROVE  \E t \in Scraped : t.name = name /\ x = Sample(t.labels, t.value)
  BY <1>1, <1>3, <1>5
<1>6. ASSUME neighbour, NEW s \in Neighbour, s.name = name, x = ScrapedAs("rdqm", s)
      PROVE  \E t \in Scraped : t.name = name /\ x = Sample(t.labels, t.value)
  BY <1>1, <1>3, <1>6
<1> QED BY <1>2, <1>4, <1>5, <1>6

\* The rows a host's own cells are made of are those of its own file.
LEMMA OwnRows ==
  ASSUME IInv, NEW n \in Hosts \ down, NEW lost, Collected(n, lost), NEW name, NEW x
  PROVE  x \in Samples(Scraped, name) /\ x.labels["node"] = n <=>
           \E s : Series(n, lost, s) /\ s.name = name /\ x = ScrapedAs("pacemaker", s)
<1>1. \A s : s \in file[n] <=> Series(n, lost, s)
  BY Collects DEF IInv, Collected
<1>2. \A m \in Hosts : \A s \in file[m] : ScrapedAs("pacemaker", s).labels["node"] = m
  <2> TAKE m \in Hosts
  <2> TAKE s \in file[m]
  <2>1. s.labels["node"] = m /\ Emits(PACEMAKER, s)
    BY DEF IInv, Sound
  <2>2. "node" \in DOMAIN s.labels
    BY <2>1 DEF Emits, PACEMAKER, Family, Drbd
  <2> QED BY <2>1, <2>2, ScrapedFields
<1>3. \A s \in Neighbour : ScrapedAs("rdqm", s).labels["node"] \notin Hosts
  <2> TAKE s \in Neighbour
  <2>1. "node" \in DOMAIN s.labels /\ s.labels["node"] \in {"rdqm-a", "rdqm-b"}
    BY DEF Neighbour, Metric
  <2> QED BY <2>1, ScrapedFields, PacemakerAssumption DEF Hosts
<1> QED BY <1>1, <1>2, <1>3, Seen

\* The series of a run under one name.
LEMMA SeriesNames ==
  \A n, lost, m, i, source :
    /\ QuorateOf(n).name = "cluster_quorate" /\ OnlineOf(n, m).name = "cluster_node_online"
    /\ UncleanOf(n, m).name = "cluster_node_unclean"
    /\ FencesOf(n, lost, m).name = "cluster_fence_count"
    /\ StartedOf(n).name = "cluster_resource_started" /\ OwnerOf(n).name = "cluster_resource_owner"
    /\ SessionsOf(n).name = "cluster_iscsi_sessions" /\ RoleOf(n).name = "cluster_drbd_role"
    /\ DiskOf(n).name = "cluster_drbd_disk" /\ ConnOf(n).name = "cluster_drbd_conn"
    /\ ResyncOf(n).name = "cluster_drbd_resync_pct"
    /\ OutOfSyncOf(n).name = "cluster_drbd_out_of_sync_bytes"
    /\ DaemonOf(n, lost, i).name = "cluster_daemon_up"
    /\ Fresh(n, source).name = "cluster_state_last_write_timestamp"
BY MetricFields DEF QuorateOf, OnlineOf, UncleanOf, FencesOf, StartedOf, OwnerOf, SessionsOf, RoleOf,
                    DiskOf, ConnOf, ResyncOf, OutOfSyncOf, DaemonOf, Fresh

LEMMA NamedSeries ==
  ASSUME NEW n, NEW lost, NEW s
  PROVE  /\ Series(n, lost, s) /\ s.name = "cluster_daemon_up" <=>
              lost # "daemons" /\ \E i \in DOMAIN Units : s = DaemonOf(n, lost, i)
         /\ Series(n, lost, s) /\ s.name = "cluster_iscsi_sessions" <=>
              n \in sessions /\ lost # "iscsi" /\ s = SessionsOf(n)
         /\ Series(n, lost, s) /\ s.name = "cluster_drbd_out_of_sync_bytes" <=>
              n \in Storage /\ lost # "drbd" /\ s = OutOfSyncOf(n)
         /\ Series(n, lost, s) /\ s.name = "cluster_drbd_role" <=>
              n \in Storage /\ lost # "drbd" /\ s = RoleOf(n)
         /\ Series(n, lost, s) /\ s.name = "cluster_drbd_disk" <=>
              n \in Storage /\ lost # "drbd" /\ s = DiskOf(n)
         /\ Series(n, lost, s) /\ s.name = "cluster_drbd_conn" <=>
              n \in Storage /\ lost # "drbd" /\ s = ConnOf(n)
         /\ Series(n, lost, s) /\ s.name = "cluster_fence_count" <=>
              n \in Compute /\ lost # "crm" /\ \E m \in Compute : s = FencesOf(n, lost, m)
         /\ Series(n, lost, s) /\ s.name = "cluster_node_online" <=>
              n \in Compute /\ lost # "crm" /\ \E m \in Compute : s = OnlineOf(n, m)
         /\ Series(n, lost, s) /\ s.name = "cluster_quorate" <=>
              n \in Compute /\ lost # "crm" /\ s = QuorateOf(n)
         /\ Series(n, lost, s) /\ s.name = "cluster_resource_started" <=>
              n \in Compute /\ lost # "crm" /\ s = StartedOf(n)
         /\ Series(n, lost, s) /\ s.name = "cluster_resource_owner" <=>
              n \in Compute /\ lost # "crm" /\ n # cut /\ owner # NoNode /\ s = OwnerOf(n)
<1>1. LET answered == Answered(n, lost) IN
      /\ answered.crm <=> n \in Compute /\ lost # "crm"
      /\ answered.stonith <=> n \in Compute /\ lost # "stonith"
      /\ answered.iscsi <=> n \in sessions /\ lost # "iscsi"
      /\ answered.drbd <=> n \in Storage /\ lost # "drbd"
      /\ answered.daemons <=> lost # "daemons"
  BY DEF Answered
<1> QED BY <1>1, SeriesNames DEF Series, CrmSeries, DrbdSeries

\* A host's cell in a column is the value of its one series there, or nothing.
LEMMA OwnCell ==
  ASSUME IInv, NEW n \in Hosts \ down, NEW lost, Collected(n, lost), NEW name
  PROVE  /\ \A s : /\ s.value \in Int
                   /\ \A t : Series(n, lost, t) /\ t.name = name <=> t = s
                   => Cell(Samples(Scraped, name), "node", n) = {s.value}
         /\ (\A t : Series(n, lost, t) => t.name # name) => Cell(Samples(Scraped, name), "node", n) = {}
<1> DEFINE G == Group(Samples(Scraped, name), "node", n)
<1>1. \A x : x \in G <=> \E t : Series(n, lost, t) /\ t.name = name /\ x = ScrapedAs("pacemaker", t)
  <2> TAKE x
  <2>1. x \in G <=> x \in Samples(Scraped, name) /\ "node" \in DOMAIN x.labels /\ x.labels["node"] = n
    BY DEF Group
  <2>2. ASSUME NEW t, Series(n, lost, t) PROVE "node" \in DOMAIN ScrapedAs("pacemaker", t).labels
    <3>1. Sound(n, t)
      BY <2>2, SeriesSound DEF IInv
    <3>2. "node" \in DOMAIN t.labels
      BY <3>1 DEF Sound, Emits, PACEMAKER, Family, Drbd
    <3> QED BY <3>2, ScrapedFields
  <2> QED BY <2>1, <2>2, OwnRows
<1>2. \A s : ScrapedAs("pacemaker", s).value = s.value
  BY ScrapedFields
<1> HIDE DEF G
<1>3. ASSUME NEW s, s.value \in Int, \A t : Series(n, lost, t) /\ t.name = name <=> t = s
      PROVE  Cell(Samples(Scraped, name), "node", n) = {s.value}
  <2>1. G = {ScrapedAs("pacemaker", s)}
    BY <1>1, <1>3
  <2> QED BY <1>2, <1>3, <2>1, CellOfOne DEF G
<1>4. ASSUME \A t : Series(n, lost, t) => t.name # name
      PROVE  Cell(Samples(Scraped, name), "node", n) = {}
  <2>1. G = {}
    BY <1>1, <1>4
  <2> QED BY <2>1, CellOf DEF G
<1> QED BY <1>3, <1>4

\* The cell of a unit is the state of that unit's line.
LEMMA DaemonCell ==
  ASSUME IInv, NEW n \in Hosts \ down, NEW lost, Collected(n, lost), NEW i \in DOMAIN Units
  PROVE  Cell(Where(Samples(Scraped, "cluster_daemon_up"), "unit", {Units[i]}), "node", n) =
           IF lost = "daemons" THEN {} ELSE {Flag(Active(n, lost)[i])}
<1> DEFINE vec == Where(Samples(Scraped, "cluster_daemon_up"), "unit", {Units[i]})
           G == Group(vec, "node", n)
           x == ScrapedAs("pacemaker", DaemonOf(n, lost, i))
<1>1. \A k : /\ DaemonOf(n, lost, k).labels = [node |-> n, unit |-> Units[k]]
             /\ DaemonOf(n, lost, k).value = Flag(Active(n, lost)[k])
             /\ DaemonOf(n, lost, k).name = "cluster_daemon_up"
  BY MetricFields DEF DaemonOf
<1>2. \A k : LET y == ScrapedAs("pacemaker", DaemonOf(n, lost, k)) IN
        /\ {"node", "unit"} \subseteq DOMAIN y.labels
        /\ y.labels["node"] = n /\ y.labels["unit"] = Units[k]
        /\ y.value = Flag(Active(n, lost)[k])
  <2> TAKE k
  <2> DEFINE t == DaemonOf(n, lost, k)
  <2>1. t.labels = [node |-> n, unit |-> Units[k]] /\ t.value = Flag(Active(n, lost)[k])
    BY <1>1, Zenon
  <2>2. \A u : DOMAIN [node |-> n, unit |-> u] = {"node", "unit"}
               /\ [node |-> n, unit |-> u]["node"] = n /\ [node |-> n, unit |-> u]["unit"] = u
    OBVIOUS
  <2> HIDE DEF t
  <2>3. DOMAIN t.labels = {"node", "unit"} /\ t.labels["node"] = n /\ t.labels["unit"] = Units[k]
    BY <2>1, <2>2
  <2>4. LET y == ScrapedAs("pacemaker", t) IN
        /\ {"node", "unit"} \subseteq DOMAIN y.labels
        /\ y.labels["node"] = n /\ y.labels["unit"] = Units[k]
        /\ y.value = t.value
    BY <2>3, ScrapedFields
  <2> QED BY <2>1, <2>4, Zenon DEF t
<1>3. \A j, k \in DOMAIN Units : Units[j] = Units[k] => j = k
  BY DEF Units
<1>4. \A y : y \in G <=> /\ y \in Samples(Scraped, "cluster_daemon_up")
                         /\ {"node", "unit"} \subseteq DOMAIN y.labels
                         /\ y.labels["node"] = n /\ y.labels["unit"] = Units[i]
  <2> DEFINE all == Samples(Scraped, "cluster_daemon_up")
  <2>1. vec = Group(all, "unit", Units[i])
    BY WhereIsGroup
  <2> HIDE DEF all, vec
  <2> QED BY <2>1 DEF Group, all
<1>5. \A s : Series(n, lost, s) /\ s.name = "cluster_daemon_up" <=>
               lost # "daemons" /\ \E k \in DOMAIN Units : s = DaemonOf(n, lost, k)
  BY NamedSeries
<1> HIDE DEF G, vec
<1>6. \A y : y \in Samples(Scraped, "cluster_daemon_up") /\ y.labels["node"] = n <=>
        /\ lost # "daemons"
        /\ \E k \in DOMAIN Units : y = ScrapedAs("pacemaker", DaemonOf(n, lost, k))
  BY <1>1, <1>5, OwnRows
<1> HIDE DEF x
<1>7. \A y : y \in G <=> lost # "daemons" /\ y = x
  BY <1>2, <1>3, <1>4, <1>6 DEF x
<1>8. x.value \in Int /\ x.value = Flag(Active(n, lost)[i])
  BY <1>2 DEF Flag, x
<1>9. CASE lost = "daemons"
  <2>1. G = {}
    BY <1>7, <1>9
  <2> QED BY <1>9, <2>1, CellOf DEF G, vec
<1>10. CASE lost # "daemons"
  <2>1. G = {x}
    BY <1>7, <1>10
  <2>2. Cell(vec, "node", n) = {x.value}
    BY <1>8, <2>1, CellOfOne DEF G
  <2> QED BY <1>8, <1>10, <2>2 DEF vec
<1> QED BY <1>9, <1>10

LEMMA OutOfSyncOptions ==
  ASSUME NEW n \in Storage
  PROVE  DrbdReport(n).mqlun.out_of_sync_bytes = IF broken THEN 20480
                                                 ELSE IF n \in primary /\ ~Linked THEN 4096 ELSE 0
BY DEF DrbdReport

\* A row of the matrices says what its host reported, and no other host's
\* report nor a neighbour's can change it: a systemctl report that is cut
\* short shows red, a host without a session has no cell, and a Primary that
\* has blocks to send its peer is red until a split brain is declared.
THEOREM MatricesRight == Spec => []MatricesAreRight
<1>1. ASSUME IInv, NEW n \in Hosts \ down, NEW lost \in Losses, Collected(n, lost)
      PROVE  LET compute == ComputeColumns(Scraped)
                 storage == StorageColumns(Scraped) IN
       /\ Color(compute.corosync, n) =
            IF lost = "daemons" THEN {} ELSE IF n \in Compute THEN {"green"} ELSE {"red"}
       /\ Color(compute.pacemaker, n) =
            IF lost = "daemons" THEN {}
            ELSE IF n \in Compute /\ lost # "lines" THEN {"green"} ELSE {"red"}
       /\ Color(compute.iSCSI, n) =
            IF n \in sessions /\ lost # "iscsi" THEN {"green"} ELSE {}
       /\ n \notin Storage \/ lost = "drbd" => Color(storage.outOfSync, n) = {}
       /\ n \in Storage /\ lost # "drbd" /\ ~broken =>
            Color(storage.outOfSync, n) = IF n \in primary /\ ~Linked THEN {"red"} ELSE {"green"}
  <2> DEFINE units == Samples(Scraped, "cluster_daemon_up")
             unit(name) == Column(Where(units, "unit", {name}), "node", "up")
             iscsi == Column(Samples(Scraped, "cluster_iscsi_sessions"), "node", "sessions")
             behind == Column(Samples(Scraped, "cluster_drbd_out_of_sync_bytes"), "node", "clean0")
  <2>1. /\ ComputeColumns(Scraped).corosync = unit("corosync")
        /\ ComputeColumns(Scraped).pacemaker = unit("pacemaker")
        /\ ComputeColumns(Scraped).iSCSI = iscsi
        /\ StorageColumns(Scraped).outOfSync = behind
    BY DEF ComputeColumns, StorageColumns
  <2>2. Units[1] = "corosync" /\ Units[2] = "pacemaker" /\ 1 \in DOMAIN Units /\ 2 \in DOMAIN Units
    BY DEF Units
  <2>3. ColorOf("up", 0) = {"red"} /\ ColorOf("up", 1) = {"green"}
    BY ColorsOf
  <2>4. /\ Flag(Active(n, lost)[1]) = IF n \in Compute THEN 1 ELSE 0
        /\ Flag(Active(n, lost)[2]) = IF n \in Compute /\ lost # "lines" THEN 1 ELSE 0
    <3>1. \A i \in DOMAIN Units : Active(n, lost)[i] = IF i = 3 THEN n \in Storage /\ lost # "lines"
                                                       ELSE n \in Compute /\ (i = 1 \/ lost # "lines")
      BY Zenon DEF Active
    <3>2. Active(n, lost)[1] = (n \in Compute)
      BY <2>2, <3>1
    <3>3. Active(n, lost)[2] = (n \in Compute /\ lost # "lines")
      BY <2>2, <3>1
    <3> QED BY <3>2, <3>3 DEF Flag
  <2>5. Color(unit("corosync"), n) =
            IF lost = "daemons" THEN {} ELSE IF n \in Compute THEN {"green"} ELSE {"red"}
    <3>1. Cell(Where(units, "unit", {"corosync"}), "node", n) =
            IF lost = "daemons" THEN {} ELSE {Flag(Active(n, lost)[1])}
      BY <1>1, <2>2, DaemonCell
    <3> HIDE DEF units
    <3>2. Color(unit("corosync"), n) =
            IF lost = "daemons" THEN {} ELSE ColorOf("up", Flag(Active(n, lost)[1]))
      BY <3>1, ColorOfColumn
    <3>3. ColorOf("up", Flag(Active(n, lost)[1])) = IF n \in Compute THEN {"green"} ELSE {"red"}
      BY <2>3, <2>4
    <3> QED BY <3>2, <3>3
  <2>6. Color(unit("pacemaker"), n) =
            IF lost = "daemons" THEN {}
            ELSE IF n \in Compute /\ lost # "lines" THEN {"green"} ELSE {"red"}
    <3>1. Cell(Where(units, "unit", {"pacemaker"}), "node", n) =
            IF lost = "daemons" THEN {} ELSE {Flag(Active(n, lost)[2])}
      BY <1>1, <2>2, DaemonCell
    <3> HIDE DEF units
    <3>2. Color(unit("pacemaker"), n) =
            IF lost = "daemons" THEN {} ELSE ColorOf("up", Flag(Active(n, lost)[2]))
      BY <3>1, ColorOfColumn
    <3>3. ColorOf("up", Flag(Active(n, lost)[2])) =
            IF n \in Compute /\ lost # "lines" THEN {"green"} ELSE {"red"}
      BY <2>3, <2>4
    <3> QED BY <3>2, <3>3
  <2>7. Color(iscsi, n) = IF n \in sessions /\ lost # "iscsi" THEN {"green"} ELSE {}
    <3>1. \A s : Series(n, lost, s) /\ s.name = "cluster_iscsi_sessions" <=>
                   n \in sessions /\ lost # "iscsi" /\ s = SessionsOf(n)
      BY NamedSeries
    <3>2. SessionsOf(n).value = 1
      BY MetricFields DEF SessionsOf
    <3>3. Cell(Samples(Scraped, "cluster_iscsi_sessions"), "node", n) =
            IF n \in sessions /\ lost # "iscsi" THEN {1} ELSE {}
      BY <1>1, <3>1, <3>2, OwnCell
    <3> QED BY <3>3, ColorsOf, ColorOfColumn
  <2>8. /\ n \notin Storage \/ lost = "drbd" => Color(behind, n) = {}
        /\ n \in Storage /\ lost # "drbd" /\ ~broken =>
             Color(behind, n) = IF n \in primary /\ ~Linked THEN {"red"} ELSE {"green"}
    <3> DEFINE bytes == DrbdReport(n).mqlun.out_of_sync_bytes
    <3>1. \A s : Series(n, lost, s) /\ s.name = "cluster_drbd_out_of_sync_bytes" <=>
                   n \in Storage /\ lost # "drbd" /\ s = OutOfSyncOf(n)
      BY NamedSeries
    <3>2. OutOfSyncOf(n).value = bytes
      BY MetricFields DEF OutOfSyncOf
    <3>3. n \in Storage => bytes = IF broken THEN 20480
                                   ELSE IF n \in primary /\ ~Linked THEN 4096 ELSE 0
      BY OutOfSyncOptions
    <3> HIDE DEF bytes
    <3>4. Cell(Samples(Scraped, "cluster_drbd_out_of_sync_bytes"), "node", n) =
            IF n \in Storage /\ lost # "drbd" THEN {bytes} ELSE {}
      BY <1>1, <3>1, <3>2, <3>3, OwnCell
    <3>5. Color(behind, n) = IF n \in Storage /\ lost # "drbd" THEN ColorOf("clean0", bytes) ELSE {}
      BY <3>4, ColorOfColumn
    <3>6. ColorOf("clean0", 0) = {"green"} /\ ColorOf("clean0", 4096) = {"red"}
      BY ColorsOf
    <3> QED BY <3>3, <3>5, <3>6
  <2> QED BY <2>1, <2>5, <2>6, <2>7, <2>8
<1>2. IInv => MatricesAreRight
  BY <1>1 DEF MatricesAreRight
<1> QED BY <1>2, Always, PTL

LEMMA NeighbourNames ==
  \A s \in Neighbour : s.name \in {"cluster_quorate", "cluster_node_online", "cluster_resource_owner",
                                   "cluster_drbd_out_of_sync_bytes", "cluster_drbd_role"}
BY DEF Neighbour, Metric

\* A fence action in the history is on the board as soon as one node outside
\* the loss has reported it, whatever the other files say: the cell is the
\* greatest of the counts, and a file without a stonith reading has a 0.
THEOREM FencingIsShown == Spec => []FencingShows
<1>1. ASSUME IInv, NEW n \in Up \ {cut}, Collected(n, "nothing"),
             NEW m \in Remembered(n),
             NEW v \in Cell(Samples(Scraped, "cluster_fence_count"), "member", m)
      PROVE  v >= fenced[m]
  <2> DEFINE vec == Samples(Scraped, "cluster_fence_count")
             G == Group(vec, "member", m)
             s == FencesOf(n, "nothing", m)
             x == ScrapedAs("pacemaker", s)
  <2>1. n \in Hosts \ down /\ n \in Compute /\ m \in Compute
    BY <1>1, RememberedMembers DEF Up, Hosts, IInv
  <2>2. s.name = "cluster_fence_count" /\ s.value = fenced[m] /\ DOMAIN s.labels = {"node", "member"}
        /\ s.labels["member"] = m
    BY <1>1, MetricFields DEF FencesOf, Fences
  <2>3. Series(n, "nothing", s)
    BY <2>1, NamedSeries
  <2> HIDE DEF s, x
  <2>4. s \in file[n]
    BY <1>1, <2>1, <2>3, Collects DEF Collected, IInv
  <2>5. x \in vec
    BY <2>1, <2>2, <2>4, Seen DEF x
  <2>6. x.value = fenced[m] /\ "member" \in DOMAIN x.labels /\ x.labels["member"] = m
    BY <2>2, ScrapedFields DEF x
  <2> HIDE DEF vec
  <2>7. x \in G
    BY <2>5, <2>6 DEF Group
  <2>8. \A y \in vec : y.value \in 0 .. MaxEvents
    <3> TAKE y \in vec
    <3>1. PICK k \in Hosts : \E t \in file[k] : t.name = "cluster_fence_count" /\ y = ScrapedAs("pacemaker", t)
      BY Seen, NeighbourNames DEF vec
    <3>2. PICK t \in file[k] : t.name = "cluster_fence_count" /\ y = ScrapedAs("pacemaker", t)
      BY <3>1
    <3>3. t.value \in 0 .. MaxEvents
      BY <1>1, <3>2 DEF IInv, Sound
    <3> QED BY <3>2, <3>3, ScrapedFields
  <2>9. Values(G) \subseteq 0 .. MaxEvents
    BY <2>8 DEF Values, Group
  <2>10. IsFiniteSet(Values(G)) /\ Values(G) \subseteq Int
    <3>1. IsFiniteSet(0 .. MaxEvents) /\ 0 .. MaxEvents \subseteq Int
      BY FS_Interval, PacemakerAssumption
    <3> HIDE DEF G
    <3> QED BY <2>9, <3>1, FS_Subset
  <2> HIDE DEF G
  <2>11. MaxOf(G) \in Int /\ x.value <= MaxOf(G)
    BY <2>7, <2>10, MaxBounds
  <2>12. v = MaxOf(G)
    BY <1>1, <2>7, CellOf DEF G, vec
  <2>13. fenced[m] \in Int
    BY <1>1, <2>1 DEF IInv, Typed
  <2> QED BY <2>6, <2>11, <2>12, <2>13
<1>2. IInv => FencingShows
  <2>1. ComputeColumns(Scraped).fence.vec = Samples(Scraped, "cluster_fence_count")
        /\ ComputeColumns(Scraped).fence.label = "member"
    BY DEF ComputeColumns, Column
  <2> QED BY <1>1, <2>1 DEF FencingShows, Remembered
<1> QED BY <1>2, Always, PTL

---------------------------------------------------------------------------
(* The board when every report is current.                                 *)

LEMMA CurrentRows ==
  ASSUME IInv, Current, NEW name, NEW x
  PROVE  /\ x \in Here(Scraped, name) <=>
              \E n \in Hosts \ down : \E s : /\ Series(n, "nothing", s) /\ s.name = name
                                             /\ x = ScrapedAs("pacemaker", s)
         /\ x \in Samples(Scraped, name) <=>
              \/ x \in Here(Scraped, name)
              \/ neighbour /\ \E s \in Neighbour : s.name = name /\ x = ScrapedAs("rdqm", s)
<1>1. \A n \in Hosts \ down : \A s : s \in file[n] <=> Series(n, "nothing", s)
  BY Collects DEF IInv, Current, Collected
<1>2. x \in Here(Scraped, name) <=>
        x \in Samples(Scraped, name) /\ "groups" \in DOMAIN x.labels /\ x.labels["groups"] = "pacemaker"
  BY DEF Here, Where
<1>3. \A groups, s : LET y == ScrapedAs(groups, s) IN
        "groups" \in DOMAIN y.labels /\ y.labels["groups"] = groups
  BY ScrapedFields
<1>4. x \in Samples(Scraped, name) <=>
           \/ \E n \in Hosts \ down : \E s \in file[n] :
                s.name = name /\ x = ScrapedAs("pacemaker", s)
           \/ /\ neighbour
              /\ \E s \in Neighbour : s.name = name /\ x = ScrapedAs("rdqm", s)
  BY Seen
<1>5. "rdqm" # "pacemaker"
  OBVIOUS
<1> QED BY <1>1, <1>2, <1>3, <1>4, <1>5

\* What the nodes that are up say of each other, and of the quorum.
LEMMA OnlineRows ==
  ASSUME IInv, Current, NEW x
  PROVE  x \in Here(Scraped, "cluster_node_online") <=>
           \E n \in Up : \E m \in Compute : x = ScrapedAs("pacemaker", OnlineOf(n, m))
<1>1. \A n, s : Series(n, "nothing", s) /\ s.name = "cluster_node_online" <=>
                  n \in Compute /\ \E m \in Compute : s = OnlineOf(n, m)
  BY NamedSeries
<1> QED BY <1>1, CurrentRows DEF Up, Hosts

LEMMA OnlineFields ==
  ASSUME NEW n, NEW m
  PROVE  LET x == ScrapedAs("pacemaker", OnlineOf(n, m)) IN
         "member" \in DOMAIN x.labels /\ x.labels["member"] = m /\ x.value = Flag(m \in Online(n))
<1> DEFINE s == OnlineOf(n, m)
<1>1. DOMAIN s.labels = {"node", "member"} /\ s.labels["member"] = m
  BY MetricFields DEF OnlineOf
<1>2. s.value = Flag(m \in Online(n))
  BY MetricFields DEF OnlineOf
<1> HIDE DEF s
<1>3. ScrapedAs("pacemaker", s).value = s.value
  BY ScrapedFields
<1>4. LET x == ScrapedAs("pacemaker", s) IN "member" \in DOMAIN x.labels /\ x.labels["member"] = m
  BY <1>1, ScrapedFields
<1> QED BY <1>2, <1>3, <1>4, Zenon DEF s

\* A member is online for the board exactly if it is not down: a side that is
\* cut off reports itself.
LEMMA MemberOnline ==
  ASSUME IInv, Current, Up # {}, NEW m \in Compute
  PROVE  MaxOf(Group(Here(Scraped, "cluster_node_online"), "member", m)) = Flag(m \notin down)
<1> DEFINE vec == Here(Scraped, "cluster_node_online")
           G == Group(vec, "member", m)
           row(n) == ScrapedAs("pacemaker", OnlineOf(n, m))
<1>1. \A x : x \in vec <=> \E n \in Up : \E k \in Compute : x = ScrapedAs("pacemaker", OnlineOf(n, k))
  BY OnlineRows
<1> HIDE DEF vec
<1>2. \A x \in G : \E n \in Up : x = row(n)
  BY <1>1, OnlineFields DEF Group
<1>3. \A n \in Up : row(n) \in G
  BY <1>1, OnlineFields DEF Group
<1>4. \A n \in Up : row(n).value = Flag(m \in Online(n))
  BY OnlineFields
<1> HIDE DEF G, row
<1>5. \A n \in Up : m \in down => m \notin Online(n)
  BY DEF Online, Up
<1>6. m \notin down => m \in Up /\ m \in Online(m)
  BY DEF Online, Up
<1>7. CASE m \in down
  <2>1. PICK n \in Up : TRUE
    OBVIOUS
  <2>2. \A k \in Up : row(k).value = 0
    BY <1>4, <1>5, <1>7 DEF Flag
  <2>3. row(n) \in G /\ row(n).value = 0 /\ \A x \in G : x.value \in Int /\ x.value <= 0
    BY <1>2, <1>3, <2>1, <2>2
  <2>4. MaxOf(G) = 0
    BY <2>3, MaxIs
  <2> QED BY <1>7, <2>4 DEF Flag, G, vec
<1>8. CASE m \notin down
  <2>1. \A k \in Up : row(k).value \in {0, 1}
    BY <1>4 DEF Flag
  <2>2. row(m) \in G /\ row(m).value = 1 /\ \A x \in G : x.value \in Int /\ x.value <= 1
    BY <1>2, <1>3, <1>4, <1>6, <1>8, <2>1 DEF Flag
  <2>3. MaxOf(G) = 1
    BY <2>2, MaxIs
  <2> QED BY <1>8, <2>3 DEF Flag, G, vec
<1> QED BY <1>7, <1>8

LEMMA OnlineMembersAre ==
  ASSUME IInv, Current
  PROVE  /\ \A x : x \in OnlineMembers(Scraped) <=>
              Up # {} /\ \E m \in Compute : x = Sample(OnlyLabel("member", m), Flag(m \notin down))
         /\ IsFiniteSet(OnlineMembers(Scraped))
         /\ Up # {} => Cardinality(At(OnlineMembers(Scraped), 1)) = Cardinality(Up)
<1> DEFINE vec == Here(Scraped, "cluster_node_online")
           top(m) == MaxOf(Group(vec, "member", m))
<1>1. \A x : x \in vec <=> \E n \in Up : \E k \in Compute : x = ScrapedAs("pacemaker", OnlineOf(n, k))
  BY OnlineRows
<1>2. Up # {} => \A m \in Compute : top(m) = Flag(m \notin down)
  BY MemberOnline
<1>3. OnlineMembers(Scraped) = By(vec, {"member"}, MaxOf)
  BY DEF OnlineMembers
<1> HIDE DEF vec, top
<1>4. \A x \in vec : "member" \in DOMAIN x.labels /\ x.labels["member"] \in Compute /\ Up # {}
  BY <1>1, OnlineFields
<1>5. Up # {} => \A m \in Compute : \E x \in vec : x.labels["member"] = m
  BY <1>1, OnlineFields
<1>6. RowsOf(vec, "member") = IF Up = {} THEN {} ELSE Compute
  BY <1>4, <1>5 DEF RowsOf
<1>7. \A s : s \in By(vec, {"member"}, MaxOf) <=>
             \E x \in vec : s = Sample(OnlyLabel("member", x.labels["member"]), top(x.labels["member"]))
  BY <1>4, MaxByLabel DEF top
<1>8. \A s : s \in By(vec, {"member"}, MaxOf) <=>
             Up # {} /\ \E m \in Compute : s = Sample(OnlyLabel("member", m), Flag(m \notin down))
  BY <1>2, <1>4, <1>5, <1>7
<1>9. IsFiniteSet(RowsOf(vec, "member"))
  BY <1>6, FS_EmptySet, PacemakerAssumption
<1>10. /\ IsFiniteSet(By(vec, {"member"}, MaxOf))
       /\ Cardinality(At(By(vec, {"member"}, MaxOf), 1)) = Cardinality(RowsAt(vec, "member", 1))
  <2>1. AllHave(vec, "member")
    BY <1>4 DEF AllHave
  <2> QED BY <1>9, <2>1, CountRows
<1>11. Up # {} => RowsAt(vec, "member", 1) = Up
  BY <1>2, <1>6 DEF Up, Flag, top, RowsAt
<1> QED BY <1>3, <1>8, <1>10, <1>11

LEMMA QuorateRows ==
  ASSUME IInv, Current, NEW x
  PROVE  x \in Here(Scraped, "cluster_quorate") <=>
           \E n \in Up : x = ScrapedAs("pacemaker", QuorateOf(n))
<1>1. \A n, s : Series(n, "nothing", s) /\ s.name = "cluster_quorate" <=> n \in Compute /\ s = QuorateOf(n)
  BY NamedSeries
<1> QED BY <1>1, CurrentRows DEF Up, Hosts

\* During a partition each side reports itself online: the health tile turns
\* only when a host is down; the quorum shows the partition, and the
\* neighbour's is not taken for this cluster's.
THEOREM PartitionIsShown == Spec => []PartitionShows
<1>1. ASSUME IInv, Current, Up # {}
      PROVE  HealthTile(Scraped) = {Flag(Compute \cap down = {})}
  <2> DEFINE V == OnlineMembers(Scraped)
             sample(m) == Sample(OnlyLabel("member", m), Flag(m \notin down))
  <2>1. \A x : x \in V <=> \E m \in Compute : x = sample(m)
    BY <1>1, OnlineMembersAre
  <2>2. \A m : sample(m).value = Flag(m \notin down)
    BY SampleFields
  <2> HIDE DEF V, sample
  <2>3. \A x \in V : x.value \in {0, 1}
    BY <2>1, <2>2 DEF Flag
  <2>4. PICK n \in Compute : n \notin down
    BY <1>1 DEF Up
  <2>5. V # {}
    BY <2>1, <2>4
  <2>6. MinOf(V) = Flag(Compute \cap down = {})
    <3>1. CASE Compute \cap down = {}
      <4>1. sample(n) \in V /\ sample(n).value = 1
        BY <2>1, <2>2, <2>4 DEF Flag
      <4>2. \A x \in V : x.value \in Int /\ 1 <= x.value
        BY <2>1, <2>2, <3>1 DEF Flag
      <4>3. MinOf(V) = 1
        BY <4>1, <4>2, MinIs
      <4> QED BY <3>1, <4>3 DEF Flag
    <3>2. CASE Compute \cap down # {}
      <4>1. PICK m \in Compute : m \in down
        BY <3>2
      <4>2. sample(m) \in V /\ sample(m).value = 0
        BY <2>1, <2>2, <4>1 DEF Flag
      <4>3. \A x \in V : x.value \in Int /\ 0 <= x.value
        BY <2>3
      <4>4. MinOf(V) = 0
        BY <4>2, <4>3, MinIs
      <4> QED BY <3>2, <4>4 DEF Flag
    <3> QED BY <3>1, <3>2
  <2>7. By(V, {}, MinOf) = Scalar(MinOf(V))
    BY <2>5, MinOfAll
  <2> QED BY <2>6, <2>7, ScalarValues DEF HealthTile, Tile, V
<1>2. ASSUME IInv, Current, Up # {}
      PROVE  Timeline(Scraped).quorate = {Flag(cut \notin Compute)}
  <2> DEFINE V == Here(Scraped, "cluster_quorate")
             row(n) == ScrapedAs("pacemaker", QuorateOf(n))
  <2>1. \A x : x \in V <=> \E n \in Up : x = row(n)
    BY <1>2, QuorateRows
  <2>2. \A n : row(n).value = Flag(n # cut)
    <3>1. \A n : QuorateOf(n).value = Flag(n # cut)
      BY MetricFields DEF QuorateOf
    <3> QED BY <3>1, ScrapedFields, Zenon
  <2>3. Timeline(Scraped).quorate = Values(By(V, {}, MinOf))
    BY DEF Timeline
  <2> HIDE DEF V, row
  <2>4. PICK n \in Up : TRUE
    BY <1>2
  <2>5. \A x \in V : x.value \in {0, 1}
    BY <2>1, <2>2 DEF Flag
  <2>6. MinOf(V) = Flag(cut \notin Compute)
    <3>1. CASE cut \notin Compute
      <4>1. row(n) \in V /\ row(n).value = 1 /\ \A x \in V : x.value \in Int /\ 1 <= x.value
        BY <2>1, <2>2, <2>4, <3>1 DEF Flag, Up
      <4>2. MinOf(V) = 1
        BY <4>1, MinIs
      <4> QED BY <3>1, <4>2 DEF Flag
    <3>2. CASE cut \in Compute
      <4>1. cut \in Up
        BY <1>2, <3>2 DEF Up, IInv
      <4>2. row(cut) \in V /\ row(cut).value = 0 /\ \A x \in V : x.value \in Int /\ 0 <= x.value
        BY <2>1, <2>2, <2>5, <4>1 DEF Flag
      <4>3. MinOf(V) = 0
        BY <4>2, MinIs
      <4> QED BY <3>2, <4>3 DEF Flag
    <3> QED BY <3>1, <3>2
  <2>7. By(V, {}, MinOf) = Scalar(MinOf(V))
    BY <2>1, <2>4, MinOfAll
  <2> QED BY <2>3, <2>6, <2>7, ScalarValues
<1>3. IInv => PartitionShows
  BY <1>1, <1>2 DEF PartitionShows
<1> QED BY <1>3, Always, PTL

---------------------------------------------------------------------------
(* The integrity light.                                                    *)

\* The RDQM pair has a Primary on either site.
NeighbourPrimary(k) ==
  Metric("cluster_drbd_role", [node |-> k, resource |-> "qmrdqm", role |-> "Primary"], 1)
Neighbours == IF neighbour THEN {"rdqm-a", "rdqm-b"} ELSE {}

LEMMA NeighbourSeries ==
  \A s \in Neighbour :
    /\ s.name = "cluster_drbd_role" <=> \E k \in {"rdqm-a", "rdqm-b"} : s = NeighbourPrimary(k)
    /\ s.name \notin {"cluster_drbd_conn", "cluster_drbd_disk", "cluster_resource_started"}
BY MetricFields DEF Neighbour, NeighbourPrimary

LEMMA NeighbourHas ==
  \A k \in {"rdqm-a", "rdqm-b"} : NeighbourPrimary(k) \in Neighbour
BY DEF Neighbour, NeighbourPrimary

\* The volume is in a state on a host, as its series of that name say.
LEMMA StateFields ==
  \A n, k :
    /\ LET x == ScrapedAs("pacemaker", RoleOf(n)) IN
       /\ {"role", "node"} \subseteq DOMAIN x.labels /\ x.labels["node"] = n
       /\ x.labels["role"] = DrbdReport(n).mqlun.role
    /\ LET x == ScrapedAs("pacemaker", DiskOf(n)) IN
       "disk" \in DOMAIN x.labels /\ x.labels["disk"] = DrbdReport(n).mqlun.disk
    /\ LET x == ScrapedAs("pacemaker", ConnOf(n)) IN
       "conn" \in DOMAIN x.labels /\ x.labels["conn"] = DrbdReport(n).mqlun.conn
    /\ LET x == ScrapedAs("rdqm", NeighbourPrimary(k)) IN
       /\ {"role", "node"} \subseteq DOMAIN x.labels /\ x.labels["node"] = k
       /\ x.labels["role"] = "Primary"
<1> TAKE n, k
<1> DEFINE role == RoleOf(n)
           disk == DiskOf(n)
           conn == ConnOf(n)
           other == NeighbourPrimary(k)
<1>1. /\ DOMAIN role.labels = {"node", "resource", "role"} /\ role.labels["node"] = n
      /\ role.labels["role"] = DrbdReport(n).mqlun.role
  BY MetricFields DEF RoleOf
<1>2. DOMAIN disk.labels = {"node", "resource", "disk"} /\ disk.labels["disk"] = DrbdReport(n).mqlun.disk
  BY MetricFields DEF DiskOf
<1>3. DOMAIN conn.labels = {"node", "resource", "conn"} /\ conn.labels["conn"] = DrbdReport(n).mqlun.conn
  BY MetricFields DEF ConnOf
<1>4. /\ DOMAIN other.labels = {"node", "resource", "role"} /\ other.labels["node"] = k
      /\ other.labels["role"] = "Primary"
  BY MetricFields DEF NeighbourPrimary
<1> HIDE DEF role, disk, conn, other
<1>5. LET x == ScrapedAs("pacemaker", role) IN
       /\ {"role", "node"} \subseteq DOMAIN x.labels /\ x.labels["node"] = n
       /\ x.labels["role"] = DrbdReport(n).mqlun.role
  BY <1>1, ScrapedFields
<1>6. LET x == ScrapedAs("pacemaker", disk) IN
       "disk" \in DOMAIN x.labels /\ x.labels["disk"] = DrbdReport(n).mqlun.disk
  BY <1>2, ScrapedFields
<1>7. LET x == ScrapedAs("pacemaker", conn) IN
       "conn" \in DOMAIN x.labels /\ x.labels["conn"] = DrbdReport(n).mqlun.conn
  BY <1>3, ScrapedFields
<1>8. LET x == ScrapedAs("rdqm", other) IN
       /\ {"role", "node"} \subseteq DOMAIN x.labels /\ x.labels["node"] = k
       /\ x.labels["role"] = "Primary"
  BY <1>4, ScrapedFields
<1> QED BY <1>5, <1>6, <1>7, <1>8 DEF role, disk, conn, other

LEMMA DrbdStates ==
  ASSUME NEW n \in Storage
  PROVE  /\ DrbdReport(n).mqlun.role = "Primary" <=> n \in primary
         /\ DrbdReport(n).mqlun.disk = "Diskless" <=> n \in diskless
         /\ DrbdReport(n).mqlun.conn = "StandAlone" <=> broken
BY DEF DrbdReport

LEMMA DrbdRows ==
  ASSUME IInv, Current, NEW x
  PROVE  /\ x \in Samples(Scraped, "cluster_drbd_role") <=>
              \/ \E n \in Storage \ down : x = ScrapedAs("pacemaker", RoleOf(n))
              \/ \E k \in Neighbours : x = ScrapedAs("rdqm", NeighbourPrimary(k))
         /\ x \in Samples(Scraped, "cluster_drbd_disk") <=>
              \E n \in Storage \ down : x = ScrapedAs("pacemaker", DiskOf(n))
         /\ x \in Samples(Scraped, "cluster_drbd_conn") <=>
              \E n \in Storage \ down : x = ScrapedAs("pacemaker", ConnOf(n))
<1>1. \A n, s : /\ Series(n, "nothing", s) /\ s.name = "cluster_drbd_role" <=> n \in Storage /\ s = RoleOf(n)
                /\ Series(n, "nothing", s) /\ s.name = "cluster_drbd_disk" <=> n \in Storage /\ s = DiskOf(n)
                /\ Series(n, "nothing", s) /\ s.name = "cluster_drbd_conn" <=> n \in Storage /\ s = ConnOf(n)
  BY NamedSeries
<1>2. /\ x \in Here(Scraped, "cluster_drbd_role") <=>
           \E n \in Storage \ down : x = ScrapedAs("pacemaker", RoleOf(n))
      /\ x \in Here(Scraped, "cluster_drbd_disk") <=>
           \E n \in Storage \ down : x = ScrapedAs("pacemaker", DiskOf(n))
      /\ x \in Here(Scraped, "cluster_drbd_conn") <=>
           \E n \in Storage \ down : x = ScrapedAs("pacemaker", ConnOf(n))
  BY <1>1, CurrentRows DEF Hosts
<1>3. (neighbour /\ \E s \in Neighbour : s.name = "cluster_drbd_role" /\ x = ScrapedAs("rdqm", s)) <=>
        \E k \in Neighbours : x = ScrapedAs("rdqm", NeighbourPrimary(k))
  BY NeighbourSeries, NeighbourHas DEF Neighbours
<1>4. ~\E s \in Neighbour : s.name \in {"cluster_drbd_disk", "cluster_drbd_conn"}
  BY NeighbourSeries
<1> QED BY <1>2, <1>3, <1>4, CurrentRows

\* The Primaries the board counts: the cluster's and the neighbour's.
LEMMA PrimaryRows ==
  ASSUME IInv, Current,
         NEW vec, vec = Where(Samples(Scraped, "cluster_drbd_role"), "role", {"Primary"})
  PROVE  /\ IsFiniteSet(vec) /\ vec \subseteq Samples(Scraped, "cluster_drbd_role")
         /\ Cardinality(vec) = Cardinality(primary) + IF neighbour THEN 2 ELSE 0
<1> DEFINE D == primary \cup Neighbours
           f == [d \in D |-> IF d \in Neighbours THEN ScrapedAs("rdqm", NeighbourPrimary(d))
                             ELSE ScrapedAs("pacemaker", RoleOf(d))]
           all == Samples(Scraped, "cluster_drbd_role")
<1>1. primary \subseteq Storage /\ primary \cap down = {}
  BY DEF IInv, Typed
<1>2. primary \cap Neighbours = {}
  BY <1>1, PacemakerAssumption DEF Neighbours
<1>3. \A x : x \in all <=>
              \/ \E n \in Storage \ down : x = ScrapedAs("pacemaker", RoleOf(n))
              \/ \E k \in Neighbours : x = ScrapedAs("rdqm", NeighbourPrimary(k))
  BY DrbdRows
<1>4. \A x : x \in vec <=> x \in all /\ "role" \in DOMAIN x.labels /\ x.labels["role"] = "Primary"
  BY DEF Where
<1>5. \A x : x \in vec <=> \/ \E n \in primary : x = ScrapedAs("pacemaker", RoleOf(n))
                           \/ \E k \in Neighbours : x = ScrapedAs("rdqm", NeighbourPrimary(k))
  <2> HIDE DEF all
  <2> QED BY <1>1, <1>3, <1>4, StateFields, DrbdStates
<1>6. \A d \in D : f[d] = IF d \in Neighbours THEN ScrapedAs("rdqm", NeighbourPrimary(d))
                          ELSE ScrapedAs("pacemaker", RoleOf(d))
  OBVIOUS
<1>7. \A d \in D : f[d].labels["node"] = d
  <2> HIDE DEF D, f
  <2> QED BY <1>6, StateFields
<1>8. \A x : x \in vec <=> \E d \in D : x = f[d]
  <2> HIDE DEF f
  <2> QED BY <1>2, <1>5, <1>6
<1> HIDE DEF f
<1>9. vec = {f[d] : d \in D}
  BY <1>8
<1>10. IsFiniteSet(primary) /\ IsFiniteSet(Neighbours)
       /\ Cardinality(Neighbours) = IF neighbour THEN 2 ELSE 0
  <2>1. IsFiniteSet({"rdqm-a", "rdqm-b"}) /\ Cardinality({"rdqm-a", "rdqm-b"}) = 2
    BY TwoElements
  <2> QED BY <1>1, <2>1, FS_EmptySet, FS_Subset, PacemakerAssumption DEF Neighbours
<1>11. IsFiniteSet(D) /\ Cardinality(D) = Cardinality(primary) + IF neighbour THEN 2 ELSE 0
  <2>1. Cardinality(D) = Cardinality(primary) + Cardinality(Neighbours) - Cardinality({})
    BY <1>2, <1>10, FS_Union
  <2>2. IsFiniteSet(D)
    BY <1>10, FS_Union
  <2>3. Cardinality({}) = 0 /\ Cardinality(primary) \in Nat
    BY <1>10, FS_EmptySet, FS_CardinalityType
  <2> HIDE DEF D
  <2> QED BY <1>10, <2>1, <2>2, <2>3
<1> HIDE DEF D
<1>12. IsFiniteSet(vec) /\ Cardinality(vec) = Cardinality(D)
  BY <1>7, <1>9, <1>11, IndexedCount
<1> QED BY <1>4, <1>11, <1>12

\* The hosts whose volume stands alone, and those that have lost the disk.
LEMMA HazardRows ==
  ASSUME IInv, Current,
         NEW alone, alone = Where(Samples(Scraped, "cluster_drbd_conn"), "conn", {"StandAlone"}),
         NEW lost, lost = Where(Samples(Scraped, "cluster_drbd_disk"), "disk", {"Diskless"})
  PROVE  /\ IsFiniteSet(alone) /\ IsFiniteSet(lost)
         /\ alone # {} <=> broken /\ Storage \ down # {}
         /\ lost # {} <=> diskless \ down # {}
<1> DEFINE D == Storage \ down
           conns == Samples(Scraped, "cluster_drbd_conn")
           disks == Samples(Scraped, "cluster_drbd_disk")
           f == [n \in D |-> ScrapedAs("pacemaker", ConnOf(n))]
           g == [n \in D |-> ScrapedAs("pacemaker", DiskOf(n))]
<1>1. \A x : /\ x \in conns <=> \E n \in D : x = ScrapedAs("pacemaker", ConnOf(n))
             /\ x \in disks <=> \E n \in D : x = ScrapedAs("pacemaker", DiskOf(n))
  BY DrbdRows
<1>2. \A x : /\ x \in alone <=> x \in conns /\ "conn" \in DOMAIN x.labels /\ x.labels["conn"] = "StandAlone"
             /\ x \in lost <=> x \in disks /\ "disk" \in DOMAIN x.labels /\ x.labels["disk"] = "Diskless"
  BY DEF Where
<1>3. /\ conns = {f[n] : n \in D} /\ disks = {g[n] : n \in D}
  <2> HIDE DEF conns, disks
  <2> QED BY <1>1
<1>4. IsFiniteSet(D)
  <2>1. D \in SUBSET Storage
    OBVIOUS
  <2> QED BY <2>1, FS_Subset, PacemakerAssumption
<1> HIDE DEF conns, disks, f, g, D
<1>5. IsFiniteSet(conns) /\ IsFiniteSet(disks)
  BY <1>3, <1>4, IndexedFinite
<1>6. alone \in SUBSET conns /\ lost \in SUBSET disks
  BY <1>2
<1>7. IsFiniteSet(alone) /\ IsFiniteSet(lost)
  BY <1>5, <1>6, FS_Subset
<1>8. \A n \in D : n \in Storage
  BY DEF D
<1>9. alone # {} <=> broken /\ D # {}
  <2>1. ASSUME NEW n \in D PROVE ScrapedAs("pacemaker", ConnOf(n)) \in alone <=> broken
    <3> DEFINE x == ScrapedAs("pacemaker", ConnOf(n))
    <3>1. "conn" \in DOMAIN x.labels /\ (x.labels["conn"] = "StandAlone" <=> broken)
      BY <1>8, StateFields, DrbdStates
    <3>2. x \in conns
      BY <1>1
    <3> HIDE DEF x
    <3>3. x \in alone <=> broken
      BY <1>2, <3>1, <3>2
    <3> QED BY <3>3 DEF x
  <2> QED BY <1>1, <1>2, <2>1
<1>10. lost # {} <=> \E n \in D : n \in diskless
  <2>1. ASSUME NEW n \in D PROVE ScrapedAs("pacemaker", DiskOf(n)) \in lost <=> n \in diskless
    <3> DEFINE x == ScrapedAs("pacemaker", DiskOf(n))
    <3>1. "disk" \in DOMAIN x.labels /\ (x.labels["disk"] = "Diskless" <=> n \in diskless)
      BY <1>8, StateFields, DrbdStates
    <3>2. x \in disks
      BY <1>1
    <3> HIDE DEF x
    <3>3. x \in lost <=> n \in diskless
      BY <1>2, <3>1, <3>2
    <3> QED BY <3>3 DEF x
  <2> QED BY <1>1, <1>2, <2>1
<1>11. (\E n \in D : n \in diskless) <=> diskless \ down # {}
  BY DEF D, IInv, Typed
<1> QED BY <1>7, <1>9, <1>10, <1>11 DEF D

LEMMA RolesFinite ==
  ASSUME IInv, Current
  PROVE  IsFiniteSet(Samples(Scraped, "cluster_drbd_role"))
<1> DEFINE D == Storage \ down
           own == [n \in D |-> ScrapedAs("pacemaker", RoleOf(n))]
           others == [k \in Neighbours |-> ScrapedAs("rdqm", NeighbourPrimary(k))]
           all == Samples(Scraped, "cluster_drbd_role")
<1>1. \A x : x \in all <=>
              \/ \E n \in D : x = ScrapedAs("pacemaker", RoleOf(n))
              \/ \E k \in Neighbours : x = ScrapedAs("rdqm", NeighbourPrimary(k))
  BY DrbdRows
<1> HIDE DEF all
<1>2. all = {own[n] : n \in D} \cup {others[k] : k \in Neighbours}
  BY <1>1
<1>3. IsFiniteSet(D)
  <2>1. D \in SUBSET Storage
    OBVIOUS
  <2> QED BY <2>1, FS_Subset, PacemakerAssumption
<1>4. IsFiniteSet(Neighbours)
  BY TwoElements, FS_EmptySet DEF Neighbours
<1> HIDE DEF D, own, others
<1>5. IsFiniteSet({own[n] : n \in D}) /\ IsFiniteSet({others[k] : k \in Neighbours})
  BY <1>3, <1>4, IndexedFinite
<1> QED BY <1>2, <1>5, FS_Union DEF all

LEMMA TwoPrimaries ==
  ASSUME IInv
  PROVE  /\ Cardinality(primary) \in 0 .. 2
         /\ Cardinality(primary) = 0 <=> primary = {}
         /\ Cardinality(primary) > 1 <=> primary = Storage
<1>1. primary \in SUBSET Storage
  BY DEF IInv, Typed
<1>2. IsFiniteSet(primary) /\ Cardinality(primary) <= 2 /\ (Cardinality(primary) = 2 => primary = Storage)
  BY <1>1, FS_Subset, PacemakerAssumption
<1>3. Cardinality(primary) \in Nat /\ (Cardinality(primary) = 0 <=> primary = {})
  BY <1>2, FS_CardinalityType, FS_EmptySet
<1>4. primary = Storage => Cardinality(primary) = 2
  BY PacemakerAssumption
<1> QED BY <1>2, <1>3, <1>4

\* What the light is on current reports.  It is the code's expression that is
\* followed here, with all it does: stale without a Primary, whatever else is
\* wrong, and a hazard beside an RDQM pair.
LEMMA LightShown ==
  ASSUME IInv, Current
  PROVE  Light = IF neighbour THEN "HAZARD"
                 ELSE IF primary = {} THEN "STALE"
                 ELSE IF DrbdHazard THEN "HAZARD" ELSE "OK"
<1> DEFINE alone == Where(Samples(Scraped, "cluster_drbd_conn"), "conn", {"StandAlone"})
           lost == Where(Samples(Scraped, "cluster_drbd_disk"), "disk", {"Diskless"})
           primaries == Where(Samples(Scraped, "cluster_drbd_role"), "role", {"Primary"})
           roles == Samples(Scraped, "cluster_drbd_role")
           a == By(alone, {}, CountOf)
           b == By(lost, {}, CountOf)
           c == By(primaries, {}, CountOf)
           d == Above(By(roles, {}, CountOf), 0)
           ca == Cardinality(alone)
           cb == Cardinality(lost)
           cc == Cardinality(primaries)
<1>1. Light = LightOf(AndOn(Plus(Plus(Or(a, Scalar(0)), Or(b, Scalar(0))), AboveBool(c, 1)), d))
  BY DEF Light, IntegrityExpr
<1>2. /\ IsFiniteSet(alone) /\ IsFiniteSet(lost)
      /\ alone # {} <=> broken /\ Storage \ down # {}
      /\ lost # {} <=> diskless \ down # {}
  BY HazardRows
<1>3. /\ IsFiniteSet(primaries) /\ primaries \subseteq roles
      /\ cc = Cardinality(primary) + IF neighbour THEN 2 ELSE 0
  BY PrimaryRows
<1>4. IsFiniteSet(roles)
  BY RolesFinite
<1> HIDE DEF alone, lost, primaries, roles
<1>5. /\ ca \in Nat /\ Or(a, Scalar(0)) = Scalar(ca) /\ (ca > 0 <=> alone # {})
  <2>1. alone = {} => a = {} /\ ca = 0
    BY <1>2, CountOfFinite, FS_EmptySet
  <2>2. alone # {} => a = Scalar(ca) /\ ca > 0
    BY <1>2, CountOfFinite
  <2>3. ca \in Nat
    BY <1>2, CountOfFinite
  <2> HIDE DEF a, ca
  <2>4. Or(a, Scalar(0)) = Scalar(ca)
    BY <2>1, <2>2, <2>3, ScalarOr
  <2>5. ca > 0 <=> alone # {}
    BY <2>1, <2>2, <2>3
  <2> QED BY <2>3, <2>4, <2>5
<1>6. /\ cb \in Nat /\ Or(b, Scalar(0)) = Scalar(cb) /\ (cb > 0 <=> lost # {})
  <2>1. lost = {} => b = {} /\ cb = 0
    BY <1>2, CountOfFinite, FS_EmptySet
  <2>2. lost # {} => b = Scalar(cb) /\ cb > 0
    BY <1>2, CountOfFinite
  <2>3. cb \in Nat
    BY <1>2, CountOfFinite
  <2> HIDE DEF b, cb
  <2>4. Or(b, Scalar(0)) = Scalar(cb)
    BY <2>1, <2>2, <2>3, ScalarOr
  <2>5. cb > 0 <=> lost # {}
    BY <2>1, <2>2, <2>3
  <2> QED BY <2>3, <2>4, <2>5
<1>7. /\ primaries = {} => AboveBool(c, 1) = {}
      /\ primaries # {} => AboveBool(c, 1) = Scalar(IF cc > 1 THEN 1 ELSE 0) /\ d # {}
  <2>1. primaries = {} => c = {}
    BY <1>3, CountOfFinite
  <2>2. primaries # {} => c = Scalar(cc)
    BY <1>3, CountOfFinite
  <2>3. primaries # {} => d # {}
    BY <1>3, <1>4, CountOfFinite
  <2> HIDE DEF c, cc, d
  <2>4. primaries = {} => AboveBool(c, 1) = {}
    BY <2>1, EmptyCompare
  <2>5. primaries # {} => AboveBool(c, 1) = Scalar(IF cc > 1 THEN 1 ELSE 0)
    BY <2>2, ScalarCompare
  <2> QED BY <2>3, <2>4, <2>5
<1>8. primaries = {} <=> cc = 0
  BY <1>3, CountFacts, FS_EmptySet
<1>9. /\ cc = 0 <=> primary = {} /\ ~neighbour
      /\ cc > 1 <=> neighbour \/ primary = Storage
  <2>1. neighbour \in BOOLEAN
    BY DEF IInv, Typed
  <2> HIDE DEF cc
  <2> QED BY <1>3, <2>1, TwoPrimaries
<1> HIDE DEF a, b, c, d, ca, cb, cc
<1>10. CASE primaries = {}
  <2>1. Light = "STALE"
    <3>1. Plus(Plus(Or(a, Scalar(0)), Or(b, Scalar(0))), AboveBool(c, 1)) = {}
      <4>1. Plus(Scalar(ca), Scalar(cb)) = Scalar(ca + cb)
        BY ScalarPlus
      <4>2. Plus(Scalar(ca + cb), {}) = {}
        BY ScalarPlus
      <4> QED BY <1>5, <1>6, <1>7, <1>10, <4>1, <4>2
    <3>2. AndOn({}, d) = {} /\ LightOf({}) = "STALE"
      BY AndOnSides, ScalarLight
    <3> QED BY <1>1, <3>1, <3>2
  <2> QED BY <1>8, <1>9, <1>10, <2>1
<1>11. CASE primaries # {}
  <2> DEFINE two == IF cc > 1 THEN 1 ELSE 0
             sum == ca + cb + two
  <2>1. Plus(Plus(Or(a, Scalar(0)), Or(b, Scalar(0))), AboveBool(c, 1)) = Scalar(sum)
    BY <1>5, <1>6, <1>7, <1>11, ScalarPlus
  <2>2. sum \in Int /\ (sum > 0 <=> ca > 0 \/ cb > 0 \/ cc > 1)
    BY <1>5, <1>6
  <2> HIDE DEF sum
  <2>3. Light = IF sum > 0 THEN "HAZARD" ELSE "OK"
    BY <1>1, <1>7, <1>11, <2>1, <2>2, AndOnSides, ScalarLight
  <2>4. ~neighbour => primary # {} /\ Storage \ down # {}
    BY <1>8, <1>9, <1>11 DEF IInv, Typed
  <2> QED BY <1>2, <1>5, <1>6, <1>9, <2>2, <2>3, <2>4 DEF DrbdHazard
<1> QED BY <1>10, <1>11

\* With current reports, and alone in its Prometheus, a cluster that has a
\* Primary shows a split brain, a lost disk or two Primaries in its integrity
\* light, and nothing else as a hazard; it is stale when no storage node is
\* left to report.
THEOREM LightRight == Spec => []LightIsRight
<1>1. ASSUME IInv, Storage \subseteq down PROVE primary = {}
  BY <1>1 DEF IInv, Typed
<1>2. IInv => LightIsRight
  BY <1>1, LightShown DEF LightIsRight
<1> QED BY <1>2, Always, PTL

---------------------------------------------------------------------------
(* The tiles.                                                              *)

LEMMA ResourceRows ==
  ASSUME IInv, Current, NEW x
  PROVE  /\ x \in OfQm(Scraped, "cluster_resource_owner") <=>
              \E n \in Up \ {cut} : owner # NoNode /\ x = ScrapedAs("pacemaker", OwnerOf(n))
         /\ x \in OfQm(Scraped, "cluster_resource_started") <=>
              \E n \in Up : x = ScrapedAs("pacemaker", StartedOf(n))
<1>1. \A n, s : /\ Series(n, "nothing", s) /\ s.name = "cluster_resource_owner" <=>
                     n \in Compute /\ n # cut /\ owner # NoNode /\ s = OwnerOf(n)
                /\ Series(n, "nothing", s) /\ s.name = "cluster_resource_started" <=>
                     n \in Compute /\ s = StartedOf(n)
  BY NamedSeries
<1>2. /\ x \in Here(Scraped, "cluster_resource_owner") <=>
           \E n \in Up \ {cut} : owner # NoNode /\ x = ScrapedAs("pacemaker", OwnerOf(n))
      /\ x \in Here(Scraped, "cluster_resource_started") <=>
           \E n \in Up : x = ScrapedAs("pacemaker", StartedOf(n))
  BY <1>1, CurrentRows DEF Hosts, Up
<1>3. \A n : LET y == ScrapedAs("pacemaker", OwnerOf(n)) IN
               "resource" \in DOMAIN y.labels /\ y.labels["resource"] = "qm"
  <2> TAKE n
  <2> DEFINE s == OwnerOf(n)
  <2>1. DOMAIN s.labels = {"node", "resource", "holder"} /\ s.labels["resource"] = "qm"
    BY MetricFields DEF OwnerOf
  <2> HIDE DEF s
  <2>2. LET y == ScrapedAs("pacemaker", s) IN
          "resource" \in DOMAIN y.labels /\ y.labels["resource"] = "qm"
    BY <2>1, ScrapedFields
  <2> QED BY <2>2 DEF s
<1>4. \A n : LET y == ScrapedAs("pacemaker", StartedOf(n)) IN
               "resource" \in DOMAIN y.labels /\ y.labels["resource"] = "qm"
  <2> TAKE n
  <2> DEFINE s == StartedOf(n)
  <2>1. DOMAIN s.labels = {"node", "resource"} /\ s.labels["resource"] = "qm"
    BY MetricFields DEF StartedOf
  <2> HIDE DEF s
  <2>2. LET y == ScrapedAs("pacemaker", s) IN
          "resource" \in DOMAIN y.labels /\ y.labels["resource"] = "qm"
    BY <2>1, ScrapedFields
  <2> QED BY <2>2 DEF s
<1>5. \A s \in Neighbour : s.name \in {"cluster_resource_owner", "cluster_resource_started"} =>
        LET y == ScrapedAs("rdqm", s) IN
        "resource" \in DOMAIN y.labels => y.labels["resource"] # "qm"
  <2> TAKE s \in Neighbour
  <2> HAVE s.name \in {"cluster_resource_owner", "cluster_resource_started"}
  <2>1. s = Metric("cluster_resource_owner", [node |-> "rdqm-a", resource |-> "qmrdqm", holder |-> "rdqm-a"], 1)
    BY MetricFields DEF Neighbour
  <2>2. DOMAIN s.labels = {"node", "resource", "holder"} /\ s.labels["resource"] = "qmrdqm"
    BY <2>1, MetricFields
  <2>3. ScrapedAs("rdqm", s).labels["resource"] = "qmrdqm"
    BY <2>2, ScrapedFields
  <2> QED BY <2>3
<1>6. \A name : x \in OfQm(Scraped, name) <=>
        x \in Samples(Scraped, name) /\ "resource" \in DOMAIN x.labels /\ x.labels["resource"] = "qm"
  BY DEF OfQm, Where
<1> QED BY <1>2, <1>3, <1>4, <1>5, <1>6, CurrentRows

LEMMA OnlineTile ==
  ASSUME IInv, Current
  PROVE  NodesOnline(Scraped) = IF Up = {} THEN {} ELSE {Cardinality(Up)}
<1> DEFINE V == OnlineMembers(Scraped)
<1>1. \A x : x \in V <=>
              Up # {} /\ \E m \in Compute : x = Sample(OnlyLabel("member", m), Flag(m \notin down))
  BY OnlineMembersAre
<1>2. IsFiniteSet(V) /\ (Up # {} => Cardinality(At(V, 1)) = Cardinality(Up))
  BY OnlineMembersAre
<1> HIDE DEF V
<1>3. \A x \in V : x.value \in {0, 1}
  BY <1>1, SampleFields DEF Flag
<1>4. V = {} <=> Up = {}
  BY <1>1 DEF Up
<1>5. SumOf(V) = Cardinality(At(V, 1))
  BY <1>2, <1>3, SumOfFlags
<1>6. By(V, {}, SumOf) = IF V = {} THEN {} ELSE Scalar(SumOf(V))
  BY SumOfAll
<1>7. NodesOnline(Scraped) = Values(By(V, {}, SumOf))
  BY DEF NodesOnline, Tile, V
<1>8. Values({}) = {}
  BY DEF Values
<1> QED BY <1>2, <1>4, <1>5, <1>6, <1>7, <1>8, ScalarValues

LEMMA OwnerNamed ==
  ASSUME IInv, Current
  PROVE  OwnerTile(Scraped) = {owner} \ {NoNode}
<1> DEFINE vec == OfQm(Scraped, "cluster_resource_owner")
<1>1. \A x : x \in vec <=> \E n \in Up \ {cut} : owner # NoNode /\ x = ScrapedAs("pacemaker", OwnerOf(n))
  BY ResourceRows
<1>2. \A n : LET y == ScrapedAs("pacemaker", OwnerOf(n)) IN
               "holder" \in DOMAIN y.labels /\ y.labels["holder"] = owner
  <2> TAKE n
  <2> DEFINE s == OwnerOf(n)
  <2>1. DOMAIN s.labels = {"node", "resource", "holder"} /\ s.labels["holder"] = owner
    BY MetricFields DEF OwnerOf
  <2> HIDE DEF s
  <2>2. LET y == ScrapedAs("pacemaker", s) IN
          "holder" \in DOMAIN y.labels /\ y.labels["holder"] = owner
    BY <2>1, ScrapedFields
  <2> QED BY <2>2 DEF s
<1>3. owner # NoNode => owner \in Up \ {cut}
  BY DEF IInv, Typed, Up
<1>4. OwnerTile(Scraped) = Names(By(vec, {"holder"}, MaxOf), "holder")
  BY DEF OwnerTile
<1> HIDE DEF vec
<1>5. \A x \in vec : "holder" \in DOMAIN x.labels /\ x.labels["holder"] = owner /\ owner # NoNode
  BY <1>1, <1>2
<1>6. Names(By(vec, {"holder"}, MaxOf), "holder") = {x.labels["holder"] : x \in vec}
  BY <1>5, NamesByLabel
<1>7. owner # NoNode => \E x \in vec : x.labels["holder"] = owner
  BY <1>1, <1>3, <1>5
<1> QED BY <1>4, <1>5, <1>6, <1>7

LEMMA RunningShown ==
  ASSUME IInv, Current
  PROVE  Timeline(Scraped).running = IF Up = {} THEN {} ELSE {Flag(owner # NoNode)}
<1> DEFINE vec == OfQm(Scraped, "cluster_resource_started")
           row(n) == ScrapedAs("pacemaker", StartedOf(n))
<1>1. \A x : x \in vec <=> \E n \in Up : x = row(n)
  BY ResourceRows
<1>2. \A n : row(n).value = Flag(n # cut /\ owner # NoNode)
  <2>1. \A n : StartedOf(n).value = Flag(n # cut /\ owner # NoNode)
    BY MetricFields DEF StartedOf
  <2> QED BY <2>1, ScrapedFields, Zenon
<1>3. owner # NoNode => owner \in Up \ {cut}
  BY DEF IInv, Typed, Up
<1>4. Timeline(Scraped).running = Values(By(vec, {}, MaxOf))
  BY DEF Timeline
<1> HIDE DEF vec, row
<1>5. By(vec, {}, MaxOf) = IF vec = {} THEN {} ELSE Scalar(MaxOf(vec))
  BY MaxOfAll
<1>6. \A x \in vec : x.value \in {0, 1}
  BY <1>1, <1>2 DEF Flag
<1>7. ASSUME Up # {} PROVE vec # {} /\ MaxOf(vec) = Flag(owner # NoNode)
  <2>1. PICK n \in Up : TRUE
    BY <1>7
  <2>2. row(n) \in vec
    BY <1>1, <2>1
  <2>3. CASE owner = NoNode
    <3>1. row(n).value = 0 /\ \A x \in vec : x.value \in Int /\ x.value <= 0
      BY <1>1, <1>2, <2>3 DEF Flag
    <3>2. MaxOf(vec) = 0
      BY <2>2, <3>1, MaxIs
    <3> QED BY <2>2, <2>3, <3>2 DEF Flag
  <2>4. CASE owner # NoNode
    <3>1. row(owner) \in vec /\ row(owner).value = 1
      BY <1>1, <1>2, <1>3, <2>4 DEF Flag
    <3>2. \A x \in vec : x.value \in Int /\ x.value <= 1
      BY <1>6
    <3>3. MaxOf(vec) = 1
      BY <3>1, <3>2, MaxIs
    <3> QED BY <2>2, <2>4, <3>3 DEF Flag
  <2> QED BY <2>3, <2>4
<1>8. Up = {} => vec = {}
  BY <1>1
<1>9. Values({}) = {}
  BY DEF Values
<1> QED BY <1>4, <1>5, <1>7, <1>8, <1>9, ScalarValues

LEMMA PrimariesShown ==
  ASSUME IInv, Current
  PROVE  Timeline(Scraped).primary =
           LET count == Cardinality(primary) + IF neighbour THEN 2 ELSE 0 IN {count} \ {0}
<1> DEFINE vec == Where(Samples(Scraped, "cluster_drbd_role"), "role", {"Primary"})
           count == Cardinality(primary) + IF neighbour THEN 2 ELSE 0
<1>1. IsFiniteSet(vec) /\ Cardinality(vec) = count
  BY PrimaryRows
<1>2. Timeline(Scraped).primary = Values(By(vec, {}, CountOf))
  BY DEF Timeline
<1> HIDE DEF vec, count
<1>3. vec = {} => By(vec, {}, CountOf) = {} /\ count = 0
  BY <1>1, CountOfFinite, FS_EmptySet
<1>4. vec # {} => By(vec, {}, CountOf) = Scalar(count) /\ count > 0
  BY <1>1, CountOfFinite
<1>5. Values({}) = {}
  BY DEF Values
<1>6. count \in Nat
  BY <1>1, CountOfFinite
<1>7. Timeline(Scraped).primary = {count} \ {0}
  <2>1. CASE vec = {}
    <3>1. {count} \ {0} = {}
      BY <1>3, <2>1
    <3>2. Timeline(Scraped).primary = {}
      BY <1>2, <1>3, <1>5, <2>1
    <3> QED BY <3>1, <3>2
  <2>2. CASE vec # {}
    <3>1. {count} \ {0} = {count}
      BY <1>4, <1>6, <2>2
    <3>2. Timeline(Scraped).primary = {count}
      BY <1>2, <1>4, <2>2, ScalarValues
    <3> QED BY <3>1, <3>2
  <2> QED BY <2>1, <2>2
<1> QED BY <1>7 DEF count

LEMMA BacklogShown ==
  ASSUME IInv, Current
  PROVE  LET own == {DrbdReport(n).mqlun.out_of_sync_bytes : n \in Storage \ down}
             all == own \cup IF neighbour THEN {8192} ELSE {}
         IN BacklogTile(Scraped) = {v \in all : \A w \in all : w <= v}
<1> DEFINE D == Storage \ down
           own == {DrbdReport(n).mqlun.out_of_sync_bytes : n \in D}
           all == own \cup IF neighbour THEN {8192} ELSE {}
           vec == Samples(Scraped, "cluster_drbd_out_of_sync_bytes")
           other == Metric("cluster_drbd_out_of_sync_bytes", [node |-> "rdqm-a", resource |-> "qmrdqm"], 8192)
<1>1. \A n, s : Series(n, "nothing", s) /\ s.name = "cluster_drbd_out_of_sync_bytes" <=>
                  n \in Storage /\ s = OutOfSyncOf(n)
  BY NamedSeries
<1>2. \A x : x \in Here(Scraped, "cluster_drbd_out_of_sync_bytes") <=>
               \E n \in D : x = ScrapedAs("pacemaker", OutOfSyncOf(n))
  BY <1>1, CurrentRows DEF Hosts
<1>3. \A s : s \in Neighbour /\ s.name = "cluster_drbd_out_of_sync_bytes" <=> s = other
  BY MetricFields DEF Neighbour
<1>4. other.value = 8192
  BY MetricFields
<1> HIDE DEF vec, other
<1>5. \A x : x \in vec <=> \/ \E n \in D : x = ScrapedAs("pacemaker", OutOfSyncOf(n))
                           \/ neighbour /\ x = ScrapedAs("rdqm", other)
  BY <1>2, <1>3, CurrentRows DEF vec
<1>6. \A n : ScrapedAs("pacemaker", OutOfSyncOf(n)).value = DrbdReport(n).mqlun.out_of_sync_bytes
  BY MetricFields, ScrapedFields DEF OutOfSyncOf
<1>7. ScrapedAs("rdqm", other).value = 8192
  BY <1>4, ScrapedFields
<1> DEFINE bytes == [n \in D |-> DrbdReport(n).mqlun.out_of_sync_bytes]
<1>8. own = {bytes[n] : n \in D}
  OBVIOUS
<1>9. IsFiniteSet(D)
  <2>1. D \in SUBSET Storage
    OBVIOUS
  <2> QED BY <2>1, FS_Subset, PacemakerAssumption
<1>10. own \subseteq Int
  BY OutOfSyncOptions
<1> HIDE DEF D, bytes
<1>11. IsFiniteSet(own)
  BY <1>8, <1>9, IndexedFinite
<1>12. Values(vec) = all
  <2>1. \A v : v \in Values(vec) <=> \E x \in vec : v = x.value
    BY DEF Values
  <2>2. \A v : v \in all <=> (\E n \in D : v = DrbdReport(n).mqlun.out_of_sync_bytes)
                             \/ (neighbour /\ v = 8192)
    OBVIOUS
  <2> HIDE DEF all
  <2>3. \A v : v \in Values(vec) <=> v \in all
    BY <1>5, <1>6, <1>7, <2>1, <2>2
  <2> QED BY <2>3
<1> HIDE DEF own
<1>13. IsFiniteSet(all) /\ all \subseteq Int
  <2>1. IsFiniteSet(own \cup {}) /\ IsFiniteSet(own \cup {8192})
    BY <1>11, FS_EmptySet, FS_AddElement
  <2> QED BY <1>10, <2>1
<1>14. BacklogTile(Scraped) = Values(By(vec, {}, MaxOf))
  BY DEF BacklogTile, Tile, vec
<1>15. By(vec, {}, MaxOf) = IF vec = {} THEN {} ELSE Scalar(MaxOf(vec))
  BY MaxOfAll
<1>16. vec = {} <=> all = {}
  BY <1>12 DEF Values
<1>17. Values({}) = {}
  BY DEF Values
<1> HIDE DEF all
<1>18. all # {} => MaxOf(vec) \in all /\ \A v \in all : v <= MaxOf(vec)
  BY <1>12, <1>13, FiniteBounds DEF MaxOf
<1>19. all # {} => {v \in all : \A w \in all : w <= v} = {MaxOf(vec)}
  <2> SUFFICES ASSUME all # {} PROVE {v \in all : \A w \in all : w <= v} = {MaxOf(vec)}
    OBVIOUS
  <2> DEFINE top == MaxOf(vec)
  <2>1. top \in all /\ \A v \in all : v \in Int /\ v <= top
    BY <1>13, <1>18
  <2> HIDE DEF top
  <2>2. \A v \in all : (\A w \in all : w <= v) <=> v = top
    BY <2>1
  <2>3. {v \in all : \A w \in all : w <= v} = {top}
    BY <2>1, <2>2
  <2> QED BY <2>3 DEF top
<1>20. BacklogTile(Scraped) = {v \in all : \A w \in all : w <= v}
  BY <1>14, <1>15, <1>16, <1>17, <1>19, ScalarValues
<1> QED BY <1>20 DEF all, own, D

\* With current reports the tiles name the node that runs the queue manager
\* and count the members that are up, a neighbour's never among them; alone in
\* its Prometheus the cluster has its own Primaries and backlog in them.
THEOREM TilesRight == Spec => []TilesAreRight
<1>1. ASSUME IInv, Current, ~neighbour
      PROVE  /\ Timeline(Scraped).primary = {Cardinality(primary)} \ {0}
             /\ LET own == {DrbdReport(n).mqlun.out_of_sync_bytes : n \in Storage \ down}
                IN BacklogTile(Scraped) = {v \in own : \A w \in own : w <= v}
  <2> DEFINE own == {DrbdReport(n).mqlun.out_of_sync_bytes : n \in Storage \ down}
             all == own \cup IF neighbour THEN {8192} ELSE {}
  <2>1. BacklogTile(Scraped) = {v \in all : \A w \in all : w <= v}
    BY <1>1, BacklogShown
  <2>2. all = own
    BY <1>1
  <2>3. Timeline(Scraped).primary = {Cardinality(primary) + 0} \ {0}
    BY <1>1, PrimariesShown
  <2>4. Cardinality(primary) \in Nat
    BY <1>1, TwoPrimaries
  <2> HIDE DEF own, all
  <2>5. BacklogTile(Scraped) = {v \in own : \A w \in own : w <= v}
    BY <2>1, <2>2
  <2> QED BY <2>3, <2>4, <2>5 DEF own
<1>2. IInv => TilesAreRight
  BY <1>1, OnlineTile, OwnerNamed, RunningShown DEF TilesAreRight
<1> QED BY <1>2, Always, PTL
=============================================================================
