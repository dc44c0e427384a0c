---------------------------- MODULE NativeHaProofs ----------------------------
(***************************************************************************)
(* Theorems about NativeHa: what the collector writes and what the board   *)
(* shows is right, for groups of any size at either site and any number of *)
(* elections, switchovers and failed probes.                               *)
(***************************************************************************)
EXTENDS NativeHa, PromQLTheorems

\* The variables are of their types; TypeOK adds what is in the files.
Typed ==
  /\ up \subseteq Nodes
  /\ live \in BOOLEAN /\ {names.here, names.there} = {"Live", "Recovery"}
  /\ active \in Nodes \cup {NoInstance}
  /\ insync \subseteq Nodes
  /\ recovery \in [connected : BOOLEAN, backlog : {0, 5, Unknown}]
  /\ events \in 0 .. MaxEvents

LEMMA LeaderIsThere == StandbyLeader \in Standby
BY NativeHaAssumption DEF StandbyLeader

LEMMA Sizes ==
  ASSUME Typed
  PROVE  /\ IsFiniteSet(up) /\ IsFiniteSet(Nodes) /\ IsFiniteSet(Standby)
         /\ Cardinality(up) \in Nat /\ Cardinality(Nodes) \in Nat /\ Cardinality(Standby) \in Nat
         /\ Cardinality(Standby) > 0 /\ Cardinality(Nodes) > 0
         /\ Cardinality(up) <= Cardinality(Nodes)
<1>1. up \in SUBSET Nodes
  BY DEF Typed
<1>2. IsFiniteSet(up) /\ Cardinality(up) <= Cardinality(Nodes)
  BY <1>1, FS_Subset, NativeHaAssumption
<1>3. \A S : IsFiniteSet(S) => Cardinality(S) \in Nat /\ (Cardinality(S) = 0 <=> S = {})
  BY FS_CardinalityType, FS_EmptySet
<1> QED BY <1>2, <1>3, NativeHaAssumption

---------------------------------------------------------------------------
(* What a run writes, series by series, for both sites alike.              *)

Site(n) == IF n \in Nodes THEN Nodes ELSE Standby
VotesAt(n) == IF n \in Nodes THEN Votes ELSE StandbyVotes
RoleAt(i) == IF i \in Nodes THEN Role(i)
             ELSE IF i = StandbyLeader THEN Leading(~live) ELSE "Replica"
InSyncAt(i) == i \in Nodes => i \in insync
UpAt(i) == i \in Nodes => i \in up
StatusAt(i) == IF UpAt(i) THEN "Normal" ELSE "Abnormal"

\* The name of the group that has a role.
NameOf(role) == IF (role = "Live") = live THEN names.here ELSE names.there

\* A series about a member.
MemberSeries(name, n, i, value) == Metric(name, [node |-> n, member |-> i], value)

QuorateOf(n, q) == Metric("cluster_quorate", [node |-> n], Flag(q[1] >= q[2] \div 2 + 1))
VotesOf(n, q) == Metric("cluster_nha_quorum", [node |-> n], q[1])
OnlineOf(n, i) == MemberSeries("cluster_node_online", n, i, Flag(RoleAt(i) # "Unknown"))
RoleOf(n, i) == Metric("cluster_nha_role", [node |-> n, member |-> i, role |-> RoleAt(i)], 1)
CodeOf(n, i) == MemberSeries("cluster_nha_role_code", n, i, RoleCode(RoleAt(i)))
InSyncOf(n, i) == MemberSeries("cluster_nha_insync", n, i, Flag(InSyncAt(i)))
StatusOf(n, i) == Metric("cluster_nha_hastatus", [node |-> n, member |-> i, status |-> StatusAt(i)], 1)
NormalOf(n, i) == MemberSeries("cluster_nha_hastatus_ok", n, i, Flag(UpAt(i)))
OwnerOf(n, i) == Metric("cluster_resource_owner", [node |-> n, resource |-> "qm", holder |-> i], 1)
GroupRoleOf(n, role) ==
  Metric("cluster_nha_group_role", [node |-> n, group |-> NameOf(role), role |-> role], 1)
GroupStatusOf(n, role) ==
  Metric("cluster_nha_group_status", [node |-> n, group |-> NameOf(role), status |-> "Normal"], 1)
FacetOf(name, n, value) == Metric(name, [node |-> n, group |-> NameOf("Recovery")], value)
ConnectedOf(n) == FacetOf("cluster_nha_connected", n, Flag(recovery.connected))
GroupInSyncOf(n) == FacetOf("cluster_nha_group_insync", n, Flag(recovery.backlog = 0))
BacklogOf(n) == FacetOf("cluster_nha_group_backlog", n, recovery.backlog)

MemberOf(n, i, s) ==
  \/ s \in {OnlineOf(n, i), RoleOf(n, i), CodeOf(n, i), InSyncOf(n, i), StatusOf(n, i), NormalOf(n, i)}
  \/ RoleAt(i) = "Active" /\ s = OwnerOf(n, i)

\* The series of nativeha_x, and those of nativeha_g.
XSeries(n, q, s) ==
  \/ q # Unknown /\ s \in {QuorateOf(n, q), VotesOf(n, q)}
  \/ \E i \in Site(n) : MemberOf(n, i, s)
GSeries(n, s) ==
  \/ \E role \in {"Live", "Recovery"} : s \in {GroupRoleOf(n, role), GroupStatusOf(n, role)}
  \/ s \in {ConnectedOf(n), GroupInSyncOf(n)}
  \/ recovery.backlog # Unknown /\ s = BacklogOf(n)

\* dspmq's lines about the members of a site.
Summary(q, role) == [quorum |-> q, grprole |-> role]
Line(i) == [instance |-> i, role |-> RoleAt(i), insync |-> IF InSyncAt(i) THEN "yes" ELSE "no",
            hastatus |-> StatusAt(i)]

LEMMA LineFields ==
  ASSUME NEW i, NEW q, NEW role
  PROVE  /\ DOMAIN Line(i) = {"instance", "role", "insync", "hastatus"}
         /\ Line(i).instance = i /\ Line(i).role = RoleAt(i)
         /\ Line(i).insync = "yes" <=> InSyncAt(i)
         /\ Line(i).hastatus = StatusAt(i)
         /\ DOMAIN Summary(q, role) = {"quorum", "grprole"}
         /\ Summary(q, role).quorum = q
<1>1. Line(i).insync = IF InSyncAt(i) THEN "yes" ELSE "no"
  BY DEF Line
<1> QED BY <1>1 DEF Line, Summary

LEMMA RenderedMember ==
  ASSUME NEW n, NEW i, NEW s
  PROVE  s \in RenderInstance(n, Line(i)) <=> MemberOf(n, i, s)
<1> DEFINE st == Line(i)
<1>1. /\ st.instance = i /\ st.role = RoleAt(i) /\ st.hastatus = StatusAt(i)
      /\ Flag(st.insync = "yes") = Flag(InSyncAt(i))
      /\ Flag(st.hastatus = "Normal") = Flag(UpAt(i))
  <2>1. st.insync = "yes" <=> InSyncAt(i)
    BY LineFields
  <2>2. st.hastatus = "Normal" <=> UpAt(i)
    BY LineFields DEF StatusAt
  <2> QED BY <2>1, <2>2, LineFields DEF Flag
<1> HIDE DEF st
<1>2. s \in RenderInstance(n, st) <=>
        \/ s = Metric("cluster_node_online", [node |-> n, member |-> st.instance], Flag(st.role # "Unknown"))
        \/ s = Metric("cluster_nha_role", [node |-> n, member |-> st.instance, role |-> st.role], 1)
        \/ s = Metric("cluster_nha_role_code", [node |-> n, member |-> st.instance], RoleCode(st.role))
        \/ s = Metric("cluster_nha_insync", [node |-> n, member |-> st.instance], Flag(st.insync = "yes"))
        \/ s = Metric("cluster_nha_hastatus", [node |-> n, member |-> st.instance, status |-> st.hastatus], 1)
        \/ s = Metric("cluster_nha_hastatus_ok", [node |-> n, member |-> st.instance], Flag(st.hastatus = "Normal"))
        \/ /\ st.role = "Active"
           /\ s = Metric("cluster_resource_owner", [node |-> n, resource |-> "qm", holder |-> st.instance], 1)
  <2> HIDE DEF Metric, Flag, RoleCode
  <2> QED BY DEF RenderInstance
<1> QED BY <1>1, <1>2, Zenon
        DEF MemberOf, OnlineOf, RoleOf, CodeOf, InSyncOf, StatusOf, NormalOf, OwnerOf, MemberSeries, st

LEMMA RenderedX ==
  ASSUME NEW n, NEW q, NEW role, NEW s
  PROVE  s \in RenderX(n, ParseX({Summary(q, role)} \cup {Line(i) : i \in Site(n)})) <=> XSeries(n, q, s)
<1> DEFINE report == {Summary(q, role)} \cup {Line(i) : i \in Site(n)}
           hax == ParseX(report)
<1>1. \A l : l \in report <=> l = Summary(q, role) \/ \E i \in Site(n) : l = Line(i)
  BY Zenon
<1>2. \A l \in report : Has(l, "quorum") <=> l = Summary(q, role)
  BY <1>1, LineFields DEF Has
<1>3. Summary(q, role) \in report
  BY <1>1
<1> HIDE DEF report, hax
<1>4. (CHOOSE l \in report : Has(l, "quorum")) = Summary(q, role)
  BY <1>2, <1>3
<1>5. hax.summary.quorum = q
  <2>1. hax.summary = CHOOSE l \in report : Has(l, "quorum")
    BY DEF ParseX, hax
  <2>2. Summary(q, role).quorum = q
    BY LineFields
  <2> QED BY <1>4, <2>1, <2>2
<1>6. \A l : l \in hax.instances <=> \E i \in Site(n) : l = Line(i)
  <2>1. hax.instances = {l \in report : ~Has(l, "quorum") /\ Has(l, "instance") /\ Has(l, "role")}
    BY DEF ParseX, hax
  <2>2. \A i : Has(Line(i), "instance") /\ Has(Line(i), "role") /\ ~Has(Line(i), "quorum")
    BY LineFields DEF Has
  <2> QED BY <1>1, <1>2, <1>3, <2>1, <2>2
<1>7. s \in RenderX(n, hax) <=>
        \/ hax.summary.quorum # Unknown /\ s \in {QuorateOf(n, hax.summary.quorum), VotesOf(n, hax.summary.quorum)}
        \/ \E l \in hax.instances : s \in RenderInstance(n, l)
  <2> DEFINE quorum == hax.summary.quorum
  <2>1. s \in RenderX(n, hax) <=>
          \/ s \in IF quorum = Unknown THEN {} ELSE {QuorateOf(n, quorum), VotesOf(n, quorum)}
          \/ s \in UNION {RenderInstance(n, l) : l \in hax.instances}
    BY Zenon DEF RenderX, QuorateOf, VotesOf
  <2> HIDE DEF quorum
  <2>2. s \in UNION {RenderInstance(n, l) : l \in hax.instances} <=>
          \E l \in hax.instances : s \in RenderInstance(n, l)
    BY Zenon
  <2> QED BY <2>1, <2>2 DEF quorum
<1> QED BY <1>5, <1>6, <1>7, RenderedMember DEF XSeries, report, hax

LEMMA ReportsOf ==
  ASSUME Typed, NEW n, NEW q
  PROVE  /\ n \in Nodes =>
              XReport(q) = {Summary(q, GroupRole(live))} \cup {Line(i) : i \in Site(n)}
         /\ n \in Standby =>
              StandbyReport = {Summary(VotesAt(n), GroupRole(~live))} \cup {Line(i) : i \in Site(n)}
<1>1. ASSUME n \in Nodes
      PROVE  XReport(q) = {Summary(q, GroupRole(live))} \cup {Line(i) : i \in Nodes}
  <2>1. \A i \in Nodes :
          Line(i) = [instance |-> i, role |-> Role(i), insync |-> IF i \in insync THEN "yes" ELSE "no",
                     hastatus |-> IF i \in up THEN "Normal" ELSE "Abnormal"]
    BY DEF Line, RoleAt, InSyncAt, StatusAt, UpAt
  <2> QED BY <2>1 DEF XReport, Summary
<1>2. ASSUME n \in Standby
      PROVE  StandbyReport = {Summary(StandbyVotes, GroupRole(~live))} \cup {Line(i) : i \in Standby}
  <2>1. \A i \in Standby :
          Line(i) = [instance |-> i, role |-> IF i = StandbyLeader THEN Leading(~live) ELSE "Replica",
                     insync |-> "yes", hastatus |-> "Normal"]
    BY NativeHaAssumption DEF Line, RoleAt, InSyncAt, StatusAt, UpAt
  <2> QED BY <2>1 DEF StandbyReport, Summary
<1>3. n \in Standby => n \notin Nodes
  BY NativeHaAssumption
<1> QED BY <1>1, <1>2, <1>3 DEF Site, VotesAt

\* The group that is not the recovery group has no facets.
LEMMA ParsedG ==
  ASSUME Typed, NEW g
  PROVE  g \in ParseG(GReport) <=>
           \/ g = [name |-> NameOf("Live"), role |-> "Live", status |-> "Normal",
                   connected |-> Unknown, insync |-> Unknown, backlog |-> Unknown]
           \/ g = [name |-> NameOf("Recovery"), role |-> "Recovery", status |-> "Normal",
                   connected |-> IF recovery.connected THEN "yes" ELSE "no",
                   insync |-> IF recovery.backlog = 0 THEN "yes" ELSE "no",
                   backlog |-> recovery.backlog]
<1> DEFINE a == [grpname |-> NameOf("Live"), grprole |-> "Live", grstatus |-> "Normal"]
           b == [grpname |-> NameOf("Recovery"), grprole |-> "Recovery", grstatus |-> "Normal",
                 conngrp |-> IF recovery.connected THEN "yes" ELSE "no",
                 insync |-> IF recovery.backlog = 0 THEN "yes" ELSE "no",
                 backlog |-> recovery.backlog]
           parsed(l) == [name |-> l.grpname,
                         role |-> Field(l, "grprole", "Unknown"),
                         status |-> Field(l, "grstatus", "Unknown"),
                         connected |-> Yn(l, "conngrp"),
                         insync |-> Yn(l, "insync"),
                         backlog |-> Field(l, "backlog", Unknown)]
<1>1. GReport = {a, b}
  <2>1. NameOf("Live") = IF live THEN names.here ELSE names.there
    BY DEF NameOf, Typed
  <2>2. NameOf("Recovery") = IF live THEN names.there ELSE names.here
    BY DEF NameOf, Typed
  <2> HIDE DEF NameOf
  <2> QED BY <2>1, <2>2 DEF GReport
<1>2. /\ DOMAIN a = {"grpname", "grprole", "grstatus"}
      /\ DOMAIN b = {"grpname", "grprole", "grstatus", "conngrp", "insync", "backlog"}
  OBVIOUS
<1>3. ParseG(GReport) = {parsed(l) : l \in {l \in GReport : Has(l, "grpname") /\ ~Has(l, "quorum")}}
  BY Zenon DEF ParseG
<1>4. {l \in GReport : Has(l, "grpname") /\ ~Has(l, "quorum")} = {a, b}
  <2> HIDE DEF a, b
  <2> QED BY <1>1, <1>2 DEF Has
<1>5. g \in ParseG(GReport) <=> g = parsed(a) \/ g = parsed(b)
  <2> HIDE DEF a, b, parsed
  <2> QED BY <1>3, <1>4
<1>6. parsed(a) = [name |-> NameOf("Live"), role |-> "Live", status |-> "Normal",
                   connected |-> Unknown, insync |-> Unknown, backlog |-> Unknown]
  BY <1>2 DEF Field, Yn, Has
<1>7. parsed(b) = [name |-> NameOf("Recovery"), role |-> "Recovery", status |-> "Normal",
                   connected |-> IF recovery.connected THEN "yes" ELSE "no",
                   insync |-> IF recovery.backlog = 0 THEN "yes" ELSE "no",
                   backlog |-> recovery.backlog]
  BY <1>2 DEF Field, Yn, Has
<1> QED BY <1>5, <1>6, <1>7

LEMMA Facets ==
  /\ \A name, labels, value, s :
       s \in Facet(name, labels, value) <=> value # Unknown /\ s = Metric(name, labels, value)
  /\ \A name, labels, yn, s : yn # Unknown =>
       (s \in YnFacet(name, labels, yn) <=> s = Metric(name, labels, (IF yn = "yes" THEN 1 ELSE 0)))
  /\ \A name, labels, s : s \notin YnFacet(name, labels, Unknown)
<1>1. \A name, labels, value, s :
        s \in Facet(name, labels, value) <=> value # Unknown /\ s = Metric(name, labels, value)
  BY Zenon DEF Facet
<1>2. \A name, labels, s : s \notin YnFacet(name, labels, Unknown)
  BY <1>1 DEF YnFacet
<1>3. ASSUME NEW name, NEW labels, NEW yn, NEW s, yn # Unknown
      PROVE  s \in YnFacet(name, labels, yn) <=> s = Metric(name, labels, (IF yn = "yes" THEN 1 ELSE 0))
  <2>1. (IF yn = "yes" THEN 1 ELSE 0) # Unknown
    BY NativeHaAssumption
  <2> QED BY <1>1, <1>3, <2>1 DEF YnFacet, Flag
<1> QED BY <1>1, <1>2, <1>3

LEMMA RenderedG ==
  ASSUME Typed, NEW n, NEW s
  PROVE  s \in RenderG(n, ParseG(GReport)) <=> GSeries(n, s)
<1> DEFINE a == [name |-> NameOf("Live"), role |-> "Live", status |-> "Normal",
                   connected |-> Unknown, insync |-> Unknown, backlog |-> Unknown]
           b == [name |-> NameOf("Recovery"), role |-> "Recovery", status |-> "Normal",
                   connected |-> IF recovery.connected THEN "yes" ELSE "no",
                   insync |-> IF recovery.backlog = 0 THEN "yes" ELSE "no",
                   backlog |-> recovery.backlog]
           groups == ParseG(GReport)
           series(g) ==
             \/ s = Metric("cluster_nha_group_role", [node |-> n, group |-> g.name, role |-> g.role], 1)
             \/ s = Metric("cluster_nha_group_status", [node |-> n, group |-> g.name, status |-> g.status], 1)
             \/ s \in YnFacet("cluster_nha_connected", [node |-> n, group |-> g.name], g.connected)
             \/ s \in YnFacet("cluster_nha_group_insync", [node |-> n, group |-> g.name], g.insync)
             \/ s \in Facet("cluster_nha_group_backlog", [node |-> n, group |-> g.name], g.backlog)
<1>1. \A g : g \in groups <=> g = a \/ g = b
  BY ParsedG
<1>2. s \in RenderG(n, groups) <=> \E g \in groups : series(g)
  <2> HIDE DEF groups
  <2>1. s \in RenderG(n, groups) <=> \E g \in groups :
          s \in {Metric("cluster_nha_group_role", [node |-> n, group |-> g.name, role |-> g.role], 1),
                 Metric("cluster_nha_group_status", [node |-> n, group |-> g.name, status |-> g.status], 1)}
                \cup YnFacet("cluster_nha_connected", [node |-> n, group |-> g.name], g.connected)
                \cup YnFacet("cluster_nha_group_insync", [node |-> n, group |-> g.name], g.insync)
                \cup Facet("cluster_nha_group_backlog", [node |-> n, group |-> g.name], g.backlog)
    BY Zenon DEF RenderG
  <2> QED BY <2>1
<1>3. s \in RenderG(n, groups) <=> series(a) \/ series(b)
  <2> HIDE DEF groups, a, b, series
  <2> QED BY <1>1, <1>2
<1>4. /\ a.name = NameOf("Live") /\ a.role = "Live" /\ a.status = "Normal"
      /\ a.connected = Unknown /\ a.insync = Unknown /\ a.backlog = Unknown
      /\ b.name = NameOf("Recovery") /\ b.role = "Recovery" /\ b.status = "Normal"
      /\ b.connected = IF recovery.connected THEN "yes" ELSE "no"
      /\ b.insync = IF recovery.backlog = 0 THEN "yes" ELSE "no"
      /\ b.backlog = recovery.backlog
  OBVIOUS
<1> HIDE DEF groups, a, b
<1>5. series(a) <=> s \in {GroupRoleOf(n, "Live"), GroupStatusOf(n, "Live")}
  BY <1>4, Facets DEF GroupRoleOf, GroupStatusOf
<1>6. series(b) <=> \/ s \in {GroupRoleOf(n, "Recovery"), GroupStatusOf(n, "Recovery")}
                    \/ s \in {ConnectedOf(n), GroupInSyncOf(n)}
                    \/ recovery.backlog # Unknown /\ s = BacklogOf(n)
  <2>0. /\ b.connected # Unknown /\ b.insync # Unknown
        /\ (IF b.connected = "yes" THEN 1 ELSE 0) = Flag(recovery.connected)
        /\ (IF b.insync = "yes" THEN 1 ELSE 0) = Flag(recovery.backlog = 0)
    BY <1>4, NativeHaAssumption DEF Flag
  <2>1. s \in YnFacet("cluster_nha_connected", [node |-> n, group |-> b.name], b.connected)
          <=> s = ConnectedOf(n)
    <3>1. s \in YnFacet("cluster_nha_connected", [node |-> n, group |-> b.name], b.connected)
            <=> s = Metric("cluster_nha_connected", [node |-> n, group |-> b.name], IF b.connected = "yes" THEN 1 ELSE 0)
      BY <2>0, Facets
    <3>2. Metric("cluster_nha_connected", [node |-> n, group |-> b.name], IF b.connected = "yes" THEN 1 ELSE 0) = ConnectedOf(n)
      BY <1>4, <2>0, Zenon DEF ConnectedOf, FacetOf
    <3> QED BY <3>1, <3>2
  <2>2. s \in YnFacet("cluster_nha_group_insync", [node |-> n, group |-> b.name], b.insync)
          <=> s = GroupInSyncOf(n)
    <3>1. s \in YnFacet("cluster_nha_group_insync", [node |-> n, group |-> b.name], b.insync)
            <=> s = Metric("cluster_nha_group_insync", [node |-> n, group |-> b.name], IF b.insync = "yes" THEN 1 ELSE 0)
      BY <2>0, Facets
    <3>2. Metric("cluster_nha_group_insync", [node |-> n, group |-> b.name], IF b.insync = "yes" THEN 1 ELSE 0) = GroupInSyncOf(n)
      BY <1>4, <2>0, Zenon DEF GroupInSyncOf, FacetOf
    <3> QED BY <3>1, <3>2
  <2>3. s \in Facet("cluster_nha_group_backlog", [node |-> n, group |-> b.name], b.backlog)
          <=> recovery.backlog # Unknown /\ s = BacklogOf(n)
    BY <1>4, Facets DEF BacklogOf, FacetOf
  <2> QED BY <1>4, <2>1, <2>2, <2>3 DEF GroupRoleOf, GroupStatusOf
<1> QED BY <1>3, <1>5, <1>6 DEF GSeries, groups

\* What a run writes of what it reads, and what the second site's runs do.
LEMMA Written ==
  ASSUME Typed, NEW n, NEW s
  PROVE  /\ \A read \in Readings : n \in Nodes =>
              (s \in Body(n, read.x, read.g) <=>
                 \/ /\ read.x # NoReport
                    /\ \/ s = Fresh(n, "nativeha_x")
                       \/ XSeries(n, IF read.x = XReport(Votes) THEN Votes ELSE Unknown, s)
                 \/ read.g # NoReport /\ (GSeries(n, s) \/ s = Fresh(n, "nativeha_g")))
         /\ n \in Nodes =>
              (s \in Body(n, XReport(Votes), GReport) <=>
                 \/ XSeries(n, VotesAt(n), s) \/ GSeries(n, s)
                 \/ s \in {Fresh(n, "nativeha_x"), Fresh(n, "nativeha_g")})
         /\ n \in Standby =>
              (s \in Body(n, StandbyReport, GReport) <=>
                 \/ XSeries(n, VotesAt(n), s) \/ GSeries(n, s)
                 \/ s \in {Fresh(n, "nativeha_x"), Fresh(n, "nativeha_g")})
<1>1. \A x, g : s \in Body(n, x, g) <=>
        \/ x # NoReport /\ (s \in RenderX(n, ParseX(x)) \/ s = Fresh(n, "nativeha_x"))
        \/ g # NoReport /\ (s \in RenderG(n, ParseG(g)) \/ s = Fresh(n, "nativeha_g"))
  BY DEF Body
<1>2. GReport # NoReport /\ (\A q : XReport(q) # NoReport) /\ StandbyReport # NoReport
  BY DEF GReport, XReport, StandbyReport, NoReport
<1>3. s \in RenderG(n, ParseG(GReport)) <=> GSeries(n, s)
  BY RenderedG
<1>4. \A q : n \in Nodes => (s \in RenderX(n, ParseX(XReport(q))) <=> XSeries(n, q, s))
  BY ReportsOf, RenderedX
<1>5. n \in Standby => (s \in RenderX(n, ParseX(StandbyReport)) <=> XSeries(n, VotesAt(n), s))
  BY ReportsOf, RenderedX
<1>6. \A read \in Readings : /\ read.x \in {XReport(Votes), XReport(Unknown), NoReport}
                             /\ read.g \in {GReport, NoReport}
  BY DEF Readings
<1>7. n \in Nodes => VotesAt(n) = Votes
  BY DEF VotesAt
<1>8. ASSUME NEW read \in Readings, n \in Nodes
      PROVE  s \in Body(n, read.x, read.g) <=>
                 \/ /\ read.x # NoReport
                    /\ \/ s = Fresh(n, "nativeha_x")
                       \/ XSeries(n, IF read.x = XReport(Votes) THEN Votes ELSE Unknown, s)
                 \/ read.g # NoReport /\ (GSeries(n, s) \/ s = Fresh(n, "nativeha_g"))
  <2>1. read.g # NoReport => read.g = GReport
    BY <1>6, <1>8
  <2>2. read.x # NoReport => read.x = XReport(IF read.x = XReport(Votes) THEN Votes ELSE Unknown)
    BY <1>6, <1>8
  <2> QED BY <1>1, <1>3, <1>4, <1>8, <2>1, <2>2, Zenon
<1> QED BY <1>1, <1>2, <1>3, <1>4, <1>5, <1>7, <1>8, Zenon

\* The series under one name.
LEMMA SeriesNames ==
  \A n, q, i, role, source :
    /\ QuorateOf(n, q).name = "cluster_quorate" /\ VotesOf(n, q).name = "cluster_nha_quorum"
    /\ OnlineOf(n, i).name = "cluster_node_online" /\ RoleOf(n, i).name = "cluster_nha_role"
    /\ CodeOf(n, i).name = "cluster_nha_role_code" /\ InSyncOf(n, i).name = "cluster_nha_insync"
    /\ StatusOf(n, i).name = "cluster_nha_hastatus"
    /\ NormalOf(n, i).name = "cluster_nha_hastatus_ok"
    /\ OwnerOf(n, i).name = "cluster_resource_owner"
    /\ GroupRoleOf(n, role).name = "cluster_nha_group_role"
    /\ GroupStatusOf(n, role).name = "cluster_nha_group_status"
    /\ ConnectedOf(n).name = "cluster_nha_connected"
    /\ GroupInSyncOf(n).name = "cluster_nha_group_insync"
    /\ BacklogOf(n).name = "cluster_nha_group_backlog"
    /\ Fresh(n, source).name = "cluster_state_last_write_timestamp"
BY MetricFields DEF QuorateOf, VotesOf, OnlineOf, RoleOf, CodeOf, InSyncOf, StatusOf, NormalOf, OwnerOf,
                    GroupRoleOf, GroupStatusOf, ConnectedOf, GroupInSyncOf, BacklogOf, Fresh,
                    MemberSeries, FacetOf

LEMMA NamedX ==
  ASSUME NEW n, NEW q, NEW s, XSeries(n, q, s)
  PROVE  /\ s.name = "cluster_quorate" <=> q # Unknown /\ s = QuorateOf(n, q)
         /\ s.name = "cluster_nha_quorum" <=> q # Unknown /\ s = VotesOf(n, q)
         /\ s.name = "cluster_node_online" <=> \E i \in Site(n) : s = OnlineOf(n, i)
         /\ s.name = "cluster_nha_role" <=> \E i \in Site(n) : s = RoleOf(n, i)
         /\ s.name = "cluster_nha_role_code" <=> \E i \in Site(n) : s = CodeOf(n, i)
         /\ s.name = "cluster_nha_insync" <=> \E i \in Site(n) : s = InSyncOf(n, i)
         /\ s.name = "cluster_nha_hastatus" <=> \E i \in Site(n) : s = StatusOf(n, i)
         /\ s.name = "cluster_nha_hastatus_ok" <=> \E i \in Site(n) : s = NormalOf(n, i)
         /\ s.name = "cluster_resource_owner" <=>
              \E i \in Site(n) : RoleAt(i) = "Active" /\ s = OwnerOf(n, i)
         /\ s.name \notin {"cluster_nha_group_role", "cluster_nha_group_status", "cluster_nha_connected",
                           "cluster_nha_group_insync", "cluster_nha_group_backlog",
                           "cluster_state_last_write_timestamp"}
BY SeriesNames DEF XSeries, MemberOf

LEMMA NamedG ==
  ASSUME NEW n, NEW s, GSeries(n, s)
  PROVE  /\ s.name = "cluster_nha_group_status" <=>
              \E role \in {"Live", "Recovery"} : s = GroupStatusOf(n, role)
         /\ s.name = "cluster_nha_connected" <=> s = ConnectedOf(n)
         /\ s.name = "cluster_nha_group_insync" <=> s = GroupInSyncOf(n)
         /\ s.name = "cluster_nha_group_backlog" <=> recovery.backlog # Unknown /\ s = BacklogOf(n)
         /\ s.name \in {"cluster_nha_group_role", "cluster_nha_group_status", "cluster_nha_connected",
                        "cluster_nha_group_insync", "cluster_nha_group_backlog"}
BY SeriesNames DEF GSeries

---------------------------------------------------------------------------
(* The inductive invariant.  Beside the types: the leader is an instance   *)
(* that runs; a file holds what the contract names, of its own host; and   *)
(* each source is in the file in full or not at all.                       *)

Sound(n, s) == /\ Emits(NATIVEHA, s)
               /\ s.labels["node"] = n
               /\ s.name = "cluster_nha_role_code" => s.value \in 0 .. 3
               /\ s.name = "cluster_quorate" => s.value \in {0, 1}

IInv == /\ Typed
        /\ active # NoInstance => active \in up
        /\ DOMAIN file = Nodes
        /\ \A n \in Nodes : IsFiniteSet(file[n]) /\ \A s \in file[n] : Sound(n, s)
        /\ SourceAllOrNothing

LEMMA SeriesSound ==
  ASSUME NEW n, NEW q, NEW s,
         \/ XSeries(n, q, s) \/ GSeries(n, s) \/ \E source : s = Fresh(n, source)
  PROVE  Sound(n, s)
<1> USE DEF Sound, Emits, NATIVEHA, Family, Metric
<1>1. CASE XSeries(n, q, s)
  <2>1. (\A role : RoleCode(role) \in 0 .. 3) /\ \A c : Flag(c) \in {0, 1}
    BY DEF RoleCode, Flag
  <2> QED BY <1>1, <2>1 DEF XSeries, MemberOf, QuorateOf, VotesOf, OnlineOf, RoleOf, CodeOf, InSyncOf,
                            StatusOf, NormalOf, OwnerOf, MemberSeries
<1>2. CASE GSeries(n, s)
  BY <1>2 DEF GSeries, GroupRoleOf, GroupStatusOf, ConnectedOf, GroupInSyncOf, BacklogOf, FacetOf
<1>3. CASE \E source : s = Fresh(n, source)
  BY <1>3 DEF Fresh
<1> HIDE DEF Sound, Emits, NATIVEHA, Family, Metric
<1> QED BY <1>1, <1>2, <1>3

LEMMA RunsSound ==
  ASSUME Typed, NEW n \in Nodes, NEW read \in Readings
  PROVE  \A s \in Body(n, read.x, read.g) : Sound(n, s)
<1> TAKE s \in Body(n, read.x, read.g)
<1> DEFINE q == IF read.x = XReport(Votes) THEN Votes ELSE Unknown
<1>1. \/ read.x # NoReport /\ (s = Fresh(n, "nativeha_x") \/ XSeries(n, q, s))
      \/ read.g # NoReport /\ (GSeries(n, s) \/ s = Fresh(n, "nativeha_g"))
  BY Written
<1> HIDE DEF q
<1> QED BY <1>1, SeriesSound

\* What is written of finitely many members is finite.
LEMMA SeriesFinite ==
  ASSUME NEW n, NEW q, NEW S, IsFiniteSet(S), Site(n) = S, NEW body,
         \A s \in body : XSeries(n, q, s) \/ GSeries(n, s) \/ s \in {Fresh(n, "nativeha_x"), Fresh(n, "nativeha_g")}
  PROVE  IsFiniteSet(body)
<1> DEFINE own == {QuorateOf(n, q), VotesOf(n, q), Fresh(n, "nativeha_x"), Fresh(n, "nativeha_g")}
           groups == {GroupRoleOf(n, "Live"), GroupRoleOf(n, "Recovery"), GroupStatusOf(n, "Live"),
                      GroupStatusOf(n, "Recovery"), ConnectedOf(n), GroupInSyncOf(n), BacklogOf(n)}
           of(f) == {f[i] : i \in S}
           f1 == [i \in S |-> OnlineOf(n, i)]
           f2 == [i \in S |-> RoleOf(n, i)]
           f3 == [i \in S |-> CodeOf(n, i)]
           f4 == [i \in S |-> InSyncOf(n, i)]
           f5 == [i \in S |-> StatusOf(n, i)]
           f6 == [i \in S |-> NormalOf(n, i)]
           f7 == [i \in S |-> OwnerOf(n, i)]
           members == of(f1) \cup of(f2) \cup of(f3) \cup of(f4) \cup of(f5) \cup of(f6) \cup of(f7)
<1>1. \A f : IsFiniteSet(of(f))
  BY IndexedFinite
<1>2. IsFiniteSet(own) /\ IsFiniteSet(groups)
  <2> DEFINE Finite(S1) == IsFiniteSet(S1)
  <2>1. (\A a : Finite({a})) /\ \A A, B : Finite(A) /\ Finite(B) => Finite(A \cup B)
    BY FS_Singleton, FS_Union
  <2> HIDE DEF Finite
  <2>2. \A a, b, c, d : Finite({a, b, c, d})
    <3> TAKE a, b, c, d
    <3>1. {a, b, c, d} = ({a} \cup {b}) \cup ({c} \cup {d})
      OBVIOUS
    <3>2. Finite(({a} \cup {b}) \cup ({c} \cup {d}))
      BY <2>1, Zenon
    <3> QED BY <3>1, <3>2
  <2>3. \A a, b, c, d, e, f, g : Finite({a, b, c, d, e, f, g})
    <3> TAKE a, b, c, d, e, f, g
    <3>1. {a, b, c, d, e, f, g} = {a, b, c, d} \cup {e, f, g, g}
      OBVIOUS
    <3>2. Finite({a, b, c, d} \cup {e, f, g, g})
      BY <2>1, <2>2, Zenon
    <3> QED BY <3>1, <3>2
  <2> QED BY <2>2, <2>3 DEF Finite
<1> HIDE DEF of
<1>3. IsFiniteSet(members)
  BY <1>1, FS_Union
<1>4. ASSUME NEW i \in S, NEW s, MemberOf(n, i, s) PROVE s \in members
  <2>1. /\ OnlineOf(n, i) \in of(f1) /\ RoleOf(n, i) \in of(f2) /\ CodeOf(n, i) \in of(f3)
        /\ InSyncOf(n, i) \in of(f4) /\ StatusOf(n, i) \in of(f5) /\ NormalOf(n, i) \in of(f6)
        /\ OwnerOf(n, i) \in of(f7)
    BY Zenon DEF of
  <2> HIDE DEF f1, f2, f3, f4, f5, f6, f7
  <2> QED BY <1>4, <2>1 DEF MemberOf
<1> HIDE DEF members
<1>5. body \subseteq own \cup groups \cup members
  BY <1>4 DEF XSeries, GSeries
<1> HIDE DEF own, groups
<1> QED BY <1>2, <1>3, <1>5, FS_Union, FS_Subset

LEMMA RunsFinite ==
  ASSUME Typed, NEW n, n \in Nodes \cup Standby
  PROVE  /\ n \in Nodes => \A read \in Readings : IsFiniteSet(Body(n, read.x, read.g))
         /\ n \in Standby => IsFiniteSet(Body(n, StandbyReport, GReport))
<1>1. IsFiniteSet(Site(n))
  BY NativeHaAssumption DEF Site
<1>2. ASSUME NEW read \in Readings, n \in Nodes
      PROVE  IsFiniteSet(Body(n, read.x, read.g))
  <2> DEFINE q == IF read.x = XReport(Votes) THEN Votes ELSE Unknown
  <2>1. \A s \in Body(n, read.x, read.g) :
          XSeries(n, q, s) \/ GSeries(n, s) \/ s \in {Fresh(n, "nativeha_x"), Fresh(n, "nativeha_g")}
    BY <1>2, Written
  <2> HIDE DEF q
  <2> QED BY <1>1, <2>1, SeriesFinite
<1>3. ASSUME n \in Standby
      PROVE  IsFiniteSet(Body(n, StandbyReport, GReport))
  <2>1. \A s \in Body(n, StandbyReport, GReport) :
          XSeries(n, VotesAt(n), s) \/ GSeries(n, s) \/ s \in {Fresh(n, "nativeha_x"), Fresh(n, "nativeha_g")}
    BY <1>3, Written
  <2> QED BY <1>1, <2>1, SeriesFinite
<1> QED BY <1>2, <1>3

LEMMA CodeFields ==
  ASSUME NEW n, NEW i
  PROVE  /\ "member" \in DOMAIN CodeOf(n, i).labels /\ CodeOf(n, i).labels["member"] = i
         /\ \A role : GroupStatusOf(n, role).labels["group"] = NameOf(role)
<1>1. \A name, value, j : MemberSeries(name, n, j, value).labels["member"] = j
                          /\ "member" \in DOMAIN MemberSeries(name, n, j, value).labels
  BY MetricFields DEF MemberSeries
<1> QED BY <1>1, MetricFields DEF CodeOf, GroupStatusOf

LEMMA NamesDiffer == Typed => NameOf("Live") # NameOf("Recovery")
BY DEF Typed, NameOf

LEMMA RunsWhole ==
  ASSUME Typed, NEW n \in Nodes, NEW read \in Readings, NEW body, body = Body(n, read.x, read.g)
  PROVE  /\ Stamped(body, n, "nativeha_x") <=> read.x # NoReport
         /\ Stamped(body, n, "nativeha_g") <=> read.g # NoReport
         /\ Cardinality(Rows(body, "cluster_nha_role_code")) =
              IF read.x = NoReport THEN 0 ELSE Cardinality(Nodes)
         /\ Cardinality(Rows(body, "cluster_nha_group_status")) =
              IF read.g = NoReport THEN 0 ELSE 2
<1> DEFINE q == IF read.x = XReport(Votes) THEN Votes ELSE Unknown
<1>1. \A s : s \in body <=>
                 \/ read.x # NoReport /\ (s = Fresh(n, "nativeha_x") \/ XSeries(n, q, s))
                 \/ read.g # NoReport /\ (GSeries(n, s) \/ s = Fresh(n, "nativeha_g"))
  BY Written
<1> HIDE DEF q
<1>2. Fresh(n, "nativeha_x") # Fresh(n, "nativeha_g")
  BY DEF Fresh, Metric
<1>3. \A source : ~XSeries(n, q, Fresh(n, source)) /\ ~GSeries(n, Fresh(n, source))
  BY NamedX, NamedG, SeriesNames
<1>4. \A s : s \in Rows(body, "cluster_nha_role_code") <=>
               read.x # NoReport /\ \E i \in Nodes : s = CodeOf(n, i)
  <2>1. \A i \in Nodes : XSeries(n, q, CodeOf(n, i))
    BY DEF XSeries, MemberOf, Site
  <2> QED BY <1>1, <2>1, NamedX, NamedG, SeriesNames DEF Rows, Site
<1>5. \A s : s \in Rows(body, "cluster_nha_group_status") <=>
               read.g # NoReport /\ \E role \in {"Live", "Recovery"} : s = GroupStatusOf(n, role)
  <2>1. \A role \in {"Live", "Recovery"} : GSeries(n, GroupStatusOf(n, role))
    BY DEF GSeries
  <2> QED BY <1>1, <2>1, NamedX, NamedG, SeriesNames DEF Rows
<1>6. ASSUME read.x # NoReport
      PROVE  Cardinality(Rows(body, "cluster_nha_role_code")) = Cardinality(Nodes)
  <2> DEFINE rows == Rows(body, "cluster_nha_role_code")
             f == [i \in Nodes |-> CodeOf(n, i)]
  <2>1. rows = {f[i] : i \in Nodes}
    BY <1>4, <1>6
  <2>2. \A i, j \in Nodes : f[i] = f[j] => i = j
    <3>1. \A i \in Nodes : f[i].labels["member"] = i
      BY CodeFields
    <3> HIDE DEF f
    <3> QED BY <3>1
  <2> HIDE DEF rows, f
  <2>3. Cardinality({f[i] : i \in Nodes}) = Cardinality(Nodes)
    BY <2>2, IndexedCount, NativeHaAssumption
  <2> QED BY <2>1, <2>3 DEF rows
<1>7. ASSUME read.g # NoReport
      PROVE  Cardinality(Rows(body, "cluster_nha_group_status")) = 2
  <2>1. GroupStatusOf(n, "Live") # GroupStatusOf(n, "Recovery")
    BY CodeFields, NamesDiffer
  <2>2. Rows(body, "cluster_nha_group_status") = {GroupStatusOf(n, "Live"), GroupStatusOf(n, "Recovery")}
    BY <1>5, <1>7
  <2> QED BY <2>1, <2>2, TwoElements
<1>8. /\ read.x = NoReport => Rows(body, "cluster_nha_role_code") = {}
      /\ read.g = NoReport => Rows(body, "cluster_nha_group_status") = {}
  BY <1>4, <1>5
<1>9. Cardinality({}) = 0
  BY FS_EmptySet
<1> QED BY <1>1, <1>2, <1>3, <1>6, <1>7, <1>8, <1>9 DEF Stamped

LEMMA Initially == Init => IInv
<1> SUFFICES ASSUME Init PROVE IInv
  OBVIOUS
<1>1. Typed
  BY NativeHaAssumption DEF Init, Typed
<1>2. \A n \in Nodes : file[n] = {}
  BY DEF Init
<1>3. \A n, source, name : ~Stamped({}, n, source) /\ Cardinality(Rows({}, name)) = 0
  <2>1. \A name : Rows({}, name) = {}
    BY DEF Rows
  <2> QED BY <2>1, FS_EmptySet DEF Stamped
<1>4. SourceAllOrNothing
  BY <1>2, <1>3 DEF SourceAllOrNothing
<1> QED BY <1>1, <1>2, <1>4, FS_EmptySet DEF IInv, Init

LEMMA EventCounted ==
  ASSUME Typed, Event
  PROVE  events' \in 0 .. MaxEvents
BY NativeHaAssumption DEF Typed, Event

\* A change of the group leaves the files, and the invariant, as they are.
LEMMA ChangeKeeps ==
  ASSUME IInv, UNCHANGED file, Event \/ UNCHANGED events,
         up' \subseteq Nodes, live' \in BOOLEAN, {names'.here, names'.there} = {"Live", "Recovery"},
         active' \in Nodes \cup {NoInstance}, insync' \subseteq Nodes,
         recovery' \in [connected : BOOLEAN, backlog : {0, 5, Unknown}],
         active' # NoInstance => active' \in up'
  PROVE  IInv'
<1>1. events' \in 0 .. MaxEvents
  BY EventCounted DEF IInv, Typed
<1> QED BY <1>1 DEF IInv, Typed, Sound, Emits, SourceAllOrNothing

LEMMA Inductive == IInv /\ [Next]_vars => IInv'
<1> SUFFICES ASSUME IInv, [Next]_vars PROVE IInv'
  OBVIOUS
<1> USE DEF IInv, Typed, Change
<1>1. ASSUME NEW i \in Nodes, Crash(i) PROVE IInv'
  BY <1>1, ChangeKeeps DEF Crash
<1>2. ASSUME NEW i \in Nodes, Restart(i) PROVE IInv'
  BY <1>2, ChangeKeeps DEF Restart
<1>3. ASSUME NEW i \in Nodes, Elect(i) PROVE IInv'
  BY <1>3, ChangeKeeps DEF Elect
<1>4. ASSUME NEW i \in Nodes, FallBehind(i) PROVE IInv'
  BY <1>4, ChangeKeeps DEF FallBehind
<1>5. ASSUME NEW i \in Nodes, CatchUp(i) PROVE IInv'
  BY <1>5, ChangeKeeps DEF CatchUp
<1>6. ASSUME NEW i \in Nodes, Collect(i) PROVE IInv'
  <2>1. PICK read \in Readings : file' = [file EXCEPT ![i] = Body(i, read.x, read.g)]
    BY <1>6 DEF Collect
  <2>2. groupVars' = groupVars
    BY <1>6 DEF Collect
  <2>3. events' \in 0 .. MaxEvents
    BY <1>6, EventCounted DEF Collect
  <2>4. DOMAIN file' = Nodes /\ \A n \in Nodes : file'[n] = IF n = i THEN Body(i, read.x, read.g) ELSE file[n]
    BY <2>1
  <2>5. \A s \in Body(i, read.x, read.g) : Sound(i, s)
    BY RunsSound
  <2>6. \A n \in Nodes : IsFiniteSet(file'[n]) /\ \A s \in file'[n] : Sound(n, s)
    <3>1. IsFiniteSet(Body(i, read.x, read.g))
      BY RunsFinite
    <3> QED BY <2>4, <2>5, <3>1
  <2>7. SourceAllOrNothing'
    <3> USE DEF SourceAllOrNothing
    <3>1. ASSUME NEW n \in Nodes, n # i
          PROVE  file'[n] = file[n]
      BY <2>4, <3>1
    <3>2. LET body == Body(i, read.x, read.g) IN
          /\ Stamped(body, i, "nativeha_x") <=> read.x # NoReport
          /\ Stamped(body, i, "nativeha_g") <=> read.g # NoReport
          /\ Cardinality(Rows(body, "cluster_nha_role_code")) =
               IF read.x = NoReport THEN 0 ELSE Cardinality(Nodes)
          /\ Cardinality(Rows(body, "cluster_nha_group_status")) =
               IF read.g = NoReport THEN 0 ELSE 2
      BY RunsWhole
    <3> QED BY <2>4, <3>1, <3>2
  <2> QED BY <2>2, <2>3, <2>4, <2>6, <2>7 DEF groupVars, Sound, Emits
<1>7. CASE Recovery
  BY <1>7, ChangeKeeps DEF Recovery
<1>8. CASE Switch
  BY <1>8, ChangeKeeps DEF Switch
<1>9. CASE UNCHANGED vars
  BY <1>9, ChangeKeeps DEF vars
<1> QED BY <1>1, <1>2, <1>3, <1>4, <1>5, <1>6, <1>7, <1>8, <1>9 DEF Next

LEMMA Always == Spec => []IInv
BY Initially, Inductive, PTL DEF Spec

\* Every variable is of its type, and a textfile holds nothing but families
\* the contract declares for this collector, each with exactly the labels it
\* declares, whatever dspmq knew and whatever the groups did.
THEOREM TypeCorrect == Spec => []TypeOK
<1>1. IInv => TypeOK
  BY DEF IInv, Typed, TypeOK, Sound
<1> QED BY <1>1, Always, PTL

\* A source is in a textfile with its timestamp and one row for each of the
\* instances, or for both groups, or it is not there at all: whatever dspmq
\* did not know, whatever failed, and however large the group.
THEOREM SourcesAreWhole == Spec => []SourceAllOrNothing
<1>1. IInv => SourceAllOrNothing
  BY DEF IInv
<1> QED BY <1>1, Always, PTL

---------------------------------------------------------------------------
(* What the board sees when the reports are current.  The hosts that run   *)
(* report on the instances of their own site.                              *)

Reporters == up \cup Standby
Instances == Nodes \cup Standby

\* The instances somebody reports on.
Shown == {i \in Instances : \E n \in Reporters : i \in Site(n)}

Elsewhere == Sample([node |-> "elsewhere", groups |-> "pacemaker"], 0)

Reported(n, s) == \/ XSeries(n, VotesAt(n), s) \/ GSeries(n, s)
                  \/ s \in {Fresh(n, "nativeha_x"), Fresh(n, "nativeha_g")}

LEMMA Sites ==
  ASSUME Typed
  PROVE  /\ \A n \in Reporters : Site(n) \subseteq Instances /\ VotesAt(n) # Unknown
         /\ \A n \in up : n \in Nodes /\ Site(n) = Nodes /\ VotesAt(n) = Votes
         /\ \A n \in Standby : n \notin Nodes /\ Site(n) = Standby /\ VotesAt(n) = StandbyVotes
         /\ Shown = Standby \cup (IF up = {} THEN {} ELSE Nodes)
         /\ Shown # {}
<1>1. /\ \A n \in up : n \in Nodes /\ Site(n) = Nodes /\ VotesAt(n) = Votes
      /\ \A n \in Standby : n \notin Nodes /\ Site(n) = Standby /\ VotesAt(n) = StandbyVotes
  BY NativeHaAssumption DEF Site, VotesAt, Typed
<1>2. Votes \in Nat \X Nat /\ StandbyVotes \in Nat \X Nat
  BY Sizes DEF Votes, StandbyVotes
<1>3. Votes # Unknown /\ StandbyVotes # Unknown
  BY <1>2, NativeHaAssumption
<1>4. Shown = Standby \cup (IF up = {} THEN {} ELSE Nodes)
  BY <1>1, NativeHaAssumption DEF Shown, Reporters, Instances, Site
<1> QED BY <1>1, <1>3, <1>4, NativeHaAssumption DEF Reporters, Instances

LEMMA CurrentRows ==
  ASSUME IInv, Current, NEW name, NEW x
  PROVE  x \in Samples(Scraped, name) <=>
           \/ \E n \in Reporters : \E s : /\ Reported(n, s) /\ s.name = name
                                          /\ x = ScrapedAs("nativeha", s)
           \/ name = "cluster_quorate" /\ x = Elsewhere
<1> DEFINE other == Metric("cluster_quorate", [node |-> "elsewhere", groups |-> "pacemaker"], 0)
<1>1. \A n \in up : \A s : s \in file[n] <=> Reported(n, s)
  BY Written DEF IInv, Typed, Current, Collected, Reported
<1>2. \A n \in Standby : \A s : s \in Body(n, StandbyReport, GReport) <=> Reported(n, s)
  BY Written DEF IInv, Reported
<1>3. \A t : t \in Scraped <=>
        \/ \E n \in up : \E s \in file[n] : t = InGroup("nativeha", s)
        \/ \E n \in Standby : \E s \in Body(n, StandbyReport, GReport) : t = InGroup("nativeha", s)
        \/ t = other
  <2> DEFINE here == {file[n] : n \in up}
             there == {Body(n, StandbyReport, GReport) : n \in Standby}
  <2>1. \A t : t \in Scraped <=> (\E s \in UNION (here \cup there) : t = InGroup("nativeha", s)) \/ t = other
    BY Zenon DEF Scraped
  <2>2. \A s : s \in UNION (here \cup there) <=>
                 (\E n \in up : s \in file[n]) \/ \E n \in Standby : s \in Body(n, StandbyReport, GReport)
    BY Zenon
  <2> HIDE DEF here, there, other
  <2> QED BY <2>1, <2>2
<1>4. other.name = "cluster_quorate" /\ Sample(other.labels, other.value) = Elsewhere
  BY MetricFields DEF Elsewhere
<1> HIDE DEF other
<1>5. \A t : t \in Scraped <=>
        \/ \E n \in Reporters : \E s : Reported(n, s) /\ t = InGroup("nativeha", s)
        \/ t = other
  BY <1>1, <1>2, <1>3 DEF Reporters
<1>6. x \in Samples(Scraped, name) <=> \E t \in Scraped : t.name = name /\ x = Sample(t.labels, t.value)
  BY SamplesOf
<1>7. ASSUME NEW t, NEW s, t = InGroup("nativeha", s)
      PROVE  (t.name = name /\ x = Sample(t.labels, t.value)) <=> (s.name = name /\ x = ScrapedAs("nativeha", s))
  BY <1>7, ScrapedSample
<1>8. ASSUME NEW t \in Scraped, t.name = name, x = Sample(t.labels, t.value)
      PROVE  \/ \E n \in Reporters : \E s : /\ Reported(n, s) /\ s.name = name
                                            /\ x = ScrapedAs("nativeha", s)
             \/ name = "cluster_quorate" /\ x = Elsewhere
  BY <1>4, <1>5, <1>7, <1>8
<1>9. ASSUME NEW n \in Reporters, NEW s, Reported(n, s), s.name = name, x = ScrapedAs("nativeha", s)
      PROVE  \E t \in Scraped : t.name = name /\ x = Sample(t.labels, t.value)
  BY <1>5, <1>7, <1>9
<1>10. ASSUME name = "cluster_quorate", x = Elsewhere
       PROVE  \E t \in Scraped : t.name = name /\ x = Sample(t.labels, t.value)
  BY <1>4, <1>5, <1>10
<1> QED BY <1>6, <1>8, <1>9, <1>10

\* The samples of each family.
LEMMA FamilyRows ==
  ASSUME IInv, Current, NEW x
  PROVE  /\ x \in Samples(Scraped, "cluster_quorate") <=>
              \/ \E n \in Reporters : x = ScrapedAs("nativeha", QuorateOf(n, VotesAt(n)))
              \/ x = Elsewhere
         /\ x \in Samples(Scraped, "cluster_nha_quorum") <=>
              \E n \in Reporters : x = ScrapedAs("nativeha", VotesOf(n, VotesAt(n)))
         /\ x \in Samples(Scraped, "cluster_node_online") <=>
              \E n \in Reporters : \E i \in Site(n) : x = ScrapedAs("nativeha", OnlineOf(n, i))
         /\ x \in Samples(Scraped, "cluster_nha_role") <=>
              \E n \in Reporters : \E i \in Site(n) : x = ScrapedAs("nativeha", RoleOf(n, i))
         /\ x \in Samples(Scraped, "cluster_nha_role_code") <=>
              \E n \in Reporters : \E i \in Site(n) : x = ScrapedAs("nativeha", CodeOf(n, i))
         /\ x \in Samples(Scraped, "cluster_nha_insync") <=>
              \E n \in Reporters : \E i \in Site(n) : x = ScrapedAs("nativeha", InSyncOf(n, i))
         /\ x \in Samples(Scraped, "cluster_nha_hastatus") <=>
              \E n \in Reporters : \E i \in Site(n) : x = ScrapedAs("nativeha", StatusOf(n, i))
         /\ x \in Samples(Scraped, "cluster_nha_hastatus_ok") <=>
              \E n \in Reporters : \E i \in Site(n) : x = ScrapedAs("nativeha", NormalOf(n, i))
         /\ x \in Samples(Scraped, "cluster_resource_owner") <=>
              \E n \in Reporters : \E i \in Site(n) : RoleAt(i) = "Active" /\ x = ScrapedAs("nativeha", OwnerOf(n, i))
         /\ x \in Samples(Scraped, "cluster_nha_connected") <=>
              \E n \in Reporters : x = ScrapedAs("nativeha", ConnectedOf(n))
         /\ x \in Samples(Scraped, "cluster_nha_group_insync") <=>
              \E n \in Reporters : x = ScrapedAs("nativeha", GroupInSyncOf(n))
         /\ x \in Samples(Scraped, "cluster_nha_group_backlog") <=>
              \E n \in Reporters : recovery.backlog # Unknown /\ x = ScrapedAs("nativeha", BacklogOf(n))
<1>1. \A n \in Reporters : VotesAt(n) # Unknown
  BY Sites DEF IInv
<1>2. ASSUME NEW n \in Reporters, NEW s
      PROVE  /\ Reported(n, s) /\ s.name = "cluster_quorate" <=> s = QuorateOf(n, VotesAt(n))
             /\ Reported(n, s) /\ s.name = "cluster_nha_quorum" <=> s = VotesOf(n, VotesAt(n))
             /\ Reported(n, s) /\ s.name = "cluster_node_online" <=> \E i \in Site(n) : s = OnlineOf(n, i)
             /\ Reported(n, s) /\ s.name = "cluster_nha_role" <=> \E i \in Site(n) : s = RoleOf(n, i)
             /\ Reported(n, s) /\ s.name = "cluster_nha_role_code" <=> \E i \in Site(n) : s = CodeOf(n, i)
             /\ Reported(n, s) /\ s.name = "cluster_nha_insync" <=> \E i \in Site(n) : s = InSyncOf(n, i)
             /\ Reported(n, s) /\ s.name = "cluster_nha_hastatus" <=> \E i \in Site(n) : s = StatusOf(n, i)
             /\ Reported(n, s) /\ s.name = "cluster_nha_hastatus_ok" <=> \E i \in Site(n) : s = NormalOf(n, i)
             /\ Reported(n, s) /\ s.name = "cluster_resource_owner" <=>
                  \E i \in Site(n) : RoleAt(i) = "Active" /\ s = OwnerOf(n, i)
             /\ Reported(n, s) /\ s.name = "cluster_nha_connected" <=> s = ConnectedOf(n)
             /\ Reported(n, s) /\ s.name = "cluster_nha_group_insync" <=> s = GroupInSyncOf(n)
             /\ Reported(n, s) /\ s.name = "cluster_nha_group_backlog" <=>
                  recovery.backlog # Unknown /\ s = BacklogOf(n)
  BY <1>1, SeriesNames DEF Reported, XSeries, MemberOf, GSeries
<1>3. \A name : name # "cluster_quorate" =>
        (x \in Samples(Scraped, name) <=>
           \E n \in Reporters : \E s : Reported(n, s) /\ s.name = name /\ x = ScrapedAs("nativeha", s))
  BY CurrentRows
<1>4. x \in Samples(Scraped, "cluster_quorate") <=>
        \/ \E n \in Reporters : \E s : /\ Reported(n, s) /\ s.name = "cluster_quorate"
                                       /\ x = ScrapedAs("nativeha", s)
        \/ x = Elsewhere
  BY CurrentRows
<1>5. x \in Samples(Scraped, "cluster_quorate") <=>
              \/ \E n \in Reporters : x = ScrapedAs("nativeha", QuorateOf(n, VotesAt(n)))
              \/ x = Elsewhere
  BY <1>2, <1>4
<1> QED BY <1>2, <1>3, <1>5

---------------------------------------------------------------------------
(* Every reporter says the same of a member, so a column of the board is a *)
(* function of the members.                                                *)

IsColumn(name, f) ==
  \A x : x \in Samples(Scraped, name) <=>
           \E n \in Reporters : \E i \in Site(n) : x = ScrapedAs("nativeha", MemberSeries(name, n, i, f[i]))

LEMMA MemberFields ==
  ASSUME NEW name, NEW n, NEW i, NEW value
  PROVE  LET x == ScrapedAs("nativeha", MemberSeries(name, n, i, value)) IN
         "member" \in DOMAIN x.labels /\ x.labels["member"] = i /\ x.value = value
<1> DEFINE s == MemberSeries(name, n, i, value)
<1>1. DOMAIN s.labels = {"node", "member"} /\ s.labels["member"] = i /\ s.value = value
  BY MetricFields DEF MemberSeries
<1> HIDE DEF s
<1>2. LET x == ScrapedAs("nativeha", s) IN
         "member" \in DOMAIN x.labels /\ x.labels["member"] = i /\ x.value = value
  BY <1>1, ScrapedFields
<1> QED BY <1>2 DEF s

LEMMA ColumnRows ==
  ASSUME IInv, Current, NEW name, NEW f, IsColumn(name, f), \A i \in Instances : f[i] \in Int,
         NEW vec, vec = Samples(Scraped, name)
  PROVE  /\ AllHave(vec, "member") /\ RowsOf(vec, "member") = Shown
         /\ IsFiniteSet(vec) /\ IsFiniteSet(Shown)
         /\ \A x \in vec : x.labels["member"] \in Shown /\ x.value = f[x.labels["member"]]
         /\ \A i \in Shown : Group(vec, "member", i) # {} /\ MaxOf(Group(vec, "member", i)) = f[i]
<1> DEFINE row(n, i) == ScrapedAs("nativeha", MemberSeries(name, n, i, f[i]))
           D == Reporters \X Instances
           g == [d \in D |-> row(d[1], d[2])]
<1>1. \A x : x \in vec <=> \E n \in Reporters : \E i \in Site(n) : x = row(n, i)
  BY DEF IsColumn
<1>2. \A n, i : "member" \in DOMAIN row(n, i).labels /\ row(n, i).labels["member"] = i
                /\ row(n, i).value = f[i]
  BY MemberFields
<1>3. \A n \in Reporters : Site(n) \subseteq Instances
  BY Sites DEF IInv
<1>4. IsFiniteSet(Reporters) /\ IsFiniteSet(Instances)
  BY Sizes, FS_Union DEF Reporters, Instances, IInv
<1>5. ASSUME NEW x \in vec PROVE \E d \in D : x = g[d]
  <2>1. PICK n \in Reporters : \E i \in Site(n) : x = row(n, i)
    BY <1>1
  <2>2. PICK i \in Instances : x = row(n, i)
    BY <1>3, <2>1
  <2>3. <<n, i>> \in D /\ g[<<n, i>>] = x
    BY <2>2
  <2> HIDE DEF D, g, row
  <2> QED BY <2>3
<1>6. IsFiniteSet(D)
  BY <1>4, FS_Product
<1> HIDE DEF D, g, row
<1>7. IsFiniteSet(vec)
  BY <1>5, <1>6, CoveredFinite
<1>8. IsFiniteSet(Shown)
  BY <1>4, FS_Subset DEF Shown
<1>9. AllHave(vec, "member")
  BY <1>1, <1>2 DEF AllHave
<1>10. \A i : i \in RowsOf(vec, "member") <=> i \in Shown
  <2>1. \A i : i \in RowsOf(vec, "member") <=> \E x \in vec : i = x.labels["member"]
    BY Zenon DEF RowsOf
  <2> QED BY <1>1, <1>2, <1>3, <2>1 DEF Shown
<1>11. \A x \in vec : x.labels["member"] \in Shown /\ x.value = f[x.labels["member"]]
  BY <1>1, <1>2, <1>3 DEF Shown
<1>12. ASSUME NEW i \in Shown PROVE Group(vec, "member", i) # {} /\ MaxOf(Group(vec, "member", i)) = f[i]
  <2> DEFINE G == Group(vec, "member", i)
  <2>1. PICK n \in Reporters : i \in Site(n)
    BY DEF Shown
  <2>2. row(n, i) \in G
    BY <1>1, <1>2, <2>1 DEF Group
  <2>3. \A x \in G : x.value = f[i]
    BY <1>11 DEF Group
  <2>4. f[i] \in Int
    BY DEF Shown
  <2> HIDE DEF G
  <2>5. MaxOf(G) = f[i]
    <3>1. row(n, i).value = f[i] /\ \A x \in G : x.value \in Int /\ x.value <= f[i]
      BY <2>2, <2>3, <2>4
    <3> QED BY <2>2, <2>4, <3>1, MaxIs
  <2> QED BY <2>2, <2>5 DEF G
<1>13. RowsOf(vec, "member") = Shown
  BY <1>10
<1> QED BY <1>7, <1>8, <1>9, <1>11, <1>12, <1>13

Onlines == [i \in Instances |-> Flag(RoleAt(i) # "Unknown")]
Codes == [i \in Instances |-> RoleCode(RoleAt(i))]
InSyncs == [i \in Instances |-> Flag(InSyncAt(i))]
Normals == [i \in Instances |-> Flag(UpAt(i))]

LEMMA Columns ==
  ASSUME IInv, Current
  PROVE  /\ IsColumn("cluster_node_online", Onlines) /\ IsColumn("cluster_nha_role_code", Codes)
         /\ IsColumn("cluster_nha_insync", InSyncs) /\ IsColumn("cluster_nha_hastatus_ok", Normals)
         /\ \A i \in Instances : /\ Onlines[i] \in Int /\ Codes[i] \in 0 .. 3
                                 /\ InSyncs[i] \in {0, 1} /\ Normals[i] \in {0, 1}
<1>1. \A n \in Reporters : Site(n) \subseteq Instances
  BY Sites DEF IInv
<1>2. \A n, i : i \in Instances =>
        /\ OnlineOf(n, i) = MemberSeries("cluster_node_online", n, i, Onlines[i])
        /\ CodeOf(n, i) = MemberSeries("cluster_nha_role_code", n, i, Codes[i])
        /\ InSyncOf(n, i) = MemberSeries("cluster_nha_insync", n, i, InSyncs[i])
        /\ NormalOf(n, i) = MemberSeries("cluster_nha_hastatus_ok", n, i, Normals[i])
  BY Zenon DEF OnlineOf, CodeOf, InSyncOf, NormalOf, Onlines, Codes, InSyncs, Normals
<1>3. \A x : /\ x \in Samples(Scraped, "cluster_node_online") <=>
                  \E n \in Reporters : \E i \in Site(n) : x = ScrapedAs("nativeha", OnlineOf(n, i))
             /\ x \in Samples(Scraped, "cluster_nha_role_code") <=>
                  \E n \in Reporters : \E i \in Site(n) : x = ScrapedAs("nativeha", CodeOf(n, i))
             /\ x \in Samples(Scraped, "cluster_nha_insync") <=>
                  \E n \in Reporters : \E i \in Site(n) : x = ScrapedAs("nativeha", InSyncOf(n, i))
             /\ x \in Samples(Scraped, "cluster_nha_hastatus_ok") <=>
                  \E n \in Reporters : \E i \in Site(n) : x = ScrapedAs("nativeha", NormalOf(n, i))
  BY FamilyRows
<1>4. \A i \in Instances : /\ Onlines[i] \in Int /\ Codes[i] \in 0 .. 3
                           /\ InSyncs[i] \in {0, 1} /\ Normals[i] \in {0, 1}
  BY DEF Onlines, Codes, InSyncs, Normals, Flag, RoleCode
<1> QED BY <1>1, <1>2, <1>3, <1>4 DEF IsColumn

\* What a cell of a column over one site shows.
LEMMA ColumnCell ==
  ASSUME IInv, Current, NEW name, NEW f, IsColumn(name, f), \A j \in Instances : f[j] \in Int,
         NEW site, NEW i \in Shown \cap site, NEW kind
  PROVE  Color(Column(Where(Samples(Scraped, name), "member", site), "member", kind), i) = ColorOf(kind, f[i])
<1> DEFINE vec == Samples(Scraped, name)
           there == Where(vec, "member", site)
<1>1. Group(vec, "member", i) # {} /\ MaxOf(Group(vec, "member", i)) = f[i]
  BY ColumnRows
<1>2. Group(there, "member", i) = Group(vec, "member", i)
  BY DEF Group, Where
<1> HIDE DEF vec, there
<1>3. Cell(there, "member", i) = {f[i]}
  BY <1>1, <1>2, CellOf
<1>4. Color(Column(there, "member", kind), i) = ColorOf(kind, f[i])
  BY <1>3, ColorOfColumn
<1> QED BY <1>4 DEF there, vec

LEMMA BadgeOf ==
  ASSUME IInv, Current, NEW site, NEW top \in Shown \cap site,
         \A i \in Shown \cap site : Codes[i] <= Codes[top]
  PROVE  SiteBadge(Scraped, site) = {Codes[top]}
<1> DEFINE all == Samples(Scraped, "cluster_nha_role_code")
           vec == Where(all, "member", site)
<1>1. IsColumn("cluster_nha_role_code", Codes) /\ \A i \in Instances : Codes[i] \in Int
  BY Columns
<1>2. /\ AllHave(all, "member")
      /\ \A x \in all : x.labels["member"] \in Shown /\ x.value = Codes[x.labels["member"]]
      /\ Group(all, "member", top) # {}
  BY <1>1, ColumnRows
<1>3. SiteBadge(Scraped, site) = Values(By(vec, {}, MaxOf))
  BY DEF SiteBadge, Tile
<1> HIDE DEF all
<1>4. \A x : x \in vec <=> x \in all /\ x.labels["member"] \in site
  BY <1>2 DEF Where, AllHave
<1>5. PICK x \in all : x.labels["member"] = top
  BY <1>2 DEF Group
<1> HIDE DEF vec
<1>6. x \in vec /\ x.value = Codes[top]
  BY <1>2, <1>4, <1>5
<1>7. \A y \in vec : y.value \in Int /\ y.value <= Codes[top]
  BY <1>1, <1>2, <1>4 DEF Shown
<1>8. Codes[top] \in Int
  BY <1>1 DEF Shown
<1>9. MaxOf(vec) = Codes[top]
  BY <1>6, <1>7, <1>8, MaxIs
<1>10. By(vec, {}, MaxOf) = Scalar(MaxOf(vec))
  BY <1>6, MaxOfAll
<1> QED BY <1>3, <1>9, <1>10, ScalarValues

LEMMA Roles ==
  ASSUME IInv
  PROVE  /\ \A i \in Nodes : Codes[i] = IF i = active THEN (IF live THEN 2 ELSE 3)
                                        ELSE IF i \in up THEN 1 ELSE 0
         /\ \A i \in Nodes : Onlines[i] = Flag(i \in up) /\ Normals[i] = Flag(i \in up)
                             /\ InSyncs[i] = Flag(i \in insync)
         /\ \A i \in Standby : /\ Codes[i] = IF i = StandbyLeader THEN (IF live THEN 3 ELSE 2) ELSE 1
                               /\ InSyncs[i] = 1 /\ Normals[i] = 1
         /\ \A i \in Instances : RoleAt(i) = "Active" <=> i = Holder
         /\ Holder # NoInstance => Holder \in Shown
<1>1. \A here : Leading(here) = IF here THEN "Active" ELSE "Leader"
  BY DEF Leading
<1>2. \A i \in Nodes : RoleAt(i) = IF i = active THEN (IF live THEN "Active" ELSE "Leader")
                                   ELSE IF i \in up THEN "Replica" ELSE "Unknown"
  BY <1>1 DEF RoleAt, Role
<1>3. \A i \in Standby : RoleAt(i) = IF i = StandbyLeader THEN (IF live THEN "Leader" ELSE "Active") ELSE "Replica"
  <2>1. Leading(~live) = IF live THEN "Leader" ELSE "Active"
    BY DEF Leading
  <2> QED BY <2>1, NativeHaAssumption DEF RoleAt
<1>4. active \in up \/ active = NoInstance
  BY DEF IInv
<1>5. StandbyLeader \in Standby /\ NoInstance \notin Nodes \cup Standby /\ Standby \cap Nodes = {}
  BY LeaderIsThere, NativeHaAssumption
<1>6. \A i \in Instances : /\ Onlines[i] = IF RoleAt(i) # "Unknown" THEN 1 ELSE 0
                           /\ Codes[i] = RoleCode(RoleAt(i))
                           /\ InSyncs[i] = IF i \in Nodes => i \in insync THEN 1 ELSE 0
                           /\ Normals[i] = IF i \in Nodes => i \in up THEN 1 ELSE 0
  BY DEF Onlines, Codes, InSyncs, Normals, Flag, InSyncAt, UpAt
<1>7. RoleCode("Active") = 2 /\ RoleCode("Leader") = 3 /\ RoleCode("Replica") = 1 /\ RoleCode("Unknown") = 0
  BY DEF RoleCode
<1>8. \A i \in Nodes : Onlines[i] = IF i \in up THEN 1 ELSE 0
  BY <1>2, <1>4, <1>5, <1>6 DEF Instances
<1>9. Holder = IF live THEN active ELSE StandbyLeader
  BY DEF Holder
<1>10. Holder # NoInstance => Holder \in Shown
  <2>1. Shown = Standby \cup (IF up = {} THEN {} ELSE Nodes)
    BY Sites DEF IInv
  <2> QED BY <1>4, <1>5, <1>9, <2>1 DEF IInv, Typed
<1>11. \A i \in Instances : RoleAt(i) = "Active" <=> i = Holder
  BY <1>2, <1>3, <1>4, <1>5, <1>9 DEF Instances, IInv, Typed
<1> QED BY <1>2, <1>3, <1>5, <1>6, <1>7, <1>8, <1>10, <1>11 DEF Flag, Instances

\* With current reports a site's chip reads LIVE where the queue manager runs
\* and RECOVERY where the replication is applied, through elections and
\* switchovers, and every cell of the matrix is that of its own instance,
\* for sites of any size and any number of reporters.
THEOREM SitesRight == Spec => []SitesAreRight
<1>1. ASSUME IInv, Current, up # {}
      PROVE  LET columns == InstanceColumns(Scraped, Nodes)
    IN /\ SiteBadge(Scraped, Nodes) = {IF active = NoInstance THEN 1 ELSE IF live THEN 2 ELSE 3}
       /\ SiteBadge(Scraped, Standby) = {IF live THEN 3 ELSE 2}
       /\ \A i \in Nodes :
            /\ Color(columns.online, i) = {IF i \in up THEN "green" ELSE "red"}
            /\ Color(columns.normal, i) = {IF i \in up THEN "green" ELSE "red"}
            /\ Color(columns.insync, i) = {IF i \in insync THEN "green" ELSE "red"}
            /\ Color(columns.role, i) = {IF i \notin up THEN "red"
                                         ELSE IF i = active /\ live THEN "green" ELSE "blue"}
  <2>1. Shown = Instances /\ Nodes \subseteq Shown /\ Standby \subseteq Shown
    BY <1>1, Sites DEF IInv, Instances
  <2>2. active \in up \/ active = NoInstance
    BY <1>1 DEF IInv
  <2>3. StandbyLeader \in Standby /\ NoInstance \notin Nodes \cup Standby /\ Standby \cap Nodes = {}
        /\ up \subseteq Nodes
    BY <1>1, LeaderIsThere, NativeHaAssumption DEF IInv, Typed
  <2>4. SiteBadge(Scraped, Nodes) = {IF active = NoInstance THEN 1 ELSE IF live THEN 2 ELSE 3}
    <3>1. PICK k \in up : TRUE
      BY <1>1
    <3> DEFINE top == IF active = NoInstance THEN k ELSE active
    <3>2. top \in Shown \cap Nodes
      BY <2>1, <2>2, <2>3, <3>1
    <3>3. Codes[top] = IF active = NoInstance THEN 1 ELSE IF live THEN 2 ELSE 3
      BY <1>1, <2>2, <2>3, <3>1, Roles
    <3>4. \A i \in Shown \cap Nodes : Codes[i] <= Codes[top]
      BY <1>1, <2>2, <2>3, <3>3, Roles
    <3> HIDE DEF top
    <3> QED BY <1>1, <3>2, <3>3, <3>4, BadgeOf
  <2>5. SiteBadge(Scraped, Standby) = {IF live THEN 3 ELSE 2}
    <3>1. StandbyLeader \in Shown \cap Standby
      BY <2>1, <2>3
    <3>2. Codes[StandbyLeader] = IF live THEN 3 ELSE 2
      BY <1>1, <2>3, Roles
    <3>3. \A i \in Shown \cap Standby : Codes[i] <= Codes[StandbyLeader]
      BY <1>1, <2>3, <3>2, Roles
    <3> QED BY <1>1, <3>1, <3>2, <3>3, BadgeOf
  <2>6. ASSUME NEW i \in Nodes
        PROVE  LET columns == InstanceColumns(Scraped, Nodes) IN
               /\ Color(columns.online, i) = ColorOf("up", Onlines[i])
               /\ Color(columns.role, i) = ColorOf("role", Codes[i])
               /\ Color(columns.insync, i) = ColorOf("up", InSyncs[i])
               /\ Color(columns.normal, i) = ColorOf("up", Normals[i])
    <3> DEFINE column(name, kind) == Column(Where(Samples(Scraped, name), "member", Nodes), "member", kind)
    <3>1. /\ InstanceColumns(Scraped, Nodes).online = column("cluster_node_online", "up")
          /\ InstanceColumns(Scraped, Nodes).role = column("cluster_nha_role_code", "role")
          /\ InstanceColumns(Scraped, Nodes).insync = column("cluster_nha_insync", "up")
          /\ InstanceColumns(Scraped, Nodes).normal = column("cluster_nha_hastatus_ok", "up")
      BY DEF InstanceColumns
    <3>2. i \in Shown \cap Nodes
      BY <2>1
    <3>3. \A j \in Instances : Onlines[j] \in Int /\ Codes[j] \in Int /\ InSyncs[j] \in Int /\ Normals[j] \in Int
      BY <1>1, Columns
    <3>4. Color(column("cluster_node_online", "up"), i) = ColorOf("up", Onlines[i])
      BY <1>1, <3>2, <3>3, Columns, ColumnCell
    <3>5. Color(column("cluster_nha_role_code", "role"), i) = ColorOf("role", Codes[i])
      BY <1>1, <3>2, <3>3, Columns, ColumnCell
    <3>6. Color(column("cluster_nha_insync", "up"), i) = ColorOf("up", InSyncs[i])
      BY <1>1, <3>2, <3>3, Columns, ColumnCell
    <3>7. Color(column("cluster_nha_hastatus_ok", "up"), i) = ColorOf("up", Normals[i])
      BY <1>1, <3>2, <3>3, Columns, ColumnCell
    <3> QED BY <3>1, <3>4, <3>5, <3>6, <3>7
  <2>7. /\ ColorOf("up", 0) = {"red"} /\ ColorOf("up", 1) = {"green"}
        /\ ColorOf("role", 0) = {"red"} /\ ColorOf("role", 1) = {"blue"}
        /\ ColorOf("role", 2) = {"green"} /\ ColorOf("role", 3) = {"blue"}
    BY ColorsOf
  <2>8. \A i \in Nodes : /\ Onlines[i] = IF i \in up THEN 1 ELSE 0
                         /\ Normals[i] = IF i \in up THEN 1 ELSE 0
                         /\ InSyncs[i] = IF i \in insync THEN 1 ELSE 0
                         /\ Codes[i] = IF i = active THEN (IF live THEN 2 ELSE 3)
                                       ELSE IF i \in up THEN 1 ELSE 0
    BY <1>1, Roles DEF Flag
  <2> QED BY <2>2, <2>3, <2>4, <2>5, <2>6, <2>7, <2>8
<1>2. IInv => SitesAreRight
  BY <1>1 DEF SitesAreRight
<1> QED BY <1>2, Always, PTL

---------------------------------------------------------------------------
(* The owner.                                                              *)

LEMMA OwnerFields ==
  ASSUME NEW n, NEW i
  PROVE  LET x == ScrapedAs("nativeha", OwnerOf(n, i)) IN
         /\ {"resource", "holder"} \subseteq DOMAIN x.labels
         /\ x.labels["resource"] = "qm" /\ x.labels["holder"] = i
<1> DEFINE s == OwnerOf(n, i)
<1>1. DOMAIN s.labels = {"node", "resource", "holder"} /\ s.labels["resource"] = "qm" /\ s.labels["holder"] = i
  BY MetricFields DEF OwnerOf
<1> HIDE DEF s
<1>2. LET x == ScrapedAs("nativeha", s) IN
         /\ {"resource", "holder"} \subseteq DOMAIN x.labels
         /\ x.labels["resource"] = "qm" /\ x.labels["holder"] = i
  BY <1>1, ScrapedFields
<1> QED BY <1>2 DEF s

\* One instance at most is reported as the owner: the one that is.
LEMMA OwnerRows ==
  ASSUME IInv, Current
  PROVE  /\ \A x \in Owner(Scraped) : "holder" \in DOMAIN x.labels /\ x.labels["holder"] = Holder
         /\ Owner(Scraped) = {} <=> Holder = NoInstance
<1> DEFINE all == Samples(Scraped, "cluster_resource_owner")
           vec == Owner(Scraped)
<1>1. \A x : x \in all <=> \E n \in Reporters : \E i \in Site(n) :
                             RoleAt(i) = "Active" /\ x = ScrapedAs("nativeha", OwnerOf(n, i))
  BY FamilyRows
<1>2. \A x : x \in vec <=> x \in all /\ "resource" \in DOMAIN x.labels /\ x.labels["resource"] = "qm"
  BY DEF Owner, Where
<1>3. \A n \in Reporters : Site(n) \subseteq Instances
  BY Sites DEF IInv
<1>4. \A i \in Instances : RoleAt(i) = "Active" <=> i = Holder
  BY Roles
<1> HIDE DEF all, vec
<1>5. \A x : x \in vec <=> \E n \in Reporters : Holder \in Site(n) /\ x = ScrapedAs("nativeha", OwnerOf(n, Holder))
  BY <1>1, <1>2, <1>3, <1>4, OwnerFields
<1>6. Holder # NoInstance => \E n \in Reporters : Holder \in Site(n)
  BY Roles DEF Shown
<1>7. NoInstance \notin Instances
  BY NativeHaAssumption DEF Instances
<1> QED BY <1>3, <1>5, <1>6, <1>7, OwnerFields DEF vec

\* absent() keeps the label of its selector, so it pairs with no number.
LEMMA AbsentDropped ==
  ASSUME NEW c, NEW vec, NEW fixed, DOMAIN fixed # {}
  PROVE  Plus(Scalar(c), Or(Absent(vec, fixed), Scalar(0))) = Scalar(c + 0)
<1> DEFINE b == Or(Absent(vec, fixed), Scalar(0))
           x == Sample(NoLabels, c)
           z == Sample(NoLabels, 0)
<1>1. fixed # NoLabels
  BY DEF NoLabels
<1>2. x.labels = NoLabels /\ x.value = c /\ z.labels = NoLabels /\ z.value = 0
      /\ Sample(fixed, 1).labels = fixed
  BY SampleFields
<1>3. Scalar(c) = {x} /\ Scalar(0) = {z}
  BY DEF Scalar
<1> HIDE DEF x, z
<1>4. \A y : y \in b /\ y.labels = NoLabels <=> y = z
  <2>1. Absent(vec, fixed) = {} \/ Absent(vec, fixed) = {Sample(fixed, 1)}
    BY DEF Absent
  <2>2. \A a : \A y : y \in Or(a, {z}) <=> y \in a \/ (y = z /\ \A w \in a : w.labels # z.labels)
    BY DEF Or
  <2> QED BY <1>1, <1>2, <1>3, <2>1, <2>2
<1> HIDE DEF b
<1>5. \A s : s \in Plus({x}, b) <=> s = Sample(NoLabels, c + 0)
  <2>1. \A s : s \in Plus({x}, b) <=>
                 \E w \in {x} : \E y \in b : y.labels = w.labels /\ s = Sample(w.labels, w.value + y.value)
    <3> DEFINE of(w) == {Sample(w.labels, w.value + y.value) : y \in {v \in b : v.labels = w.labels}}
    <3>1. \A s : s \in Plus({x}, b) <=> \E w \in {x} : s \in of(w)
      BY Zenon DEF Plus
    <3>2. \A w, s : s \in of(w) <=> \E y \in b : y.labels = w.labels /\ s = Sample(w.labels, w.value + y.value)
      BY Zenon
    <3> HIDE DEF of
    <3> QED BY <3>1, <3>2
  <2>2. \A s : s \in Plus({x}, b) <=> \E y \in b : y.labels = NoLabels /\ s = Sample(NoLabels, c + y.value)
    <3>1. \A s : s \in Plus({x}, b) <=> \E y \in b : y.labels = x.labels /\ s = Sample(x.labels, x.value + y.value)
      BY <2>1, Zenon
    <3> QED BY <1>2, <3>1
  <2>3. z \in b /\ z.labels = NoLabels /\ \A y \in b : y.labels = NoLabels => y = z
    BY <1>4
  <2> QED BY <1>2, <2>2, <2>3, Zenon
<1>6. Plus({x}, b) = {Sample(NoLabels, c + 0)}
  BY <1>5, Zenon
<1> QED BY <1>3, <1>6, Zenon DEF b, Scalar

LEMMA QuorumIsMajority ==
  ASSUME Typed
  PROVE  /\ \A n \in up : Flag(VotesAt(n)[1] >= VotesAt(n)[2] \div 2 + 1) = Flag(Quorate)
         /\ \A n \in Standby : Flag(VotesAt(n)[1] >= VotesAt(n)[2] \div 2 + 1) = 1
<1> DEFINE u == Cardinality(up)
           k == Cardinality(Nodes)
           b == Cardinality(Standby)
<1>1. u \in Nat /\ k \in Nat /\ b \in Nat /\ b > 0
  BY Sizes
<1>2. Votes = <<u, k>> /\ StandbyVotes = <<b, b>> /\ Quorate = (2 * u > k)
  BY DEF Votes, StandbyVotes, Quorate
<1>3. /\ \A n \in up : VotesAt(n)[1] = u /\ VotesAt(n)[2] = k
      /\ \A n \in Standby : VotesAt(n)[1] = b /\ VotesAt(n)[2] = b
  BY <1>2, Sites
<1> HIDE DEF u, k, b
<1>4. u >= k \div 2 + 1 <=> 2 * u > k
  BY <1>1
<1>5. b >= b \div 2 + 1
  BY <1>1
<1> QED BY <1>2, <1>3, <1>4, <1>5 DEF Flag

\* The least of the quorum flags is the first site's.
LEMMA QuorateLeast ==
  ASSUME IInv, Current, up # {}
  PROVE  By(QuorateHere(Scraped), {}, MinOf) = Scalar(Flag(Quorate))
<1> DEFINE vec == QuorateHere(Scraped)
           row(n) == ScrapedAs("nativeha", QuorateOf(n, VotesAt(n)))
<1>1. \A n : row(n).value = Flag(VotesAt(n)[1] >= VotesAt(n)[2] \div 2 + 1)
             /\ "groups" \in DOMAIN row(n).labels /\ row(n).labels["groups"] = "nativeha"
  <2>1. \A n : QuorateOf(n, VotesAt(n)).value = Flag(VotesAt(n)[1] >= VotesAt(n)[2] \div 2 + 1)
    BY MetricFields DEF QuorateOf
  <2>2. \A n : row(n).value = QuorateOf(n, VotesAt(n)).value
    BY ScrapedFields
  <2>3. \A n : "groups" \in DOMAIN row(n).labels /\ row(n).labels["groups"] = "nativeha"
    BY ScrapedFields
  <2> QED BY <2>1, <2>2, <2>3, Zenon
<1>2. Elsewhere.labels["groups"] = "pacemaker"
  BY SampleFields DEF Elsewhere
<1>3. \A x : x \in Samples(Scraped, "cluster_quorate") <=> (\E n \in Reporters : x = row(n)) \/ x = Elsewhere
  BY FamilyRows
<1>4. \A x : x \in vec <=> /\ x \in Samples(Scraped, "cluster_quorate")
                           /\ "groups" \in DOMAIN x.labels /\ x.labels["groups"] = "nativeha"
  BY DEF QuorateHere, Where
<1> HIDE DEF vec, row
<1>5. \A x : x \in vec <=> \E n \in Reporters : x = row(n)
  BY <1>1, <1>2, <1>3, <1>4
<1>6. /\ \A n \in up : row(n).value = Flag(Quorate)
      /\ \A n \in Standby : row(n).value = 1
  BY <1>1, QuorumIsMajority DEF IInv
<1>7. PICK n \in up : TRUE
  BY up # {}
<1>8. row(n) \in vec /\ row(n).value = Flag(Quorate)
  BY <1>5, <1>6, <1>7 DEF Reporters
<1>9. Flag(Quorate) \in {0, 1}
  BY DEF Flag
<1>10. \A x \in vec : x.value \in Int /\ Flag(Quorate) <= x.value
  BY <1>5, <1>6, <1>9 DEF Reporters
<1>11. MinOf(vec) = Flag(Quorate)
  BY <1>8, <1>9, <1>10, MinIs
<1> QED BY <1>8, <1>11, MinOfAll DEF vec

LEMMA RoleFields ==
  ASSUME NEW n, NEW i
  PROVE  LET x == ScrapedAs("nativeha", RoleOf(n, i)) IN
         /\ {"member", "role"} \subseteq DOMAIN x.labels
         /\ x.labels["member"] = i /\ x.labels["role"] = RoleAt(i) /\ x.value = 1
<1> DEFINE s == RoleOf(n, i)
<1>1. DOMAIN s.labels = {"node", "member", "role"} /\ s.labels["member"] = i
      /\ s.labels["role"] = RoleAt(i) /\ s.value = 1
  BY MetricFields DEF RoleOf
<1> HIDE DEF s
<1>2. LET x == ScrapedAs("nativeha", s) IN
         /\ {"member", "role"} \subseteq DOMAIN x.labels
         /\ x.labels["member"] = i /\ x.labels["role"] = RoleAt(i) /\ x.value = 1
  BY <1>1, ScrapedFields
<1> QED BY <1>2 DEF s

LEMMA RolesCounted ==
  ASSUME IInv, Current
  PROVE  Above(By(Samples(Scraped, "cluster_nha_role"), {}, CountOf), 0) # {}
<1> DEFINE vec == Samples(Scraped, "cluster_nha_role")
           D == Reporters \X Instances
           f == [d \in D |-> ScrapedAs("nativeha", RoleOf(d[1], d[2]))]
<1>1. \A x : x \in vec <=>
        \E n \in Reporters : \E i \in Site(n) : x = ScrapedAs("nativeha", RoleOf(n, i))
  BY FamilyRows
<1>2. \A n \in Reporters : Site(n) \subseteq Instances
  BY Sites DEF IInv
<1>3. ASSUME NEW x \in vec PROVE \E d \in D : x = f[d]
  <2>1. PICK n \in Reporters, i \in Instances : x = ScrapedAs("nativeha", RoleOf(n, i))
    BY <1>1, <1>2
  <2>2. <<n, i>> \in D /\ f[<<n, i>>] = x
    BY <2>1
  <2> HIDE DEF D, f
  <2> QED BY <2>2
<1>4. IsFiniteSet(D)
  BY Sizes, FS_Union, FS_Product DEF Reporters, Instances, IInv
<1>5. vec # {}
  <2>1. StandbyLeader \in Reporters /\ StandbyLeader \in Site(StandbyLeader)
    BY LeaderIsThere, Sites DEF Reporters, IInv
  <2> QED BY <1>1, <2>1
<1> HIDE DEF vec, D, f
<1>6. IsFiniteSet(vec)
  BY <1>3, <1>4, CoveredFinite
<1> QED BY <1>5, <1>6, CountOfFinite DEF vec

\* The light adds up what it finds: red if the least quorum flag is 0 or some
\* instance is reported out of sync.
LEMMA LightOfParts ==
  ASSUME NEW low \in {0, 1}, By(QuorateHere(Scraped), {}, MinOf) = Scalar(low),
         IsFiniteSet(Equals(Samples(Scraped, "cluster_nha_insync"), 0)),
         Above(By(Samples(Scraped, "cluster_nha_role"), {}, CountOf), 0) # {}
  PROVE  Light = IF low = 0 \/ Equals(Samples(Scraped, "cluster_nha_insync"), 0) # {}
                 THEN "HAZARD" ELSE "OK"
<1> DEFINE least == By(QuorateHere(Scraped), {}, MinOf)
           owner == Or(Absent(Owner(Scraped), [resource |-> "qm"]), Scalar(0))
           behind == Equals(Samples(Scraped, "cluster_nha_insync"), 0)
           count == By(behind, {}, CountOf)
           gate == Above(By(Samples(Scraped, "cluster_nha_role"), {}, CountOf), 0)
           lost == IF low = 0 THEN 1 ELSE 0
           many == Cardinality(behind)
<1>1. Light = LightOf(AndOn(Plus(Plus(EqualsBool(least, 0), owner), Or(count, Scalar(0))), gate))
  BY DEF Light, IntegrityExpr
<1>2. EqualsBool(least, 0) = Scalar(lost)
  BY ScalarCompare
<1>3. Plus(Scalar(lost), owner) = Scalar(lost + 0)
  <2>1. DOMAIN [resource |-> "qm"] # {}
    OBVIOUS
  <2> HIDE DEF lost
  <2> QED BY <2>1, AbsentDropped
<1>4. IsFiniteSet(behind) /\ gate # {}
  OBVIOUS
<1>5. lost \in {0, 1} /\ (lost = 1 <=> low = 0)
  OBVIOUS
<1> HIDE DEF least, owner, behind, gate, lost
<1>6. many \in Nat /\ (many > 0 <=> behind # {})
  BY <1>4, CountOfFinite, FS_EmptySet
<1>7. Or(count, Scalar(0)) = Scalar(many)
  <2>1. behind = {} => count = {} /\ many = 0
    BY <1>4, CountOfFinite, FS_EmptySet
  <2>2. behind # {} => count = Scalar(many)
    BY <1>4, CountOfFinite
  <2> HIDE DEF count, many
  <2> QED BY <2>1, <2>2, ScalarOr
<1> HIDE DEF count, many
<1>8. Plus(Scalar(lost + 0), Scalar(many)) = Scalar(lost + 0 + many)
  BY ScalarPlus
<1>9. AndOn(Scalar(lost + 0 + many), gate) = Scalar(lost + 0 + many)
  BY <1>4, AndOnSides
<1>10. Light = LightOf(Scalar(lost + 0 + many))
  BY <1>1, <1>2, <1>3, <1>7, <1>8, <1>9
<1> DEFINE sum == lost + 0 + many
<1>11. sum \in Int /\ (sum > 0 <=> lost = 1 \/ many > 0) /\ Light = LightOf(Scalar(sum))
  BY <1>5, <1>6, <1>10
<1> HIDE DEF sum
<1>12. Light = IF sum > 0 THEN "HAZARD" ELSE "OK"
  BY <1>11, ScalarLight
<1> QED BY <1>5, <1>6, <1>11, <1>12 DEF behind

---------------------------------------------------------------------------
(* What the board sees while only some of the files are current.           *)

\* Every sample comes from a host's file, or from the other arm.
LEMMA MixedRows ==
  ASSUME IInv, NEW name, NEW x
  PROVE  x \in Samples(Scraped, name) <=>
           \/ \E n \in up : \E s \in file[n] : s.name = name /\ x = ScrapedAs("nativeha", s)
           \/ \E n \in Standby : \E s \in Body(n, StandbyReport, GReport) :
                s.name = name /\ x = ScrapedAs("nativeha", s)
           \/ name = "cluster_quorate" /\ x = Elsewhere
<1> DEFINE other == Metric("cluster_quorate", [node |-> "elsewhere", groups |-> "pacemaker"], 0)
           here == {file[n] : n \in up}
           there == {Body(n, StandbyReport, GReport) : n \in Standby}
<1>1. \A t : t \in Scraped <=> (\E s \in UNION (here \cup there) : t = InGroup("nativeha", s)) \/ t = other
  BY Zenon DEF Scraped
<1>2. \A s : s \in UNION (here \cup there) <=>
               (\E n \in up : s \in file[n]) \/ \E n \in Standby : s \in Body(n, StandbyReport, GReport)
  BY Zenon
<1>3. other.name = "cluster_quorate" /\ Sample(other.labels, other.value) = Elsewhere
  BY MetricFields DEF Elsewhere
<1> HIDE DEF here, there, other
<1>4. x \in Samples(Scraped, name) <=> \E t \in Scraped : t.name = name /\ x = Sample(t.labels, t.value)
  BY SamplesOf
<1>5. \A s : LET t == InGroup("nativeha", s) IN
        t.name = name /\ x = Sample(t.labels, t.value) <=> s.name = name /\ x = ScrapedAs("nativeha", s)
  BY ScrapedSample
<1>6. x \in Samples(Scraped, name) <=>
        \/ \E s \in UNION (here \cup there) : s.name = name /\ x = ScrapedAs("nativeha", s)
        \/ name = "cluster_quorate" /\ x = Elsewhere
  BY <1>1, <1>3, <1>4, <1>5
<1> QED BY <1>2, <1>6

LEMMA MixedFinite ==
  ASSUME IInv, NEW name
  PROVE  IsFiniteSet(Samples(Scraped, name))
<1> DEFINE here == {file[n] : n \in up}
           there == {Body(n, StandbyReport, GReport) : n \in Standby}
           all == UNION (here \cup there)
           f == [s \in all |-> ScrapedAs("nativeha", s)]
<1>1. IsFiniteSet(here) /\ IsFiniteSet(there)
  <2> DEFINE g == [n \in up |-> file[n]]
             k == [n \in Standby |-> Body(n, StandbyReport, GReport)]
  <2>1. here = {g[n] : n \in up} /\ there = {k[n] : n \in Standby}
    OBVIOUS
  <2>2. IsFiniteSet(up) /\ IsFiniteSet(Standby)
    BY Sizes DEF IInv
  <2> HIDE DEF here, there, g, k
  <2> QED BY <2>1, <2>2, IndexedFinite
<1>2. \A S \in here \cup there : IsFiniteSet(S)
  <2>1. \A n \in up : IsFiniteSet(file[n])
    BY DEF IInv, Typed
  <2>2. \A n \in Standby : IsFiniteSet(Body(n, StandbyReport, GReport))
    BY RunsFinite DEF IInv
  <2> QED BY <2>1, <2>2, Zenon
<1>3. IsFiniteSet(all)
  <2>1. IsFiniteSet(here \cup there)
    BY <1>1, FS_Union
  <2> HIDE DEF here, there
  <2> QED BY <1>2, <2>1, FS_UNION
<1>4. \A x \in Samples(Scraped, name) : x = Elsewhere \/ \E s \in all : x = f[s]
  <2>1. \A s : s \in all <=> (\E n \in up : s \in file[n])
                             \/ \E n \in Standby : s \in Body(n, StandbyReport, GReport)
    BY Zenon
  <2> HIDE DEF all
  <2> QED BY <2>1, MixedRows
<1> DEFINE image == {f[s] : s \in all}
<1>5. \A x \in Samples(Scraped, name) : x \in image \cup {Elsewhere}
  BY <1>4, Zenon
<1>6. IsFiniteSet(image)
  <2> HIDE DEF all, f
  <2> QED BY <1>3, IndexedFinite
<1> HIDE DEF image
<1>7. IsFiniteSet(image \cup {Elsewhere})
  BY <1>6, FS_Union, FS_Singleton
<1> QED BY <1>5, <1>7, FS_Subset

\* One file that is current is enough for its site's lost quorum and its
\* site's instances out of sync to be found.
LEMMA OneReportShows ==
  ASSUME IInv, NEW n \in up, Collected(n), ~Quorate \/ insync # Nodes
  PROVE  Light = "HAZARD"
<1> DEFINE vec == QuorateHere(Scraped)
           insyncs == Samples(Scraped, "cluster_nha_insync")
           roles == Samples(Scraped, "cluster_nha_role")
           behind == Equals(insyncs, 0)
           row == ScrapedAs("nativeha", QuorateOf(n, VotesAt(n)))
<1>1. \A s : s \in file[n] <=> Reported(n, s)
  BY Written DEF IInv, Typed, Collected, Reported
<1>2. n \in Nodes /\ Site(n) = Nodes /\ VotesAt(n) # Unknown
  BY Sites DEF IInv, Reporters
<1>3. /\ Reported(n, QuorateOf(n, VotesAt(n)))
      /\ \A i \in Nodes : Reported(n, RoleOf(n, i)) /\ Reported(n, InSyncOf(n, i))
  BY <1>2 DEF Reported, XSeries, MemberOf
<1>4. /\ row \in Samples(Scraped, "cluster_quorate")
      /\ \A i \in Nodes : ScrapedAs("nativeha", RoleOf(n, i)) \in roles
      /\ \A i \in Nodes : ScrapedAs("nativeha", InSyncOf(n, i)) \in insyncs
  <2>1. \A s, name : Reported(n, s) /\ s.name = name => ScrapedAs("nativeha", s) \in Samples(Scraped, name)
    BY <1>1, MixedRows
  <2> QED BY <1>3, <2>1, SeriesNames
<1>5. \A s : LET x == ScrapedAs("nativeha", s) IN
        x.value = s.value /\ "groups" \in DOMAIN x.labels /\ x.labels["groups"] = "nativeha"
  BY ScrapedFields
<1>6. Elsewhere.labels["groups"] = "pacemaker"
  BY SampleFields DEF Elsewhere
<1>7. \A x : x \in vec <=> /\ x \in Samples(Scraped, "cluster_quorate")
                           /\ "groups" \in DOMAIN x.labels /\ x.labels["groups"] = "nativeha"
  BY DEF QuorateHere, Where
<1> HIDE DEF vec
<1>8. row \in vec /\ row.value = Flag(Quorate)
  <2>1. QuorateOf(n, VotesAt(n)).value = Flag(VotesAt(n)[1] >= VotesAt(n)[2] \div 2 + 1)
    BY MetricFields DEF QuorateOf
  <2>2. Flag(VotesAt(n)[1] >= VotesAt(n)[2] \div 2 + 1) = Flag(Quorate)
    BY QuorumIsMajority DEF IInv
  <2>3. row.value = QuorateOf(n, VotesAt(n)).value
    BY <1>5
  <2> QED BY <1>4, <1>5, <1>7, <2>1, <2>2, <2>3
<1>9. \A x \in vec : x.value \in {0, 1}
  <2>1. \A m \in up : \A s \in file[m] : s.name = "cluster_quorate" => s.value \in {0, 1}
    BY DEF IInv, Typed, Sound
  <2>2. \A m \in Standby : \A s \in Body(m, StandbyReport, GReport) : Sound(m, s)
    <3> TAKE m \in Standby
    <3> TAKE s \in Body(m, StandbyReport, GReport)
    <3>1. XSeries(m, VotesAt(m), s) \/ GSeries(m, s)
          \/ s \in {Fresh(m, "nativeha_x"), Fresh(m, "nativeha_g")}
      BY Written DEF IInv
    <3> QED BY <3>1, SeriesSound
  <2>3. \A m \in Standby : \A s \in Body(m, StandbyReport, GReport) :
          s.name = "cluster_quorate" => s.value \in {0, 1}
    BY <2>2 DEF Sound
  <2> SUFFICES ASSUME NEW x \in vec PROVE x.value \in {0, 1}
    OBVIOUS
  <2>4. \E s : x = ScrapedAs("nativeha", s) /\ s.value \in {0, 1}
    BY <1>6, <1>7, <2>1, <2>3, MixedRows
  <2> QED BY <1>5, <2>4
<1>10. MinOf(vec) \in {0, 1} /\ (~Quorate => MinOf(vec) = 0)
  <2>1. CASE \E x \in vec : x.value = 0
    <3>1. PICK x \in vec : x.value = 0
      BY <2>1
    <3>2. \A y \in vec : y.value \in Int /\ 0 <= y.value
      BY <1>9
    <3> QED BY <3>1, <3>2, MinIs
  <2>2. CASE ~\E x \in vec : x.value = 0
    <3>1. \A y \in vec : y.value = 1
      BY <1>9, <2>2
    <3>2. Quorate
      BY <1>8, <3>1 DEF Flag
    <3>3. row.value = 1 /\ \A y \in vec : y.value \in Int /\ 1 <= y.value
      BY <1>8, <3>1
    <3>4. MinOf(vec) = 1
      BY <1>8, <3>3, MinIs
    <3> QED BY <3>2, <3>4
  <2> QED BY <2>1, <2>2
<1>11. By(vec, {}, MinOf) = Scalar(MinOf(vec))
  BY <1>8, MinOfAll
<1>12. IsFiniteSet(behind) /\ (insync # Nodes => behind # {})
  <2>1. IsFiniteSet(insyncs)
    BY MixedFinite
  <2>2. \A x : x \in behind <=> x \in insyncs /\ x.value = 0
    BY DEF Equals
  <2>3. \A i \in Nodes \ insync : ScrapedAs("nativeha", InSyncOf(n, i)).value = 0
    <3>1. \A i \in Nodes \ insync : InSyncOf(n, i).value = 0
      BY MetricFields DEF InSyncOf, MemberSeries, InSyncAt, Flag
    <3> QED BY <1>5, <3>1
  <2>4. insync \subseteq Nodes
    BY DEF IInv, Typed
  <2> HIDE DEF insyncs, behind
  <2>5. behind \subseteq insyncs
    BY <2>2
  <2>6. ASSUME insync # Nodes PROVE behind # {}
    <3>1. PICK i \in Nodes : i \notin insync
      BY <2>4, <2>6
    <3>2. ScrapedAs("nativeha", InSyncOf(n, i)) \in insyncs
      BY <1>4 DEF insyncs
    <3> QED BY <2>2, <2>3, <3>1, <3>2
  <2> QED BY <2>1, <2>5, <2>6, FS_Subset
<1>13. Above(By(roles, {}, CountOf), 0) # {}
  <2>1. IsFiniteSet(roles)
    BY MixedFinite
  <2>2. roles # {}
    BY <1>2, <1>4
  <2> HIDE DEF roles
  <2> QED BY <2>1, <2>2, CountOfFinite
<1> QED BY <1>10, <1>11, <1>12, <1>13, LightOfParts DEF vec, behind, insyncs, roles

\* The light is red as soon as one node has collected since its site lost the
\* quorum or an instance fell behind, whatever the other files still say.  With
\* current reports it is red for nothing else and not STALE, for sites of any
\* size and whatever the other arms export.
THEOREM LightRight == Spec => []LightIsRight
<1>1. ASSUME IInv, Current, up # {}
      PROVE  Light = IF ~Quorate \/ insync # Nodes THEN "HAZARD" ELSE "OK"
  <2> DEFINE insyncs == Samples(Scraped, "cluster_nha_insync")
             behind == Equals(insyncs, 0)
  <2>1. By(QuorateHere(Scraped), {}, MinOf) = Scalar(Flag(Quorate)) /\ Flag(Quorate) \in {0, 1}
    BY <1>1, QuorateLeast DEF Flag
  <2>2. IsFiniteSet(behind) /\ (behind = {} <=> insync = Nodes)
    <3>1. /\ AllHave(insyncs, "member") /\ IsFiniteSet(insyncs)
          /\ \A x \in insyncs : x.labels["member"] \in Shown /\ x.value = InSyncs[x.labels["member"]]
          /\ \A i \in Shown : Group(insyncs, "member", i) # {}
      <4>1. IsColumn("cluster_nha_insync", InSyncs) /\ \A i \in Instances : InSyncs[i] \in Int
        BY <1>1, Columns
      <4> QED BY <1>1, <4>1, ColumnRows
    <3>2. Shown = Nodes \cup Standby
      BY <1>1, Sites DEF IInv
    <3>3. \A i \in Shown : InSyncs[i] = 0 <=> i \in Nodes \ insync
      BY <1>1, <3>2, Roles, NativeHaAssumption DEF Flag
    <3> HIDE DEF insyncs
    <3>4. behind \in SUBSET insyncs
      BY DEF Equals
    <3>5. \A x : x \in behind <=> x \in insyncs /\ x.value = 0
      BY DEF Equals
    <3> HIDE DEF behind
    <3>6. IsFiniteSet(behind)
      BY <3>1, <3>4, FS_Subset
    <3>7. ASSUME NEW i \in Nodes \ insync PROVE behind # {}
      <4>1. PICK x \in insyncs : x.labels["member"] = i
        BY <3>1, <3>2 DEF Group
      <4> QED BY <3>1, <3>2, <3>3, <3>5, <4>1
    <3>8. insync \subseteq Nodes
      BY <1>1 DEF IInv, Typed
    <3> QED BY <3>1, <3>3, <3>5, <3>6, <3>7, <3>8
  <2>3. Above(By(Samples(Scraped, "cluster_nha_role"), {}, CountOf), 0) # {}
    BY <1>1, RolesCounted
  <2>4. Light = IF Flag(Quorate) = 0 \/ behind # {} THEN "HAZARD" ELSE "OK"
    <3> HIDE DEF behind
    <3> QED BY <2>1, <2>2, <2>3, LightOfParts DEF behind, insyncs
  <2> HIDE DEF behind
  <2> QED BY <2>2, <2>4 DEF Flag
<1>2. IInv => LightIsRight
  BY <1>1, OneReportShows DEF LightIsRight
<1> QED BY <1>2, Always, PTL

---------------------------------------------------------------------------
(* The tiles.                                                              *)

LEMMA OwnerNamed ==
  ASSUME IInv, Current
  PROVE  ActiveTile(Scraped) = {Holder} \ {NoInstance}
<1> DEFINE vec == Owner(Scraped)
<1>1. /\ \A x \in vec : "holder" \in DOMAIN x.labels /\ x.labels["holder"] = Holder
      /\ vec = {} <=> Holder = NoInstance
  BY OwnerRows
<1>2. ActiveTile(Scraped) = Names(By(vec, {"holder"}, MaxOf), "holder")
  BY DEF ActiveTile
<1> HIDE DEF vec
<1>3. Names(By(vec, {"holder"}, MaxOf), "holder") = {x.labels["holder"] : x \in vec}
  BY <1>1, NamesByLabel
<1> QED BY <1>1, <1>2, <1>3

LEMMA ActiveCounted ==
  ASSUME IInv, Current
  PROVE  Timeline(Scraped).active = IF Holder = NoInstance THEN {} ELSE {1}
<1> DEFINE vec == Where(Samples(Scraped, "cluster_nha_role"), "role", {"Active"})
           members == By(vec, {"member"}, MaxOf)
<1>1. \A x : x \in vec <=> \E n \in Reporters : \E i \in Site(n) :
                             RoleAt(i) = "Active" /\ x = ScrapedAs("nativeha", RoleOf(n, i))
  <2>1. \A x : x \in Samples(Scraped, "cluster_nha_role") <=>
              \E n \in Reporters : \E i \in Site(n) : x = ScrapedAs("nativeha", RoleOf(n, i))
    BY FamilyRows
  <2>2. \A x : x \in vec <=> /\ x \in Samples(Scraped, "cluster_nha_role")
                             /\ "role" \in DOMAIN x.labels /\ x.labels["role"] = "Active"
    BY DEF Where
  <2> HIDE DEF vec
  <2> QED BY <2>1, <2>2, RoleFields
<1>2. \A n \in Reporters : Site(n) \subseteq Instances
  BY Sites DEF IInv
<1>3. \A i \in Instances : RoleAt(i) = "Active" <=> i = Holder
  BY Roles
<1>4. Timeline(Scraped).active = Values(By(members, {}, CountOf))
  BY DEF Timeline, ActiveInstances, ByMember
<1> HIDE DEF vec, members
<1>5. \A x \in vec : "member" \in DOMAIN x.labels /\ x.labels["member"] = Holder
  BY <1>1, <1>2, <1>3, RoleFields
<1>6. vec = {} <=> Holder = NoInstance
  <2>1. Holder # NoInstance => \E n \in Reporters : Holder \in Site(n)
    BY Roles DEF Shown
  <2>2. Holder # NoInstance => Holder \in Instances
    BY Roles DEF Shown
  <2>3. NoInstance \notin Instances
    BY NativeHaAssumption DEF Instances
  <2> QED BY <1>1, <1>2, <1>3, <2>1, <2>2, <2>3
<1>7. RowsOf(vec, "member") = IF Holder = NoInstance THEN {} ELSE {Holder}
  BY <1>5, <1>6 DEF RowsOf
<1>8. /\ IsFiniteSet({}) /\ Cardinality({}) = 0
      /\ IsFiniteSet({Holder}) /\ Cardinality({Holder}) = 1
  BY FS_EmptySet, FS_Singleton
<1>9. IsFiniteSet(RowsOf(vec, "member"))
      /\ Cardinality(RowsOf(vec, "member")) = IF Holder = NoInstance THEN 0 ELSE 1
  BY <1>7, <1>8
<1>10. AllHave(vec, "member")
  BY <1>5 DEF AllHave
<1>11. IsFiniteSet(members) /\ Cardinality(members) = IF Holder = NoInstance THEN 0 ELSE 1
  BY <1>9, <1>10, CountRows DEF members
<1>12. members = {} <=> Holder = NoInstance
  BY <1>11, FS_EmptySet
<1>13. Values({}) = {}
  BY DEF Values
<1>14. CASE Holder = NoInstance
  BY <1>4, <1>11, <1>12, <1>13, <1>14, CountOfFinite
<1>15. CASE Holder # NoInstance
  <2>1. By(members, {}, CountOf) = Scalar(1)
    BY <1>11, <1>12, <1>15, CountOfFinite
  <2> QED BY <1>4, <1>15, <2>1, ScalarValues
<1> QED BY <1>14, <1>15

LEMMA QuorumShown ==
  ASSUME IInv, Current
  PROVE  QuorumTile(Scraped) = {Max({Cardinality(up), Cardinality(Standby)})}
<1> DEFINE vec == Samples(Scraped, "cluster_nha_quorum")
           row(n) == ScrapedAs("nativeha", VotesOf(n, VotesAt(n)))
           u == Cardinality(up)
           b == Cardinality(Standby)
<1>1. \A x : x \in vec <=> \E n \in Reporters : x = row(n)
  BY FamilyRows
<1>2. \A n : row(n).value = VotesAt(n)[1]
  BY MetricFields, ScrapedFields DEF VotesOf
<1>3. /\ \A n \in up : VotesAt(n)[1] = u
      /\ \A n \in Standby : VotesAt(n)[1] = b
  BY Sites DEF IInv, Votes, StandbyVotes
<1>4. u \in Nat /\ b \in Nat /\ b > 0 /\ (up = {} => u = 0)
  BY Sizes, FS_EmptySet DEF IInv
<1>5. QuorumTile(Scraped) = Values(By(vec, {}, MaxOf))
  BY DEF QuorumTile, Tile
<1>6. StandbyLeader \in Standby
  BY LeaderIsThere
<1> HIDE DEF vec, row, u, b
<1>7. Values(vec) = {b} \cup (IF up = {} THEN {} ELSE {u})
  <2>1. \A v : v \in Values(vec) <=> \E n \in Reporters : v = row(n).value
    BY <1>1 DEF Values
  <2>2. \A v : v \in Values(vec) <=> v = b \/ (up # {} /\ v = u)
    BY <1>2, <1>3, <1>6, <2>1 DEF Reporters
  <2> QED BY <2>2
<1>8. IsFiniteSet({u, b}) /\ {u, b} \subseteq Int /\ IsFiniteSet({b}) /\ {b} \subseteq Int
  <2>1. IsFiniteSet({b})
    BY FS_Singleton
  <2>2. IsFiniteSet({b} \cup {u})
    BY <2>1, FS_AddElement
  <2>3. {b} \cup {u} = {u, b}
    OBVIOUS
  <2> QED BY <1>4, <2>1, <2>2, <2>3
<1>9. MaxOf(vec) = Max({u, b})
  <2>1. CASE up # {}
    <3>1. Values(vec) = {u, b}
      BY <1>7, <2>1
    <3> QED BY <3>1 DEF MaxOf
  <2>2. CASE up = {}
    <3>1. Values(vec) = {b}
      BY <1>7, <2>2
    <3>2. Max({b}) = b
      BY <1>8, FiniteBounds
    <3>3. Max({u, b}) \in {u, b} /\ \A v \in {u, b} : v <= Max({u, b})
      BY <1>8, FiniteBounds
    <3>4. Max({u, b}) = b
      BY <1>4, <2>2, <3>3
    <3> QED BY <3>1, <3>2, <3>4 DEF MaxOf
  <2> QED BY <2>1, <2>2
<1>10. vec # {}
  BY <1>1, <1>6 DEF Reporters
<1>11. By(vec, {}, MaxOf) = Scalar(MaxOf(vec))
  BY <1>10, MaxOfAll
<1>12. QuorumTile(Scraped) = {Max({u, b})}
  BY <1>5, <1>9, <1>11, ScalarValues
<1> QED BY <1>12 DEF u, b

LEMMA InSyncShown ==
  ASSUME IInv, Current
  PROVE  InSyncTile(Scraped) = {Cardinality(Standby) + IF up = {} THEN 0 ELSE Cardinality(insync)}
<1> DEFINE vec == Samples(Scraped, "cluster_nha_insync")
           members == By(vec, {"member"}, MaxOf)
           mine == IF up = {} THEN {} ELSE insync
<1>1. IsColumn("cluster_nha_insync", InSyncs) /\ \A i \in Instances : InSyncs[i] \in Int /\ InSyncs[i] \in {0, 1}
  BY Columns
<1>2. /\ AllHave(vec, "member") /\ RowsOf(vec, "member") = Shown /\ IsFiniteSet(Shown)
      /\ \A i \in Shown : MaxOf(Group(vec, "member", i)) = InSyncs[i]
  BY <1>1, ColumnRows
<1>3. InSyncTile(Scraped) = Values(By(members, {}, SumOf))
  BY DEF InSyncTile, ByMember, Tile
<1>4. /\ Shown = Standby \cup (IF up = {} THEN {} ELSE Nodes)
      /\ Shown # {}
  BY Sites DEF IInv
<1>5. \A s : s \in members <=> \E x \in vec : s = Sample(OnlyLabel("member", x.labels["member"]),
                                     MaxOf(Group(vec, "member", x.labels["member"])))
  BY <1>2, MaxByLabel DEF AllHave
<1>6. \A x \in vec : x.labels["member"] \in Shown
  BY <1>2 DEF RowsOf
<1>7. IsFiniteSet(members) /\ Cardinality(members) = Cardinality(Shown)
      /\ Cardinality(At(members, 1)) = Cardinality(RowsAt(vec, "member", 1))
  BY <1>2, CountRows
<1> HIDE DEF vec, members
<1>8. \A s \in members : s.value \in {0, 1}
  BY <1>1, <1>2, <1>5, <1>6, SampleFields DEF Shown
<1>9. RowsAt(vec, "member", 1) = Standby \cup mine
  <2>1. RowsAt(vec, "member", 1) = {i \in Shown : InSyncs[i] = 1}
    BY <1>2 DEF RowsAt
  <2>2. \A i \in Shown : InSyncs[i] = 1 <=> i \in Standby \/ i \in insync
    BY <1>4, Roles, NativeHaAssumption DEF Flag
  <2>3. insync \subseteq Nodes
    BY DEF IInv, Typed
  <2> QED BY <1>4, <2>1, <2>2, <2>3
<1>10. Standby \cap mine = {} /\ mine \in SUBSET Nodes
  BY NativeHaAssumption DEF IInv, Typed
<1> HIDE DEF mine
<1>11. Cardinality(Standby \cup mine) = Cardinality(Standby) + Cardinality(mine)
  <2>1. IsFiniteSet(mine) /\ IsFiniteSet(Standby)
    BY <1>10, FS_Subset, NativeHaAssumption
  <2>2. Cardinality(Standby \cup mine) = Cardinality(Standby) + Cardinality(mine) - Cardinality(Standby \cap mine)
    BY <2>1, FS_Union
  <2>3. Cardinality(Standby) \in Nat /\ Cardinality(mine) \in Nat
    BY <2>1, FS_CardinalityType
  <2> QED BY <1>10, <2>2, <2>3, FS_EmptySet
<1>12. Cardinality(mine) = IF up = {} THEN 0 ELSE Cardinality(insync)
  BY FS_EmptySet DEF mine
<1>13. SumOf(members) = Cardinality(At(members, 1))
  BY <1>7, <1>8, SumOfFlags
<1>14. members # {}
  <2>1. PICK i \in Shown : TRUE
    BY <1>4
  <2>2. \E x \in vec : i = x.labels["member"]
    BY <1>2, <2>1 DEF RowsOf
  <2> QED BY <1>5, <2>2
<1>15. By(members, {}, SumOf) = Scalar(SumOf(members))
  BY <1>14, SumOfAll
<1> QED BY <1>3, <1>7, <1>9, <1>11, <1>12, <1>13, <1>15, ScalarValues

LEMMA StatusFields ==
  ASSUME NEW n, NEW i
  PROVE  LET x == ScrapedAs("nativeha", StatusOf(n, i)) IN
         /\ {"member", "status"} \subseteq DOMAIN x.labels
         /\ x.labels["status"] = StatusAt(i) /\ x.value = 1
<1> DEFINE s == StatusOf(n, i)
<1>1. DOMAIN s.labels = {"node", "member", "status"} /\ s.labels["status"] = StatusAt(i) /\ s.value = 1
  BY MetricFields DEF StatusOf
<1> HIDE DEF s
<1>2. LET x == ScrapedAs("nativeha", s) IN
         /\ {"member", "status"} \subseteq DOMAIN x.labels
         /\ x.labels["status"] = StatusAt(i) /\ x.value = 1
  BY <1>1, ScrapedFields
<1> QED BY <1>2 DEF s

LEMMA StatusShown ==
  ASSUME IInv, Current
  PROVE  HaStatusTile(Scraped) = {1}
<1> DEFINE vec == Where(Samples(Scraped, "cluster_nha_hastatus"), "status", {"Normal"})
           members == By(vec, {"member"}, MaxOf)
           row(n, i) == ScrapedAs("nativeha", StatusOf(n, i))
<1>1. \A x : x \in Samples(Scraped, "cluster_nha_hastatus") <=>
              \E n \in Reporters : \E i \in Site(n) : x = row(n, i)
  BY FamilyRows
<1>2. \A x : x \in vec <=> /\ x \in Samples(Scraped, "cluster_nha_hastatus")
                           /\ "status" \in DOMAIN x.labels /\ x.labels["status"] = "Normal"
  BY DEF Where
<1>3. HaStatusTile(Scraped) = Values(By(members, {}, MinOf))
  BY DEF HaStatusTile, ByMember, Tile
<1>4. \A n, i : /\ {"member", "status"} \subseteq DOMAIN row(n, i).labels
                /\ row(n, i).labels["status"] = StatusAt(i) /\ row(n, i).value = 1
  BY StatusFields
<1>5. row(StandbyLeader, StandbyLeader) \in vec
  <2>1. StandbyLeader \in Reporters /\ StandbyLeader \in Site(StandbyLeader) /\ StandbyLeader \notin Nodes
    BY LeaderIsThere, Sites DEF Reporters, IInv
  <2>2. StatusAt(StandbyLeader) = "Normal"
    BY <2>1 DEF StatusAt, UpAt
  <2> HIDE DEF vec, row
  <2> QED BY <1>1, <1>2, <1>4, <2>1, <2>2
<1> HIDE DEF vec, members, row
<1>6. \A x \in vec : "member" \in DOMAIN x.labels /\ x.value = 1
  BY <1>1, <1>2, <1>4
<1>7. \A s : s \in members <=> \E x \in vec : s = Sample(OnlyLabel("member", x.labels["member"]),
                                     MaxOf(Group(vec, "member", x.labels["member"])))
  BY <1>6, MaxByLabel DEF members
<1>8. ASSUME NEW x \in vec PROVE MaxOf(Group(vec, "member", x.labels["member"])) = 1
  <2> DEFINE G == Group(vec, "member", x.labels["member"])
  <2>1. x \in G /\ x.value = 1 /\ \A y \in G : y.value \in Int /\ y.value <= 1
    BY <1>6 DEF Group
  <2> HIDE DEF G
  <2>2. MaxOf(G) = 1
    BY <2>1, MaxIs
  <2> QED BY <2>2 DEF G
<1>9. members # {} /\ \A s \in members : s.value = 1
  <2>1. \A k, v : Sample(k, v).value = v
    BY SampleFields
  <2> QED BY <1>5, <1>7, <1>8, <2>1
<1>10. MinOf(members) = 1
  <2>1. PICK s \in members : s.value = 1
    BY <1>9
  <2>2. \A y \in members : y.value \in Int /\ 1 <= y.value
    BY <1>9
  <2> QED BY <2>1, <2>2, MinIs
<1>11. By(members, {}, MinOf) = Scalar(1)
  BY <1>9, <1>10, MinOfAll
<1> QED BY <1>3, <1>11, ScalarValues

\* With current reports the tiles and the timeline name and count instances
\* and not reporters, for sites of any size, through elections and
\* switchovers.
THEOREM TilesRight == Spec => []TilesAreRight
<1>1. IInv => TilesAreRight
  BY OwnerNamed, ActiveCounted, QuorumShown, InSyncShown, StatusShown DEF TilesAreRight
<1> QED BY <1>1, Always, PTL

---------------------------------------------------------------------------
(* The replication card.                                                   *)

\* A facet of the recovery group, in the card that looks for a group named
\* Recovery.
LEMMA CardTile ==
  ASSUME IInv, Current, up # {}, NEW name, NEW value \in Int, NEW known \in BOOLEAN,
         \A x : x \in Samples(Scraped, name) <=>
                  \E n \in Reporters : known /\ x = ScrapedAs("nativeha", FacetOf(name, n, value))
  PROVE  Tile(By(Where(Samples(Scraped, name), "group", {"Recovery"}), {}, MaxOf)) =
           IF known /\ NameOf("Recovery") = "Recovery" THEN {value} ELSE {}
<1> DEFINE all == Samples(Scraped, name)
           vec == Where(all, "group", {"Recovery"})
           row(n) == ScrapedAs("nativeha", FacetOf(name, n, value))
<1>1. \A n : /\ "group" \in DOMAIN row(n).labels /\ row(n).labels["group"] = NameOf("Recovery")
             /\ row(n).value = value
  <2> TAKE n
  <2> DEFINE s == FacetOf(name, n, value)
  <2>1. DOMAIN s.labels = {"node", "group"} /\ s.labels["group"] = NameOf("Recovery") /\ s.value = value
    BY MetricFields DEF FacetOf
  <2> HIDE DEF s
  <2>2. LET x == ScrapedAs("nativeha", s) IN
        /\ "group" \in DOMAIN x.labels /\ x.labels["group"] = NameOf("Recovery") /\ x.value = value
    BY <2>1, ScrapedFields
  <2> QED BY <2>2 DEF s
<1>2. \A x : x \in vec <=> x \in all /\ "group" \in DOMAIN x.labels /\ x.labels["group"] = "Recovery"
  BY DEF Where
<1>3. \A x : x \in all <=> \E n \in Reporters : known /\ x = row(n)
  OBVIOUS
<1> HIDE DEF all, vec, row
<1>4. \A x : x \in vec <=> \E n \in Reporters : known /\ NameOf("Recovery") = "Recovery" /\ x = row(n)
  BY <1>1, <1>2, <1>3
<1>5. PICK n \in Reporters : TRUE
  BY LeaderIsThere DEF Reporters
<1>6. CASE known /\ NameOf("Recovery") = "Recovery"
  <2>1. row(n) \in vec /\ row(n).value = value /\ \A x \in vec : x.value \in Int /\ x.value <= value
    BY <1>1, <1>4, <1>5, <1>6
  <2>2. MaxOf(vec) = value
    BY <2>1, MaxIs
  <2>3. By(vec, {}, MaxOf) = Scalar(value)
    BY <2>1, <2>2, MaxOfAll
  <2> QED BY <1>6, <2>3, ScalarValues DEF Tile, vec, all
<1>7. CASE ~(known /\ NameOf("Recovery") = "Recovery")
  <2>1. vec = {}
    BY <1>4, <1>7
  <2>2. By(vec, {}, MaxOf) = {}
    BY <2>1, MaxOfAll
  <2>3. Values({}) = {}
    BY DEF Values
  <2> QED BY <1>7, <2>2, <2>3 DEF Tile, vec, all
<1> QED BY <1>6, <1>7

\* With current reports, while the recovery group is the one named Recovery, the
\* replication card shows that group's facets, whatever the group
\* and the two sites have gone through; a backlog that is not known is absent
\* and never 0.
THEOREM CrrCardRight == Spec => []CrrCardIsRight
<1>1. ASSUME IInv, Current, up # {}, RecoveryNamedSo
      PROVE  LET known(value) == {value} \ {Unknown}
                 card == CrrCard(Scraped)
             IN /\ card.connected = known(Flag(recovery.connected))
                /\ card.insync = known(Flag(recovery.backlog = 0))
                /\ card.backlog = known(recovery.backlog)
  <2> DEFINE tile(name) == Tile(By(Where(Samples(Scraped, name), "group", {"Recovery"}), {}, MaxOf))
             found == NameOf("Recovery") = "Recovery"
             linked == Flag(recovery.connected)
             level == Flag(recovery.backlog = 0)
             backlog == recovery.backlog
  <2>1. /\ CrrCard(Scraped).connected = tile("cluster_nha_connected")
        /\ CrrCard(Scraped).insync = tile("cluster_nha_group_insync")
        /\ CrrCard(Scraped).backlog = tile("cluster_nha_group_backlog")
    BY DEF CrrCard
  <2>2. found
    BY <1>1 DEF NameOf, RecoveryNamedSo, IInv, Typed
  <2>3. linked \in {0, 1} /\ level \in {0, 1} /\ backlog \in {0, 5, Unknown}
    BY <1>1 DEF Flag, IInv, Typed
  <2>4. Unknown \notin Nat
    BY NativeHaAssumption
  <2>5. \A x : /\ x \in Samples(Scraped, "cluster_nha_connected") <=>
                    \E n \in Reporters : TRUE /\ x = ScrapedAs("nativeha", FacetOf("cluster_nha_connected", n, linked))
               /\ x \in Samples(Scraped, "cluster_nha_group_insync") <=>
                    \E n \in Reporters : TRUE /\ x = ScrapedAs("nativeha", FacetOf("cluster_nha_group_insync", n, level))
               /\ x \in Samples(Scraped, "cluster_nha_group_backlog") <=>
                    \E n \in Reporters : backlog # Unknown /\ x = ScrapedAs("nativeha", FacetOf("cluster_nha_group_backlog", n, backlog))
    <3>1. \A n : /\ ConnectedOf(n) = FacetOf("cluster_nha_connected", n, linked)
                 /\ GroupInSyncOf(n) = FacetOf("cluster_nha_group_insync", n, level)
                 /\ BacklogOf(n) = FacetOf("cluster_nha_group_backlog", n, backlog)
      BY Zenon DEF ConnectedOf, GroupInSyncOf, BacklogOf
    <3> HIDE DEF linked, level
    <3> QED BY <1>1, <3>1, FamilyRows
  <2> HIDE DEF tile, linked, level, backlog, found
  <2>6. tile("cluster_nha_connected") = IF found THEN {linked} ELSE {}
    <3>1. linked \in Int /\ TRUE \in BOOLEAN
      BY <2>3
    <3>2. tile("cluster_nha_connected") = IF TRUE /\ found THEN {linked} ELSE {}
      BY <1>1, <2>5, <3>1, CardTile DEF tile, found
    <3> QED BY <3>2
  <2>7. tile("cluster_nha_group_insync") = IF found THEN {level} ELSE {}
    <3>1. level \in Int /\ TRUE \in BOOLEAN
      BY <2>3
    <3>2. tile("cluster_nha_group_insync") = IF TRUE /\ found THEN {level} ELSE {}
      BY <1>1, <2>5, <3>1, CardTile DEF tile, found
    <3> QED BY <3>2
  <2>8. tile("cluster_nha_group_backlog") = IF backlog # Unknown /\ found THEN {backlog} ELSE {}
    <3> DEFINE known == backlog # Unknown
               value == IF known THEN backlog ELSE 0
    <3>1. value \in Int /\ known \in BOOLEAN
      BY <2>3
    <3>2. \A x : x \in Samples(Scraped, "cluster_nha_group_backlog") <=>
            \E n \in Reporters : known /\ x = ScrapedAs("nativeha", FacetOf("cluster_nha_group_backlog", n, value))
      BY <2>5
    <3> HIDE DEF known, value
    <3>3. tile("cluster_nha_group_backlog") = IF known /\ found THEN {value} ELSE {}
      BY <1>1, <3>1, <3>2, CardTile DEF tile, found
    <3> QED BY <3>3 DEF known, value
  <2>9. linked # Unknown /\ level # Unknown
    BY <2>3, <2>4
  <2>10. /\ tile("cluster_nha_connected") = {linked} \ {Unknown}
         /\ tile("cluster_nha_group_insync") = {level} \ {Unknown}
         /\ tile("cluster_nha_group_backlog") = {backlog} \ {Unknown}
    BY <2>2, <2>6, <2>7, <2>8, <2>9
  <2> QED BY <2>1, <2>10 DEF linked, level, backlog
<1>2. IInv => CrrCardIsRight
  BY <1>1 DEF CrrCardIsRight
<1> QED BY <1>2, Always, PTL
=============================================================================
