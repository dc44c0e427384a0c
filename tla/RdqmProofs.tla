------------------------------ MODULE RdqmProofs ------------------------------
(***************************************************************************)
(* Theorems about Rdqm: what the collector writes and what the board shows *)
(* is right, for DR pairs with sites of any size, any queue manager and    *)
(* any number of crashes, bans, cutovers, lost links and failed probes.    *)
(***************************************************************************)
EXTENDS Rdqm, PromQLTheorems

\* The variables are of their types; TypeOK adds what is in the files.
Typed ==
  /\ base \in Bases
  /\ up \subseteq Nodes /\ banned \subseteq up
  /\ primary \in [Sites -> Nodes] /\ preferred \in [Sites -> Nodes \cup {None}]
  /\ live \subseteq Sites
  /\ linked \in BOOLEAN
  /\ storage \in [Sites -> {"fine", "Diskless", "StandAlone", "dual"}]
  /\ events \in 0 .. MaxEvents

LEMMA SitesOfNodes ==
  /\ Sites = {"rdqm_a", "rdqm_b"}
  /\ \A n \in Nodes : SiteOf(n) \in Sites /\ n \in Members(SiteOf(n))
  /\ \A s \in Sites : /\ Members(s) \subseteq Nodes /\ Members(s) # {}
                      /\ IsFiniteSet(Members(s))
                      /\ \A n \in Members(s) : SiteOf(n) = s
  /\ \A n \in Nodes : \A s \in Sites : n \in Members(s) <=> SiteOf(n) = s
<1>1. \A s \in Sites : Members(s) \in SUBSET Nodes
  BY DEF Members
<1>2. \A s \in Sites : IsFiniteSet(Members(s))
  BY <1>1, FS_Subset, RdqmAssumption
<1> QED BY <1>1, <1>2, RdqmAssumption DEF Sites, SiteOf, Members

LEMMA NoneApart ==
  /\ None \notin Nodes /\ "This node" \notin Nodes
  /\ \A s \in Sites : None # <<"floating_ip", s>>
<1>1. \A s \in Sites : <<"floating_ip", s>> \in {"floating_ip", "floating_ip_interface"} \X Sites
  OBVIOUS
<1> QED BY <1>1, FieldAssumption

---------------------------------------------------------------------------
(* What a run makes of the reports.                                        *)

\* A sequence of a finite set is of its elements.
LEMMA Listed ==
  ASSUME NEW S, IsFiniteSet(S)
  PROVE  /\ SetToSeq(S) \in Seq(S)
         /\ \A x : x \in S <=> \E i \in 1 .. Len(SetToSeq(S)) : SetToSeq(S)[i] = x
<1> DEFINE c == Cardinality(S)
           q == SetToSeq(S)
<1>1. c \in Nat /\ ExistsBijection(1 .. c, S)
  BY FS_CardinalityType
<1>2. \E f \in [1 .. c -> S] : IsInjective(f)
  BY <1>1 DEF ExistsBijection, Bijection, Injection
<1>3. q \in [1 .. c -> S] /\ IsInjective(q)
  BY <1>2, Zenon DEF SetToSeq
<1> HIDE DEF c, q
<1>4. IsFiniteSet(1 .. c) /\ Cardinality(1 .. c) = c
  BY <1>1, FS_Interval
<1>5. q \in Injection(1 .. c, S)
  BY <1>3 DEF Injection
<1>6. q \in Surjection(1 .. c, S)
  BY <1>4, <1>5, FS_Injection DEF c
<1>7. q \in Seq(S) /\ Len(q) = c
  BY <1>1, <1>3
<1>8. \A x \in S : \E i \in 1 .. c : q[i] = x
  BY <1>6 DEF Surjection
<1> QED BY <1>3, <1>7, <1>8 DEF q

LEMMA MergedFields ==
  ASSUME NEW a, NEW b
  PROVE  /\ DOMAIN (a ++ b) = DOMAIN a \cup DOMAIN b
         /\ \A label \in DOMAIN a : (a ++ b)[label] = a[label]
         /\ \A label \in DOMAIN b \ DOMAIN a : (a ++ b)[label] = b[label]
BY DEF ++

\* The local block, field by field, as a run gets it.
Local(n, st) ==
  LET s == SiteOf(n) IN
  /\ st.qm_status = IF Running(n) THEN "Running" ELSE "Ended"
  /\ st.ha_role = IF primary[s] = n THEN "Primary" ELSE "Secondary"
  /\ st.ha_status = IF Members(s) \subseteq up THEN "Normal" ELSE "Degraded"
  /\ st.ha_current_location = IF primary[s] = n THEN "This node" ELSE primary[s]
  /\ st.ha_preferred_location = IF preferred[s] = n THEN "This node" ELSE preferred[s]
  /\ st.floating_ip = IF primary[s] = n THEN <<"floating_ip", s>> ELSE None
  /\ st.floating_ip_interface = IF primary[s] = n THEN <<"floating_ip_interface", s>> ELSE None
  /\ st.dr_role = IF s \in live THEN "Primary" ELSE "Secondary"
  /\ st.dr_status = IF primary[s] = n THEN DrStatus ELSE "See"

\* The HA status n reports of a member.
StatusFor(n, m) == IF m # n THEN (IF m \in up THEN "Normal" ELSE "Not available")
                   ELSE IF Members(SiteOf(n)) \subseteq up THEN "Normal" ELSE "Degraded"

BlockFields(n, s, b) ==
  /\ {"node", "qm_status", "ha_role", "ha_status", "ha_current_location", "dr_role", "dr_status"}
       \subseteq DOMAIN b
  /\ "ha_preferred_location" \in DOMAIN b <=> preferred[s] # None
  /\ "floating_ip" \in DOMAIN b <=> primary[s] = n
  /\ "floating_ip_interface" \in DOMAIN b <=> primary[s] = n
  /\ b["node"] = n
  /\ b["qm_status"] = IF Running(n) THEN "Running" ELSE "Ended"
  /\ b["ha_role"] = IF primary[s] = n THEN "Primary" ELSE "Secondary"
  /\ b["ha_status"] = IF Members(s) \subseteq up THEN "Normal" ELSE "Degraded"
  /\ b["ha_current_location"] = IF primary[s] = n THEN "This node" ELSE primary[s]
  /\ b["dr_role"] = IF s \in live THEN "Primary" ELSE "Secondary"
  /\ b["dr_status"] = IF primary[s] = n THEN DrStatus ELSE "See"
  /\ primary[s] = n => /\ b["floating_ip"] = <<"floating_ip", s>>
                       /\ b["floating_ip_interface"] = <<"floating_ip_interface", s>>
  /\ preferred[s] # None =>
       b["ha_preferred_location"] = IF preferred[s] = n THEN "This node" ELSE preferred[s]

LEMMA LocalBlockFields ==
  ASSUME Typed, NEW n \in Nodes
  PROVE  BlockFields(n, SiteOf(n), LocalBlock(n))
<1> DEFINE s == SiteOf(n)
           place(m) == IF m = n THEN "This node" ELSE m
           a == [node |-> n,
                 qm_status |-> IF Running(n) THEN "Running" ELSE "Ended",
                 ha_role |-> IF primary[s] = n THEN "Primary" ELSE "Secondary",
                 ha_status |-> IF Members(s) \subseteq up THEN "Normal" ELSE "Degraded",
                 ha_current_location |-> place(primary[s]),
                 dr_role |-> IF s \in live THEN "Primary" ELSE "Secondary",
                 dr_status |-> IF primary[s] = n THEN DrStatus ELSE "See"]
           b == [field \in {f \in {"floating_ip", "floating_ip_interface"} : primary[s] = n} |-> <<field, s>>]
           c == [field \in {f \in {"ha_preferred_location"} : preferred[s] # None} |-> place(preferred[s])]
<1>1. LocalBlock(n) = (a ++ b) ++ c
  BY Zenon DEF LocalBlock
<1>2. /\ DOMAIN a = {"node", "qm_status", "ha_role", "ha_status", "ha_current_location", "dr_role", "dr_status"}
      /\ a["node"] = n
      /\ a["qm_status"] = IF Running(n) THEN "Running" ELSE "Ended"
      /\ a["ha_role"] = IF primary[s] = n THEN "Primary" ELSE "Secondary"
      /\ a["ha_status"] = IF Members(s) \subseteq up THEN "Normal" ELSE "Degraded"
      /\ a["ha_current_location"] = IF primary[s] = n THEN "This node" ELSE primary[s]
      /\ a["dr_role"] = IF s \in live THEN "Primary" ELSE "Secondary"
      /\ a["dr_status"] = IF primary[s] = n THEN DrStatus ELSE "See"
  OBVIOUS
<1>3. /\ DOMAIN b = IF primary[s] = n THEN {"floating_ip", "floating_ip_interface"} ELSE {}
      /\ primary[s] = n => /\ b["floating_ip"] = <<"floating_ip", s>>
                           /\ b["floating_ip_interface"] = <<"floating_ip_interface", s>>
  OBVIOUS
<1>4. /\ DOMAIN c = IF preferred[s] # None THEN {"ha_preferred_location"} ELSE {}
      /\ preferred[s] # None => c["ha_preferred_location"] = IF preferred[s] = n THEN "This node" ELSE preferred[s]
  OBVIOUS
<1> HIDE DEF a, b, c
<1> DEFINE ab == a ++ b
<1>5. /\ DOMAIN ab = DOMAIN a \cup DOMAIN b
      /\ \A label \in DOMAIN a : ab[label] = a[label]
      /\ \A label \in DOMAIN b \ DOMAIN a : ab[label] = b[label]
  BY MergedFields
<1> HIDE DEF ab
<1> DEFINE abc == ab ++ c
<1>6. /\ DOMAIN abc = DOMAIN ab \cup DOMAIN c
      /\ \A label \in DOMAIN ab : abc[label] = ab[label]
      /\ \A label \in DOMAIN c \ DOMAIN ab : abc[label] = c[label]
  BY MergedFields
<1> HIDE DEF abc
<1>7. LocalBlock(n) = abc
  BY <1>1 DEF ab, abc
<1>8. /\ DOMAIN abc = DOMAIN a \cup DOMAIN b \cup DOMAIN c
      /\ \A label \in DOMAIN a : abc[label] = a[label]
      /\ \A label \in DOMAIN b \ DOMAIN a : abc[label] = b[label]
      /\ \A label \in DOMAIN c \ (DOMAIN a \cup DOMAIN b) : abc[label] = c[label]
  BY <1>5, <1>6
<1>9. /\ {"node", "qm_status", "ha_role", "ha_status", "ha_current_location", "dr_role", "dr_status"}
                 \subseteq DOMAIN abc
      /\ "ha_preferred_location" \in DOMAIN abc <=> preferred[s] # None
      /\ "floating_ip" \in DOMAIN abc <=> primary[s] = n
      /\ "floating_ip_interface" \in DOMAIN abc <=> primary[s] = n
  <2>1. DOMAIN abc = {"node", "qm_status", "ha_role", "ha_status", "ha_current_location", "dr_role", "dr_status"}
                     \cup DOMAIN b \cup DOMAIN c
    BY <1>2, <1>8
  <2>2. \A f : f \in DOMAIN b <=> primary[s] = n /\ f \in {"floating_ip", "floating_ip_interface"}
    BY <1>3
  <2>3. \A f : f \in DOMAIN c <=> preferred[s] # None /\ f = "ha_preferred_location"
    BY <1>4
  <2> HIDE DEF s
  <2> QED BY <2>1, <2>2, <2>3
<1>10. \A label \in DOMAIN a : abc[label] = a[label]
  BY <1>8
<1>11. primary[s] = n => /\ abc["floating_ip"] = <<"floating_ip", s>>
                         /\ abc["floating_ip_interface"] = <<"floating_ip_interface", s>>
  BY <1>2, <1>3, <1>8
<1>12. preferred[s] # None =>
         abc["ha_preferred_location"] = IF preferred[s] = n THEN "This node" ELSE preferred[s]
  BY <1>2, <1>3, <1>4, <1>8
<1> HIDE DEF s
<1> QED BY <1>2, <1>7, <1>9, <1>10, <1>11, <1>12 DEF s, BlockFields

\* What a run keeps of a block as a member's.
EntryOf(block) == [node |-> block.node, ha_status |-> Get(block, "ha_status", "Unknown")]

LEMMA Parsed ==
  ASSUME Typed, NEW n \in Nodes
  PROVE  LET st == ParseStatus(StatusReport(n)) IN
         /\ Local(n, st)
         /\ \A x : x \in st.members <=> \E m \in Members(SiteOf(n)) : x = [node |-> m, ha_status |-> StatusFor(n, m)]
<1> DEFINE s == SiteOf(n)
           peers == Members(s) \ {n}
           blocks == {PeerBlock(m) : m \in peers}
           tail == SetToSeq(blocks)
           report == StatusReport(n)
           b == LocalBlock(n)
           st == ParseStatus(report)
           size == Len(tail)
<1>1. IsFiniteSet(blocks)
  <2> DEFINE f == [m \in peers |-> PeerBlock(m)]
  <2>1. IsFiniteSet(Members(s))
    BY SitesOfNodes
  <2>2. IsFiniteSet(peers)
    BY <2>1, FS_RemoveElement
  <2>3. \A x \in blocks : \E m \in peers : x = f[m]
    OBVIOUS
  <2> HIDE DEF blocks, f, peers
  <2> QED BY <2>2, <2>3, CoveredFinite
<1>2. report = <<b>> \o tail
  BY Zenon DEF StatusReport
<1>3. tail \in Seq(blocks) /\ \A x : x \in blocks <=> \E i \in 1 .. Len(tail) : tail[i] = x
  BY <1>1, Listed
<1>4. /\ DOMAIN report = 1 .. (1 + size) /\ report[1] = b /\ size \in Nat
      /\ \A i \in 1 .. size : report[i + 1] = tail[i]
  <2> HIDE DEF tail, b, report, blocks
  <2>1. tail \in Seq(blocks \cup {b}) /\ <<b>> \in Seq(blocks \cup {b})
    BY <1>3
  <2> QED BY <1>2, <2>1
<1> HIDE DEF tail, b, report, blocks, st, size
<1>5. \A x : x \in st.members <=> \E i \in DOMAIN report : x = EntryOf(report[i])
  BY Zenon DEF ParseStatus, st, EntryOf
<1>6. EntryOf(b) = [node |-> n, ha_status |-> StatusFor(n, n)]
  <2>1. BlockFields(n, s, b)
    BY LocalBlockFields DEF b
  <2> QED BY <2>1 DEF EntryOf, BlockFields, Get, StatusFor
<1>7. \A m : m # n => EntryOf(PeerBlock(m)) = [node |-> m, ha_status |-> StatusFor(n, m)]
  BY DEF PeerBlock, Get, StatusFor, EntryOf
<1>8. \A x : x \in blocks <=> \E m \in peers : x = PeerBlock(m)
  BY Zenon DEF blocks
<1>9. \A i \in 1 .. size : \E m \in peers : report[i + 1] = PeerBlock(m)
  BY <1>3, <1>4, <1>8 DEF size
<1>10. \A m \in peers : \E i \in 1 .. size : report[i + 1] = PeerBlock(m)
  BY <1>3, <1>4, <1>8 DEF size
<1>11. \A m : m \in Members(s) <=> m = n \/ m \in peers
  BY SitesOfNodes
<1>12. \A m \in peers : m # n
  OBVIOUS
<1> HIDE DEF peers
<1>13. \A x : x \in st.members <=> \E m \in Members(s) : x = [node |-> m, ha_status |-> StatusFor(n, m)]
  <2>1. ASSUME NEW x \in st.members PROVE \E m \in Members(s) : x = [node |-> m, ha_status |-> StatusFor(n, m)]
    <3>1. PICK i \in DOMAIN report : x = EntryOf(report[i])
      BY <1>5
    <3>2. CASE i = 1
      BY <1>4, <1>6, <1>11, <3>1, <3>2
    <3>3. CASE i # 1
      <4>1. i - 1 \in 1 .. size /\ (i - 1) + 1 = i
        BY <1>4, <3>3
      <4>2. PICK m \in peers : report[i] = PeerBlock(m)
        BY <1>9, <4>1
      <4> QED BY <1>7, <1>11, <1>12, <3>1, <4>2
    <3> QED BY <3>2, <3>3
  <2>2. ASSUME NEW m \in Members(s) PROVE [node |-> m, ha_status |-> StatusFor(n, m)] \in st.members
    <3>1. CASE m = n
      <4>1. 1 \in DOMAIN report
        BY <1>4
      <4> QED BY <1>4, <1>5, <1>6, <3>1, <4>1
    <3>2. CASE m # n
      <4>1. PICK i \in 1 .. size : report[i + 1] = PeerBlock(m)
        BY <1>10, <1>11, <3>2
      <4>2. i + 1 \in DOMAIN report
        BY <1>4
      <4> QED BY <1>5, <1>7, <3>2, <4>1, <4>2
    <3> QED BY <3>1, <3>2
  <2> QED BY <2>1, <2>2
<1>14. Local(n, st)
  <2> DEFINE got(field, default) == IF field \in DOMAIN b THEN b[field] ELSE default
  <2>1. /\ st.qm_status = got("qm_status", None) /\ st.ha_role = got("ha_role", None)
        /\ st.ha_status = got("ha_status", "Unknown")
        /\ st.ha_current_location = got("ha_current_location", None)
        /\ st.ha_preferred_location = got("ha_preferred_location", None)
        /\ st.floating_ip = got("floating_ip", None)
        /\ st.floating_ip_interface = got("floating_ip_interface", None)
        /\ st.dr_role = got("dr_role", None) /\ st.dr_status = got("dr_status", None)
    BY <1>4 DEF ParseStatus, st, Get
  <2>2. BlockFields(n, s, b)
    BY LocalBlockFields DEF b
  <2>3. None # n
    BY NoneApart
  <2> HIDE DEF s
  <2> QED BY <2>1, <2>2, <2>3 DEF Local, BlockFields, s
<1> QED BY <1>13, <1>14 DEF st, report

---------------------------------------------------------------------------
(* What a run writes, series by series.                                    *)

IsPrimary(n) == primary[SiteOf(n)] = n

\* A series about a member.
MemberSeries(name, n, m, value) == Metric(name, [node |-> n, member |-> m], value)
NodeSeries(name, n, value) == Metric(name, [node |-> n], value)

QuorateOf(n) == NodeSeries("cluster_quorate", n, Flag(Whole(SiteOf(n))))
HaOkOf(n) == NodeSeries("cluster_rdqm_ha_status_ok", n, Flag(Whole(SiteOf(n))))
HaStatusOf(n) == Metric("cluster_rdqm_ha_status", [node |-> n, status |-> StatusFor(n, n)], 1)
RoleCodeOf(n) == MemberSeries("cluster_rdqm_role_code", n, n, IF IsPrimary(n) THEN 2 ELSE 1)
RunsOf(n) == MemberSeries("cluster_rdqm_qm_running", n, n, Flag(Running(n)))
RoleOf(n) == Metric("cluster_rdqm_role",
                    [node |-> n, member |-> n, role |-> IF IsPrimary(n) THEN "Primary" ELSE "Secondary"], 1)
OnlineOf(n, m) == MemberSeries("cluster_node_online", n, m, Flag(StatusFor(n, m) = "Normal"))
MemberStatusOf(n, m) ==
  Metric("cluster_rdqm_member_status", [node |-> n, member |-> m, status |-> StatusFor(n, m)], 1)
FloatingIpOf(n) == Metric("cluster_rdqm_floating_ip",
                          [node |-> n, ip |-> <<"floating_ip", SiteOf(n)>>,
                           interface |-> <<"floating_ip_interface", SiteOf(n)>>], 1)
OwnerOf(n) == Metric("cluster_resource_owner", [node |-> n, resource |-> "QM", holder |-> n], 1)
LocationOf(n, kind, holder) ==
  Metric("cluster_rdqm_location", [node |-> n, kind |-> kind, holder |-> holder], 1)
DrRoleOf(n) == Metric("cluster_rdqm_dr_role",
                      [node |-> n, role |-> IF SiteOf(n) \in live THEN "Primary" ELSE "Secondary"], 1)
DrCodeOf(n) == NodeSeries("cluster_rdqm_dr_role_code", n, IF SiteOf(n) \in live THEN 2 ELSE 3)
DrStatusOf(n) == Metric("cluster_rdqm_dr_status", [node |-> n, status |-> DrStatus], 1)
DrOkOf(n) == NodeSeries("cluster_rdqm_dr_status_ok", n, Flag(DrStatus = "Normal"))

StatusSeries(n, s) ==
  \/ s \in {QuorateOf(n), HaOkOf(n), HaStatusOf(n), RoleCodeOf(n), RunsOf(n), RoleOf(n), DrRoleOf(n), DrCodeOf(n)}
  \/ \E m \in Members(SiteOf(n)) : s \in {OnlineOf(n, m), MemberStatusOf(n, m)}
  \/ Running(n) /\ s \in {FloatingIpOf(n), OwnerOf(n)}
  \/ s = LocationOf(n, "current", primary[SiteOf(n)])
  \/ preferred[SiteOf(n)] # None /\ s = LocationOf(n, "preferred", preferred[SiteOf(n)])
  \/ IsPrimary(n) /\ s \in {DrStatusOf(n), DrOkOf(n)}

LEMMA Presence ==
  \A name, labels, value, s : s \in Present(name, labels, value) <=> value # None /\ s = Metric(name, labels, 1)
BY Zenon DEF Present

LEMMA RenderedHa ==
  ASSUME Typed, NEW n \in Nodes, NEW st, st = ParseStatus(StatusReport(n)), NEW s
  PROVE  s \in RenderHa(n, st, st.qm_status = "Running") <=>
           \/ s \in {QuorateOf(n), HaOkOf(n), HaStatusOf(n), RoleCodeOf(n), RunsOf(n), RoleOf(n)}
           \/ \E m \in Members(SiteOf(n)) : s \in {OnlineOf(n, m), MemberStatusOf(n, m)}
<1> DEFINE running == st.qm_status = "Running"
           ok == Flag(st.ha_status = "Normal")
           code == CASE st.ha_role = "Primary" -> 2 [] st.ha_role = "Secondary" -> 1 [] OTHER -> 0
           member == [node |-> n, member |-> n]
           online(m) == Metric("cluster_node_online", [node |-> n, member |-> m.node], Flag(m.ha_status = "Normal"))
           reported(m) == Metric("cluster_rdqm_member_status", [node |-> n, member |-> m.node, status |-> m.ha_status], 1)
<1>1. /\ Local(n, st)
      /\ \A x : x \in st.members <=> \E m \in Members(SiteOf(n)) : x = [node |-> m, ha_status |-> StatusFor(n, m)]
  BY Parsed
<1>2. ok = Flag(Whole(SiteOf(n))) /\ st.ha_status = StatusFor(n, n)
  BY <1>1 DEF Local, StatusFor, Whole, Flag
<1>3. code = IF IsPrimary(n) THEN 2 ELSE 1
  BY <1>1 DEF Local, IsPrimary
<1>4. Flag(running) = Flag(Running(n))
  BY <1>1 DEF Local, Flag
<1>5. st.ha_role = (IF IsPrimary(n) THEN "Primary" ELSE "Secondary") /\ st.ha_role # None
  BY <1>1, FieldAssumption DEF Local, IsPrimary
<1>6. s \in RenderHa(n, st, running) <=>
        \/ s \in {Metric("cluster_quorate", [node |-> n], ok),
                  Metric("cluster_rdqm_ha_status_ok", [node |-> n], ok),
                  Metric("cluster_rdqm_ha_status", [node |-> n, status |-> st.ha_status], 1),
                  Metric("cluster_rdqm_role_code", member, code),
                  Metric("cluster_rdqm_qm_running", member, Flag(running))}
        \/ s \in Present("cluster_rdqm_role", [node |-> n, member |-> n, role |-> st.ha_role], st.ha_role)
        \/ \E m \in st.members : s = online(m)
        \/ \E m \in st.members : s = reported(m)
  <2> HIDE DEF running
  <2> QED BY Zenon DEF RenderHa
<1>7. s \in Present("cluster_rdqm_role", [node |-> n, member |-> n, role |-> st.ha_role], st.ha_role) <=> s = RoleOf(n)
  BY <1>5, Presence, Zenon DEF RoleOf
<1> DEFINE entry(m) == [node |-> m, ha_status |-> StatusFor(n, m)]
<1>8. \A m : online(entry(m)) = OnlineOf(n, m) /\ reported(entry(m)) = MemberStatusOf(n, m)
  BY DEF OnlineOf, MemberStatusOf, MemberSeries
<1>0. \A x : x \in st.members <=> \E m \in Members(SiteOf(n)) : x = entry(m)
  BY <1>1
<1> HIDE DEF online, reported, entry
<1>9. (\E m \in st.members : s = online(m)) <=> \E m \in Members(SiteOf(n)) : s = OnlineOf(n, m)
  <2>1. ASSUME NEW x \in st.members, s = online(x) PROVE \E m \in Members(SiteOf(n)) : s = OnlineOf(n, m)
    <3>1. PICK m \in Members(SiteOf(n)) : x = entry(m)
      BY <1>0
    <3> QED BY <1>8, <2>1, <3>1
  <2>2. ASSUME NEW m \in Members(SiteOf(n)), s = OnlineOf(n, m) PROVE \E x \in st.members : s = online(x)
    <3>1. entry(m) \in st.members
      BY <1>0
    <3> QED BY <1>8, <2>2, <3>1
  <2> QED BY <2>1, <2>2
<1>10. (\E m \in st.members : s = reported(m)) <=> \E m \in Members(SiteOf(n)) : s = MemberStatusOf(n, m)
  <2>1. ASSUME NEW x \in st.members, s = reported(x) PROVE \E m \in Members(SiteOf(n)) : s = MemberStatusOf(n, m)
    <3>1. PICK m \in Members(SiteOf(n)) : x = entry(m)
      BY <1>0
    <3> QED BY <1>8, <2>1, <3>1
  <2>2. ASSUME NEW m \in Members(SiteOf(n)), s = MemberStatusOf(n, m) PROVE \E x \in st.members : s = reported(x)
    <3>1. entry(m) \in st.members
      BY <1>0
    <3> QED BY <1>8, <2>2, <3>1
  <2> QED BY <2>1, <2>2
<1>11. /\ Metric("cluster_quorate", [node |-> n], ok) = QuorateOf(n)
       /\ Metric("cluster_rdqm_ha_status_ok", [node |-> n], ok) = HaOkOf(n)
       /\ Metric("cluster_rdqm_ha_status", [node |-> n, status |-> st.ha_status], 1) = HaStatusOf(n)
       /\ Metric("cluster_rdqm_role_code", member, code) = RoleCodeOf(n)
       /\ Metric("cluster_rdqm_qm_running", member, Flag(running)) = RunsOf(n)
  <2> HIDE DEF ok, code, running
  <2> QED BY <1>2, <1>3, <1>4, Zenon DEF QuorateOf, HaOkOf, HaStatusOf, RoleCodeOf, RunsOf, MemberSeries, NodeSeries
<1> HIDE DEF ok, code, member
<1> QED BY <1>6, <1>7, <1>9, <1>10, <1>11

LEMMA RenderedOwner ==
  ASSUME Typed, NEW n \in Nodes, NEW st, st = ParseStatus(StatusReport(n)), NEW s
  PROVE  s \in RenderOwner(n, "QM", st, st.qm_status = "Running") <=>
           \/ Running(n) /\ s \in {FloatingIpOf(n), OwnerOf(n)}
           \/ s = LocationOf(n, "current", primary[SiteOf(n)])
           \/ preferred[SiteOf(n)] # None /\ s = LocationOf(n, "preferred", preferred[SiteOf(n)])
<1> DEFINE running == st.qm_status = "Running"
           site == SiteOf(n)
           holder(location) == IF location = "This node" THEN n ELSE location
<1>1. Local(n, st)
  BY Parsed
<1>2. site \in Sites /\ primary[site] \in Nodes /\ preferred[site] \in Nodes \cup {None}
  BY SitesOfNodes DEF Typed
<1>3. /\ st.ha_current_location # None /\ holder(st.ha_current_location) = primary[site]
      /\ st.ha_preferred_location # None <=> preferred[site] # None
      /\ preferred[site] # None => holder(st.ha_preferred_location) = preferred[site]
  BY <1>1, <1>2, FieldAssumption DEF Local
<1>4. running <=> Running(n)
  BY <1>1 DEF Local
<1>5. ASSUME Running(n)
      PROVE  /\ st.floating_ip = <<"floating_ip", site>> /\ st.floating_ip # None
             /\ st.floating_ip_interface = <<"floating_ip_interface", site>>
             /\ holder(st.ha_current_location) = n
  BY <1>1, <1>2, <1>3, <1>5, NoneApart DEF Local, Running
<1> HIDE DEF site, holder
<1>6. s \in RenderOwner(n, "QM", st, running) <=>
        \/ /\ running
           /\ \/ s \in Present("cluster_rdqm_floating_ip", FloatingIp(n, st), st.floating_ip)
              \/ s \in Owns(n, "QM", st.ha_current_location)
        \/ s \in Located(n, "current", st.ha_current_location)
        \/ s \in Located(n, "preferred", st.ha_preferred_location)
  <2> HIDE DEF running
  <2> QED BY DEF RenderOwner
<1>7. /\ s \in Owns(n, "QM", st.ha_current_location) <=>
              s = Metric("cluster_resource_owner", [node |-> n, resource |-> "QM", holder |-> holder(st.ha_current_location)], 1)
      /\ s \in Located(n, "current", st.ha_current_location) <=>
              s = LocationOf(n, "current", holder(st.ha_current_location))
      /\ s \in Located(n, "preferred", st.ha_preferred_location) <=>
              st.ha_preferred_location # None /\ s = LocationOf(n, "preferred", holder(st.ha_preferred_location))
  BY <1>3, Presence, Zenon DEF Owns, Located, LocationOf, holder
<1>8. Running(n) => (s \in Present("cluster_rdqm_floating_ip", FloatingIp(n, st), st.floating_ip) <=> s = FloatingIpOf(n))
  BY <1>5, Presence, Zenon DEF FloatingIp, FloatingIpOf, site
<1>9. Running(n) => (s \in Owns(n, "QM", st.ha_current_location) <=> s = OwnerOf(n))
  BY <1>5, <1>7, Zenon DEF OwnerOf
<1> HIDE DEF running
<1> QED BY <1>3, <1>4, <1>6, <1>7, <1>8, <1>9 DEF site, running

LEMMA RenderedDr ==
  ASSUME Typed, NEW n \in Nodes, NEW st, st = ParseStatus(StatusReport(n)), NEW s
  PROVE  s \in RenderDr(n, st) <=>
           \/ s \in {DrRoleOf(n), DrCodeOf(n)}
           \/ IsPrimary(n) /\ s \in {DrStatusOf(n), DrOkOf(n)}
<1> DEFINE role == IF SiteOf(n) \in live THEN "Primary" ELSE "Secondary"
           roles == {st.dr_role} \ {None}
           codes == {Metric("cluster_rdqm_dr_role_code", [node |-> n], IF r = "Primary" THEN 2 ELSE 3) : r \in roles}
           states == {st.dr_status} \ {None, "See"}
           of(d) == {Metric("cluster_rdqm_dr_status", [node |-> n, status |-> d], 1),
                     Metric("cluster_rdqm_dr_status_ok", [node |-> n], Flag(d = "Normal"))}
<1>1. Local(n, st)
  BY Parsed
<1>2. st.dr_role = role /\ role # None
  BY <1>1, FieldAssumption DEF Local
<1>3. \A d : d \in states <=> IsPrimary(n) /\ d = DrStatus
  BY <1>1, FieldAssumption DEF Local, IsPrimary, DrStatus
<1>4. s \in RenderDr(n, st) <=>
        \/ s \in Present("cluster_rdqm_dr_role", [node |-> n, role |-> st.dr_role], st.dr_role)
        \/ s \in codes
        \/ s \in UNION {of(d) : d \in states}
  <2> HIDE DEF roles
  <2> QED BY Zenon DEF RenderDr, roles
<1>5. s \in Present("cluster_rdqm_dr_role", [node |-> n, role |-> st.dr_role], st.dr_role) <=> s = DrRoleOf(n)
  BY <1>2, Presence, Zenon DEF DrRoleOf
<1>6. s \in codes <=> s = DrCodeOf(n)
  <2>1. roles = {role}
    BY <1>2
  <2>2. (IF role = "Primary" THEN 2 ELSE 3) = IF SiteOf(n) \in live THEN 2 ELSE 3
    OBVIOUS
  <2> HIDE DEF roles, role
  <2>3. s \in codes <=> s = Metric("cluster_rdqm_dr_role_code", [node |-> n], IF role = "Primary" THEN 2 ELSE 3)
    BY <2>1
  <2> QED BY <2>2, <2>3, Zenon DEF DrCodeOf, NodeSeries
<1>7. s \in UNION {of(d) : d \in states} <=> IsPrimary(n) /\ s \in {DrStatusOf(n), DrOkOf(n)}
  <2> HIDE DEF states
  <2>1. s \in UNION {of(d) : d \in states} <=> \E d \in states : s \in of(d)
    BY Zenon
  <2>2. of(DrStatus) = {DrStatusOf(n), DrOkOf(n)}
    BY Zenon DEF DrStatusOf, DrOkOf, NodeSeries
  <2> HIDE DEF of
  <2> QED BY <1>3, <2>1, <2>2
<1> HIDE DEF codes, states, of
<1> QED BY <1>4, <1>5, <1>6, <1>7

LEMMA RenderedStatus ==
  ASSUME Typed, NEW n \in Nodes, NEW s
  PROVE  s \in RenderStatus(n, "QM", ParseStatus(StatusReport(n))) <=> StatusSeries(n, s)
<1> DEFINE st == ParseStatus(StatusReport(n))
<1>1. s \in RenderHa(n, st, st.qm_status = "Running") <=>
           \/ s \in {QuorateOf(n), HaOkOf(n), HaStatusOf(n), RoleCodeOf(n), RunsOf(n), RoleOf(n)}
           \/ \E m \in Members(SiteOf(n)) : s \in {OnlineOf(n, m), MemberStatusOf(n, m)}
  BY RenderedHa
<1>2. s \in RenderOwner(n, "QM", st, st.qm_status = "Running") <=>
           \/ Running(n) /\ s \in {FloatingIpOf(n), OwnerOf(n)}
           \/ s = LocationOf(n, "current", primary[SiteOf(n)])
           \/ preferred[SiteOf(n)] # None /\ s = LocationOf(n, "preferred", preferred[SiteOf(n)])
  BY RenderedOwner
<1>3. s \in RenderDr(n, st) <=>
           \/ s \in {DrRoleOf(n), DrCodeOf(n)}
           \/ IsPrimary(n) /\ s \in {DrStatusOf(n), DrOkOf(n)}
  BY RenderedDr
<1> HIDE DEF st
<1>4. s \in RenderStatus(n, "QM", st) <=>
        \/ s \in RenderHa(n, st, st.qm_status = "Running")
        \/ s \in RenderOwner(n, "QM", st, st.qm_status = "Running")
        \/ s \in RenderDr(n, st)
  BY Zenon DEF RenderStatus
<1> QED BY <1>1, <1>2, <1>3, <1>4 DEF StatusSeries, st

Ha == <<"ha", base>>
Dr == <<"dr", base>>
Volumes(n) == {Ha} \cup {res \in {Dr} : IsPrimary(n)}

DrbdRoleOf(n, res) == Metric("cluster_drbd_role", [node |-> n, resource |-> res, role |-> DrbdReport(n)[res].role], 1)
DrbdDiskOf(n, res) == Metric("cluster_drbd_disk", [node |-> n, resource |-> res, disk |-> DrbdReport(n)[res].disk], 1)
DrbdConnOf(n, res) == Metric("cluster_drbd_conn", [node |-> n, resource |-> res, conn |-> DrbdReport(n)[res].conn], 1)
ResyncOf(n, res) == Metric("cluster_drbd_resync_pct", [node |-> n, resource |-> res], DrbdReport(n)[res].resync_pct)
OutOfSyncOf(n, res) ==
  Metric("cluster_drbd_out_of_sync_bytes", [node |-> n, resource |-> res], DrbdReport(n)[res].out_of_sync_bytes)

DrbdSeries(n, s) ==
  \E res \in Volumes(n) : s \in {DrbdRoleOf(n, res), DrbdDiskOf(n, res), DrbdConnOf(n, res), ResyncOf(n, res),
                                 OutOfSyncOf(n, res)}

LEMMA VolumesApart == Ha # Dr /\ <<"drbd", "mqlun">> \notin {Ha, Dr}
BY DEF Ha, Dr

\* The entries of a node's HA volume and, on a site's primary, of its DR volume.
HaVolume(n) ==
  [role |-> IF IsPrimary(n) \/ storage[SiteOf(n)] = "dual" THEN "Primary" ELSE "Secondary",
   disk |-> IF storage[SiteOf(n)] = "Diskless" /\ IsPrimary(n) THEN "Diskless" ELSE "UpToDate",
   conn |-> IF storage[SiteOf(n)] = "StandAlone" THEN "StandAlone" ELSE "Connected",
   resync_pct |-> 100,
   out_of_sync_bytes |-> IF storage[SiteOf(n)] = "StandAlone" /\ IsPrimary(n) THEN 4096 ELSE 0]
DrVolume(n) ==
  [role |-> IF SiteOf(n) \in live THEN "Primary" ELSE "Secondary",
   disk |-> "UpToDate",
   conn |-> IF Diverged THEN "StandAlone" ELSE IF Reachable THEN "Connected" ELSE "Connecting",
   resync_pct |-> 100,
   out_of_sync_bytes |-> IF SiteOf(n) \in live /\ (Diverged \/ ~Reachable) THEN 8192 ELSE 0]

LEMMA VolumeFields ==
  ASSUME NEW n
  PROVE  /\ DOMAIN DrbdReport(n) = Volumes(n)
         /\ DrbdReport(n)[Ha] = HaVolume(n)
         /\ IsPrimary(n) => DrbdReport(n)[Dr] = DrVolume(n)
<1> DEFINE a == [res \in {<<"ha", base>>} |-> HaVolume(n)]
           b == [res \in {r \in {<<"dr", base>>} : IsPrimary(n)} |-> DrVolume(n)]
           c == a ++ b
<1>1. DrbdReport(n) = c
  BY Zenon DEF DrbdReport, IsPrimary, HaVolume, DrVolume
<1>2. DOMAIN a = {Ha} /\ a[Ha] = HaVolume(n)
  BY DEF Ha
<1>3. DOMAIN b = {res \in {Dr} : IsPrimary(n)} /\ (IsPrimary(n) => b[Dr] = DrVolume(n))
  BY DEF Dr
<1> HIDE DEF a, b
<1>4. /\ DOMAIN c = DOMAIN a \cup DOMAIN b
      /\ \A label \in DOMAIN a : c[label] = a[label]
      /\ \A label \in DOMAIN b \ DOMAIN a : c[label] = b[label]
  BY MergedFields
<1> HIDE DEF c
<1>5. DOMAIN c = Volumes(n) /\ c[Ha] = HaVolume(n)
  BY <1>2, <1>3, <1>4 DEF Volumes
<1>6. IsPrimary(n) => c[Dr] = DrVolume(n)
  BY <1>2, <1>3, <1>4, VolumesApart
<1> QED BY <1>1, <1>5, <1>6

LEMMA RenderedDrbd ==
  ASSUME NEW n, NEW s
  PROVE  s \in RenderDrbd(n, DrbdReport(n)) <=> DrbdSeries(n, s)
<1>1. DOMAIN DrbdReport(n) = Volumes(n)
  BY VolumeFields
<1> DEFINE drbd == DrbdReport(n)
<1> HIDE DEF drbd
<1>2. s \in RenderDrbd(n, drbd) <=>
        \E res \in DOMAIN drbd :
          \/ s = Metric("cluster_drbd_role", [node |-> n, resource |-> res, role |-> drbd[res].role], 1)
          \/ s = Metric("cluster_drbd_disk", [node |-> n, resource |-> res, disk |-> drbd[res].disk], 1)
          \/ s = Metric("cluster_drbd_conn", [node |-> n, resource |-> res, conn |-> drbd[res].conn], 1)
          \/ s = Metric("cluster_drbd_resync_pct", [node |-> n, resource |-> res], drbd[res].resync_pct)
          \/ s = Metric("cluster_drbd_out_of_sync_bytes", [node |-> n, resource |-> res],
                        drbd[res].out_of_sync_bytes)
  BY DEF RenderDrbd
<1> QED BY <1>1, <1>2 DEF DrbdSeries, drbd, DrbdRoleOf, DrbdDiskOf, DrbdConnOf, ResyncOf, OutOfSyncOf

---------------------------------------------------------------------------

\* The bans the collector finds under the name it looks for.
Seen == IF base = "qmrdqm" THEN banned ELSE {}

LEMMA AllSeen == BansSeen => Seen = banned
BY DEF BansSeen, Seen

FailsOf(m) == IF m \in Seen THEN INFINITY ELSE 0
PmOnlineOf(n, m) == MemberSeries("cluster_rdqm_pm_online", n, m, Flag(m \in up))
FailCountOf(n, m) == MemberSeries("cluster_rdqm_failcount", n, m, FailsOf(m))
StartableOf(n, m) == MemberSeries("cluster_rdqm_qm_startable", n, m, Flag(m \notin Seen))
ReadyOf(n, m) == MemberSeries("cluster_rdqm_node_ready", n, m, Flag(m \in up \ Seen))
PmStateOf(n, m, id) == Metric("cluster_rdqm_pm_state", [node |-> n, member |-> m, resource |-> id],
                              PmCode(PmRole(CrmReport(n), id, m)))

CrmSeries(n, s) ==
  \E m \in Members(SiteOf(n)) :
    \/ s \in {PmOnlineOf(n, m), FailCountOf(n, m), StartableOf(n, m), ReadyOf(n, m)}
    \/ \E id \in PmResources : s = PmStateOf(n, m, id)

\* crm_mon's report of a site.
CrmView(site, crm) ==
  /\ crm.nodes = Members(site) /\ crm.online = Left(site)
  /\ \A h : h \in crm.history <=>
       \E m \in Left(site) \cap banned : h = [node |-> m, id |-> <<"qm", base>>, failcount |-> INFINITY]
  /\ \A r : r \in crm.resources <=>
       \/ \E kind \in {"qm", "ip"} :
            Running(primary[site]) /\ r = [id |-> <<kind, base>>, node |-> primary[site], role |-> "Started"]
       \/ \E m \in Left(site) :
            r = [id |-> <<"drbd", base>>, node |-> m, role |-> IF m = primary[site] THEN "Promoted" ELSE "Unpromoted"]
       \/ \E m \in Left(site) \cap {primary[site]} :
            r = [id |-> <<"dr", base>>, node |-> m, role |-> IF site \in live THEN "Promoted" ELSE "Unpromoted"]

LEMMA CrmFields ==
  ASSUME NEW n
  PROVE  CrmView(SiteOf(n), CrmReport(n))
<1> DEFINE s == SiteOf(n)
           crm == CrmReport(n)
           started == {[id |-> <<kind, base>>, node |-> primary[s], role |-> "Started"] :
                         kind \in {k \in {"qm", "ip"} : Running(primary[s])}}
           drbd == {[id |-> <<"drbd", base>>, node |-> m,
                     role |-> IF m = primary[s] THEN "Promoted" ELSE "Unpromoted"] : m \in Left(s)}
           dr == {[id |-> <<"dr", base>>, node |-> m,
                   role |-> IF s \in live THEN "Promoted" ELSE "Unpromoted"] : m \in Left(s) \cap {primary[s]}}
           history == {[node |-> m, id |-> <<"qm", base>>, failcount |-> INFINITY] : m \in Left(s) \cap banned}
<1>2. \A h : h \in history <=>
        \E m \in Left(s) \cap banned : h = [node |-> m, id |-> <<"qm", base>>, failcount |-> INFINITY]
  BY Zenon
<1>3. \A r : r \in started <=> \E kind \in {"qm", "ip"} :
                Running(primary[s]) /\ r = [id |-> <<kind, base>>, node |-> primary[s], role |-> "Started"]
  BY Zenon
<1>4. \A r : /\ r \in drbd <=> \E m \in Left(s) :
                r = [id |-> <<"drbd", base>>, node |-> m, role |-> IF m = primary[s] THEN "Promoted" ELSE "Unpromoted"]
             /\ r \in dr <=> \E m \in Left(s) \cap {primary[s]} :
                r = [id |-> <<"dr", base>>, node |-> m, role |-> IF s \in live THEN "Promoted" ELSE "Unpromoted"]
  BY Zenon
<1>5. crm = [nodes |-> Members(s), online |-> Left(s), resources |-> (started \cup drbd) \cup dr, history |-> history]
  BY Zenon DEF CrmReport
<1> HIDE DEF started, drbd, dr, history
<1> DEFINE record == [nodes |-> Members(s), online |-> Left(s), resources |-> (started \cup drbd) \cup dr, history |-> history]
<1>7. record.nodes = Members(s) /\ record.online = Left(s) /\ record.resources = (started \cup drbd) \cup dr /\ record.history = history
  OBVIOUS
<1>8. crm.nodes = Members(s) /\ crm.online = Left(s) /\ crm.resources = (started \cup drbd) \cup dr /\ crm.history = history
  <2> HIDE DEF crm
  <2> QED BY <1>5, <1>7
<1> HIDE DEF crm, record
<1>9. \A r : r \in crm.resources <=> r \in started \/ r \in drbd \/ r \in dr
  BY <1>8
<1>10. CrmView(s, crm)
  BY <1>2, <1>3, <1>4, <1>8, <1>9 DEF CrmView
<1> QED BY <1>10 DEF crm

LEMMA FailCounts ==
  ASSUME Typed, NEW n \in Nodes, NEW m \in Members(SiteOf(n))
  PROVE  FailCount(CrmReport(n), m) = FailsOf(m)
<1> DEFINE crm == CrmReport(n)
           rows == {k \in crm.history : k.node = m /\ k.id = PmQm}
           counts == {h.failcount : h \in rows}
           row(k) == [node |-> k, id |-> <<"qm", base>>, failcount |-> INFINITY]
<1>1. CrmView(SiteOf(n), crm)
  BY CrmFields
<1> HIDE DEF crm
<1>2. \A h : h \in crm.history <=> \E k \in Left(SiteOf(n)) \cap banned : h = row(k)
  BY <1>1, Zenon DEF CrmView
<1>3. \A k : row(k).node = k /\ row(k).id = <<"qm", base>> /\ row(k).failcount = INFINITY
  OBVIOUS
<1>4. m \in Left(SiteOf(n)) \cap banned <=> m \in banned
  BY DEF Left, Typed
<1>5. <<"qm", base>> = PmQm <=> base = "qmrdqm"
  BY DEF PmQm
<1> HIDE DEF row
<1>6. \A h : h \in rows <=> m \in Seen /\ h = row(m)
  BY <1>2, <1>3, <1>4, <1>5 DEF Seen
<1>7. FailCount(crm, m) = IF counts = {} THEN 0 ELSE CHOOSE c \in counts : TRUE
  BY DEF FailCount
<1> HIDE DEF rows
<1>8. \A c : c \in counts <=> m \in Seen /\ c = INFINITY
  BY <1>3, <1>6
<1> HIDE DEF counts
<1> QED BY <1>7, <1>8 DEF FailsOf, crm

\* What Pacemaker shows of the queue manager and its volume, if its resources
\* have the names the collector looks for.
LEMMA PmStates ==
  ASSUME Typed, NEW n \in Nodes, NEW m \in Members(SiteOf(n)), base = "qmrdqm"
  PROVE  /\ PmCode(PmRole(CrmReport(n), <<"qm", base>>, m)) = IF Running(m) THEN 2 ELSE 0
         /\ PmCode(PmRole(CrmReport(n), <<"drbd", base>>, m)) =
              IF m \notin up THEN 0 ELSE IF IsPrimary(m) THEN 2 ELSE 1
<1> DEFINE crm == CrmReport(n)
           site == SiteOf(n)
           rows(kind) == {q \in crm.resources : q.id = <<kind, base>> /\ q.node = m}
           held(kind) == {r.role : r \in rows(kind)}
           row(kind, k, role) == [id |-> <<kind, base>>, node |-> k, role |-> role]
           side == IF site \in live THEN "Promoted" ELSE "Unpromoted"
           roleAt(k) == IF k = primary[site] THEN "Promoted" ELSE "Unpromoted"
<1>1. CrmView(site, crm)
  BY CrmFields
<1>2. site \in Sites /\ SiteOf(m) = site
  BY SitesOfNodes
<1>3. Running(m) <=> Running(primary[site]) /\ m = primary[site]
  BY <1>2 DEF Running
<1>4. m \in Left(site) <=> m \in up
  BY DEF Left
<1> HIDE DEF crm, site
<1>11. \A r : r \in crm.resources <=>
         \/ \E kind \in {"qm", "ip"} : Running(primary[site]) /\ r = row(kind, primary[site], "Started")
         \/ \E k \in Left(site) : r = row("drbd", k, roleAt(k))
         \/ \E k \in Left(site) \cap {primary[site]} : r = row("dr", k, side)
  BY <1>1, Zenon DEF CrmView
<1>12. \A kind, k, held1 : LET r == row(kind, k, held1) IN
         r.id = <<kind, base>> /\ r.node = k /\ r.role = held1
  OBVIOUS
<1>13. \A a, b : <<a, base>> = <<b, base>> <=> a = b
  OBVIOUS
<1> HIDE DEF row, side, roleAt
<1>14. \A r : r \in rows("qm") <=> Running(m) /\ r = row("qm", m, "Started")
  BY <1>3, <1>11, <1>12, <1>13
<1>15. \A r : r \in rows("drbd") <=> m \in up /\ r = row("drbd", m, roleAt(m))
  BY <1>4, <1>11, <1>12, <1>13
<1> HIDE DEF rows
<1>5. \A x : x \in held("qm") <=> Running(m) /\ x = "Started"
  BY <1>12, <1>14
<1>6. \A x : x \in held("drbd") <=> m \in up /\ x = roleAt(m)
  BY <1>12, <1>15
<1>7. \A kind : PmRole(crm, <<kind, base>>, m) = IF held(kind) = {} THEN None ELSE CHOOSE role \in held(kind) : TRUE
  BY Zenon DEF PmRole, held, rows
<1>16. roleAt(m) = IF m = primary[site] THEN "Promoted" ELSE "Unpromoted"
  BY DEF roleAt
<1>8. PmCode(None) = 0 /\ PmCode("Started") = 2 /\ PmCode("Promoted") = 2 /\ PmCode("Unpromoted") = 1
  BY FieldAssumption DEF PmCode
<1> HIDE DEF held
<1>9. PmRole(crm, <<"qm", base>>, m) = IF Running(m) THEN "Started" ELSE None
  BY <1>5, <1>7
<1>10. PmRole(crm, <<"drbd", base>>, m) =
         IF m \notin up THEN None ELSE IF m = primary[site] THEN "Promoted" ELSE "Unpromoted"
  BY <1>6, <1>7, <1>16
<1> QED BY <1>2, <1>8, <1>9, <1>10 DEF crm, IsPrimary

LEMMA RenderedCrm ==
  ASSUME Typed, NEW n \in Nodes, NEW s
  PROVE  s \in RenderCrm(n, CrmReport(n)) <=> CrmSeries(n, s)
<1> DEFINE crm == CrmReport(n)
           site == SiteOf(n)
<1>1. crm.nodes = Members(site) /\ crm.online = Left(site)
  BY CrmFields DEF CrmView
<1>2. s \in RenderCrm(n, crm) <=> \E m \in Members(site) : s \in RenderCrmMember(n, m, crm)
  <2> HIDE DEF crm, site
  <2>1. s \in RenderCrm(n, crm) <=> \E m \in crm.nodes : s \in RenderCrmMember(n, m, crm)
    BY Zenon DEF RenderCrm
  <2> QED BY <1>1, <2>1
<1>3. ASSUME NEW m \in Members(site)
      PROVE  s \in RenderCrmMember(n, m, crm) <=>
               \/ s \in {PmOnlineOf(n, m), FailCountOf(n, m), StartableOf(n, m), ReadyOf(n, m)}
               \/ \E id \in PmResources : s = PmStateOf(n, m, id)
  <2> DEFINE fc == FailCount(crm, m)
             labels == [node |-> n, member |-> m]
  <2>1. fc = FailsOf(m)
    BY FailCounts
  <2>2. Startable(FailsOf(m)) <=> m \notin Seen
    BY DEF Startable, FailsOf, INFINITY
  <2>3. m \in crm.online <=> m \in up
    BY <1>1 DEF Left
  <2> HIDE DEF fc, crm
  <2>4. s \in RenderCrmMember(n, m, crm) <=>
          \/ s \in {Metric("cluster_rdqm_pm_online", labels, Flag(m \in crm.online)),
                    Metric("cluster_rdqm_failcount", labels, fc),
                    Metric("cluster_rdqm_qm_startable", labels, Flag(Startable(fc))),
                    Metric("cluster_rdqm_node_ready", labels, Flag(m \in crm.online /\ Startable(fc)))}
          \/ \E id \in PmResources :
               s = Metric("cluster_rdqm_pm_state", [node |-> n, member |-> m, resource |-> id],
                          PmCode(PmRole(crm, id, m)))
    BY Zenon DEF RenderCrmMember, fc
  <2>5. /\ Flag(m \in crm.online) = Flag(m \in up) /\ Flag(Startable(fc)) = Flag(m \notin Seen)
        /\ Flag(m \in crm.online /\ Startable(fc)) = Flag(m \in up \ Seen)
    BY <2>1, <2>2, <2>3 DEF Flag
  <2>6. \A id : Metric("cluster_rdqm_pm_state", [node |-> n, member |-> m, resource |-> id],
                       PmCode(PmRole(crm, id, m))) = PmStateOf(n, m, id)
    BY Zenon DEF PmStateOf, crm
  <2>7. /\ Metric("cluster_rdqm_pm_online", labels, Flag(m \in crm.online)) = PmOnlineOf(n, m)
        /\ Metric("cluster_rdqm_failcount", labels, fc) = FailCountOf(n, m)
        /\ Metric("cluster_rdqm_qm_startable", labels, Flag(Startable(fc))) = StartableOf(n, m)
        /\ Metric("cluster_rdqm_node_ready", labels, Flag(m \in crm.online /\ Startable(fc))) = ReadyOf(n, m)
    BY <2>1, <2>5, Zenon DEF PmOnlineOf, FailCountOf, StartableOf, ReadyOf, MemberSeries
  <2> QED BY <2>4, <2>6, <2>7
<1> QED BY <1>2, <1>3 DEF CrmSeries

---------------------------------------------------------------------------
(* A textfile.                                                             *)

Fresher(n, s) == \E source : s = Fresh(n, source)

LEMMA Written ==
  ASSUME Typed, NEW n \in Nodes, NEW s,
         NEW status \in {{}, {StatusReport(n)}}, NEW drbd \in {{}, {DrbdReport(n)}},
         NEW crm \in {{}, {CrmReport(n)}}
  PROVE  s \in Body(n, "QM", status, drbd, crm) <=>
           \/ status # {} /\ (StatusSeries(n, s) \/ s = Fresh(n, "rdqmstatus"))
           \/ drbd # {} /\ (DrbdSeries(n, s) \/ s = Fresh(n, "drbd"))
           \/ crm # {} /\ (CrmSeries(n, s) \/ s = Fresh(n, "crm"))
<1>1. s \in Body(n, "QM", status, drbd, crm) <=>
        \/ \E r \in status : s \in RenderStatus(n, "QM", ParseStatus(r)) \cup {Fresh(n, "rdqmstatus")}
        \/ \E r \in drbd : s \in RenderDrbd(n, r) \cup {Fresh(n, "drbd")}
        \/ \E r \in crm : s \in RenderCrm(n, r) \cup {Fresh(n, "crm")}
  <2> DEFINE a == {RenderStatus(n, "QM", ParseStatus(r)) \cup {Fresh(n, "rdqmstatus")} : r \in status}
             b == {RenderDrbd(n, r) \cup {Fresh(n, "drbd")} : r \in drbd}
             c == {RenderCrm(n, r) \cup {Fresh(n, "crm")} : r \in crm}
  <2>1. s \in Body(n, "QM", status, drbd, crm) <=> s \in UNION ((a \cup b) \cup c)
    BY Zenon DEF Body
  <2>2. /\ s \in UNION a <=> \E r \in status : s \in RenderStatus(n, "QM", ParseStatus(r)) \cup {Fresh(n, "rdqmstatus")}
        /\ s \in UNION b <=> \E r \in drbd : s \in RenderDrbd(n, r) \cup {Fresh(n, "drbd")}
        /\ s \in UNION c <=> \E r \in crm : s \in RenderCrm(n, r) \cup {Fresh(n, "crm")}
    BY Zenon
  <2> HIDE DEF a, b, c
  <2> QED BY <2>1, <2>2
<1>2. s \in RenderStatus(n, "QM", ParseStatus(StatusReport(n))) <=> StatusSeries(n, s)
  BY RenderedStatus
<1>3. s \in RenderDrbd(n, DrbdReport(n)) <=> DrbdSeries(n, s)
  BY RenderedDrbd
<1>4. s \in RenderCrm(n, CrmReport(n)) <=> CrmSeries(n, s)
  BY RenderedCrm
<1> QED BY <1>1, <1>2, <1>3, <1>4

LEMMA SeriesNames ==
  \A n, m, kind, holder, source, res, id :
    /\ QuorateOf(n).name = "cluster_quorate" /\ HaOkOf(n).name = "cluster_rdqm_ha_status_ok"
    /\ HaStatusOf(n).name = "cluster_rdqm_ha_status" /\ RoleCodeOf(n).name = "cluster_rdqm_role_code"
    /\ RunsOf(n).name = "cluster_rdqm_qm_running" /\ RoleOf(n).name = "cluster_rdqm_role"
    /\ OnlineOf(n, m).name = "cluster_node_online"
    /\ MemberStatusOf(n, m).name = "cluster_rdqm_member_status"
    /\ FloatingIpOf(n).name = "cluster_rdqm_floating_ip"
    /\ OwnerOf(n).name = "cluster_resource_owner"
    /\ LocationOf(n, kind, holder).name = "cluster_rdqm_location"
    /\ DrRoleOf(n).name = "cluster_rdqm_dr_role" /\ DrCodeOf(n).name = "cluster_rdqm_dr_role_code"
    /\ DrStatusOf(n).name = "cluster_rdqm_dr_status" /\ DrOkOf(n).name = "cluster_rdqm_dr_status_ok"
    /\ DrbdRoleOf(n, res).name = "cluster_drbd_role" /\ DrbdDiskOf(n, res).name = "cluster_drbd_disk"
    /\ DrbdConnOf(n, res).name = "cluster_drbd_conn" /\ ResyncOf(n, res).name = "cluster_drbd_resync_pct"
    /\ OutOfSyncOf(n, res).name = "cluster_drbd_out_of_sync_bytes"
    /\ PmOnlineOf(n, m).name = "cluster_rdqm_pm_online"
    /\ FailCountOf(n, m).name = "cluster_rdqm_failcount"
    /\ StartableOf(n, m).name = "cluster_rdqm_qm_startable"
    /\ ReadyOf(n, m).name = "cluster_rdqm_node_ready"
    /\ PmStateOf(n, m, id).name = "cluster_rdqm_pm_state"
    /\ Fresh(n, source).name = "cluster_state_last_write_timestamp"
BY MetricFields
   DEF QuorateOf, HaOkOf, HaStatusOf, RoleCodeOf, RunsOf, RoleOf, OnlineOf, MemberStatusOf, FloatingIpOf,
       OwnerOf, LocationOf, DrRoleOf, DrCodeOf, DrStatusOf, DrOkOf, DrbdRoleOf, DrbdDiskOf, DrbdConnOf,
       ResyncOf, OutOfSyncOf, PmOnlineOf, FailCountOf, StartableOf, ReadyOf, PmStateOf, Fresh,
       MemberSeries, NodeSeries

---------------------------------------------------------------------------
(* The inductive invariant.  Beside the types: some node runs; a site's    *)
(* primary is one of its nodes, and runs if any of them does; its operator *)
(* prefers one of its nodes or none; a volume splits only between two; and *)
(* a file holds what the contract names, of its own node, which calls      *)
(* nobody but itself the owner.                                            *)

Sound(n, s) == /\ Emits(RDQM, s)
               /\ s.labels["node"] = n
               /\ s.name = "cluster_resource_owner" => s.labels["holder"] = n

Placement ==
  \A s \in Sites :
    /\ SiteOf(primary[s]) = s
    /\ preferred[s] # None => SiteOf(preferred[s]) = s
    /\ Left(s) # {} => primary[s] \in up

Faults == \A s \in Sites : storage[s] \in {"StandAlone", "dual"} => Cardinality(Members(s)) > 1

IInv == /\ Typed
        /\ up # {}
        /\ Placement
        /\ Faults
        /\ DOMAIN file = Nodes
        /\ \A n \in Nodes : \A s \in file[n] : Sound(n, s)

LEMMA SeriesSound ==
  ASSUME NEW n, NEW s,
         StatusSeries(n, s) \/ DrbdSeries(n, s) \/ CrmSeries(n, s) \/ Fresher(n, s)
  PROVE  Sound(n, s)
<1> USE DEF Sound, Emits, RDQM, RdqmHa, RdqmDr, Drbd, RdqmPacemaker, Family, Metric
<1>1. CASE StatusSeries(n, s)
  <2>1. CASE s \in {QuorateOf(n), HaOkOf(n), HaStatusOf(n), RoleCodeOf(n), RunsOf(n), RoleOf(n)}
    BY <2>1 DEF QuorateOf, HaOkOf, HaStatusOf, RoleCodeOf, RunsOf, RoleOf, MemberSeries, NodeSeries
  <2>2. CASE s \in {DrRoleOf(n), DrCodeOf(n), DrStatusOf(n), DrOkOf(n)}
    BY <2>2 DEF DrRoleOf, DrCodeOf, DrStatusOf, DrOkOf, NodeSeries
  <2>3. CASE \E m : s \in {OnlineOf(n, m), MemberStatusOf(n, m)}
    BY <2>3 DEF OnlineOf, MemberStatusOf, MemberSeries
  <2>4. CASE s \in {FloatingIpOf(n), OwnerOf(n)}
    BY <2>4 DEF FloatingIpOf, OwnerOf
  <2>5. CASE \E kind, holder : s = LocationOf(n, kind, holder)
    BY <2>5 DEF LocationOf
  <2> HIDE DEF Sound, Emits, RDQM, RdqmHa, RdqmDr, Drbd, RdqmPacemaker, Family, Metric
  <2> QED BY <1>1, <2>1, <2>2, <2>3, <2>4, <2>5 DEF StatusSeries
<1>2. CASE DrbdSeries(n, s)
  BY <1>2 DEF DrbdSeries, DrbdRoleOf, DrbdDiskOf, DrbdConnOf, ResyncOf, OutOfSyncOf
<1>3. CASE CrmSeries(n, s)
  BY <1>3 DEF CrmSeries, PmOnlineOf, FailCountOf, StartableOf, ReadyOf, PmStateOf, MemberSeries
<1>4. CASE Fresher(n, s)
  BY <1>4 DEF Fresher, Fresh
<1> HIDE DEF Sound, Emits, RDQM, RdqmHa, RdqmDr, Drbd, RdqmPacemaker, Family, Metric
<1> QED BY <1>1, <1>2, <1>3, <1>4

LEMMA RunsSound ==
  ASSUME Typed, NEW n \in Nodes,
         NEW status \in {{}, {StatusReport(n)}}, NEW drbd \in {{}, {DrbdReport(n)}},
         NEW crm \in {{}, {CrmReport(n)}}
  PROVE  \A s \in Body(n, "QM", status, drbd, crm) : Sound(n, s)
<1> TAKE s \in Body(n, "QM", status, drbd, crm)
<1>1. StatusSeries(n, s) \/ DrbdSeries(n, s) \/ CrmSeries(n, s) \/ Fresher(n, s)
  BY Written DEF Fresher
<1> QED BY <1>1, SeriesSound

LEMMA Initially == Init => IInv
<1> SUFFICES ASSUME Init PROVE IInv
  OBVIOUS
<1>1. Typed
  BY RdqmAssumption DEF Init, Typed
<1>2. up # {}
  BY RdqmAssumption DEF Init
<1>3. Placement
  BY DEF Init, Placement
<1>4. Faults
  BY DEF Init, Faults
<1>5. DOMAIN file = Nodes /\ \A n \in Nodes : file[n] = {}
  BY DEF Init
<1> QED BY <1>1, <1>2, <1>3, <1>4, <1>5 DEF IInv

\* Where Pacemaker puts a site's primary.
LEMMA PlacedThere ==
  ASSUME IInv, NEW s \in Sites, NEW running, NEW barred, NEW p \in Placed(s, running, barred)
  PROVE  p \in Nodes /\ SiteOf(p) = s /\ (Members(s) \cap running # {} => p \in running)
<1>1. primary[s] \in Nodes /\ SiteOf(primary[s]) = s
  BY DEF IInv, Typed, Placement
<1>2. \A m \in Members(s) : m \in Nodes /\ SiteOf(m) = s
  BY SitesOfNodes
<1> QED BY <1>1, <1>2 DEF Placed

LEMMA PlaceKeeps ==
  ASSUME IInv, NEW n \in Nodes, up' \subseteq Nodes, up' \ {n} = up \ {n}, preferred' = preferred,
         Place(SiteOf(n))
  PROVE  Placement' /\ primary' \in [Sites -> Nodes]
<1> DEFINE s == SiteOf(n)
<1>1. s \in Sites
  BY SitesOfNodes
<1>2. PICK p \in Placed(s, up', banned') : primary' = [primary EXCEPT ![s] = p]
  BY DEF Place
<1>3. p \in Nodes /\ SiteOf(p) = s /\ (Members(s) \cap up' # {} => p \in up')
  BY <1>1, <1>2, PlacedThere
<1>4. primary \in [Sites -> Nodes]
  BY DEF IInv, Typed
<1>5. \A t \in Sites : primary'[t] = IF t = s THEN p ELSE primary[t]
  BY <1>2, <1>4
<1>6. \A t \in Sites : t # s => Members(t) \cap up' = Members(t) \cap up /\ n \notin Members(t)
  BY SitesOfNodes
<1>7. ASSUME NEW t \in Sites
      PROVE  /\ SiteOf(primary'[t]) = t
             /\ preferred'[t] # None => SiteOf(preferred'[t]) = t
             /\ Members(t) \cap up' # {} => primary'[t] \in up'
  <2>1. /\ SiteOf(primary[t]) = t /\ (preferred[t] # None => SiteOf(preferred[t]) = t)
        /\ Members(t) \cap up # {} => primary[t] \in up
    BY DEF IInv, Placement, Left
  <2>2. CASE t = s
    BY <1>3, <1>5, <2>1, <2>2
  <2>3. CASE t # s
    <3>1. primary[t] \in Members(t)
      BY <1>4, <2>1, SitesOfNodes
    <3> HIDE DEF s
    <3> QED BY <1>5, <1>6, <2>1, <2>3, <3>1
  <2> QED BY <2>2, <2>3
<1>8. Placement'
  BY <1>7 DEF Placement, Left
<1>9. primary' \in [Sites -> Nodes]
  BY <1>2, <1>3, <1>4
<1> QED BY <1>8, <1>9

LEMMA EventCounted ==
  ASSUME Typed, Event
  PROVE  events' \in 0 .. MaxEvents
BY RdqmAssumption DEF Typed, Event

\* A change of the clusters leaves the files, and the invariant, as they are.
LEMMA ChangeKeeps ==
  ASSUME IInv, UNCHANGED <<base, file>>, Event \/ UNCHANGED events,
         up' \subseteq Nodes, up' # {}, banned' \subseteq up',
         primary' \in [Sites -> Nodes], preferred' \in [Sites -> Nodes \cup {None}],
         live' \subseteq Sites, linked' \in BOOLEAN,
         storage' \in [Sites -> {"fine", "Diskless", "StandAlone", "dual"}],
         Placement', Faults'
  PROVE  IInv'
<1>1. events' \in 0 .. MaxEvents
  BY EventCounted DEF IInv, Typed
<1> QED BY <1>1 DEF IInv, Typed, Sound, Emits

LEMMA FilesKeep ==
  ASSUME IInv, NEW n \in Nodes, Collect(n)
  PROVE  IInv'
<1>1. PICK status \in {{}, {StatusReport(n)}} : \E drbd \in {{}, {DrbdReport(n)}} : \E crm \in {{}, {CrmReport(n)}} :
        file' = [file EXCEPT ![n] = Body(n, "QM", status, drbd, crm)]
  BY DEF Collect, Full
<1>2. PICK drbd \in {{}, {DrbdReport(n)}} : \E crm \in {{}, {CrmReport(n)}} :
        file' = [file EXCEPT ![n] = Body(n, "QM", status, drbd, crm)]
  BY <1>1
<1>3. PICK crm \in {{}, {CrmReport(n)}} : file' = [file EXCEPT ![n] = Body(n, "QM", status, drbd, crm)]
  BY <1>2
<1>4. \A s \in Body(n, "QM", status, drbd, crm) : Sound(n, s)
  BY RunsSound DEF IInv
<1>5. rdqmVars' = rdqmVars /\ events' \in 0 .. MaxEvents
  BY EventCounted DEF Collect, IInv, Typed
<1>6. DOMAIN file' = Nodes /\ \A m \in Nodes : \A s \in file'[m] : Sound(m, s)
  BY <1>3, <1>4 DEF IInv
<1> QED BY <1>5, <1>6 DEF IInv, Typed, rdqmVars, Placement, Faults, Left, Sound, Emits

LEMMA Inductive == IInv /\ [Next]_vars => IInv'
<1> SUFFICES ASSUME IInv, [Next]_vars PROVE IInv'
  OBVIOUS
<1> USE DEF IInv, Typed, Change
<1>1. ASSUME NEW n \in Nodes, Crash(n) PROVE IInv'
  <2>1. Placement' /\ primary' \in [Sites -> Nodes]
    BY <1>1, PlaceKeeps DEF Crash
  <2> QED BY <1>1, <2>1, ChangeKeeps DEF Crash, Faults
<1>2. ASSUME NEW n \in Nodes, Restart(n) PROVE IInv'
  <2>1. Placement' /\ primary' \in [Sites -> Nodes]
    BY <1>2, PlaceKeeps DEF Restart
  <2> QED BY <1>2, <2>1, ChangeKeeps DEF Restart, Faults
<1>3. ASSUME NEW n \in Nodes, Ban(n) PROVE IInv'
  <2>1. Placement' /\ primary' \in [Sites -> Nodes]
    BY <1>3, PlaceKeeps DEF Ban
  <2> QED BY <1>3, <2>1, ChangeKeeps DEF Ban, Faults
<1>4. ASSUME NEW n \in Nodes, Move(n) PROVE IInv'
  <2>1. SiteOf(n) \in Sites
    BY SitesOfNodes
  <2>2. Placement'
    BY <1>4, <2>1 DEF Move, Placement, Left
  <2> QED BY <1>4, <2>1, <2>2, ChangeKeeps DEF Move, Faults
<1>5. ASSUME NEW n \in Nodes, Collect(n) PROVE IInv'
  BY <1>5, FilesKeep
<1>6. ASSUME NEW s \in Sites, Demote(s) PROVE IInv'
  BY <1>6, ChangeKeeps DEF Demote, Faults, Placement, Left
<1>7. ASSUME NEW s \in Sites, Promote(s) PROVE IInv'
  BY <1>7, ChangeKeeps DEF Promote, Faults, Placement, Left
<1>8. ASSUME NEW s \in Sites, Ail(s) PROVE IInv'
  <2>1. PICK fault \in {"Diskless"} \cup {f \in {"StandAlone", "dual"} : Cardinality(Left(s)) > 1} :
               storage' = [storage EXCEPT ![s] = fault]
    BY <1>8 DEF Ail
  <2>2. fault \in {"StandAlone", "dual"} => Cardinality(Members(s)) > 1
    <3>1. IsFiniteSet(Members(s)) /\ Left(s) \in SUBSET Members(s)
      BY SitesOfNodes DEF Left
    <3>2. Cardinality(Left(s)) <= Cardinality(Members(s)) /\ IsFiniteSet(Left(s))
      BY <3>1, FS_Subset
    <3>3. Cardinality(Left(s)) \in Nat /\ Cardinality(Members(s)) \in Nat
      BY <3>1, <3>2, FS_CardinalityType
    <3> QED BY <2>1, <3>2, <3>3
  <2>3. Faults'
    BY <2>1, <2>2 DEF Faults
  <2>4. Placement'
    BY <1>8 DEF Ail, Placement, Left
  <2>5. storage' \in [Sites -> {"fine", "Diskless", "StandAlone", "dual"}]
    BY <2>1
  <2> QED BY <1>8, <2>3, <2>4, <2>5, ChangeKeeps DEF Ail
<1>9. CASE Link
  BY <1>9, ChangeKeeps DEF Link, Faults, Placement, Left
<1>10. CASE UNCHANGED vars
  BY <1>10, ChangeKeeps DEF vars, Faults, Placement, Left
<1> QED BY <1>1, <1>2, <1>3, <1>4, <1>5, <1>6, <1>7, <1>8, <1>9, <1>10 DEF Next

LEMMA Always == Spec => []IInv
BY Initially, Inductive, PTL DEF Spec

\* Every variable is of its type, and a textfile holds nothing but families
\* the contract declares for this collector, each with exactly the labels it
\* declares, whichever probes failed and whatever became of the sites.
THEOREM TypeCorrect == Spec => []TypeOK
<1>1. IInv => TypeOK
  BY DEF IInv, Typed, TypeOK, Sound
<1> QED BY <1>1, Always, PTL

---------------------------------------------------------------------------
(* What the board sees.  The nodes that run report on their own site.      *)

\* The other arm's Primaries.
Foreign == {Sample([node |-> n, resource |-> <<"drbd", "mqlun">>, role |-> "Primary", groups |-> "pcmk"], 1)
            : n \in {"pcmk-a1", "pcmk-a2"}}

RowOf(n, s) == ScrapedAs(SiteOf(n), s)

LEMMA ScrapedRows ==
  ASSUME NEW name, NEW x
  PROVE  x \in Samples(Scraped, name) <=>
           \/ \E n \in up : \E s \in file[n] : s.name = name /\ x = RowOf(n, s)
           \/ name = "cluster_drbd_role" /\ x \in Foreign
<1> DEFINE metric(n) == Metric("cluster_drbd_role",
                               [node |-> n, resource |-> <<"drbd", "mqlun">>, role |-> "Primary", groups |-> "pcmk"], 1)
           others == {metric(n) : n \in {"pcmk-a1", "pcmk-a2"}}
           of(n) == {InGroup(SiteOf(n), s) : s \in file[n]}
           here == {of(n) : n \in up}
<1>1. \A t : t \in Scraped <=> t \in UNION here \/ t \in others
  BY Zenon DEF Scraped
<1>2. \A t : t \in UNION here <=> \E n \in up : \E s \in file[n] : t = InGroup(SiteOf(n), s)
  <2>1. \A n, t : t \in of(n) <=> \E s \in file[n] : t = InGroup(SiteOf(n), s)
    BY Zenon
  <2> HIDE DEF of
  <2>2. \A t : t \in UNION here <=> \E n \in up : t \in of(n)
    BY Zenon
  <2> QED BY <2>1, <2>2
<1>3. \A t : t \in others <=> \E n \in {"pcmk-a1", "pcmk-a2"} : t = metric(n)
  BY Zenon
<1>4. \A n : LET t == metric(n) IN
        /\ t.name = "cluster_drbd_role"
        /\ Sample(t.labels, t.value) =
             Sample([node |-> n, resource |-> <<"drbd", "mqlun">>, role |-> "Primary", groups |-> "pcmk"], 1)
  BY MetricFields
<1>5. x \in Foreign <=> \E n \in {"pcmk-a1", "pcmk-a2"} : x =
             Sample([node |-> n, resource |-> <<"drbd", "mqlun">>, role |-> "Primary", groups |-> "pcmk"], 1)
  BY Zenon DEF Foreign
<1> HIDE DEF metric, of, here, others
<1>6. x \in Samples(Scraped, name) <=> \E t \in Scraped : t.name = name /\ x = Sample(t.labels, t.value)
  BY SamplesOf
<1>7. \A groups, s : LET t == InGroup(groups, s) IN
        t.name = s.name /\ Sample(t.labels, t.value) = ScrapedAs(groups, s)
  BY ScrapedSample
<1>8. ASSUME NEW t \in Scraped, t.name = name, x = Sample(t.labels, t.value)
      PROVE  \/ \E n \in up : \E s \in file[n] : s.name = name /\ x = RowOf(n, s)
             \/ name = "cluster_drbd_role" /\ x \in Foreign
  <2>1. CASE t \in UNION here
    <3>1. PICK n \in up : \E s \in file[n] : t = InGroup(SiteOf(n), s)
      BY <1>2, <2>1
    <3>2. PICK s \in file[n] : t = InGroup(SiteOf(n), s)
      BY <3>1
    <3> QED BY <1>7, <1>8, <3>2 DEF RowOf
  <2>2. CASE t \in others
    <3>1. PICK n \in {"pcmk-a1", "pcmk-a2"} : t = metric(n)
      BY <1>3, <2>2
    <3>2. x = Sample([node |-> n, resource |-> <<"drbd", "mqlun">>, role |-> "Primary", groups |-> "pcmk"], 1)
      BY <1>4, <1>8, <3>1
    <3>3. name = "cluster_drbd_role"
      BY <1>4, <1>8, <3>1
    <3> QED BY <1>5, <3>2, <3>3
  <2> QED BY <1>1, <2>1, <2>2
<1>9. ASSUME NEW n \in up, NEW s \in file[n], s.name = name, x = RowOf(n, s)
      PROVE  \E t \in Scraped : t.name = name /\ x = Sample(t.labels, t.value)
  <2>1. InGroup(SiteOf(n), s) \in Scraped
    BY <1>1, <1>2
  <2> QED BY <1>7, <1>9, <2>1 DEF RowOf
<1>10. ASSUME name = "cluster_drbd_role", x \in Foreign
       PROVE  \E t \in Scraped : t.name = name /\ x = Sample(t.labels, t.value)
  <2>1. PICK n \in {"pcmk-a1", "pcmk-a2"} : x =
             Sample([node |-> n, resource |-> <<"drbd", "mqlun">>, role |-> "Primary", groups |-> "pcmk"], 1)
    BY <1>5, <1>10
  <2>2. metric(n) \in Scraped
    BY <1>1, <1>3
  <2> QED BY <1>4, <1>10, <2>1, <2>2
<1> QED BY <1>6, <1>8, <1>9, <1>10

\* What a node that has collected since the last change reports.
Reported(n, s) == StatusSeries(n, s) \/ DrbdSeries(n, s) \/ CrmSeries(n, s)
                  \/ s \in {Fresh(n, "rdqmstatus"), Fresh(n, "drbd"), Fresh(n, "crm")}

LEMMA WrittenInFull ==
  ASSUME Typed, NEW n \in Nodes, NEW s
  PROVE  s \in Full(n) <=> Reported(n, s)
<1> DEFINE a == {StatusReport(n)}
           b == {DrbdReport(n)}
           c == {CrmReport(n)}
<1>1. a # {} /\ b # {} /\ c # {} /\ a \in {{}, {StatusReport(n)}} /\ b \in {{}, {DrbdReport(n)}}
      /\ c \in {{}, {CrmReport(n)}}
  OBVIOUS
<1>2. Full(n) = Body(n, "QM", a, b, c)
  BY DEF Full
<1> HIDE DEF a, b, c
<1>3. s \in Body(n, "QM", a, b, c) <=>
           \/ a # {} /\ (StatusSeries(n, s) \/ s = Fresh(n, "rdqmstatus"))
           \/ b # {} /\ (DrbdSeries(n, s) \/ s = Fresh(n, "drbd"))
           \/ c # {} /\ (CrmSeries(n, s) \/ s = Fresh(n, "crm"))
  BY <1>1, Written
<1> QED BY <1>1, <1>2, <1>3 DEF Reported

\* A node's series, by name.
LEMMA ReportedNames ==
  ASSUME NEW n, NEW s
  PROVE  /\ Reported(n, s) /\ s.name = "cluster_rdqm_ha_status_ok" <=> s = HaOkOf(n)
         /\ Reported(n, s) /\ s.name = "cluster_rdqm_role_code" <=> s = RoleCodeOf(n)
         /\ Reported(n, s) /\ s.name = "cluster_rdqm_qm_running" <=> s = RunsOf(n)
         /\ Reported(n, s) /\ s.name = "cluster_node_online" <=> \E m \in Members(SiteOf(n)) : s = OnlineOf(n, m)
         /\ Reported(n, s) /\ s.name = "cluster_rdqm_floating_ip" <=> Running(n) /\ s = FloatingIpOf(n)
         /\ Reported(n, s) /\ s.name = "cluster_resource_owner" <=> Running(n) /\ s = OwnerOf(n)
         /\ Reported(n, s) /\ s.name = "cluster_rdqm_dr_role" <=> s = DrRoleOf(n)
         /\ Reported(n, s) /\ s.name = "cluster_rdqm_dr_role_code" <=> s = DrCodeOf(n)
         /\ Reported(n, s) /\ s.name = "cluster_rdqm_dr_status_ok" <=> IsPrimary(n) /\ s = DrOkOf(n)
         /\ Reported(n, s) /\ s.name = "cluster_drbd_role" <=> \E res \in Volumes(n) : s = DrbdRoleOf(n, res)
         /\ Reported(n, s) /\ s.name = "cluster_drbd_disk" <=> \E res \in Volumes(n) : s = DrbdDiskOf(n, res)
         /\ Reported(n, s) /\ s.name = "cluster_drbd_conn" <=> \E res \in Volumes(n) : s = DrbdConnOf(n, res)
         /\ Reported(n, s) /\ s.name = "cluster_drbd_out_of_sync_bytes" <=>
              \E res \in Volumes(n) : s = OutOfSyncOf(n, res)
         /\ Reported(n, s) /\ s.name = "cluster_rdqm_failcount" <=>
              \E m \in Members(SiteOf(n)) : s = FailCountOf(n, m)
         /\ Reported(n, s) /\ s.name = "cluster_rdqm_qm_startable" <=>
              \E m \in Members(SiteOf(n)) : s = StartableOf(n, m)
         /\ Reported(n, s) /\ s.name = "cluster_rdqm_node_ready" <=>
              \E m \in Members(SiteOf(n)) : s = ReadyOf(n, m)
         /\ Reported(n, s) /\ s.name = "cluster_rdqm_pm_state" <=>
              \E m \in Members(SiteOf(n)) : \E id \in PmResources : s = PmStateOf(n, m, id)
BY SeriesNames DEF Reported, StatusSeries, DrbdSeries, CrmSeries

LEMMA OwnerFields ==
  ASSUME NEW n, NEW s, s = OwnerOf(n)
  PROVE  LET x == RowOf(n, s) IN
         "resource" \in DOMAIN x.labels /\ x.labels["resource"] = "QM" /\ x.labels["holder"] = n
<1>1. DOMAIN s.labels = {"node", "resource", "holder"} /\ s.labels["resource"] = "QM" /\ s.labels["holder"] = n
  BY MetricFields DEF OwnerOf
<1> QED BY <1>1, ScrapedFields DEF RowOf

LEMMA OwnerLabels ==
  ASSUME NEW n, NEW s, Sound(n, s), s.name = "cluster_resource_owner"
  PROVE  LET x == RowOf(n, s) IN "holder" \in DOMAIN s.labels /\ x.labels["holder"] = n
<1>1. "holder" \in DOMAIN s.labels /\ s.labels["holder"] = n
  BY DEF Sound, Emits, RDQM, RdqmHa, RdqmDr, Drbd, RdqmPacemaker, Family
<1> QED BY <1>1, ScrapedFields DEF RowOf

LEMMA FloatingIpFields ==
  ASSUME NEW n, NEW s, s = FloatingIpOf(n)
  PROVE  LET x == RowOf(n, s) IN x.labels["ip"] = <<"floating_ip", SiteOf(n)>>
<1>1. DOMAIN s.labels = {"node", "ip", "interface"} /\ s.labels["ip"] = <<"floating_ip", SiteOf(n)>>
  BY MetricFields DEF FloatingIpOf
<1> QED BY <1>1, ScrapedFields DEF RowOf

\* A node that has collected since the clusters last changed is named as the
\* queue manager's exactly if it runs it, whatever the others' files still
\* say; and with current reports the floating IPs are those of the nodes that
\* run it.
THEOREM OwnerRight == Spec => []OwnerIsReal
<1>1. ASSUME IInv, NEW n \in up, file[n] = Full(n)
      PROVE  n \in RunningOn(Scraped) <=> Running(n)
  <2> DEFINE rows == Samples(Scraped, "cluster_resource_owner")
             own == Where(rows, "resource", {"QM"})
  <2>1. n \in RunningOn(Scraped) <=> \E x \in own : n = x.labels["holder"]
    BY Zenon DEF RunningOn, Names
  <2>2. \A x : x \in own <=> x \in rows /\ "resource" \in DOMAIN x.labels /\ x.labels["resource"] = "QM"
    BY DEF Where
  <2>3. \A x : x \in rows <=> \E m \in up : \E s \in file[m] : s.name = "cluster_resource_owner" /\ x = RowOf(m, s)
    BY ScrapedRows
  <2>4. n \in Nodes
    BY <1>1 DEF IInv, Typed
  <2>5. \A s : s \in file[n] /\ s.name = "cluster_resource_owner" <=> Running(n) /\ s = OwnerOf(n)
    BY <1>1, <2>4, WrittenInFull, ReportedNames DEF IInv
  <2> HIDE DEF rows, own
  <2>6. ASSUME NEW x \in own, n = x.labels["holder"] PROVE Running(n)
    <3>1. PICK m \in up : \E s \in file[m] : s.name = "cluster_resource_owner" /\ x = RowOf(m, s)
      BY <2>2, <2>3
    <3>2. PICK s \in file[m] : s.name = "cluster_resource_owner" /\ x = RowOf(m, s)
      BY <3>1
    <3>3. m \in Nodes /\ Sound(m, s)
      BY <1>1 DEF IInv, Typed
    <3>4. x.labels["holder"] = m
      BY <3>2, <3>3, OwnerLabels
    <3> QED BY <2>5, <2>6, <3>2, <3>4
  <2>7. ASSUME Running(n) PROVE \E x \in own : n = x.labels["holder"]
    <3> DEFINE s == OwnerOf(n)
    <3>1. s \in file[n] /\ s.name = "cluster_resource_owner"
      BY <2>5, <2>7
    <3> HIDE DEF s
    <3>2. s = OwnerOf(n)
      BY DEF s
    <3>3. /\ "resource" \in DOMAIN RowOf(n, s).labels /\ RowOf(n, s).labels["resource"] = "QM"
          /\ RowOf(n, s).labels["holder"] = n
      BY <3>2, OwnerFields
    <3> QED BY <2>2, <2>3, <3>1, <3>3
  <2> QED BY <2>1, <2>6, <2>7
<1>2. ASSUME IInv, Current
      PROVE  FloatingIps(Scraped) = {<<"floating_ip", SiteOf(n)>> : n \in {m \in Nodes : Running(m)}}
  <2> DEFINE rows == Samples(Scraped, "cluster_rdqm_floating_ip")
             shown == FloatingIps(Scraped)
             ip(n) == <<"floating_ip", SiteOf(n)>>
             running == {m \in Nodes : Running(m)}
  <2>1. \A v : v \in shown <=> \E x \in rows : v = x.labels["ip"]
    BY Zenon DEF FloatingIps, Names
  <2>2. \A x : x \in rows <=> \E m \in up : \E s \in file[m] : s.name = "cluster_rdqm_floating_ip" /\ x = RowOf(m, s)
    BY ScrapedRows
  <2>3. up \subseteq Nodes
    BY <1>2 DEF IInv, Typed
  <2>4. ASSUME NEW n \in up, NEW s
        PROVE  s \in file[n] /\ s.name = "cluster_rdqm_floating_ip" <=> Running(n) /\ s = FloatingIpOf(n)
    BY <1>2, <2>3, WrittenInFull, ReportedNames DEF IInv, Current
  <2>5. \A n : Running(n) => n \in up
    BY DEF Running
  <2>6. \A n \in up : RowOf(n, FloatingIpOf(n)).labels["ip"] = ip(n)
    BY FloatingIpFields
  <2> HIDE DEF rows, shown, ip
  <2>7. \A v : v \in shown <=> \E n \in running : v = ip(n)
    <3>1. \A x : x \in rows <=> \E n \in up : Running(n) /\ x = RowOf(n, FloatingIpOf(n))
      BY <2>2, <2>4
    <3>2. \A n : n \in running <=> n \in up /\ Running(n)
      BY <2>3, <2>5
    <3> HIDE DEF running
    <3>3. ASSUME NEW v \in shown PROVE \E n \in running : v = ip(n)
      BY <2>1, <2>6, <3>1, <3>2
    <3>4. ASSUME NEW n \in running PROVE ip(n) \in shown
      BY <2>1, <2>6, <3>1, <3>2
    <3> QED BY <3>3, <3>4
  <2>8. shown = {ip(n) : n \in running}
    BY <2>7
  <2> QED BY <2>8 DEF shown, ip
<1>3. IInv => OwnerIsReal
  BY <1>1, <1>2, Zenon DEF OwnerIsReal
<1> QED BY <1>3, Always, PTL

---------------------------------------------------------------------------
(* The samples of each family, once every node that runs has collected.    *)

\* A family with a series of every node, of those its nodes have about their
\* site's members, and of those they have about their volumes.
OfNodes(name, f(_)) ==
  \A x : x \in Samples(Scraped, name) <=> \E n \in up : x = RowOf(n, f(n))
OfMembers(name, f(_, _)) ==
  \A x : x \in Samples(Scraped, name) <=> \E n \in up : \E m \in Members(SiteOf(n)) : x = RowOf(n, f(n, m))
OfVolumes(name, f(_, _)) ==
  \A x : x \in Samples(Scraped, name) <=> \E n \in up : \E res \in Volumes(n) : x = RowOf(n, f(n, res))

LEMMA CurrentRows ==
  ASSUME IInv, Current, NEW name, name # "cluster_drbd_role", NEW x
  PROVE  x \in Samples(Scraped, name) <=> \E n \in up : \E s : Reported(n, s) /\ s.name = name /\ x = RowOf(n, s)
<1>1. x \in Samples(Scraped, name) <=> \E n \in up : \E s \in file[n] : s.name = name /\ x = RowOf(n, s)
  BY ScrapedRows
<1>2. \A n \in up : n \in Nodes /\ file[n] = Full(n)
  BY DEF IInv, Typed, Current
<1>3. \A n \in up : \A s : s \in file[n] <=> Reported(n, s)
  BY <1>2, WrittenInFull DEF IInv
<1> QED BY <1>1, <1>3

LEMMA NodeRows ==
  ASSUME IInv, Current
  PROVE  /\ OfNodes("cluster_rdqm_ha_status_ok", HaOkOf)
         /\ OfNodes("cluster_rdqm_role_code", RoleCodeOf)
         /\ OfNodes("cluster_rdqm_qm_running", RunsOf)
         /\ OfNodes("cluster_rdqm_dr_role", DrRoleOf)
         /\ OfNodes("cluster_rdqm_dr_role_code", DrCodeOf)
<1>1. OfNodes("cluster_rdqm_ha_status_ok", HaOkOf)
  BY CurrentRows, ReportedNames DEF OfNodes
<1>2. OfNodes("cluster_rdqm_role_code", RoleCodeOf)
  BY CurrentRows, ReportedNames DEF OfNodes
<1>3. OfNodes("cluster_rdqm_qm_running", RunsOf)
  BY CurrentRows, ReportedNames DEF OfNodes
<1>4. OfNodes("cluster_rdqm_dr_role", DrRoleOf)
  BY CurrentRows, ReportedNames DEF OfNodes
<1>5. OfNodes("cluster_rdqm_dr_role_code", DrCodeOf)
  BY CurrentRows, ReportedNames DEF OfNodes
<1> QED BY <1>1, <1>2, <1>3, <1>4, <1>5

LEMMA MemberRows ==
  ASSUME IInv, Current
  PROVE  /\ OfMembers("cluster_node_online", OnlineOf)
         /\ OfMembers("cluster_rdqm_failcount", FailCountOf)
         /\ OfMembers("cluster_rdqm_qm_startable", StartableOf)
         /\ OfMembers("cluster_rdqm_node_ready", ReadyOf)
<1>1. OfMembers("cluster_node_online", OnlineOf)
  BY CurrentRows, ReportedNames DEF OfMembers
<1>2. OfMembers("cluster_rdqm_failcount", FailCountOf)
  BY CurrentRows, ReportedNames DEF OfMembers
<1>3. OfMembers("cluster_rdqm_qm_startable", StartableOf)
  BY CurrentRows, ReportedNames DEF OfMembers
<1>4. OfMembers("cluster_rdqm_node_ready", ReadyOf)
  BY CurrentRows, ReportedNames DEF OfMembers
<1> QED BY <1>1, <1>2, <1>3, <1>4

LEMMA VolumeRows ==
  ASSUME IInv, Current
  PROVE  /\ OfVolumes("cluster_drbd_disk", DrbdDiskOf)
         /\ OfVolumes("cluster_drbd_conn", DrbdConnOf)
         /\ OfVolumes("cluster_drbd_out_of_sync_bytes", OutOfSyncOf)
<1>1. OfVolumes("cluster_drbd_disk", DrbdDiskOf)
  BY CurrentRows, ReportedNames DEF OfVolumes
<1>2. OfVolumes("cluster_drbd_conn", DrbdConnOf)
  BY CurrentRows, ReportedNames DEF OfVolumes
<1>3. OfVolumes("cluster_drbd_out_of_sync_bytes", OutOfSyncOf)
  BY CurrentRows, ReportedNames DEF OfVolumes
<1> QED BY <1>1, <1>2, <1>3

LEMMA OtherRows ==
  ASSUME IInv, Current, NEW x
  PROVE  /\ x \in Samples(Scraped, "cluster_rdqm_dr_status_ok") <=> \E n \in up : IsPrimary(n) /\ x = RowOf(n, DrOkOf(n))
         /\ x \in Samples(Scraped, "cluster_rdqm_pm_state") <=>
              \E n \in up : \E m \in Members(SiteOf(n)) : \E id \in PmResources : x = RowOf(n, PmStateOf(n, m, id))
         /\ x \in Samples(Scraped, "cluster_drbd_role") <=>
              \/ \E n \in up : \E res \in Volumes(n) : x = RowOf(n, DrbdRoleOf(n, res))
              \/ x \in Foreign
<1>1. x \in Samples(Scraped, "cluster_rdqm_dr_status_ok") <=> \E n \in up : IsPrimary(n) /\ x = RowOf(n, DrOkOf(n))
  BY CurrentRows, ReportedNames
<1>2. x \in Samples(Scraped, "cluster_rdqm_pm_state") <=>
              \E n \in up : \E m \in Members(SiteOf(n)) : \E id \in PmResources : x = RowOf(n, PmStateOf(n, m, id))
  <2>1. x \in Samples(Scraped, "cluster_rdqm_pm_state") <=>
          \E n \in up : \E s : Reported(n, s) /\ s.name = "cluster_rdqm_pm_state" /\ x = RowOf(n, s)
    BY CurrentRows
  <2>2. \A n, s : Reported(n, s) /\ s.name = "cluster_rdqm_pm_state" <=>
          \E m \in Members(SiteOf(n)) : \E id \in PmResources : s = PmStateOf(n, m, id)
    BY ReportedNames
  <2>3. ASSUME NEW n \in up, NEW s, Reported(n, s), s.name = "cluster_rdqm_pm_state", x = RowOf(n, s)
        PROVE  \E k \in up : \E m \in Members(SiteOf(k)) : \E id \in PmResources : x = RowOf(k, PmStateOf(k, m, id))
    <3>1. PICK m \in Members(SiteOf(n)) : \E id \in PmResources : s = PmStateOf(n, m, id)
      BY <2>2, <2>3
    <3>2. PICK id \in PmResources : s = PmStateOf(n, m, id)
      BY <3>1
    <3>3. x = RowOf(n, PmStateOf(n, m, id))
      BY <2>3, <3>2
    <3> QED BY <3>3
  <2>4. ASSUME NEW n \in up, NEW m \in Members(SiteOf(n)), NEW id \in PmResources, x = RowOf(n, PmStateOf(n, m, id))
        PROVE  \E k \in up : \E s : Reported(k, s) /\ s.name = "cluster_rdqm_pm_state" /\ x = RowOf(k, s)
    BY <2>2, <2>4
  <2> QED BY <2>1, <2>3, <2>4
<1>3. x \in Samples(Scraped, "cluster_drbd_role") <=>
        \/ \E n \in up : \E s \in file[n] : s.name = "cluster_drbd_role" /\ x = RowOf(n, s)
        \/ x \in Foreign
  BY ScrapedRows
<1>4. \A n \in up : n \in Nodes /\ file[n] = Full(n)
  BY DEF IInv, Typed, Current
<1>5. \A n \in up : \A s : s \in file[n] <=> Reported(n, s)
  BY <1>4, WrittenInFull DEF IInv
<1>6. \A n \in up : \A s : s \in file[n] /\ s.name = "cluster_drbd_role" <=> \E res \in Volumes(n) : s = DrbdRoleOf(n, res)
  BY <1>5, ReportedNames
<1>7. (\E n \in up : \E s \in file[n] : s.name = "cluster_drbd_role" /\ x = RowOf(n, s)) <=>
        \E n \in up : \E res \in Volumes(n) : x = RowOf(n, DrbdRoleOf(n, res))
  BY <1>6
<1> QED BY <1>1, <1>2, <1>3, <1>7

LEMMA NodeFields ==
  ASSUME NEW name, NEW n, NEW value, NEW s, s = NodeSeries(name, n, value)
  PROVE  LET x == RowOf(n, s) IN
         /\ DOMAIN x.labels = {"groups", "node"} /\ x.value = value
         /\ x.labels["groups"] = SiteOf(n) /\ x.labels["node"] = n
<1>1. DOMAIN s.labels = {"node"} /\ s.labels["node"] = n /\ s.value = value
  BY MetricFields DEF NodeSeries
<1> QED BY <1>1, ScrapedFields DEF RowOf

LEMMA MemberFields ==
  ASSUME NEW name, NEW n, NEW m, NEW value, NEW s, s = MemberSeries(name, n, m, value)
  PROVE  LET x == RowOf(n, s) IN
         /\ DOMAIN x.labels = {"groups", "node", "member"} /\ x.value = value
         /\ x.labels["groups"] = SiteOf(n) /\ x.labels["node"] = n /\ x.labels["member"] = m
<1>1. DOMAIN s.labels = {"node", "member"} /\ s.labels["node"] = n /\ s.labels["member"] = m /\ s.value = value
  BY MetricFields DEF MemberSeries
<1> QED BY <1>1, ScrapedFields DEF RowOf

LEMMA SitesReport ==
  ASSUME IInv, NEW s \in Sites
  PROVE  /\ \A n : n \in Left(s) <=> n \in up /\ SiteOf(n) = s
         /\ Members(s) # {}
         /\ \A n \in up : n \in Nodes /\ SiteOf(n) \in Sites
<1>1. up \subseteq Nodes
  BY DEF IInv, Typed
<1> QED BY <1>1, SitesOfNodes DEF Left

LEMMA NodesReport ==
  ASSUME IInv, NEW n \in up
  PROVE  n \in Nodes /\ SiteOf(n) \in Sites /\ n \in Left(SiteOf(n))
BY SitesOfNodes DEF IInv, Typed, Left

---------------------------------------------------------------------------
(* The badges.                                                             *)

StartableAt(site) == Group(Samples(Scraped, "cluster_rdqm_qm_startable"), "groups", site)
DrCodesAt(site) == Group(Samples(Scraped, "cluster_rdqm_dr_role_code"), "groups", site)

LEMMA StartableMost ==
  ASSUME IInv, Current, NEW site \in Sites
  PROVE  /\ StartableAt(site) = {} <=> Left(site) = {}
         /\ Left(site) # {} => MaxOf(StartableAt(site)) = IF Members(site) \subseteq Seen THEN 0 ELSE 1
<1> DEFINE vec == Samples(Scraped, "cluster_rdqm_qm_startable")
           G == StartableAt(site)
           row(n, m) == RowOf(n, StartableOf(n, m))
<1>1. \A x : x \in vec <=> \E n \in up : \E m \in Members(SiteOf(n)) : x = row(n, m)
  BY MemberRows DEF OfMembers
<1>2. \A n, m : LET x == row(n, m) IN
        "groups" \in DOMAIN x.labels /\ x.labels["groups"] = SiteOf(n) /\ x.value = Flag(m \notin Seen)
  <2> TAKE n, m
  <2> DEFINE s == StartableOf(n, m)
  <2>1. s = MemberSeries("cluster_rdqm_qm_startable", n, m, Flag(m \notin Seen))
    BY DEF StartableOf
  <2> HIDE DEF s
  <2>2. LET x == RowOf(n, s) IN
        "groups" \in DOMAIN x.labels /\ x.labels["groups"] = SiteOf(n) /\ x.value = Flag(m \notin Seen)
    BY <2>1, MemberFields
  <2> QED BY <2>2 DEF s
<1>3. /\ \A n : n \in Left(site) <=> n \in up /\ SiteOf(n) = site
      /\ Members(site) # {}
  BY SitesReport
<1>4. \A x : x \in G <=> x \in vec /\ "groups" \in DOMAIN x.labels /\ x.labels["groups"] = site
  BY DEF StartableAt, Group
<1> HIDE DEF vec, G, row
<1>5. \A x : x \in G <=> \E n \in Left(site) : \E m \in Members(site) : x = row(n, m)
  <2>1. ASSUME NEW x \in G PROVE \E n \in Left(site) : \E m \in Members(site) : x = row(n, m)
    BY <1>1, <1>2, <1>3, <1>4
  <2>2. ASSUME NEW n \in Left(site), NEW m \in Members(site) PROVE row(n, m) \in G
    BY <1>1, <1>2, <1>3, <1>4
  <2> QED BY <2>1, <2>2
<1>6. G = {} <=> Left(site) = {}
  BY <1>3, <1>5
<1>7. \A m : Flag(m \notin Seen) = IF m \in Seen THEN 0 ELSE 1
  BY DEF Flag
<1>8. ASSUME NEW n \in Left(site)
      PROVE  MaxOf(G) = IF Members(site) \subseteq Seen THEN 0 ELSE 1
  <2>1. CASE Members(site) \subseteq Seen
    <3>1. PICK m \in Members(site) : TRUE
      BY <1>3
    <3>2. row(n, m) \in G /\ row(n, m).value = 0 /\ \A x \in G : x.value \in Int /\ x.value <= 0
      BY <1>2, <1>5, <1>7, <2>1
    <3>3. MaxOf(G) = 0
      BY <3>2, MaxIs
    <3> QED BY <2>1, <3>3
  <2>2. CASE ~(Members(site) \subseteq Seen)
    <3>1. PICK m \in Members(site) : m \notin Seen
      BY <2>2
    <3>2. row(n, m) \in G /\ row(n, m).value = 1 /\ \A x \in G : x.value \in Int /\ x.value <= 1
      BY <1>2, <1>5, <1>7, <3>1
    <3>3. MaxOf(G) = 1
      BY <3>2, MaxIs
    <3> QED BY <2>2, <3>3
  <2> QED BY <2>1, <2>2
<1> QED BY <1>6, <1>8 DEF G

LEMMA DrCodeMost ==
  ASSUME IInv, Current, NEW site \in Sites
  PROVE  /\ DrCodesAt(site) = {} <=> Left(site) = {}
         /\ Left(site) # {} => MaxOf(DrCodesAt(site)) = IF site \in live THEN 2 ELSE 3
<1> DEFINE vec == Samples(Scraped, "cluster_rdqm_dr_role_code")
           G == DrCodesAt(site)
           row(n) == RowOf(n, DrCodeOf(n))
           code == IF site \in live THEN 2 ELSE 3
<1>1. \A x : x \in vec <=> \E n \in up : x = row(n)
  BY NodeRows DEF OfNodes
<1>2. \A n : LET x == row(n) IN
        "groups" \in DOMAIN x.labels /\ x.labels["groups"] = SiteOf(n)
        /\ x.value = IF SiteOf(n) \in live THEN 2 ELSE 3
  <2> TAKE n
  <2> DEFINE s == DrCodeOf(n)
  <2>1. s = NodeSeries("cluster_rdqm_dr_role_code", n, IF SiteOf(n) \in live THEN 2 ELSE 3)
    BY DEF DrCodeOf
  <2> HIDE DEF s
  <2>2. LET x == RowOf(n, s) IN
        "groups" \in DOMAIN x.labels /\ x.labels["groups"] = SiteOf(n)
        /\ x.value = IF SiteOf(n) \in live THEN 2 ELSE 3
    BY <2>1, NodeFields
  <2> QED BY <2>2 DEF s
<1>3. \A n : n \in Left(site) <=> n \in up /\ SiteOf(n) = site
  BY SitesReport
<1>4. \A x : x \in G <=> x \in vec /\ "groups" \in DOMAIN x.labels /\ x.labels["groups"] = site
  BY DEF DrCodesAt, Group
<1> HIDE DEF vec, G, row
<1>5. \A x : x \in G <=> \E n \in Left(site) : x = row(n)
  <2>1. ASSUME NEW x \in G PROVE \E n \in Left(site) : x = row(n)
    BY <1>1, <1>2, <1>3, <1>4
  <2>2. ASSUME NEW n \in Left(site) PROVE row(n) \in G
    BY <1>1, <1>2, <1>3, <1>4
  <2> QED BY <2>1, <2>2
<1>6. G = {} <=> Left(site) = {}
  BY <1>5
<1>7. ASSUME NEW n \in Left(site) PROVE MaxOf(G) = code
  <2>1. row(n) \in G /\ row(n).value = code /\ code \in Int /\ \A x \in G : x.value \in Int /\ x.value <= code
    BY <1>2, <1>3, <1>5
  <2> HIDE DEF code
  <2> QED BY <2>1, MaxIs
<1> QED BY <1>6, <1>7 DEF G

LEMMA BadgeValue ==
  ASSUME IInv, Current, NEW site \in Sites
  PROVE  Values(SiteBadge(Scraped, site)) =
           IF Left(site) = {} THEN {}
           ELSE IF site \in live THEN {2}
           ELSE IF Members(site) \subseteq Seen THEN {0} ELSE {1}
<1> DEFINE role == By(DrCodesAt(site), {}, MaxOf)
           start == By(StartableAt(site), {}, MaxOf)
           banning == OrZero(EqualsBool(start, 0))
           standby == Times(EqualsBool(role, 3), Minus(Scalar(1), banning))
           badge == Plus(Times(Scalar(2), EqualsBool(role, 2)), standby)
<1>1. SiteBadge(Scraped, site) = badge
  BY WhereIsGroup, Zenon DEF SiteBadge, DrCodesAt, StartableAt
<1>2. CASE Left(site) = {}
  <2>1. role = {} /\ start = {}
    BY <1>2, DrCodeMost, StartableMost, MaxOfAll
  <2> HIDE DEF role, start
  <2>2. EqualsBool(role, 3) = {} /\ EqualsBool(role, 2) = {}
    BY <2>1, EmptyCompare
  <2>3. \A a : Times({}, a) = {}
    BY DEF Times
  <2>4. Times(Scalar(2), {}) = {}
    BY ScalarTimes
  <2>5. badge = Plus({}, {})
    BY <2>2, <2>3, <2>4
  <2>6. Plus({}, {}) = {} /\ Values({}) = {}
    BY DEF Plus, Values
  <2> QED BY <1>1, <1>2, <2>5, <2>6
<1>3. CASE Left(site) # {}
  <2> DEFINE c == IF site \in live THEN 2 ELSE 3
             f == IF Members(site) \subseteq Seen THEN 0 ELSE 1
             is3 == IF c = 3 THEN 1 ELSE 0
             is2 == IF c = 2 THEN 1 ELSE 0
             is0 == IF f = 0 THEN 1 ELSE 0
  <2>1. role = Scalar(c) /\ start = Scalar(f)
    BY <1>3, DrCodeMost, StartableMost, MaxOfAll
  <2> HIDE DEF role, start, c, f
  <2>2. /\ EqualsBool(role, 3) = Scalar(is3) /\ EqualsBool(role, 2) = Scalar(is2)
        /\ EqualsBool(start, 0) = Scalar(is0)
    BY <2>1, ScalarCompare
  <2> HIDE DEF is3, is2, is0
  <2>3. banning = Scalar(is0)
    BY <2>2, ScalarOr DEF OrZero
  <2> HIDE DEF banning
  <2>4. Minus(Scalar(1), banning) = Scalar(1 - is0)
    BY <2>3, ScalarMinus
  <2>5. standby = Scalar(is3 * (1 - is0))
    BY <2>2, <2>4, ScalarTimes
  <2> HIDE DEF standby
  <2>6. Times(Scalar(2), EqualsBool(role, 2)) = Scalar(2 * is2)
    BY <2>2, ScalarTimes
  <2>7. badge = Scalar(2 * is2 + is3 * (1 - is0))
    BY <2>5, <2>6, ScalarPlus
  <2>8. Values(badge) = {2 * is2 + is3 * (1 - is0)}
    BY <2>7, ScalarValues
  <2>9. 2 * is2 + is3 * (1 - is0) = IF site \in live THEN 2 ELSE IF Members(site) \subseteq Seen THEN 0 ELSE 1
    <3>1. CASE site \in live
      BY <3>1 DEF is2, is3, is0, c, f
    <3>2. CASE site \notin live
      BY <3>2 DEF is2, is3, is0, c, f
    <3> QED BY <3>1, <3>2
  <2> QED BY <1>1, <1>3, <2>8, <2>9
<1> QED BY <1>2, <1>3

\* With current reports, and bans that are looked up under their name, a site's
\* badge is LIVE exactly if it is DR primary, else NOT READY exactly if it is
\* whole and banned on every node, and RECOVERY while some node of it may start
\* the queue manager; and STALE for a site of which nothing is left.
THEOREM BadgeRight == Spec => []BadgeIsRight
<1>1. ASSUME IInv, Current, BansSeen, NEW site \in Sites,
             Whole(site) \/ ~(Left(site) \subseteq banned) \/ Left(site) = {}
      PROVE  Values(SiteBadge(Scraped, site)) =
               IF Left(site) = {} THEN {}
               ELSE IF site \in live THEN {2}
               ELSE IF Left(site) \subseteq banned THEN {0} ELSE {1}
  <2>1. Left(site) \subseteq Members(site) /\ (Whole(site) => Left(site) = Members(site))
    BY DEF Left, Whole
  <2>2. Left(site) # {} => (Members(site) \subseteq Seen <=> Left(site) \subseteq banned)
    BY <1>1, <2>1, AllSeen
  <2> QED BY <1>1, <2>2, BadgeValue
<1>2. IInv => BadgeIsRight
  BY <1>1 DEF BadgeIsRight
<1> QED BY <1>2, Always, PTL

---------------------------------------------------------------------------
(* The DR card.                                                            *)

\* While some node runs, so does the primary of some site.
LEMMA SomePrimary ==
  ASSUME IInv
  PROVE  /\ \E n \in up : IsPrimary(n)
         /\ \A site \in Sites : Left(site) # {} =>
              /\ primary[site] \in up /\ SiteOf(primary[site]) = site /\ IsPrimary(primary[site])
              /\ \A n \in up : IsPrimary(n) /\ SiteOf(n) = site <=> n = primary[site]
<1>1. \A site \in Sites : Left(site) # {} =>
        /\ primary[site] \in up /\ SiteOf(primary[site]) = site /\ IsPrimary(primary[site])
        /\ \A n \in up : IsPrimary(n) /\ SiteOf(n) = site <=> n = primary[site]
  BY DEF IInv, Placement, IsPrimary
<1>2. PICK n \in up : TRUE
  BY DEF IInv
<1>3. SiteOf(n) \in Sites /\ n \in Left(SiteOf(n))
  BY NodesReport
<1> QED BY <1>1, <1>3

LEMMA DrRoleFields ==
  ASSUME NEW n, NEW s, s = DrRoleOf(n)
  PROVE  LET x == RowOf(n, s) IN
         /\ {"role", "groups"} \subseteq DOMAIN x.labels /\ x.labels["groups"] = SiteOf(n)
         /\ x.labels["role"] = IF SiteOf(n) \in live THEN "Primary" ELSE "Secondary"
<1>1. /\ DOMAIN s.labels = {"node", "role"}
      /\ s.labels["role"] = IF SiteOf(n) \in live THEN "Primary" ELSE "Secondary"
  BY MetricFields DEF DrRoleOf
<1> QED BY <1>1, ScrapedFields DEF RowOf

LEMMA OutOfSyncFields ==
  ASSUME NEW n, NEW res, NEW s, s = OutOfSyncOf(n, res)
  PROVE  LET x == RowOf(n, s) IN
         /\ DOMAIN x.labels = {"node", "resource", "groups"} /\ x.labels["groups"] = SiteOf(n)
         /\ x.labels["node"] = n /\ x.labels["resource"] = res
         /\ x.value = DrbdReport(n)[res].out_of_sync_bytes
<1>1. /\ DOMAIN s.labels = {"node", "resource"} /\ s.labels["node"] = n /\ s.labels["resource"] = res
      /\ s.value = DrbdReport(n)[res].out_of_sync_bytes
  BY MetricFields DEF OutOfSyncOf
<1> QED BY <1>1, ScrapedFields DEF RowOf

LEMMA DrStatusShown ==
  ASSUME IInv, Current
  PROVE  Values(DrStatusTile(Scraped)) = {Flag(Reachable /\ ~Diverged)}
<1> DEFINE vec == Samples(Scraped, "cluster_rdqm_dr_status_ok")
           row(n) == RowOf(n, DrOkOf(n))
           v == Flag(Reachable /\ ~Diverged)
<1>1. \A x : x \in vec <=> \E n \in up : IsPrimary(n) /\ x = row(n)
  BY OtherRows
<1>2. Flag(DrStatus = "Normal") = v
  BY DEF DrStatus, Flag
<1>3. \A n : row(n).value = v
  <2> TAKE n
  <2> DEFINE s == DrOkOf(n)
  <2>1. s = NodeSeries("cluster_rdqm_dr_status_ok", n, v)
    BY <1>2, Zenon DEF DrOkOf
  <2> HIDE DEF s, v
  <2>2. RowOf(n, s).value = v
    BY <2>1, NodeFields
  <2> QED BY <2>2 DEF s
<1>4. v \in Int
  BY DEF Flag
<1>5. PICK n \in up : IsPrimary(n)
  BY SomePrimary
<1> HIDE DEF vec, row, v
<1>6. row(n) \in vec /\ row(n).value = v /\ \A x \in vec : x.value \in Int /\ v <= x.value
  BY <1>1, <1>3, <1>4, <1>5
<1>7. MinOf(vec) = v
  BY <1>4, <1>6, MinIs
<1>8. By(vec, {}, MinOf) = Scalar(v)
  BY <1>6, <1>7, MinOfAll
<1> QED BY <1>8, ScalarValues DEF DrStatusTile, vec, v

LEMMA DrPrimaryShown ==
  ASSUME IInv, Current
  PROVE  DrPrimaryTile(Scraped) = {s \in Sites : Left(s) # {}} \cap live
<1> DEFINE vec == Samples(Scraped, "cluster_rdqm_dr_role")
           own == Where(vec, "role", {"Primary"})
           row(n) == RowOf(n, DrRoleOf(n))
           tile == DrPrimaryTile(Scraped)
<1>1. \A x : x \in vec <=> \E n \in up : x = row(n)
  BY NodeRows DEF OfNodes
<1>2. \A n : LET x == row(n) IN
         /\ {"role", "groups"} \subseteq DOMAIN x.labels /\ x.labels["groups"] = SiteOf(n)
         /\ x.labels["role"] = IF SiteOf(n) \in live THEN "Primary" ELSE "Secondary"
  BY DrRoleFields
<1>3. \A x : x \in own <=> x \in vec /\ "role" \in DOMAIN x.labels /\ x.labels["role"] = "Primary"
  BY DEF Where
<1> HIDE DEF vec, row
<1>4. \A x : x \in own <=> \E n \in up : SiteOf(n) \in live /\ x = row(n)
  <2>1. ASSUME NEW x \in own PROVE \E n \in up : SiteOf(n) \in live /\ x = row(n)
    BY <1>1, <1>2, <1>3
  <2>2. ASSUME NEW n \in up, SiteOf(n) \in live PROVE row(n) \in own
    BY <1>1, <1>2, <1>3, <2>2
  <2> QED BY <2>1, <2>2
<1>5. \A x \in own : "groups" \in DOMAIN x.labels
  BY <1>2, <1>4
<1>6. tile = Names(By(own, {"groups"}, MaxOf), "groups")
  BY DEF DrPrimaryTile, vec
<1> HIDE DEF own, tile
<1>7. tile = {x.labels["groups"] : x \in own}
  BY <1>5, <1>6, NamesByLabel
<1>8. \A s : s \in tile <=> \E x \in own : s = x.labels["groups"]
  BY <1>7, Zenon
<1>9. \A s : s \in tile <=> \E n \in up : SiteOf(n) \in live /\ s = SiteOf(n)
  BY <1>2, <1>4, <1>8
<1>10. \A n \in up : SiteOf(n) \in Sites
  BY NodesReport
<1>11. \A s \in Sites : \A n : n \in Left(s) <=> n \in up /\ SiteOf(n) = s
  BY SitesReport
<1>12. \A s : s \in tile <=> s \in {t \in Sites : Left(t) # {}} \cap live
  <2>1. ASSUME NEW s \in tile PROVE s \in Sites /\ Left(s) # {} /\ s \in live
    BY <1>9, <1>10, <1>11
  <2>2. ASSUME NEW s \in Sites, Left(s) # {}, s \in live PROVE s \in tile
    BY <1>9, <1>11, <2>2
  <2> QED BY <2>1, <2>2
<1> QED BY <1>12 DEF tile

LEMMA BacklogShown ==
  ASSUME IInv, Current
  PROVE  DrBacklog(Scraped) =
           {IF \E s \in Sites : Left(s) # {} /\ s \in live /\ (Diverged \/ ~Reachable) THEN 8192 ELSE 0}
<1> DEFINE vec == Samples(Scraped, "cluster_drbd_out_of_sync_bytes")
           own == Where(vec, "resource", {<<"dr", base>>})
           row(n, res) == RowOf(n, OutOfSyncOf(n, res))
           behind(s) == s \in live /\ (Diverged \/ ~Reachable)
           top == IF \E s \in Sites : Left(s) # {} /\ behind(s) THEN 8192 ELSE 0
<1>1. \A x : x \in vec <=> \E n \in up : \E res \in Volumes(n) : x = row(n, res)
  BY VolumeRows DEF OfVolumes
<1>2. \A n, res : LET x == row(n, res) IN
         /\ "resource" \in DOMAIN x.labels /\ x.labels["resource"] = res
         /\ x.value = DrbdReport(n)[res].out_of_sync_bytes
  BY OutOfSyncFields
<1>3. \A x : x \in own <=> x \in vec /\ "resource" \in DOMAIN x.labels /\ x.labels["resource"] = Dr
  BY DEF Where, Dr
<1>4. \A n : Dr \in Volumes(n) <=> IsPrimary(n)
  BY VolumesApart DEF Volumes
<1>5. ASSUME NEW n, IsPrimary(n)
      PROVE  DrbdReport(n)[Dr].out_of_sync_bytes = IF behind(SiteOf(n)) THEN 8192 ELSE 0
  <2> DEFINE volume == DrbdReport(n)[Dr]
  <2>1. volume = DrVolume(n)
    BY <1>5, VolumeFields
  <2> HIDE DEF volume
  <2>2. volume.out_of_sync_bytes = IF behind(SiteOf(n)) THEN 8192 ELSE 0
    BY <2>1 DEF DrVolume
  <2> QED BY <2>2 DEF volume
<1> HIDE DEF vec, row, own
<1>6. \A x : x \in own <=> \E n \in up : IsPrimary(n) /\ x = row(n, Dr)
  <2>1. ASSUME NEW x \in own PROVE \E n \in up : IsPrimary(n) /\ x = row(n, Dr)
    BY <1>1, <1>2, <1>3, <1>4
  <2>2. ASSUME NEW n \in up, IsPrimary(n) PROVE row(n, Dr) \in own
    BY <1>1, <1>2, <1>3, <1>4, <2>2
  <2> QED BY <2>1, <2>2
<1> HIDE DEF behind
<1>7. \A n : IsPrimary(n) => row(n, Dr).value = IF behind(SiteOf(n)) THEN 8192 ELSE 0
  BY <1>2, <1>5
<1>8. \A x \in own : x.value \in Int /\ x.value <= top
  <2>1. \A n \in up : SiteOf(n) \in Sites /\ n \in Left(SiteOf(n))
    BY NodesReport
  <2> QED BY <1>6, <1>7, <2>1
<1>9. \E x \in own : x.value = top
  <2>1. CASE \E s \in Sites : Left(s) # {} /\ behind(s)
    <3>1. PICK s \in Sites : Left(s) # {} /\ behind(s)
      BY <2>1
    <3>2. primary[s] \in up /\ SiteOf(primary[s]) = s /\ IsPrimary(primary[s])
      BY <3>1, SomePrimary
    <3>3. row(primary[s], Dr) \in own /\ row(primary[s], Dr).value = 8192
      BY <1>6, <1>7, <3>1, <3>2
    <3> QED BY <2>1, <3>3
  <2>2. CASE ~\E s \in Sites : Left(s) # {} /\ behind(s)
    <3>1. PICK n \in up : IsPrimary(n)
      BY SomePrimary
    <3>2. row(n, Dr) \in own
      BY <1>6, <3>1
    <3>3. SiteOf(n) \in Sites /\ n \in Left(SiteOf(n))
      BY NodesReport
    <3>4. row(n, Dr).value = 0
      BY <1>7, <2>2, <3>1, <3>3
    <3> QED BY <2>2, <3>2, <3>4
  <2> QED BY <2>1, <2>2
<1>10. top \in Int
  OBVIOUS
<1> HIDE DEF top
<1>11. PICK x \in own : x.value = top
  BY <1>9
<1>12. MaxOf(own) = top
  BY <1>8, <1>10, <1>11, MaxIs
<1>13. By(own, {}, MaxOf) = Scalar(top)
  BY <1>11, <1>12, MaxOfAll
<1>14. DrBacklog(Scraped) = {top}
  BY <1>13, ScalarValues DEF DrBacklog, Tile, own, vec
<1> QED BY <1>14 DEF top, behind

\* With current reports the DR status is Normal exactly while the two sites
\* replicate, the card names the sites that are DR primary, and the backlog
\* is the DR volume's.
THEOREM DrCardRight == Spec => []DrCardIsRight
<1>1. ASSUME IInv, Current PROVE DrCardIsRight
  <2> DEFINE left == {s \in Sites : Left(s) # {}}
             late == {s \in left \cap live : Diverged \/ ~Reachable}
  <2>1. late # {} <=> \E s \in Sites : Left(s) # {} /\ s \in live /\ (Diverged \/ ~Reachable)
    OBVIOUS
  <2>2. DrBacklog(Scraped) = {IF late # {} THEN 8192 ELSE 0}
    BY <1>1, <2>1, BacklogShown
  <2>3. Values(DrStatusTile(Scraped)) = {Flag(Reachable /\ ~Diverged)}
    BY <1>1, DrStatusShown
  <2>4. DrPrimaryTile(Scraped) = left \cap live
    BY <1>1, DrPrimaryShown
  <2> QED BY <2>2, <2>3, <2>4, Zenon DEF DrCardIsRight
<1>2. IInv => DrCardIsRight
  BY <1>1 DEF DrCardIsRight
<1> QED BY <1>2, Always, PTL

---------------------------------------------------------------------------
(* Tables: what every node that runs has about each member of its site.    *)

IsTable(name, v) ==
  \A x : x \in Samples(Scraped, name) <=>
    \E n \in up : \E m \in Members(SiteOf(n)) : x = RowOf(n, MemberSeries(name, n, m, v[n][m]))

Onlines == [n \in Nodes |-> [m \in Nodes |-> Flag(StatusFor(n, m) = "Normal")]]
FailCounted == [n \in Nodes |-> [m \in Nodes |-> FailsOf(m)]]
Readies == [n \in Nodes |-> [m \in Nodes |-> Flag(m \in up \ Seen)]]

LEMMA Tables ==
  ASSUME IInv, Current
  PROVE  /\ IsTable("cluster_node_online", Onlines)
         /\ IsTable("cluster_rdqm_failcount", FailCounted)
         /\ IsTable("cluster_rdqm_node_ready", Readies)
<1>1. \A n \in up : n \in Nodes /\ \A m \in Members(SiteOf(n)) : m \in Nodes
  BY NodesReport, SitesOfNodes
<1>2. \A n \in Nodes : \A m \in Nodes :
        /\ OnlineOf(n, m) = MemberSeries("cluster_node_online", n, m, Onlines[n][m])
        /\ FailCountOf(n, m) = MemberSeries("cluster_rdqm_failcount", n, m, FailCounted[n][m])
        /\ ReadyOf(n, m) = MemberSeries("cluster_rdqm_node_ready", n, m, Readies[n][m])
  BY Zenon DEF OnlineOf, FailCountOf, ReadyOf, Onlines, FailCounted, Readies
<1>3. IsTable("cluster_node_online", Onlines)
  BY <1>1, <1>2, MemberRows DEF OfMembers, IsTable
<1>4. IsTable("cluster_rdqm_failcount", FailCounted)
  BY <1>1, <1>2, MemberRows DEF OfMembers, IsTable
<1>5. IsTable("cluster_rdqm_node_ready", Readies)
  BY <1>1, <1>2, MemberRows DEF OfMembers, IsTable
<1> QED BY <1>3, <1>4, <1>5

LEMMA TableCells ==
  ASSUME IInv, NEW name, NEW v, IsTable(name, v), NEW m \in Nodes
  PROVE  LET G == Group(Samples(Scraped, name), "member", m) IN
         /\ \A x \in G : \E n \in Left(SiteOf(m)) : x.value = v[n][m]
         /\ \A n \in Left(SiteOf(m)) : \E x \in G : x.value = v[n][m]
<1> DEFINE vec == Samples(Scraped, name)
           G == Group(vec, "member", m)
           row(n, k) == RowOf(n, MemberSeries(name, n, k, v[n][k]))
<1>1. \A x : x \in vec <=> \E n \in up : \E k \in Members(SiteOf(n)) : x = row(n, k)
  BY DEF IsTable
<1>2. \A n, k : LET x == row(n, k) IN
        "member" \in DOMAIN x.labels /\ x.labels["member"] = k /\ x.value = v[n][k]
  <2> TAKE n, k
  <2> DEFINE s == MemberSeries(name, n, k, v[n][k])
  <2>1. s = MemberSeries(name, n, k, v[n][k])
    OBVIOUS
  <2> HIDE DEF s
  <2>2. LET x == RowOf(n, s) IN
          "member" \in DOMAIN x.labels /\ x.labels["member"] = k /\ x.value = v[n][k]
    BY <2>1, MemberFields
  <2> QED BY <2>2 DEF s
<1>3. \A x : x \in G <=> x \in vec /\ "member" \in DOMAIN x.labels /\ x.labels["member"] = m
  BY DEF Group
<1>4. \A n \in up : m \in Members(SiteOf(n)) <=> n \in Left(SiteOf(m))
  <2>1. \A n \in up : n \in Nodes /\ SiteOf(n) \in Sites
    BY NodesReport
  <2> QED BY <2>1, SitesOfNodes DEF Left
<1>5. \A n \in Left(SiteOf(m)) : n \in up
  BY DEF Left
<1> HIDE DEF vec, G, row
<1>6. ASSUME NEW x \in G PROVE \E n \in Left(SiteOf(m)) : x.value = v[n][m]
  <2>1. PICK n \in up : \E k \in Members(SiteOf(n)) : x = row(n, k)
    BY <1>1, <1>3
  <2>2. PICK k \in Members(SiteOf(n)) : x = row(n, k)
    BY <2>1
  <2>3. k = m /\ x.value = v[n][m]
    BY <1>2, <1>3, <2>2
  <2> QED BY <1>4, <2>2, <2>3
<1>7. ASSUME NEW n \in Left(SiteOf(m)) PROVE \E x \in G : x.value = v[n][m]
  <2>1. row(n, m) \in G /\ row(n, m).value = v[n][m]
    BY <1>1, <1>2, <1>3, <1>4, <1>5
  <2> QED BY <2>1
<1> QED BY <1>6, <1>7 DEF G, vec

\* A table's rows are the members of the sites that report.
LEMMA TableRows ==
  ASSUME IInv, NEW name, NEW v, IsTable(name, v),
         NEW vec, vec = Samples(Scraped, name)
  PROVE  /\ AllHave(vec, "member")
         /\ \A m : m \in RowsOf(vec, "member") <=> m \in Nodes /\ Left(SiteOf(m)) # {}
         /\ Where(vec, "groups", Sites) = vec
<1> DEFINE row(n, k) == RowOf(n, MemberSeries(name, n, k, v[n][k]))
<1>1. \A x : x \in vec <=> \E n \in up : \E k \in Members(SiteOf(n)) : x = row(n, k)
  BY DEF IsTable
<1>2. \A n, k : LET x == row(n, k) IN
        /\ "member" \in DOMAIN x.labels /\ x.labels["member"] = k
        /\ "groups" \in DOMAIN x.labels /\ x.labels["groups"] = SiteOf(n)
  <2> TAKE n, k
  <2> DEFINE s == MemberSeries(name, n, k, v[n][k])
  <2>1. s = MemberSeries(name, n, k, v[n][k])
    OBVIOUS
  <2> HIDE DEF s
  <2>2. LET x == RowOf(n, s) IN
        /\ "member" \in DOMAIN x.labels /\ x.labels["member"] = k
        /\ "groups" \in DOMAIN x.labels /\ x.labels["groups"] = SiteOf(n)
    BY <2>1, MemberFields
  <2> QED BY <2>2 DEF s
<1>3. \A m : m \in RowsOf(vec, "member") <=> \E x \in vec : m = x.labels["member"]
  BY Zenon DEF RowsOf
<1>4. \A n \in up : n \in Nodes /\ SiteOf(n) \in Sites /\ n \in Left(SiteOf(n))
  BY NodesReport
<1> HIDE DEF row
<1>5. AllHave(vec, "member") /\ Where(vec, "groups", Sites) = vec
  BY <1>1, <1>2, <1>4 DEF AllHave, Where
<1>6. \A m : m \in RowsOf(vec, "member") <=> \E n \in up : m \in Members(SiteOf(n))
  BY <1>1, <1>2, <1>3
<1>7. \A m : (\E n \in up : m \in Members(SiteOf(n))) <=> m \in Nodes /\ Left(SiteOf(m)) # {}
  <2>1. ASSUME NEW m, NEW n \in up, m \in Members(SiteOf(n)) PROVE m \in Nodes /\ Left(SiteOf(m)) # {}
    BY <1>4, <2>1, SitesOfNodes
  <2>2. ASSUME NEW m \in Nodes, Left(SiteOf(m)) # {} PROVE \E n \in up : m \in Members(SiteOf(n))
    <3>1. PICK n \in Left(SiteOf(m)) : TRUE
      BY <2>2
    <3>2. n \in up /\ n \in Nodes /\ SiteOf(n) = SiteOf(m)
      BY SitesOfNodes DEF Left
    <3> QED BY <3>2, SitesOfNodes
  <2> QED BY <2>1, <2>2
<1> QED BY <1>5, <1>6, <1>7

\* A member is online in some report exactly if the tile counts it.
LEMMA OnlineMost ==
  ASSUME IInv, Current, NEW m \in Nodes, Left(SiteOf(m)) # {}
  PROVE  LET G == Group(Samples(Scraped, "cluster_node_online"), "member", m) IN
         G # {} /\ MaxOf(G) = Flag(Counted(m))
<1> DEFINE G == Group(Samples(Scraped, "cluster_node_online"), "member", m)
           L == Left(SiteOf(m))
           good(n) == StatusFor(n, m) = "Normal"
<1>1. /\ \A x \in G : \E n \in L : x.value = Onlines[n][m]
      /\ \A n \in L : \E x \in G : x.value = Onlines[n][m]
  BY Tables, TableCells
<1>2. \A n : n \in L <=> n \in up /\ SiteOf(n) = SiteOf(m)
  BY SitesOfNodes, SitesReport
<1>3. \A n \in L : n \in Nodes
  BY <1>2, NodesReport
<1>4. \A n \in L : Onlines[n][m] = IF good(n) THEN 1 ELSE 0
  BY <1>3 DEF Onlines, Flag
<1>5. \A n \in L : good(n) <=> IF n = m THEN Whole(SiteOf(m)) ELSE m \in up
  BY <1>2 DEF StatusFor, Whole
<1>6. (\E n \in L : good(n)) <=> Counted(m)
  <2>1. ASSUME NEW n \in L, good(n) PROVE Counted(m)
    <3>1. CASE n = m
      BY <1>2, <1>5, <2>1, <3>1 DEF Counted
    <3>2. CASE n # m
      BY <1>5, <2>1, <3>2 DEF Counted
    <3> QED BY <3>1, <3>2
  <2>2. ASSUME Counted(m) PROVE \E n \in L : good(n)
    <3>1. m \in L
      BY <1>2, <2>2 DEF Counted
    <3>2. CASE Whole(SiteOf(m))
      BY <1>5, <3>1, <3>2
    <3>3. CASE ~Whole(SiteOf(m))
      <4>1. PICK n \in L : n # m
        BY <2>2, <3>1, <3>3 DEF Counted
      <4> QED BY <1>5, <2>2, <4>1 DEF Counted
    <3> QED BY <3>2, <3>3
  <2> QED BY <2>1, <2>2
<1>7. PICK n \in L : TRUE
  OBVIOUS
<1> HIDE DEF G, L, good
<1>8. G # {}
  BY <1>1, <1>7
<1>9. CASE Counted(m)
  <2>1. PICK k \in L : good(k)
    BY <1>6, <1>9
  <2>2. PICK x \in G : x.value = Onlines[k][m]
    BY <1>1
  <2>3. x.value = 1 /\ \A y \in G : y.value \in Int /\ y.value <= 1
    BY <1>1, <1>4, <2>1, <2>2
  <2>4. MaxOf(G) = 1
    BY <2>3, MaxIs
  <2> QED BY <1>8, <1>9, <2>4 DEF Flag, G
<1>10. CASE ~Counted(m)
  <2>1. PICK x \in G : x.value = Onlines[n][m]
    BY <1>1
  <2>2. x.value = 0 /\ \A y \in G : y.value \in Int /\ y.value <= 0
    BY <1>1, <1>4, <1>6, <1>10, <2>1
  <2>3. MaxOf(G) = 0
    BY <2>2, MaxIs
  <2> QED BY <1>8, <1>10, <2>3 DEF Flag, G
<1> QED BY <1>9, <1>10

---------------------------------------------------------------------------
(* The tiles.                                                              *)

LEMMA OnlineTile ==
  ASSUME IInv, Current
  PROVE  NodesOnline(Scraped) = {Cardinality({n \in Nodes : Counted(n)})}
<1> DEFINE vec == Samples(Scraped, "cluster_node_online")
           V == By(vec, {"member"}, MaxOf)
           counted == {n \in Nodes : Counted(n)}
           R == RowsOf(vec, "member")
<1>1. AllHave(vec, "member") /\ Where(vec, "groups", Sites) = vec
  BY Tables, TableRows
<1>2. \A m : m \in R <=> m \in Nodes /\ Left(SiteOf(m)) # {}
  BY Tables, TableRows
<1>3. \A m \in Nodes : Left(SiteOf(m)) # {} => MaxOf(Group(vec, "member", m)) = Flag(Counted(m))
  BY OnlineMost
<1>4. NodesOnline(Scraped) = Values(By(V, {}, SumOf))
  BY <1>1 DEF NodesOnline, OnlineMembers, Tile
<1> HIDE DEF vec
<1>5. RowsAt(vec, "member", 1) = counted
  <2>1. \A m : m \in RowsAt(vec, "member", 1) <=> m \in R /\ MaxOf(Group(vec, "member", m)) = 1
    BY DEF RowsAt
  <2>2. \A m \in Nodes : Counted(m) => Left(SiteOf(m)) # {}
    BY NodesReport DEF Counted
  <2> QED BY <1>2, <1>3, <2>1, <2>2 DEF Flag
<1>6. R \in SUBSET Nodes
  BY <1>2
<1>7. IsFiniteSet(R)
  BY <1>6, FS_Subset, RdqmAssumption
<1>8. IsFiniteSet(V) /\ Cardinality(At(V, 1)) = Cardinality(counted)
  BY <1>1, <1>5, <1>7, CountRows
<1>9. \A s : s \in V <=> \E x \in vec : s = Sample(OnlyLabel("member", x.labels["member"]),
                                     MaxOf(Group(vec, "member", x.labels["member"])))
  BY <1>1, MaxByLabel DEF AllHave
<1>10. \A x \in vec : x.labels["member"] \in R
  BY DEF RowsOf
<1> HIDE DEF V, R, counted
<1>11. \A s \in V : s.value \in {0, 1}
  BY <1>2, <1>3, <1>9, <1>10, SampleFields DEF Flag
<1>12. V # {}
  <2>1. PICK n \in up : TRUE
    BY DEF IInv
  <2>2. n \in R
    BY <1>2, NodesReport
  <2>3. vec # {}
    BY <2>2 DEF R, RowsOf
  <2> QED BY <1>9, <2>3
<1>13. SumOf(V) = Cardinality(counted)
  BY <1>8, <1>11, SumOfFlags
<1>14. By(V, {}, SumOf) = Scalar(Cardinality(counted))
  BY <1>12, <1>13, SumOfAll
<1> QED BY <1>4, <1>14, ScalarValues DEF counted

LEMMA HaStatusShown ==
  ASSUME IInv, Current
  PROVE  HaStatusTile(Scraped) = {Flag(\A s \in Sites : Left(s) = {} \/ Whole(s))}
<1> DEFINE vec == Samples(Scraped, "cluster_rdqm_ha_status_ok")
           row(n) == RowOf(n, HaOkOf(n))
           all == \A s \in Sites : Left(s) = {} \/ Whole(s)
           v == Flag(all)
<1>1. \A x : x \in vec <=> \E n \in up : x = row(n)
  BY NodeRows DEF OfNodes
<1>2. \A n : row(n).value = Flag(Whole(SiteOf(n)))
  <2> TAKE n
  <2> DEFINE s == HaOkOf(n)
  <2>1. s = NodeSeries("cluster_rdqm_ha_status_ok", n, Flag(Whole(SiteOf(n))))
    BY DEF HaOkOf
  <2> HIDE DEF s
  <2>2. RowOf(n, s).value = Flag(Whole(SiteOf(n)))
    BY <2>1, NodeFields
  <2> QED BY <2>2 DEF s
<1>3. \A n \in up : SiteOf(n) \in Sites /\ n \in Left(SiteOf(n))
  BY NodesReport
<1>4. v = (IF all THEN 1 ELSE 0) /\ \A n : Flag(Whole(SiteOf(n))) = IF Whole(SiteOf(n)) THEN 1 ELSE 0
  BY DEF Flag
<1> HIDE DEF vec, row, v
<1>5. \E x \in vec : x.value = v
  <2>1. CASE all
    <3>1. PICK n \in up : TRUE
      BY DEF IInv
    <3>2. row(n) \in vec /\ row(n).value = 1
      BY <1>1, <1>2, <1>3, <1>4, <2>1, <3>1
    <3> QED BY <1>4, <2>1, <3>2
  <2>2. CASE ~all
    <3>1. PICK s \in Sites : Left(s) # {} /\ ~Whole(s)
      BY <2>2
    <3>2. PICK n \in Left(s) : TRUE
      BY <3>1
    <3>3. n \in up /\ SiteOf(n) = s
      BY SitesReport
    <3>4. row(n) \in vec /\ row(n).value = 0
      BY <1>1, <1>2, <1>4, <3>1, <3>3
    <3> QED BY <1>4, <2>2, <3>4
  <2> QED BY <2>1, <2>2
<1>6. \A x \in vec : x.value \in Int /\ v <= x.value
  <2> TAKE x \in vec
  <2>1. PICK n \in up : x = row(n)
    BY <1>1
  <2>2. SiteOf(n) \in Sites /\ Left(SiteOf(n)) # {}
    BY <1>3
  <2>3. all => Whole(SiteOf(n))
    BY <2>2
  <2> QED BY <1>2, <1>4, <2>1, <2>3
<1>7. PICK x \in vec : x.value = v
  BY <1>5
<1>8. v \in Int
  BY <1>4
<1>9. MinOf(vec) = v
  BY <1>6, <1>7, <1>8, MinIs
<1>10. By(vec, {}, MinOf) = Scalar(v)
  BY <1>7, <1>9, MinOfAll
<1> QED BY <1>10, ScalarValues DEF HaStatusTile, Tile, vec, v

LEMMA RunsFields ==
  ASSUME NEW n, NEW s, s = RunsOf(n)
  PROVE  LET x == RowOf(n, s) IN
         /\ "member" \in DOMAIN x.labels /\ x.labels["member"] = n /\ x.value = Flag(Running(n))
<1>1. s = MemberSeries("cluster_rdqm_qm_running", n, n, Flag(Running(n)))
  BY DEF RunsOf
<1> QED BY <1>1, MemberFields

LEMMA RunningShown ==
  ASSUME IInv, Current
  PROVE  Timeline(Scraped).running = {Flag(\E n \in Nodes : Running(n))}
<1> DEFINE vec == Samples(Scraped, "cluster_rdqm_qm_running")
           row(n) == RowOf(n, RunsOf(n))
           some == \E n \in Nodes : Running(n)
           v == Flag(some)
<1>1. \A x : x \in vec <=> \E n \in up : x = row(n)
  BY NodeRows DEF OfNodes
<1>2. \A n : row(n).value = Flag(Running(n))
  BY RunsFields
<1>3. \A n : (Running(n) => n \in up) /\ (n \in up => n \in Nodes)
  BY NodesReport DEF Running
<1>4. v = (IF some THEN 1 ELSE 0) /\ \A n : Flag(Running(n)) = IF Running(n) THEN 1 ELSE 0
  BY DEF Flag
<1>5. Timeline(Scraped).running = Values(By(vec, {}, MaxOf))
  BY DEF Timeline
<1> HIDE DEF vec, row, v
<1>6. \E x \in vec : x.value = v
  <2>1. CASE some
    <3>1. PICK n \in Nodes : Running(n)
      BY <2>1
    <3>2. row(n) \in vec /\ row(n).value = 1
      BY <1>1, <1>2, <1>3, <1>4, <3>1
    <3> QED BY <1>4, <2>1, <3>2
  <2>2. CASE ~some
    <3>1. PICK n \in up : TRUE
      BY DEF IInv
    <3>2. ~Running(n)
      BY <1>3, <2>2
    <3>3. row(n) \in vec /\ row(n).value = 0
      BY <1>1, <1>2, <1>4, <3>1, <3>2
    <3> QED BY <1>4, <2>2, <3>3
  <2> QED BY <2>1, <2>2
<1>7. \A x \in vec : x.value \in Int /\ x.value <= v
  <2> TAKE x \in vec
  <2>1. PICK n \in up : x = row(n)
    BY <1>1
  <2>2. Running(n) => some
    BY <1>3
  <2> QED BY <1>2, <1>4, <2>1, <2>2
<1>8. PICK x \in vec : x.value = v
  BY <1>6
<1>9. v \in Int
  BY <1>4
<1>10. MaxOf(vec) = v
  BY <1>7, <1>8, <1>9, MaxIs
<1>11. By(vec, {}, MaxOf) = Scalar(v)
  BY <1>8, <1>10, MaxOfAll
<1> QED BY <1>5, <1>11, ScalarValues DEF v

LEMMA DrbdRoleFields ==
  ASSUME NEW n, NEW res, NEW s, s = DrbdRoleOf(n, res)
  PROVE  LET x == RowOf(n, s) IN
         /\ DOMAIN x.labels = {"node", "resource", "role", "groups"} /\ x.labels["groups"] = SiteOf(n)
         /\ x.labels["node"] = n /\ x.labels["resource"] = res /\ x.labels["role"] = DrbdReport(n)[res].role
<1>1. /\ DOMAIN s.labels = {"node", "resource", "role"} /\ s.labels["node"] = n /\ s.labels["resource"] = res
      /\ s.labels["role"] = DrbdReport(n)[res].role
  BY MetricFields DEF DrbdRoleOf
<1> QED BY <1>1, ScrapedFields DEF RowOf

LEMMA DrbdDiskFields ==
  ASSUME NEW n, NEW res, NEW s, s = DrbdDiskOf(n, res)
  PROVE  LET x == RowOf(n, s) IN
         /\ DOMAIN x.labels = {"node", "resource", "disk", "groups"} /\ x.labels["groups"] = SiteOf(n)
         /\ x.labels["node"] = n /\ x.labels["resource"] = res /\ x.labels["disk"] = DrbdReport(n)[res].disk
         /\ x.value = 1
<1>1. /\ DOMAIN s.labels = {"node", "resource", "disk"} /\ s.labels["node"] = n /\ s.labels["resource"] = res
      /\ s.labels["disk"] = DrbdReport(n)[res].disk /\ s.value = 1
  BY MetricFields DEF DrbdDiskOf
<1> QED BY <1>1, ScrapedFields DEF RowOf

LEMMA DrbdConnFields ==
  ASSUME NEW n, NEW res, NEW s, s = DrbdConnOf(n, res)
  PROVE  LET x == RowOf(n, s) IN
         /\ DOMAIN x.labels = {"node", "resource", "conn", "groups"} /\ x.labels["groups"] = SiteOf(n)
         /\ x.labels["node"] = n /\ x.labels["resource"] = res /\ x.labels["conn"] = DrbdReport(n)[res].conn
<1>1. /\ DOMAIN s.labels = {"node", "resource", "conn"} /\ s.labels["node"] = n /\ s.labels["resource"] = res
      /\ s.labels["conn"] = DrbdReport(n)[res].conn
  BY MetricFields DEF DrbdConnOf
<1> QED BY <1>1, ScrapedFields DEF RowOf

LEMMA ForeignFields ==
  ASSUME NEW x \in Foreign
  PROVE  /\ "groups" \in DOMAIN x.labels /\ x.labels["groups"] = "pcmk"
         /\ "resource" \in DOMAIN x.labels /\ x.labels["resource"] = <<"drbd", "mqlun">>
         /\ "role" \in DOMAIN x.labels /\ "pcmk" \notin Sites
<1>1. PICK n \in {"pcmk-a1", "pcmk-a2"} : x =
        Sample([node |-> n, resource |-> <<"drbd", "mqlun">>, role |-> "Primary", groups |-> "pcmk"], 1)
  BY Zenon DEF Foreign
<1>2. x.labels = [node |-> n, resource |-> <<"drbd", "mqlun">>, role |-> "Primary", groups |-> "pcmk"]
  BY <1>1, SampleFields
<1> QED BY <1>2 DEF Sites

\* What a node's volumes report, field by field.
LEMMA VolumeStates ==
  ASSUME NEW n
  PROVE  /\ DrbdReport(n)[Ha].role = "Primary" <=> IsPrimary(n) \/ storage[SiteOf(n)] = "dual"
         /\ DrbdReport(n)[Ha].disk = IF storage[SiteOf(n)] = "Diskless" /\ IsPrimary(n) THEN "Diskless" ELSE "UpToDate"
         /\ DrbdReport(n)[Ha].conn = "StandAlone" <=> storage[SiteOf(n)] = "StandAlone"
         /\ DrbdReport(n)[Ha].out_of_sync_bytes = IF storage[SiteOf(n)] = "StandAlone" /\ IsPrimary(n) THEN 4096 ELSE 0
         /\ IsPrimary(n) => /\ DrbdReport(n)[Dr].role = "Primary" <=> SiteOf(n) \in live
                            /\ DrbdReport(n)[Dr].disk = "UpToDate"
                            /\ DrbdReport(n)[Dr].conn = "StandAlone" <=> Diverged
<1> DEFINE ha == DrbdReport(n)[Ha]
           dr == DrbdReport(n)[Dr]
           storage1 == storage[SiteOf(n)]
<1>1. ha = HaVolume(n)
  BY VolumeFields
<1>2. IsPrimary(n) => dr = DrVolume(n)
  BY VolumeFields
<1> HIDE DEF ha, dr
<1>3. /\ ha.role = "Primary" <=> IsPrimary(n) \/ storage1 = "dual"
      /\ ha.disk = IF storage1 = "Diskless" /\ IsPrimary(n) THEN "Diskless" ELSE "UpToDate"
      /\ ha.conn = "StandAlone" <=> storage1 = "StandAlone"
      /\ ha.out_of_sync_bytes = IF storage1 = "StandAlone" /\ IsPrimary(n) THEN 4096 ELSE 0
  BY <1>1 DEF HaVolume
<1>4. IsPrimary(n) => /\ dr.role = "Primary" <=> SiteOf(n) \in live
                      /\ dr.disk = "UpToDate"
                      /\ dr.conn = "StandAlone" <=> Diverged
  BY <1>2 DEF DrVolume
<1> QED BY <1>3, <1>4 DEF ha, dr, storage1

\* The Primaries of the HA volume.
LEMMA PrimariesShown ==
  ASSUME IInv, Current
  PROVE  Timeline(Scraped).primary =
           {Cardinality({n \in up : primary[SiteOf(n)] = n \/ storage[SiteOf(n)] = "dual"})}
<1> DEFINE all == Samples(Scraped, "cluster_drbd_role")
           ours == Where(all, "resource", {<<"ha", base>>})
           vec == Where(ours, "role", {"Primary"})
           row(n, res) == RowOf(n, DrbdRoleOf(n, res))
           D == {n \in up : primary[SiteOf(n)] = n \/ storage[SiteOf(n)] = "dual"}
           f == [n \in D |-> row(n, Ha)]
<1>1. \A x : x \in all <=> \/ \E n \in up : \E res \in Volumes(n) : x = row(n, res)
                           \/ x \in Foreign
  BY OtherRows
<1>2. \A n, res : LET x == row(n, res) IN
         /\ {"node", "resource", "role"} \subseteq DOMAIN x.labels
         /\ x.labels["node"] = n /\ x.labels["resource"] = res /\ x.labels["role"] = DrbdReport(n)[res].role
  BY DrbdRoleFields
<1>3. \A x : x \in ours <=> x \in all /\ "resource" \in DOMAIN x.labels /\ x.labels["resource"] = Ha
  BY DEF Where, Ha
<1>4. \A x : x \in vec <=> x \in ours /\ "role" \in DOMAIN x.labels /\ x.labels["role"] = "Primary"
  BY DEF Where
<1>5. \A n : Ha \in Volumes(n)
  BY DEF Volumes
<1>6. \A n : DrbdReport(n)[Ha].role = "Primary" <=> IsPrimary(n) \/ storage[SiteOf(n)] = "dual"
  BY VolumeStates
<1>7. \A n : n \in D <=> n \in up /\ DrbdReport(n)[Ha].role = "Primary"
  BY <1>6 DEF IsPrimary
<1>8. \A n \in D : f[n] = row(n, Ha)
  OBVIOUS
<1>9. \A x \in Foreign : x.labels["resource"] # Ha
  BY ForeignFields, VolumesApart
<1> HIDE DEF all, ours, vec, row, D, f
<1>10. \A x : x \in vec <=> \E n \in D : x = row(n, Ha)
  <2>1. ASSUME NEW x \in vec PROVE \E n \in D : x = row(n, Ha)
    <3>1. x \in all /\ x.labels["resource"] = Ha /\ x.labels["role"] = "Primary"
      BY <1>3, <1>4
    <3>2. PICK n \in up : \E res \in Volumes(n) : x = row(n, res)
      BY <1>1, <1>9, <3>1
    <3>3. PICK res \in Volumes(n) : x = row(n, res)
      BY <3>2
    <3> QED BY <1>2, <1>7, <3>1, <3>3
  <2>2. ASSUME NEW n \in D PROVE row(n, Ha) \in vec
    BY <1>1, <1>2, <1>3, <1>4, <1>5, <1>7
  <2> QED BY <2>1, <2>2
<1>11. vec = {f[n] : n \in D}
  BY <1>8, <1>10
<1>12. \A a, b \in D : f[a] = f[b] => a = b
  BY <1>2, <1>8
<1>13. IsFiniteSet(D)
  <2>1. D \in SUBSET Nodes
    BY DEF D, IInv, Typed
  <2> QED BY <2>1, FS_Subset, RdqmAssumption
<1>14. IsFiniteSet(vec) /\ Cardinality(vec) = Cardinality(D)
  BY <1>11, <1>12, <1>13, IndexedCount
<1>15. vec # {}
  <2>1. PICK n \in up : IsPrimary(n)
    BY SomePrimary
  <2> QED BY <1>6, <1>7, <1>10, <2>1
<1>16. By(vec, {}, CountOf) = Scalar(Cardinality(D))
  BY <1>14, <1>15, CountOfFinite
<1>17. Timeline(Scraped).primary = Values(By(vec, {}, CountOf))
  BY DEF Timeline, vec, ours, all
<1> QED BY <1>16, <1>17, ScalarValues DEF D

\* With current reports the tiles count each member once, online unless it is
\* down or the last of its site; show HA Normal exactly if every site that
\* reports is whole; and the timeline has whether the queue manager runs and
\* how many Primaries the HA volume has.
THEOREM TilesRight == Spec => []TilesAreRight
<1>1. IInv => TilesAreRight
  BY OnlineTile, HaStatusShown, RunningShown, PrimariesShown DEF TilesAreRight
<1> QED BY <1>1, Always, PTL

---------------------------------------------------------------------------
(* The integrity light.                                                    *)

LEMMA CountOrZero ==
  ASSUME NEW vec, IsFiniteSet(vec)
  PROVE  /\ OrZero(By(vec, {}, CountOf)) = Scalar(Cardinality(vec))
         /\ Cardinality(vec) \in Nat
         /\ Cardinality(vec) > 0 <=> vec # {}
<1>1. Cardinality(vec) \in Nat /\ (Cardinality(vec) > 0 <=> vec # {})
  BY CountFacts
<1>2. CASE vec = {}
  <2>1. By(vec, {}, CountOf) = {} /\ Cardinality(vec) = 0
    BY <1>2, CountOfFinite, FS_EmptySet
  <2> QED BY <1>1, <2>1, ScalarOr DEF OrZero
<1>3. CASE vec # {}
  <2>1. By(vec, {}, CountOf) = Scalar(Cardinality(vec))
    BY <1>3, CountOfFinite
  <2> QED BY <1>1, <2>1, ScalarOr DEF OrZero
<1> QED BY <1>2, <1>3

LEMMA VolumesFinite ==
  ASSUME IInv, NEW g, NEW vec, \A x \in vec : \E n \in up : \E res \in {Ha, Dr} : x = g[<<n, res>>]
  PROVE  IsFiniteSet(vec)
<1> DEFINE D == up \X {Ha, Dr}
<1>1. up \in SUBSET Nodes
  BY DEF IInv, Typed
<1>2. IsFiniteSet(up)
  BY <1>1, FS_Subset, RdqmAssumption
<1>3. IsFiniteSet({Ha, Dr})
  BY TwoElements, VolumesApart
<1>4. IsFiniteSet(D)
  BY <1>2, <1>3, FS_Product
<1>5. \A x \in vec : \E d \in D : x = g[d]
  <2> TAKE x \in vec
  <2>1. PICK n \in up : \E res \in {Ha, Dr} : x = g[<<n, res>>]
    OBVIOUS
  <2>2. PICK res \in {Ha, Dr} : x = g[<<n, res>>]
    BY <2>1
  <2>3. <<n, res>> \in D
    OBVIOUS
  <2> HIDE DEF D
  <2> QED BY <2>2, <2>3
<1> HIDE DEF D
<1> QED BY <1>4, <1>5, CoveredFinite

\* The volumes that stand alone, and those without a disk.
ConnHazards == Where(Where(Samples(Scraped, "cluster_drbd_conn"), "conn", {"StandAlone"}), "groups", Sites)
DiskHazards == Where(Where(Samples(Scraped, "cluster_drbd_disk"), "disk", {"Diskless"}), "groups", Sites)

LEMMA StandAloneRows ==
  ASSUME IInv, Current, BothSitesUp
  PROVE  /\ IsFiniteSet(ConnHazards)
         /\ ConnHazards # {} <=> Diverged \/ \E s \in Sites : storage[s] = "StandAlone"
<1> DEFINE all == Samples(Scraped, "cluster_drbd_conn")
           own == Where(all, "conn", {"StandAlone"})
           vec == ConnHazards
           row(n, res) == RowOf(n, DrbdConnOf(n, res))
           alone(n, res) == DrbdReport(n)[res].conn = "StandAlone"
           g == [d \in up \X {Ha, Dr} |-> row(d[1], d[2])]
<1>1. \A x : x \in all <=> \E n \in up : \E res \in Volumes(n) : x = row(n, res)
  BY VolumeRows DEF OfVolumes
<1>2. \A n, res : LET x == row(n, res) IN
         /\ {"groups", "conn"} \subseteq DOMAIN x.labels /\ x.labels["groups"] = SiteOf(n)
         /\ x.labels["conn"] = DrbdReport(n)[res].conn
  BY DrbdConnFields
<1>3. \A x : x \in own <=> x \in all /\ "conn" \in DOMAIN x.labels /\ x.labels["conn"] = "StandAlone"
  BY DEF Where
<1>4. \A x : x \in vec <=> x \in own /\ "groups" \in DOMAIN x.labels /\ x.labels["groups"] \in Sites
  BY DEF Where, ConnHazards
<1>5. \A n \in up : SiteOf(n) \in Sites /\ n \in Left(SiteOf(n))
  BY NodesReport
<1>6. \A n, res : res \in Volumes(n) <=> res = Ha \/ (res = Dr /\ IsPrimary(n))
  BY DEF Volumes
<1>7. \A n : /\ alone(n, Ha) <=> storage[SiteOf(n)] = "StandAlone"
             /\ IsPrimary(n) => (alone(n, Dr) <=> Diverged)
  BY VolumeStates
<1>8. \A n \in up : \A res \in {Ha, Dr} : g[<<n, res>>] = row(n, res)
  OBVIOUS
<1> HIDE DEF all, own, vec, row, alone, g
<1>9. \A x : x \in vec <=> \E n \in up : \E res \in Volumes(n) : alone(n, res) /\ x = row(n, res)
  <2>1. ASSUME NEW x \in vec PROVE \E n \in up : \E res \in Volumes(n) : alone(n, res) /\ x = row(n, res)
    <3>1. x \in all /\ x.labels["conn"] = "StandAlone"
      BY <1>3, <1>4
    <3>2. PICK n \in up : \E res \in Volumes(n) : x = row(n, res)
      BY <1>1, <3>1
    <3>3. PICK res \in Volumes(n) : x = row(n, res)
      BY <3>2
    <3> QED BY <1>2, <3>1, <3>3 DEF alone
  <2>2. ASSUME NEW n \in up, NEW res \in Volumes(n), alone(n, res) PROVE row(n, res) \in vec
    BY <1>1, <1>2, <1>3, <1>4, <1>5, <2>2 DEF alone
  <2> QED BY <2>1, <2>2
<1>10. IsFiniteSet(vec)
  <2>1. \A x \in vec : \E n \in up : \E res \in {Ha, Dr} : x = g[<<n, res>>]
    BY <1>6, <1>8, <1>9
  <2> QED BY <2>1, VolumesFinite
<1>11. vec # {} <=> \E n \in up : \E res \in Volumes(n) : alone(n, res)
  BY <1>9
<1>12. \A s \in Sites : \E n \in up : IsPrimary(n) /\ SiteOf(n) = s
  BY SomePrimary DEF BothSitesUp
<1>13. (\E n \in up : \E res \in Volumes(n) : alone(n, res)) <=>
          Diverged \/ \E s \in Sites : storage[s] = "StandAlone"
  <2>1. ASSUME NEW n \in up, NEW res \in Volumes(n), alone(n, res)
        PROVE  Diverged \/ \E s \in Sites : storage[s] = "StandAlone"
    BY <1>5, <1>6, <1>7, <2>1
  <2>2. ASSUME NEW s \in Sites, storage[s] = "StandAlone" PROVE \E n \in up : \E res \in Volumes(n) : alone(n, res)
    BY <1>6, <1>7, <1>12, <2>2
  <2>3. ASSUME Diverged PROVE \E n \in up : \E res \in Volumes(n) : alone(n, res)
    <3>1. PICK n \in up : IsPrimary(n)
      BY SomePrimary
    <3> QED BY <1>6, <1>7, <2>3, <3>1
  <2> QED BY <2>1, <2>2, <2>3
<1> QED BY <1>10, <1>11, <1>13 DEF vec

LEMMA DisklessRows ==
  ASSUME IInv, Current, BothSitesUp
  PROVE  /\ IsFiniteSet(DiskHazards)
         /\ DiskHazards # {} <=> \E s \in Sites : storage[s] = "Diskless"
<1> DEFINE all == Samples(Scraped, "cluster_drbd_disk")
           own == Where(all, "disk", {"Diskless"})
           vec == DiskHazards
           row(n, res) == RowOf(n, DrbdDiskOf(n, res))
           lost(n, res) == DrbdReport(n)[res].disk = "Diskless"
           g == [d \in up \X {Ha, Dr} |-> row(d[1], d[2])]
<1>1. \A x : x \in all <=> \E n \in up : \E res \in Volumes(n) : x = row(n, res)
  BY VolumeRows DEF OfVolumes
<1>2. \A n, res : LET x == row(n, res) IN
         /\ {"groups", "disk"} \subseteq DOMAIN x.labels /\ x.labels["groups"] = SiteOf(n)
         /\ x.labels["disk"] = DrbdReport(n)[res].disk
  BY DrbdDiskFields
<1>3. \A x : x \in own <=> x \in all /\ "disk" \in DOMAIN x.labels /\ x.labels["disk"] = "Diskless"
  BY DEF Where
<1>4. \A x : x \in vec <=> x \in own /\ "groups" \in DOMAIN x.labels /\ x.labels["groups"] \in Sites
  BY DEF Where, DiskHazards
<1>5. \A n \in up : SiteOf(n) \in Sites /\ n \in Left(SiteOf(n))
  BY NodesReport
<1>6. \A n, res : res \in Volumes(n) <=> res = Ha \/ (res = Dr /\ IsPrimary(n))
  BY DEF Volumes
<1>7. \A n : /\ lost(n, Ha) <=> storage[SiteOf(n)] = "Diskless" /\ IsPrimary(n)
             /\ IsPrimary(n) => ~lost(n, Dr)
  BY VolumeStates
<1>8. \A n \in up : \A res \in {Ha, Dr} : g[<<n, res>>] = row(n, res)
  OBVIOUS
<1> HIDE DEF all, own, vec, row, lost, g
<1>9. \A x : x \in vec <=> \E n \in up : \E res \in Volumes(n) : lost(n, res) /\ x = row(n, res)
  <2>1. ASSUME NEW x \in vec PROVE \E n \in up : \E res \in Volumes(n) : lost(n, res) /\ x = row(n, res)
    <3>1. x \in all /\ x.labels["disk"] = "Diskless"
      BY <1>3, <1>4
    <3>2. PICK n \in up : \E res \in Volumes(n) : x = row(n, res)
      BY <1>1, <3>1
    <3>3. PICK res \in Volumes(n) : x = row(n, res)
      BY <3>2
    <3> QED BY <1>2, <3>1, <3>3 DEF lost
  <2>2. ASSUME NEW n \in up, NEW res \in Volumes(n), lost(n, res) PROVE row(n, res) \in vec
    BY <1>1, <1>2, <1>3, <1>4, <1>5, <2>2 DEF lost
  <2> QED BY <2>1, <2>2
<1>10. IsFiniteSet(vec)
  <2>1. \A x \in vec : \E n \in up : \E res \in {Ha, Dr} : x = g[<<n, res>>]
    BY <1>6, <1>8, <1>9
  <2> QED BY <2>1, VolumesFinite
<1>11. vec # {} <=> \E n \in up : \E res \in Volumes(n) : lost(n, res)
  BY <1>9
<1>12. \A s \in Sites : \E n \in up : IsPrimary(n) /\ SiteOf(n) = s
  BY SomePrimary DEF BothSitesUp
<1>13. (\E n \in up : \E res \in Volumes(n) : lost(n, res)) <=> \E s \in Sites : storage[s] = "Diskless"
  <2>1. ASSUME NEW n \in up, NEW res \in Volumes(n), lost(n, res) PROVE \E s \in Sites : storage[s] = "Diskless"
    BY <1>5, <1>6, <1>7, <2>1
  <2>2. ASSUME NEW s \in Sites, storage[s] = "Diskless" PROVE \E n \in up : \E res \in Volumes(n) : lost(n, res)
    BY <1>6, <1>7, <1>12, <2>2
  <2> QED BY <2>1, <2>2
<1> QED BY <1>10, <1>11, <1>13 DEF vec

Kind == {"resource", "groups"}
Alike(x, y) == x.labels["resource"] = y.labels["resource"] /\ x.labels["groups"] = y.labels["groups"]
Keyed(vec) == \A x \in vec : Kind \subseteq DOMAIN x.labels

\* Samples that are counted by resource and group, and the groups of more
\* than one summed: there is a hazard if two samples are of the same.
LEMMA TwoOfAKind ==
  ASSUME NEW vec, IsFiniteSet(vec), Keyed(vec)
  PROVE  \E k \in Nat : /\ OrZero(By(AboveBool(By(vec, Kind, CountOf), 1), {}, SumOf)) = Scalar(k)
                        /\ k > 0 <=> \E x, y \in vec : x # y /\ Alike(x, y)
<1> DEFINE key(x) == Restrict(x.labels, Kind \cap DOMAIN x.labels)
           same(x) == {y \in vec : key(y) = key(x)}
           V == By(vec, Kind, CountOf)
           f == [x \in vec |-> Sample(key(x), Cardinality(same(x)))]
           W == AboveBool(V, 1)
           flag(s) == Sample(s.labels, IF s.value > 1 THEN 1 ELSE 0)
           h == [s \in V |-> flag(s)]
<1>1. \A x \in vec : Kind \cap DOMAIN x.labels = Kind
  BY DEF Keyed
<1>2. \A x, y \in vec : key(x) = key(y) <=> Alike(x, y)
  <2>1. \A l : Restrict(l, Kind) = [i \in Kind |-> l[i]]
    BY DEF Restrict
  <2>2. \A x \in vec : key(x) = [i \in Kind |-> x.labels[i]]
    BY <1>1, <2>1
  <2> TAKE x, y \in vec
  <2> DEFINE a == x.labels
             b == y.labels
             p == [i \in Kind |-> a[i]]
             q == [i \in Kind |-> b[i]]
  <2>3. key(x) = p /\ key(y) = q
    BY <2>2
  <2> HIDE DEF a, b
  <2>4. p["resource"] = a["resource"] /\ p["groups"] = a["groups"]
        /\ q["resource"] = b["resource"] /\ q["groups"] = b["groups"]
    BY DEF Kind
  <2>5. (\A i \in Kind : a[i] = b[i]) => p = q
    OBVIOUS
  <2>6. p = q <=> a["resource"] = b["resource"] /\ a["groups"] = b["groups"]
    <3> HIDE DEF p, q
    <3> QED BY <2>4, <2>5 DEF Kind
  <2> HIDE DEF p, q
  <2>7. key(x) = key(y) <=> a["resource"] = b["resource"] /\ a["groups"] = b["groups"]
    <3> HIDE DEF key
    <3> QED BY <2>3, <2>6
  <2> QED BY <2>7 DEF Alike, a, b
<1>3. \A s : s \in V <=> \E x \in vec : s = Sample(key(x), Cardinality(same(x)))
  <2>1. \A s : s \in V <=> \E x \in vec : s = Sample(key(x), CountOf({y \in vec : key(y) = key(x)}))
    BY Zenon DEF By
  <2> QED BY <2>1, Zenon DEF CountOf
<1>4. \A t : t \in W <=> \E s \in V : t = flag(s)
  BY Zenon DEF AboveBool
<1>5. \A s : flag(s).value = IF s.value > 1 THEN 1 ELSE 0
  BY SampleFields
<1>6. \A x \in vec : f[x] = Sample(key(x), Cardinality(same(x))) /\ f[x].value = Cardinality(same(x))
  BY SampleFields
<1>7. \A x \in vec : IsFiniteSet(same(x)) /\ (Cardinality(same(x)) > 1 <=> \E y, z \in same(x) : y # z)
  <2> TAKE x \in vec
  <2>1. same(x) \in SUBSET vec
    OBVIOUS
  <2> HIDE DEF same
  <2>2. IsFiniteSet(same(x))
    BY <2>1, FS_Subset
  <2> QED BY <2>2, CountFacts
<1>8. \A x : \A y : y \in same(x) <=> y \in vec /\ key(y) = key(x)
  OBVIOUS
<1>9. \A s \in V : h[s] = flag(s)
  OBVIOUS
<1> HIDE DEF key, same, V, f, W, flag, h
<1>10. IsFiniteSet(V)
  <2>1. \A s \in V : \E x \in vec : s = f[x]
    BY <1>3, <1>6
  <2> QED BY <2>1, CoveredFinite
<1>11. IsFiniteSet(W)
  <2>1. \A t \in W : \E s \in V : t = h[s]
    BY <1>4, <1>9
  <2> QED BY <1>10, <2>1, CoveredFinite
<1>12. \A t \in W : t.value \in {0, 1}
  BY <1>4, <1>5
<1>13. At(W, 1) \in SUBSET W /\ \A t : t \in At(W, 1) <=> t \in W /\ t.value = 1
  BY DEF At
<1>14. IsFiniteSet(At(W, 1))
  BY <1>11, <1>13, FS_Subset
<1> DEFINE k == Cardinality(At(W, 1))
<1>15. k \in Nat /\ (k > 0 <=> At(W, 1) # {})
  BY <1>14, CountFacts
<1>16. SumOf(W) = k
  BY <1>11, <1>12, SumOfFlags
<1>17. At(W, 1) # {} <=> \E x, y \in vec : x # y /\ Alike(x, y)
  <2>1. ASSUME NEW t \in At(W, 1) PROVE \E x, y \in vec : x # y /\ Alike(x, y)
    <3>1. PICK s \in V : t = flag(s)
      BY <1>4, <1>13
    <3>2. s.value > 1
      BY <1>5, <1>13, <3>1
    <3>3. PICK x \in vec : s = f[x]
      BY <1>3, <1>6
    <3>4. Cardinality(same(x)) > 1
      BY <1>6, <3>2, <3>3
    <3>5. PICK y \in same(x) : \E z \in same(x) : y # z
      BY <1>7, <3>4
    <3>6. PICK z \in same(x) : y # z
      BY <3>5
    <3>7. y \in vec /\ z \in vec /\ key(y) = key(z)
      BY <1>8
    <3> QED BY <1>2, <3>6, <3>7
  <2>2. ASSUME NEW x \in vec, NEW y \in vec, x # y, Alike(x, y) PROVE At(W, 1) # {}
    <3>1. x \in same(x) /\ y \in same(x)
      BY <1>2, <1>8, <2>2
    <3>2. Cardinality(same(x)) > 1
      BY <1>7, <2>2, <3>1
    <3>3. f[x] \in V /\ f[x].value > 1
      BY <1>3, <1>6, <3>2
    <3>4. flag(f[x]) \in W /\ flag(f[x]).value = 1
      BY <1>4, <1>5, <3>3
    <3> QED BY <1>13, <3>4
  <2> QED BY <2>1, <2>2
<1> HIDE DEF k
<1>18. OrZero(By(W, {}, SumOf)) = Scalar(k)
  <2>1. CASE W = {}
    <3>1. At(W, 1) = {}
      BY <1>13, <2>1
    <3>2. k = 0
      BY <1>15, <3>1
    <3> QED BY <2>1, <3>2, SumOfAll, ScalarOr DEF OrZero
  <2>2. CASE W # {}
    <3>1. By(W, {}, SumOf) = Scalar(k)
      BY <1>16, <2>2, SumOfAll
    <3> QED BY <3>1, ScalarOr DEF OrZero
  <2> QED BY <2>1, <2>2
<1> QED BY <1>15, <1>17, <1>18 DEF W, V

\* Two Primaries of one volume at one site.
RoleHazards == Where(Where(Samples(Scraped, "cluster_drbd_role"), "role", {"Primary"}), "groups", Sites)
TwoPrimaries == \E s \in Sites : storage[s] = "dual" /\ \E a, b \in Left(s) : a # b

LEMMA PrimaryRows ==
  ASSUME IInv, Current
  PROVE  /\ IsFiniteSet(RoleHazards) /\ Keyed(RoleHazards)
         /\ (\E x, y \in RoleHazards : x # y /\ Alike(x, y)) <=> TwoPrimaries
<1> DEFINE all == Samples(Scraped, "cluster_drbd_role")
           own == Where(all, "role", {"Primary"})
           vec == RoleHazards
           row(n, res) == RowOf(n, DrbdRoleOf(n, res))
           first(n, res) == DrbdReport(n)[res].role = "Primary"
           g == [d \in up \X {Ha, Dr} |-> row(d[1], d[2])]
<1>1. \A x : x \in all <=> \/ \E n \in up : \E res \in Volumes(n) : x = row(n, res)
                           \/ x \in Foreign
  BY OtherRows
<1>2. \A n, res : LET x == row(n, res) IN
         /\ {"groups", "role", "node", "resource"} \subseteq DOMAIN x.labels /\ x.labels["groups"] = SiteOf(n)
         /\ x.labels["node"] = n /\ x.labels["resource"] = res /\ x.labels["role"] = DrbdReport(n)[res].role
  BY DrbdRoleFields
<1>3. \A x : x \in own <=> x \in all /\ "role" \in DOMAIN x.labels /\ x.labels["role"] = "Primary"
  BY DEF Where
<1>4. \A x : x \in vec <=> x \in own /\ "groups" \in DOMAIN x.labels /\ x.labels["groups"] \in Sites
  BY DEF Where, RoleHazards
<1>5. \A n \in up : SiteOf(n) \in Sites /\ n \in Left(SiteOf(n))
  BY NodesReport
<1>6. \A n, res : res \in Volumes(n) <=> res = Ha \/ (res = Dr /\ IsPrimary(n))
  BY DEF Volumes
<1>7. \A n : first(n, Ha) <=> IsPrimary(n) \/ storage[SiteOf(n)] = "dual"
  BY VolumeStates
<1>8. \A n \in up : \A res \in {Ha, Dr} : g[<<n, res>>] = row(n, res)
  OBVIOUS
<1>9. \A x \in Foreign : x.labels["groups"] \notin Sites
  BY ForeignFields
<1> HIDE DEF all, own, vec, row, first, g
<1>10. \A x : x \in vec <=> \E n \in up : \E res \in Volumes(n) : first(n, res) /\ x = row(n, res)
  <2>1. ASSUME NEW x \in vec PROVE \E n \in up : \E res \in Volumes(n) : first(n, res) /\ x = row(n, res)
    <3>1. x \in all /\ x.labels["role"] = "Primary" /\ x.labels["groups"] \in Sites
      BY <1>3, <1>4
    <3>2. PICK n \in up : \E res \in Volumes(n) : x = row(n, res)
      BY <1>1, <1>9, <3>1
    <3>3. PICK res \in Volumes(n) : x = row(n, res)
      BY <3>2
    <3> QED BY <1>2, <3>1, <3>3 DEF first
  <2>2. ASSUME NEW n \in up, NEW res \in Volumes(n), first(n, res) PROVE row(n, res) \in vec
    BY <1>1, <1>2, <1>3, <1>4, <1>5, <2>2 DEF first
  <2> QED BY <2>1, <2>2
<1>11. IsFiniteSet(vec)
  <2>1. \A x \in vec : \E n \in up : \E res \in {Ha, Dr} : x = g[<<n, res>>]
    BY <1>6, <1>8, <1>10
  <2> QED BY <2>1, VolumesFinite
<1>12. Keyed(vec)
  BY <1>2, <1>10 DEF Keyed, Kind
<1>13. \A n, m \in up : IsPrimary(n) /\ IsPrimary(m) /\ SiteOf(n) = SiteOf(m) => n = m
  BY DEF IsPrimary
<1>14. \A s \in Sites : \A n : n \in Left(s) <=> n \in up /\ SiteOf(n) = s
  BY SitesReport
<1>15. ASSUME NEW x \in vec, NEW y \in vec, x # y, Alike(x, y) PROVE TwoPrimaries
  <2>1. PICK n \in up : \E res \in Volumes(n) : first(n, res) /\ x = row(n, res)
    BY <1>10
  <2>2. PICK res \in Volumes(n) : first(n, res) /\ x = row(n, res)
    BY <2>1
  <2>3. PICK m \in up : \E res1 \in Volumes(m) : first(m, res1) /\ y = row(m, res1)
    BY <1>10
  <2>4. PICK res1 \in Volumes(m) : first(m, res1) /\ y = row(m, res1)
    BY <2>3
  <2>5. res1 = res /\ SiteOf(m) = SiteOf(n)
    BY <1>2, <1>15, <2>2, <2>4 DEF Alike
  <2>6. m # n
    BY <1>15, <2>2, <2>4, <2>5
  <2>7. ~(IsPrimary(n) /\ IsPrimary(m))
    BY <1>13, <2>5, <2>6
  <2>8. storage[SiteOf(n)] = "dual"
    <3>1. res = Ha
      BY <1>6, <2>2, <2>4, <2>5, <2>7
    <3> QED BY <1>7, <2>2, <2>4, <2>5, <2>7, <3>1
  <2>9. SiteOf(n) \in Sites /\ n \in Left(SiteOf(n)) /\ m \in Left(SiteOf(n))
    BY <1>5, <1>14, <2>5
  <2> QED BY <2>6, <2>8, <2>9 DEF TwoPrimaries
<1>16. ASSUME TwoPrimaries PROVE \E x, y \in vec : x # y /\ Alike(x, y)
  <2>1. PICK s \in Sites : storage[s] = "dual" /\ \E a, b \in Left(s) : a # b
    BY <1>16 DEF TwoPrimaries
  <2>2. PICK a \in Left(s) : \E b \in Left(s) : a # b
    BY <2>1
  <2>3. PICK b \in Left(s) : a # b
    BY <2>2
  <2>4. a \in up /\ b \in up /\ SiteOf(a) = s /\ SiteOf(b) = s
    BY <1>14
  <2>5. row(a, Ha) \in vec /\ row(b, Ha) \in vec
    BY <1>6, <1>7, <1>10, <2>1, <2>4
  <2>6. row(a, Ha) # row(b, Ha) /\ Alike(row(a, Ha), row(b, Ha))
    BY <1>2, <2>3, <2>4 DEF Alike
  <2> QED BY <2>5, <2>6
<1> QED BY <1>11, <1>12, <1>15, <1>16 DEF vec

LEMMA StatusRows ==
  ASSUME IInv, Current, NEW vec, vec = Samples(Scraped, "cluster_rdqm_ha_status_ok")
  PROVE  /\ IsFiniteSet(vec) /\ vec # {} /\ IsFiniteSet(Equals(vec, 0))
         /\ Equals(vec, 0) # {} <=> \E n \in up : ~Whole(SiteOf(n))
<1> DEFINE row(n) == RowOf(n, HaOkOf(n))
           f == [n \in up |-> row(n)]
           low == Equals(vec, 0)
<1>1. \A x : x \in vec <=> \E n \in up : x = row(n)
  BY NodeRows DEF OfNodes
<1>2. \A n : row(n).value = Flag(Whole(SiteOf(n)))
  <2> TAKE n
  <2> DEFINE s == HaOkOf(n)
  <2>1. s = NodeSeries("cluster_rdqm_ha_status_ok", n, Flag(Whole(SiteOf(n))))
    BY DEF HaOkOf
  <2> HIDE DEF s
  <2>2. RowOf(n, s).value = Flag(Whole(SiteOf(n)))
    BY <2>1, NodeFields
  <2> QED BY <2>2 DEF s
<1>3. \A n \in up : f[n] = row(n)
  OBVIOUS
<1>4. \A n : Flag(Whole(SiteOf(n))) = IF Whole(SiteOf(n)) THEN 1 ELSE 0
  BY DEF Flag
<1>5. low \in SUBSET vec /\ \A x : x \in low <=> x \in vec /\ x.value = 0
  BY DEF Equals
<1> HIDE DEF row, f, low
<1>6. IsFiniteSet(up)
  <2>1. up \in SUBSET Nodes
    BY DEF IInv, Typed
  <2> QED BY <2>1, FS_Subset, RdqmAssumption
<1>7. IsFiniteSet(vec)
  <2>1. \A x \in vec : \E n \in up : x = f[n]
    BY <1>1, <1>3
  <2> QED BY <1>6, <2>1, CoveredFinite
<1>8. vec # {}
  BY <1>1 DEF IInv
<1>9. IsFiniteSet(low)
  BY <1>5, <1>7, FS_Subset
<1>10. low # {} <=> \E n \in up : ~Whole(SiteOf(n))
  <2>1. ASSUME NEW x \in low PROVE \E n \in up : ~Whole(SiteOf(n))
    BY <1>1, <1>2, <1>4, <1>5
  <2>2. ASSUME NEW n \in up, ~Whole(SiteOf(n)) PROVE row(n) \in low
    BY <1>1, <1>2, <1>4, <1>5, <2>2
  <2> QED BY <2>1, <2>2
<1> QED BY <1>7, <1>8, <1>9, <1>10 DEF low

\* The sites of which every member is seen to be banned are counted.
Barred == {s \in Sites : Left(s) # {} /\ Members(s) \subseteq Seen}

LEMMA UnstartableCount ==
  ASSUME IInv, Current
  PROVE  /\ OrZero(UnstartableSites(Scraped)) = Scalar(Cardinality(Barred))
         /\ Cardinality(Barred) \in Nat
         /\ Cardinality(Barred) > 0 <=> Barred # {}
<1> DEFINE vec == Samples(Scraped, "cluster_rdqm_qm_startable")
           V == By(vec, {"groups"}, MaxOf)
           R == RowsOf(vec, "groups")
           row(n, m) == RowOf(n, StartableOf(n, m))
<1>1. \A x : x \in vec <=> \E n \in up : \E m \in Members(SiteOf(n)) : x = row(n, m)
  BY MemberRows DEF OfMembers
<1>2. \A n, m : LET x == row(n, m) IN "groups" \in DOMAIN x.labels /\ x.labels["groups"] = SiteOf(n)
  <2> TAKE n, m
  <2> DEFINE s == StartableOf(n, m)
  <2>1. s = MemberSeries("cluster_rdqm_qm_startable", n, m, Flag(m \notin Seen))
    BY DEF StartableOf
  <2> HIDE DEF s
  <2>2. LET x == RowOf(n, s) IN "groups" \in DOMAIN x.labels /\ x.labels["groups"] = SiteOf(n)
    BY <2>1, MemberFields
  <2> QED BY <2>2 DEF s
<1>3. \A s \in Sites : /\ StartableAt(s) = {} <=> Left(s) = {}
                       /\ Left(s) # {} => MaxOf(StartableAt(s)) = IF Members(s) \subseteq Seen THEN 0 ELSE 1
  BY StartableMost
<1>4. \A s : StartableAt(s) = Group(vec, "groups", s)
  BY DEF StartableAt
<1>5. \A s : s \in R <=> \E x \in vec : s = x.labels["groups"]
  BY Zenon DEF RowsOf
<1>6. \A n \in up : SiteOf(n) \in Sites
  BY NodesReport
<1>7. UnstartableSites(Scraped) = By(At(V, 0), {}, CountOf)
  BY Zenon DEF UnstartableSites, Equals, At
<1>8. RowsAt(vec, "groups", 0) = {s \in R : MaxOf(Group(vec, "groups", s)) = 0}
  BY DEF RowsAt
<1>9. \A s, x : x \in Group(vec, "groups", s) <=> x \in vec /\ "groups" \in DOMAIN x.labels /\ x.labels["groups"] = s
  BY DEF Group
<1> HIDE DEF vec, R, row
<1>10. AllHave(vec, "groups")
  BY <1>1, <1>2 DEF AllHave
<1>11. \A s : s \in R <=> s \in Sites /\ Left(s) # {}
  <2>1. ASSUME NEW s \in R PROVE s \in Sites /\ Group(vec, "groups", s) # {}
    <3>1. PICK x \in vec : s = x.labels["groups"]
      BY <1>5
    <3>2. PICK n \in up : \E m \in Members(SiteOf(n)) : x = row(n, m)
      BY <1>1
    <3>3. PICK m \in Members(SiteOf(n)) : x = row(n, m)
      BY <3>2
    <3>4. "groups" \in DOMAIN x.labels /\ s = SiteOf(n)
      BY <1>2, <3>1, <3>3
    <3>5. x \in Group(vec, "groups", s)
      BY <1>9, <3>1, <3>4
    <3> QED BY <1>6, <3>4, <3>5
  <2>2. \A s \in Sites : Group(vec, "groups", s) # {} => s \in R
    BY <1>5, <1>9
  <2> QED BY <1>3, <1>4, <2>1, <2>2
<1>12. IsFiniteSet(R)
  <2>1. R \in SUBSET Sites
    BY <1>11
  <2>2. IsFiniteSet(Sites)
    <3>1. "rdqm_a" # "rdqm_b"
      OBVIOUS
    <3> QED BY <3>1, TwoElements DEF Sites
  <2> QED BY <2>1, <2>2, FS_Subset
<1>13. RowsAt(vec, "groups", 0) = Barred
  <2>1. \A s \in Sites : Left(s) # {} => (MaxOf(Group(vec, "groups", s)) = 0 <=> Members(s) \subseteq Seen)
    BY <1>3, <1>4
  <2> QED BY <1>8, <1>11, <2>1 DEF Barred
<1>14. IsFiniteSet(V) /\ Cardinality(At(V, 0)) = Cardinality(Barred)
  BY <1>10, <1>12, <1>13, CountRows DEF R
<1>15. At(V, 0) \in SUBSET V
  BY DEF At
<1>16. IsFiniteSet(At(V, 0))
  BY <1>14, <1>15, FS_Subset
<1>17. /\ OrZero(By(At(V, 0), {}, CountOf)) = Scalar(Cardinality(Barred))
       /\ Cardinality(Barred) \in Nat
  BY <1>14, <1>16, CountOrZero
<1>18. IsFiniteSet(Barred)
  <2>1. Barred \in SUBSET R
    BY <1>11 DEF Barred
  <2> QED BY <1>12, <2>1, FS_Subset
<1> QED BY <1>7, <1>17, <1>18, CountFacts

\* While both sites report, the hazards that are counted are those there are.
LEMMA HazardParts ==
  ASSUME IInv, BothSitesUp, BansSeen
  PROVE  Hazard <=> \/ Diverged \/ \E s \in Sites : storage[s] = "StandAlone"
                    \/ \E s \in Sites : storage[s] = "Diskless"
                    \/ TwoPrimaries
                    \/ \E n \in up : ~Whole(SiteOf(n))
                    \/ Barred # {}
<1>1. \A s \in Sites : Left(s) # {}
  BY DEF BothSitesUp
<1>2. Barred # {} <=> \E s \in Sites : Members(s) \subseteq Seen
  BY <1>1 DEF Barred
<1>3. (\E n \in up : ~Whole(SiteOf(n))) <=> \E s \in Sites : ~Whole(s)
  <2>1. \A n \in up : SiteOf(n) \in Sites
    BY NodesReport
  <2>2. ASSUME NEW s \in Sites, ~Whole(s) PROVE \E n \in up : ~Whole(SiteOf(n))
    <3>1. PICK n \in Left(s) : TRUE
      BY <1>1
    <3>2. n \in up /\ SiteOf(n) = s
      BY SitesReport
    <3> QED BY <2>2, <3>2
  <2> QED BY <2>1, <2>2
<1>4. \A s \in Sites : storage[s] \in {"fine", "Diskless", "StandAlone", "dual"}
  BY DEF IInv, Typed
<1>5. TwoPrimaries => \E s \in Sites : storage[s] = "dual"
  BY DEF TwoPrimaries
<1>6. ASSUME NEW s \in Sites, storage[s] = "dual", Whole(s) PROVE TwoPrimaries
  <2>1. Left(s) = Members(s)
    BY <1>6 DEF Left, Whole
  <2>2. IsFiniteSet(Members(s)) /\ Cardinality(Members(s)) > 1
    BY <1>6, SitesOfNodes DEF IInv, Faults
  <2>3. \E a, b \in Members(s) : a # b
    BY <2>2, CountFacts
  <2> QED BY <1>6, <2>1, <2>3 DEF TwoPrimaries
<1>7. \A s \in Sites : /\ Whole(s) => (Left(s) \subseteq banned <=> Members(s) \subseteq Seen)
                       /\ Members(s) \subseteq Seen => Left(s) \subseteq banned
  BY AllSeen DEF Left, Whole
<1> QED BY <1>2, <1>3, <1>4, <1>5, <1>6, <1>7 DEF Hazard

\* While both sites report currently, and bans are looked up under their name,
\* the light is red exactly for a split brain, a lost disk, a node down or a
\* site each node of which is banned, and never for the Primaries of a DR pair
\* or of another arm.
THEOREM LightRight == Spec => []LightIsRight
<1>1. ASSUME IInv, Current, BothSitesUp, BansSeen
      PROVE  Light = IF Hazard THEN "HAZARD" ELSE "OK"
  <2> DEFINE conn == By(ConnHazards, {}, CountOf)
             disk == By(DiskHazards, {}, CountOf)
             dual == DualPrimary(Scraped)
             status == Samples(Scraped, "cluster_rdqm_ha_status_ok")
             low == By(Equals(status, 0), {}, CountOf)
             unstartable == UnstartableSites(Scraped)
             gate == Above(By(status, {}, CountOf), 0)
             a == Cardinality(ConnHazards)
             b == Cardinality(DiskHazards)
             d == Cardinality(Equals(status, 0))
             e == Cardinality(Barred)
  <2>1. Light = LightOf(AndOn(Plus(Plus(Plus(Plus(OrZero(conn), OrZero(disk)), OrZero(dual)),
                                        OrZero(low)), OrZero(unstartable)), gate))
    BY Zenon DEF Light, IntegrityExpr, ConnHazards, DiskHazards
  <2>2. OrZero(conn) = Scalar(a) /\ a \in Nat /\ (a > 0 <=> Diverged \/ \E s \in Sites : storage[s] = "StandAlone")
    BY <1>1, StandAloneRows, CountOrZero
  <2>3. OrZero(disk) = Scalar(b) /\ b \in Nat /\ (b > 0 <=> \E s \in Sites : storage[s] = "Diskless")
    BY <1>1, DisklessRows, CountOrZero
  <2>4. PICK c \in Nat : OrZero(dual) = Scalar(c) /\ (c > 0 <=> TwoPrimaries)
    <3>1. IsFiniteSet(RoleHazards) /\ Keyed(RoleHazards)
          /\ ((\E x, y \in RoleHazards : x # y /\ Alike(x, y)) <=> TwoPrimaries)
      BY <1>1, PrimaryRows
    <3>2. dual = By(AboveBool(By(RoleHazards, Kind, CountOf), 1), {}, SumOf)
      BY Zenon DEF DualPrimary, RoleHazards, Kind
    <3> HIDE DEF dual
    <3> QED BY <3>1, <3>2, TwoOfAKind
  <2>5. /\ IsFiniteSet(status) /\ status # {} /\ IsFiniteSet(Equals(status, 0))
        /\ Equals(status, 0) # {} <=> \E n \in up : ~Whole(SiteOf(n))
    BY <1>1, StatusRows
  <2>6. OrZero(low) = Scalar(d) /\ d \in Nat /\ (d > 0 <=> \E n \in up : ~Whole(SiteOf(n)))
    BY <2>5, CountOrZero
  <2>7. OrZero(unstartable) = Scalar(e) /\ e \in Nat /\ (e > 0 <=> Barred # {})
    BY <1>1, UnstartableCount
  <2>8. gate # {}
    BY <2>5, CountOfFinite
  <2> HIDE DEF conn, disk, dual, low, unstartable, gate, a, b, d, e
  <2>9. Plus(OrZero(conn), OrZero(disk)) = Scalar(a + b)
    BY <2>2, <2>3, ScalarPlus
  <2>10. Plus(Scalar(a + b), OrZero(dual)) = Scalar(a + b + c)
    BY <2>4, ScalarPlus
  <2>11. Plus(Scalar(a + b + c), OrZero(low)) = Scalar(a + b + c + d)
    BY <2>6, ScalarPlus
  <2>12. Plus(Scalar(a + b + c + d), OrZero(unstartable)) = Scalar(a + b + c + d + e)
    BY <2>7, ScalarPlus
  <2> DEFINE sum == a + b + c + d + e
  <2>13. AndOn(Scalar(sum), gate) = Scalar(sum)
    BY <2>8, AndOnSides
  <2>14. Light = LightOf(Scalar(sum))
    BY <2>1, <2>9, <2>10, <2>11, <2>12, <2>13
  <2>15. sum \in Int /\ (sum > 0 <=> a > 0 \/ b > 0 \/ c > 0 \/ d > 0 \/ e > 0)
    BY <2>2, <2>3, <2>4, <2>6, <2>7
  <2> HIDE DEF sum
  <2>16. Light = IF sum > 0 THEN "HAZARD" ELSE "OK"
    BY <2>14, <2>15, ScalarLight
  <2>17. sum > 0 <=> Hazard
    BY <1>1, <2>2, <2>3, <2>4, <2>6, <2>7, <2>15, HazardParts
  <2> QED BY <2>16, <2>17
<1>2. IInv => LightIsRight
  BY <1>1 DEF LightIsRight
<1> QED BY <1>2, Always, PTL

---------------------------------------------------------------------------
(* The matrices.                                                           *)

\* A column in which every node that runs has its own row.
IsOwnColumn(name, v) ==
  \A x : x \in Samples(Scraped, name) <=> \E n \in up : x = RowOf(n, MemberSeries(name, n, n, v[n]))

RoleCodes == [n \in Nodes |-> IF IsPrimary(n) THEN 2 ELSE 1]
Runs == [n \in Nodes |-> Flag(Running(n))]

LEMMA OwnColumns ==
  ASSUME IInv, Current
  PROVE  IsOwnColumn("cluster_rdqm_role_code", RoleCodes) /\ IsOwnColumn("cluster_rdqm_qm_running", Runs)
<1>1. \A n \in up : n \in Nodes
  BY NodesReport
<1>2. \A n \in Nodes :
        /\ RoleCodeOf(n) = MemberSeries("cluster_rdqm_role_code", n, n, RoleCodes[n])
        /\ RunsOf(n) = MemberSeries("cluster_rdqm_qm_running", n, n, Runs[n])
  BY Zenon DEF RoleCodeOf, RunsOf, RoleCodes, Runs
<1>3. IsOwnColumn("cluster_rdqm_role_code", RoleCodes)
  BY <1>1, <1>2, NodeRows DEF OfNodes, IsOwnColumn
<1>4. IsOwnColumn("cluster_rdqm_qm_running", Runs)
  BY <1>1, <1>2, NodeRows DEF OfNodes, IsOwnColumn
<1> QED BY <1>3, <1>4

LEMMA OwnCell ==
  ASSUME NEW name, NEW v, IsOwnColumn(name, v), NEW S, NEW m \in S, NEW kind
  PROVE  LET color == Color(Column(Where(Samples(Scraped, name), "member", S), "member", kind), m) IN
         /\ m \in up /\ v[m] \in Int => color = ColorOf(kind, v[m])
         /\ m \notin up => color = {}
<1> DEFINE vec == Samples(Scraped, name)
           G == Group(vec, "member", m)
           here == Where(vec, "member", S)
           row(n) == RowOf(n, MemberSeries(name, n, n, v[n]))
<1>1. \A x : x \in vec <=> \E n \in up : x = row(n)
  BY DEF IsOwnColumn
<1>2. \A n : LET x == row(n) IN
        "member" \in DOMAIN x.labels /\ x.labels["member"] = n /\ x.value = v[n]
  <2> TAKE n
  <2> DEFINE s == MemberSeries(name, n, n, v[n])
  <2>1. s = MemberSeries(name, n, n, v[n])
    OBVIOUS
  <2> HIDE DEF s
  <2>2. LET x == RowOf(n, s) IN
          "member" \in DOMAIN x.labels /\ x.labels["member"] = n /\ x.value = v[n]
    BY <2>1, MemberFields
  <2> QED BY <2>2 DEF s
<1>3. \A x : x \in G <=> x \in vec /\ "member" \in DOMAIN x.labels /\ x.labels["member"] = m
  BY DEF Group
<1>4. Group(here, "member", m) = G
  BY GroupWithin
<1> HIDE DEF vec, G, row, here
<1>5. \A x : x \in G <=> m \in up /\ x = row(m)
  BY <1>1, <1>2, <1>3
<1>6. ASSUME m \in up, v[m] \in Int PROVE Color(Column(here, "member", kind), m) = ColorOf(kind, v[m])
  <2>1. row(m) \in Group(here, "member", m) /\ row(m).value = v[m]
    BY <1>2, <1>4, <1>5, <1>6
  <2>2. \A x \in Group(here, "member", m) : x.value \in Int /\ x.value <= v[m]
    BY <1>2, <1>4, <1>5, <1>6
  <2> QED BY <1>6, <2>1, <2>2, ColorIs
<1>7. ASSUME m \notin up PROVE Color(Column(here, "member", kind), m) = {}
  <2>1. Group(here, "member", m) = {}
    BY <1>4, <1>5, <1>7
  <2> QED BY <2>1, Colorless
<1> QED BY <1>6, <1>7 DEF here, vec

\* A cell of a table on which its reporters agree.
LEMMA TableCell ==
  ASSUME IInv, NEW name, NEW v, IsTable(name, v), NEW m \in Nodes, Left(SiteOf(m)) # {},
         NEW c \in Int, \A n \in Left(SiteOf(m)) : v[n][m] = c, NEW S, m \in S, NEW kind
  PROVE  Color(Column(Where(Samples(Scraped, name), "member", S), "member", kind), m) = ColorOf(kind, c)
<1> DEFINE vec == Samples(Scraped, name)
           G == Group(vec, "member", m)
           here == Where(vec, "member", S)
<1>1. /\ \A x \in G : \E n \in Left(SiteOf(m)) : x.value = v[n][m]
      /\ \A n \in Left(SiteOf(m)) : \E x \in G : x.value = v[n][m]
  BY TableCells
<1>2. Group(here, "member", m) = G
  BY GroupWithin
<1> HIDE DEF vec, G, here
<1>3. PICK n \in Left(SiteOf(m)) : TRUE
  OBVIOUS
<1>4. PICK x \in G : x.value = v[n][m]
  BY <1>1
<1>5. x \in Group(here, "member", m) /\ x.value = c
  BY <1>2, <1>4
<1>6. \A y \in Group(here, "member", m) : y.value \in Int /\ y.value <= c
  BY <1>1, <1>2
<1>7. Color(Column(here, "member", kind), m) = ColorOf(kind, c)
  BY <1>5, <1>6, ColorIs
<1> QED BY <1>7 DEF here, vec

LEMMA OnlineCell ==
  ASSUME IInv, Current, NEW m \in Nodes, Left(SiteOf(m)) # {}, NEW S, m \in S
  PROVE  Color(Column(Where(Samples(Scraped, "cluster_node_online"), "member", S), "member", "up"), m) =
           {IF Counted(m) THEN "green" ELSE "red"}
<1> DEFINE vec == Samples(Scraped, "cluster_node_online")
           here == Where(vec, "member", S)
<1>1. Group(vec, "member", m) # {} /\ MaxOf(Group(vec, "member", m)) = Flag(Counted(m))
  BY OnlineMost
<1>2. Group(here, "member", m) = Group(vec, "member", m)
  BY GroupWithin
<1> HIDE DEF vec, here
<1>3. Cell(here, "member", m) = {Flag(Counted(m))}
  BY <1>1, <1>2, CellOf
<1>4. Color(Column(here, "member", "up"), m) = ColorOf("up", Flag(Counted(m)))
  BY <1>3, ColorOfColumn
<1>5. Flag(Counted(m)) = IF Counted(m) THEN 1 ELSE 0
  BY DEF Flag
<1>6. ColorOf("up", 1) = {"green"} /\ ColorOf("up", 0) = {"red"}
  BY ColorsOf
<1>7. Color(Column(here, "member", "up"), m) = {IF Counted(m) THEN "green" ELSE "red"}
  BY <1>4, <1>5, <1>6
<1> QED BY <1>7 DEF here, vec

LEMMA InSyncCell ==
  ASSUME IInv, Current, NEW m \in Nodes, NEW S, m \in S,
         NEW vec, vec = Where(Where(Where(Samples(Scraped, "cluster_drbd_disk"), "resource", {Ha}),
                                    "disk", {"UpToDate"}), "node", S)
  PROVE  Color(Column(vec, "node", "up"), m) =
           IF m \in up /\ ~(storage[SiteOf(m)] = "Diskless" /\ IsPrimary(m)) THEN {"green"} ELSE {}
<1> DEFINE all == Samples(Scraped, "cluster_drbd_disk")
           G == Group(vec, "node", m)
           row(n, res) == RowOf(n, DrbdDiskOf(n, res))
           lost(n) == storage[SiteOf(n)] = "Diskless" /\ IsPrimary(n)
           disk(n, res) == DrbdReport(n)[res].disk
<1>1. \A x : x \in all <=> \E n \in up : \E res \in Volumes(n) : x = row(n, res)
  BY VolumeRows DEF OfVolumes
<1>2. \A n, res : LET x == row(n, res) IN
        /\ DOMAIN x.labels = {"node", "resource", "disk", "groups"}
        /\ x.labels["node"] = n /\ x.labels["resource"] = res /\ x.labels["disk"] = disk(n, res)
        /\ x.value = 1
  BY DrbdDiskFields
<1>3. \A n : disk(n, Ha) = "UpToDate" <=> ~lost(n)
  BY VolumeStates
<1>4. \A n : Ha \in Volumes(n)
  BY DEF Volumes
<1>5. \A x : x \in G <=>
        /\ x \in all
        /\ "resource" \in DOMAIN x.labels /\ x.labels["resource"] = Ha
        /\ "disk" \in DOMAIN x.labels /\ x.labels["disk"] = "UpToDate"
        /\ "node" \in DOMAIN x.labels /\ x.labels["node"] = m
  BY DEF Where, Group
<1>6. ColorOf("up", 1) = {"green"}
  BY ColorsOf
<1> HIDE DEF all, G, row, lost, disk
<1>7. ASSUME NEW x \in G PROVE m \in up /\ ~lost(m) /\ x = row(m, Ha)
  <2>1. PICK n \in up : \E res \in Volumes(n) : x = row(n, res)
    BY <1>1, <1>5
  <2>2. PICK res \in Volumes(n) : x = row(n, res)
    BY <2>1
  <2>3. n = m /\ res = Ha /\ disk(n, res) = "UpToDate"
    BY <1>2, <1>5, <2>2
  <2> QED BY <1>3, <2>2, <2>3
<1>8. ASSUME m \in up, ~lost(m)
      PROVE  Color(Column(vec, "node", "up"), m) = {"green"}
  <2>1. row(m, Ha) \in G
    BY <1>1, <1>2, <1>3, <1>4, <1>5, <1>8
  <2>2. row(m, Ha).value = 1 /\ \A x \in G : x.value \in Int /\ x.value <= 1
    BY <1>2, <1>7
  <2>3. Color(Column(vec, "node", "up"), m) = ColorOf("up", 1)
    BY <2>1, <2>2, ColorIs DEF G
  <2> QED BY <1>6, <2>3
<1>9. ASSUME ~(m \in up /\ ~lost(m)) PROVE Color(Column(vec, "node", "up"), m) = {}
  <2>1. G = {}
    BY <1>7, <1>9
  <2> QED BY <2>1, Colorless DEF G
<1> QED BY <1>8, <1>9 DEF lost

LEMMA OutOfSyncCell ==
  ASSUME IInv, Current, NEW m \in Nodes,
         NEW vec, vec = Where(Where(Samples(Scraped, "cluster_drbd_out_of_sync_bytes"), "resource", {Ha}),
                              "node", Nodes)
  PROVE  Color(Column(vec, "node", "drbd_oos"), m) =
           IF m \notin up THEN {}
           ELSE IF storage[SiteOf(m)] = "StandAlone" /\ IsPrimary(m) THEN {"red"} ELSE {"green"}
<1> DEFINE all == Samples(Scraped, "cluster_drbd_out_of_sync_bytes")
           G == Group(vec, "node", m)
           row(n, res) == RowOf(n, OutOfSyncOf(n, res))
           behind(n) == storage[SiteOf(n)] = "StandAlone" /\ IsPrimary(n)
           bytes(n, res) == DrbdReport(n)[res].out_of_sync_bytes
<1>1. \A x : x \in all <=> \E n \in up : \E res \in Volumes(n) : x = row(n, res)
  BY VolumeRows DEF OfVolumes
<1>2. \A n, res : LET x == row(n, res) IN
        /\ DOMAIN x.labels = {"node", "resource", "groups"}
        /\ x.labels["node"] = n /\ x.labels["resource"] = res /\ x.value = bytes(n, res)
  BY OutOfSyncFields
<1>3. \A n : bytes(n, Ha) = IF behind(n) THEN 4096 ELSE 0
  BY VolumeStates
<1>4. \A n : Ha \in Volumes(n)
  BY DEF Volumes
<1>5. \A x : x \in G <=>
        /\ x \in all
        /\ "resource" \in DOMAIN x.labels /\ x.labels["resource"] = Ha
        /\ "node" \in DOMAIN x.labels /\ x.labels["node"] = m
  BY DEF Where, Group
<1>6. ColorOf("drbd_oos", 0) = {"green"} /\ ColorOf("drbd_oos", 4096) = {"red"}
  BY RdqmColors
<1> HIDE DEF all, G, row, behind, bytes
<1>7. ASSUME NEW x \in G PROVE m \in up /\ x = row(m, Ha)
  <2>1. PICK n \in up : \E res \in Volumes(n) : x = row(n, res)
    BY <1>1, <1>5
  <2>2. PICK res \in Volumes(n) : x = row(n, res)
    BY <2>1
  <2>3. n = m /\ res = Ha
    BY <1>2, <1>5, <2>2
  <2> QED BY <2>2, <2>3
<1>8. ASSUME m \in up
      PROVE  Color(Column(vec, "node", "drbd_oos"), m) = ColorOf("drbd_oos", bytes(m, Ha))
  <2>1. row(m, Ha) \in G
    BY <1>1, <1>2, <1>4, <1>5, <1>8
  <2>2. bytes(m, Ha) \in Int
    BY <1>3
  <2>3. row(m, Ha).value = bytes(m, Ha) /\ \A x \in G : x.value \in Int /\ x.value <= bytes(m, Ha)
    BY <1>2, <1>7, <2>2
  <2> QED BY <2>1, <2>2, <2>3, ColorIs DEF G
<1>9. ASSUME m \notin up PROVE Color(Column(vec, "node", "drbd_oos"), m) = {}
  <2>1. G = {}
    BY <1>7, <1>9
  <2> QED BY <2>1, Colorless DEF G
<1> QED BY <1>3, <1>6, <1>8, <1>9 DEF behind

\* The column of a resource of Pacemaker's.
StateColumn(kind, S) ==
  Column(Where(Where(Samples(Scraped, "cluster_rdqm_pm_state"), "member", S), "resource", {<<kind, base>>}),
         "member", "pm_state")

LEMMA PmStateFields ==
  ASSUME NEW n, NEW m, NEW id, NEW s, s = PmStateOf(n, m, id)
  PROVE  LET x == RowOf(n, s) IN
         /\ DOMAIN x.labels = {"node", "member", "resource", "groups"}
         /\ x.labels["member"] = m /\ x.labels["resource"] = id
         /\ x.value = PmCode(PmRole(CrmReport(n), id, m))
<1>1. /\ DOMAIN s.labels = {"node", "member", "resource"} /\ s.labels["member"] = m /\ s.labels["resource"] = id
      /\ s.value = PmCode(PmRole(CrmReport(n), id, m))
  BY MetricFields DEF PmStateOf
<1> QED BY <1>1, ScrapedFields DEF RowOf

\* A resource's cell: what every reporter of the site says of it, if it has the
\* name the collector looks for.
LEMMA StateCell ==
  ASSUME IInv, Current, NEW m \in Nodes, Left(SiteOf(m)) # {}, NEW S, m \in S,
         NEW kind \in {"qm", "drbd", "dr", "ip"}, NEW c \in Int,
         base = "qmrdqm" => \A n \in Left(SiteOf(m)) : PmCode(PmRole(CrmReport(n), <<kind, base>>, m)) = c
  PROVE  Color(StateColumn(kind, S), m) = IF base = "qmrdqm" THEN ColorOf("pm_state", c) ELSE {}
<1> DEFINE all == Samples(Scraped, "cluster_rdqm_pm_state")
           vec == Where(Where(all, "member", S), "resource", {<<kind, base>>})
           own == <<kind, base>>
           G == Group(vec, "member", m)
           row(n, k, id) == RowOf(n, PmStateOf(n, k, id))
           code(n, k, id) == PmCode(PmRole(CrmReport(n), id, k))
<1>1. \A x : x \in all <=> \E n \in up : \E k \in Members(SiteOf(n)) : \E id \in PmResources : x = row(n, k, id)
  BY OtherRows
<1>2. \A n, k, id : LET x == row(n, k, id) IN
        /\ DOMAIN x.labels = {"node", "member", "resource", "groups"}
        /\ x.labels["member"] = k /\ x.labels["resource"] = id /\ x.value = code(n, k, id)
  BY PmStateFields
<1>3. \A x : x \in G <=> /\ x \in all
                         /\ "resource" \in DOMAIN x.labels /\ x.labels["resource"] = own
                         /\ "member" \in DOMAIN x.labels /\ x.labels["member"] = m
  BY DEF Where, Group
<1>4. own \in PmResources <=> base = "qmrdqm"
  <2>1. \A id : id \in PmResources <=> \E k \in {"qm", "drbd", "dr", "ip"} : id = <<k, "qmrdqm">>
    BY Zenon DEF PmResources
  <2> QED BY <2>1
<1>5. \A n \in up : n \in Left(SiteOf(n)) /\ n \in Nodes /\ SiteOf(n) \in Sites
  BY NodesReport
<1>6. \A n \in up : m \in Members(SiteOf(n)) <=> n \in Left(SiteOf(m))
  BY <1>5, SitesOfNodes DEF Left
<1>7. \A n \in Left(SiteOf(m)) : n \in up
  BY DEF Left
<1>8. base = "qmrdqm" => \A n \in Left(SiteOf(m)) : code(n, m, own) = c
  OBVIOUS
<1>9. StateColumn(kind, S) = Column(vec, "member", "pm_state")
  BY DEF StateColumn
<1> HIDE DEF all, vec, own, G, row, code
<1>10. ASSUME NEW x \in G
       PROVE  own \in PmResources /\ \E n \in Left(SiteOf(m)) : x.value = code(n, m, own)
  <2>1. PICK n \in up : \E k \in Members(SiteOf(n)) : \E id \in PmResources : x = row(n, k, id)
    BY <1>1, <1>3
  <2>2. PICK k \in Members(SiteOf(n)) : \E id \in PmResources : x = row(n, k, id)
    BY <2>1
  <2>3. PICK id \in PmResources : x = row(n, k, id)
    BY <2>2
  <2>4. k = m /\ id = own /\ x.value = code(n, k, id)
    BY <1>2, <1>3, <2>3
  <2>5. n \in Left(SiteOf(m))
    BY <1>6, <2>4
  <2> QED BY <2>3, <2>4, <2>5
<1>11. ASSUME base = "qmrdqm" PROVE Color(Column(vec, "member", "pm_state"), m) = ColorOf("pm_state", c)
  <2>1. PICK n \in Left(SiteOf(m)) : TRUE
    OBVIOUS
  <2>2. m \in Members(SiteOf(n)) /\ own \in PmResources /\ n \in up
    BY <1>4, <1>6, <1>7, <1>11
  <2>3. row(n, m, own) \in G
    BY <1>1, <1>2, <1>3, <2>2
  <2>4. row(n, m, own).value = c
    BY <1>2, <1>8, <1>11
  <2>5. \A x \in G : x.value \in Int /\ x.value <= c
    BY <1>8, <1>10, <1>11
  <2> QED BY <2>3, <2>4, <2>5, ColorIs DEF G
<1>12. ASSUME base # "qmrdqm" PROVE Color(Column(vec, "member", "pm_state"), m) = {}
  <2>1. G = {}
    BY <1>4, <1>10, <1>12
  <2> QED BY <2>1, Colorless DEF G
<1> QED BY <1>9, <1>11, <1>12

\* With current reports each cell of the matrices shows the member it is about:
\* a member that is down is red in what its peers report and blank in what only
\* it can, and a lost disk is blank and never red; where bans are looked up under
\* their name one is red and a standby never is, and where the resources are
\* each of their cells follows its instance.
THEOREM MatricesRight == Spec => []MatricesAreRight
<1>1. ASSUME IInv, Current, NEW s \in Sites, Left(s) # {}, NEW n \in Members(s)
      PROVE  LET instance == InstanceColumns(Scraped, s)
                 layer == PacemakerColumns(Scraped, s)
                 storageColumns == StorageColumns(Scraped)
                 cell(color) == IF n \in up THEN {color} ELSE {}
                 named(color) == IF base = "qmrdqm" THEN {color} ELSE {}
             IN /\ Color(instance.online, n) = {IF Counted(n) THEN "green" ELSE "red"}
                /\ Color(instance.role, n) = cell(IF primary[s] = n THEN "green" ELSE "blue")
                /\ Color(instance.running, n) = cell(IF Running(n) THEN "green" ELSE "blue")
                /\ Color(instance.inSync, n) =
                     IF storage[s] = "Diskless" /\ primary[s] = n THEN {} ELSE cell("green")
                /\ Color(layer.ready, n) = {IF n \in up \ Seen THEN "green" ELSE "red"}
                /\ Color(layer.qm, n) = named(IF Running(n) THEN "green" ELSE "grey")
                /\ Color(layer.drbd, n) =
                     named(IF n \notin up THEN "grey" ELSE IF primary[s] = n THEN "green" ELSE "blue")
                /\ Color(layer.failCount, n) = {IF n \in Seen THEN "red" ELSE "green"}
                /\ Color(storageColumns.outOfSync, n) =
                     cell(IF storage[s] = "StandAlone" /\ primary[s] = n THEN "red" ELSE "green")
  <2> DEFINE S == Members(s)
             member(name, kind) == Column(Where(Samples(Scraped, name), "member", S), "member", kind)
             online == member("cluster_node_online", "up")
             role == member("cluster_rdqm_role_code", "rdqm_role")
             running == member("cluster_rdqm_qm_running", "qm_running")
             ready == member("cluster_rdqm_node_ready", "node_ready")
             failCount == member("cluster_rdqm_failcount", "failcount")
             disks == Where(Where(Where(Samples(Scraped, "cluster_drbd_disk"), "resource", {Ha}),
                                  "disk", {"UpToDate"}), "node", S)
             backlog == Where(Where(Samples(Scraped, "cluster_drbd_out_of_sync_bytes"), "resource", {Ha}),
                              "node", Nodes)
  <2>1. n \in Nodes /\ SiteOf(n) = s /\ Left(SiteOf(n)) # {}
    BY <1>1, SitesOfNodes
  <2>2. \A k : k \in Left(s) => k \in Nodes /\ SiteOf(k) = s /\ n \in Members(SiteOf(k))
    BY <1>1, SitesReport, NodesReport
  <2>3. IsPrimary(n) <=> primary[s] = n
    BY <2>1 DEF IsPrimary
  <2>4. Color(online, n) = {IF Counted(n) THEN "green" ELSE "red"}
    BY <1>1, <2>1, OnlineCell
  <2>5. Color(role, n) = IF n \in up THEN {IF primary[s] = n THEN "green" ELSE "blue"} ELSE {}
    <3>1. RoleCodes[n] = (IF primary[s] = n THEN 2 ELSE 1) /\ RoleCodes[n] \in Int
      BY <2>1, <2>3 DEF RoleCodes
    <3>2. /\ n \in up => Color(role, n) = ColorOf("rdqm_role", RoleCodes[n])
          /\ n \notin up => Color(role, n) = {}
      BY <1>1, <3>1, OwnColumns, OwnCell
    <3>3. ColorOf("rdqm_role", 1) = {"blue"} /\ ColorOf("rdqm_role", 2) = {"green"}
      BY RdqmColors
    <3> QED BY <3>1, <3>2, <3>3
  <2>6. Color(running, n) = IF n \in up THEN {IF Running(n) THEN "green" ELSE "blue"} ELSE {}
    <3>1. Runs[n] = (IF Running(n) THEN 1 ELSE 0) /\ Runs[n] \in Int
      BY <2>1 DEF Runs, Flag
    <3>2. /\ n \in up => Color(running, n) = ColorOf("qm_running", Runs[n])
          /\ n \notin up => Color(running, n) = {}
      BY <1>1, <3>1, OwnColumns, OwnCell
    <3>3. ColorOf("qm_running", 0) = {"blue"} /\ ColorOf("qm_running", 1) = {"green"}
      BY RdqmColors
    <3> QED BY <3>1, <3>2, <3>3
  <2>7. Color(Column(disks, "node", "up"), n) =
          IF storage[s] = "Diskless" /\ primary[s] = n THEN {} ELSE IF n \in up THEN {"green"} ELSE {}
    <3>1. Color(Column(disks, "node", "up"), n) =
            IF n \in up /\ ~(storage[SiteOf(n)] = "Diskless" /\ IsPrimary(n)) THEN {"green"} ELSE {}
      BY <1>1, <2>1, InSyncCell
    <3> HIDE DEF disks
    <3> QED BY <2>1, <2>3, <3>1
  <2>8. Color(ready, n) = {IF n \in up \ Seen THEN "green" ELSE "red"}
    <3> DEFINE c == Flag(n \in up \ Seen)
    <3>1. \A k \in Left(SiteOf(n)) : Readies[k][n] = c
      BY <2>1, <2>2 DEF Readies
    <3>2. c = IF n \in up \ Seen THEN 1 ELSE 0
      BY DEF Flag
    <3> HIDE DEF c
    <3>3. Color(ready, n) = ColorOf("node_ready", c)
      BY <1>1, <2>1, <3>1, <3>2, Tables, TableCell
    <3>4. ColorOf("node_ready", 0) = {"red"} /\ ColorOf("node_ready", 1) = {"green"}
      BY RdqmColors
    <3> QED BY <3>2, <3>3, <3>4
  <2>9. Color(failCount, n) = {IF n \in Seen THEN "red" ELSE "green"}
    <3>1. \A k \in Left(SiteOf(n)) : FailCounted[k][n] = FailsOf(n)
      BY <2>1, <2>2 DEF FailCounted
    <3>2. FailsOf(n) = (IF n \in Seen THEN 1000000 ELSE 0) /\ FailsOf(n) \in Int
      BY SMT DEF FailsOf, INFINITY
    <3>3. Color(failCount, n) = ColorOf("failcount", FailsOf(n))
      BY <1>1, <2>1, <3>1, <3>2, Tables, TableCell
    <3>4. ColorOf("failcount", 0) = {"green"} /\ ColorOf("failcount", 1000000) = {"red"}
      <4>1. 1000000 <= Unlimited
        BY SMT DEF Unlimited
      <4> QED BY <4>1, RdqmColors, SMT
    <3> HIDE DEF failCount
    <3> QED BY <3>2, <3>3, <3>4, SMT
  <2>10. Color(StateColumn("qm", S), n) = IF base = "qmrdqm" THEN {IF Running(n) THEN "green" ELSE "grey"} ELSE {}
    <3> DEFINE c == IF Running(n) THEN 2 ELSE 0
    <3>1. base = "qmrdqm" => \A k \in Left(SiteOf(n)) : PmCode(PmRole(CrmReport(k), <<"qm", base>>, n)) = c
      BY <1>1, <2>1, <2>2, PmStates DEF IInv
    <3>2. c \in Int
      OBVIOUS
    <3> HIDE DEF c
    <3>3. Color(StateColumn("qm", S), n) = IF base = "qmrdqm" THEN ColorOf("pm_state", c) ELSE {}
      BY <1>1, <2>1, <3>1, <3>2, StateCell
    <3>4. ColorOf("pm_state", 0) = {"grey"} /\ ColorOf("pm_state", 2) = {"green"}
      BY RdqmColors
    <3> QED BY <3>3, <3>4 DEF c
  <2>11. Color(StateColumn("drbd", S), n) =
           IF base = "qmrdqm" THEN {IF n \notin up THEN "grey" ELSE IF primary[s] = n THEN "green" ELSE "blue"}
           ELSE {}
    <3> DEFINE c == IF n \notin up THEN 0 ELSE IF primary[s] = n THEN 2 ELSE 1
    <3>1. base = "qmrdqm" => \A k \in Left(SiteOf(n)) : PmCode(PmRole(CrmReport(k), <<"drbd", base>>, n)) = c
      BY <1>1, <2>1, <2>2, <2>3, PmStates DEF IInv
    <3>2. c \in Int
      OBVIOUS
    <3> HIDE DEF c
    <3>3. Color(StateColumn("drbd", S), n) = IF base = "qmrdqm" THEN ColorOf("pm_state", c) ELSE {}
      BY <1>1, <2>1, <3>1, <3>2, StateCell
    <3>4. /\ ColorOf("pm_state", 0) = {"grey"} /\ ColorOf("pm_state", 1) = {"blue"}
          /\ ColorOf("pm_state", 2) = {"green"}
      BY RdqmColors
    <3> QED BY <3>3, <3>4 DEF c
  <2>12. Color(Column(backlog, "node", "drbd_oos"), n) =
           IF n \in up THEN {IF storage[s] = "StandAlone" /\ primary[s] = n THEN "red" ELSE "green"} ELSE {}
    <3>1. Color(Column(backlog, "node", "drbd_oos"), n) =
            IF n \notin up THEN {}
            ELSE IF storage[SiteOf(n)] = "StandAlone" /\ IsPrimary(n) THEN {"red"} ELSE {"green"}
      BY <1>1, <2>1, OutOfSyncCell
    <3> HIDE DEF backlog
    <3> QED BY <2>1, <2>3, <3>1
  <2>13. LET instance == InstanceColumns(Scraped, s)
             layer == PacemakerColumns(Scraped, s) IN
         /\ instance.online = online /\ instance.role = role /\ instance.running = running
         /\ instance.inSync = Column(disks, "node", "up")
         /\ layer.ready = ready /\ layer.failCount = failCount
         /\ layer.qm = StateColumn("qm", S) /\ layer.drbd = StateColumn("drbd", S)
         /\ StorageColumns(Scraped).outOfSync = Column(backlog, "node", "drbd_oos")
    BY DEF InstanceColumns, PacemakerColumns, StorageColumns, StateColumn, Ha
  <2> HIDE DEF online, role, running, ready, failCount, disks, backlog
  <2> QED BY <2>4, <2>5, <2>6, <2>7, <2>8, <2>9, <2>10, <2>11, <2>12, <2>13
<1>2. ASSUME IInv, Current, NEW s \in Sites, Left(s) # {}, NEW n \in Members(s)
      PROVE  LET instance == InstanceColumns(Scraped, s)
                 layer == PacemakerColumns(Scraped, s)
                 storageColumns == StorageColumns(Scraped)
                 cell(color) == IF n \in up THEN {color} ELSE {}
             IN /\ Color(instance.online, n) = {IF Counted(n) THEN "green" ELSE "red"}
                /\ Color(instance.role, n) = cell(IF primary[s] = n THEN "green" ELSE "blue")
                /\ Color(instance.running, n) = cell(IF Running(n) THEN "green" ELSE "blue")
                /\ Color(instance.inSync, n) =
                     IF storage[s] = "Diskless" /\ primary[s] = n THEN {} ELSE cell("green")
                /\ Color(storageColumns.outOfSync, n) =
                     cell(IF storage[s] = "StandAlone" /\ primary[s] = n THEN "red" ELSE "green")
                /\ BansSeen =>
                     /\ Color(layer.ready, n) = {IF n \in up \ banned THEN "green" ELSE "red"}
                     /\ Color(layer.failCount, n) = {IF n \in banned THEN "red" ELSE "green"}
                /\ base = "qmrdqm" =>
                     /\ Color(layer.qm, n) = {IF Running(n) THEN "green" ELSE "grey"}
                     /\ Color(layer.drbd, n) =
                          {IF n \notin up THEN "grey" ELSE IF primary[s] = n THEN "green" ELSE "blue"}
  <2> DEFINE layer == PacemakerColumns(Scraped, s)
  <2>1. /\ Color(layer.ready, n) = {IF n \in up \ Seen THEN "green" ELSE "red"}
        /\ Color(layer.failCount, n) = {IF n \in Seen THEN "red" ELSE "green"}
    BY <1>1, <1>2
  <2> HIDE DEF layer
  <2>2. BansSeen => /\ Color(layer.ready, n) = {IF n \in up \ banned THEN "green" ELSE "red"}
                    /\ Color(layer.failCount, n) = {IF n \in banned THEN "red" ELSE "green"}
    BY <2>1, AllSeen
  <2> USE DEF layer
  <2> QED BY <1>1, <1>2, <2>2
<1>3. IInv => MatricesAreRight
  BY <1>2, Zenon DEF MatricesAreRight
<1> QED BY <1>3, Always, PTL
=============================================================================
