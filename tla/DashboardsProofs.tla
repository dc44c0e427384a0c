-------------------------- MODULE DashboardsProofs --------------------------
(***************************************************************************)
(* First the layout: the queue manager's board never covers one panel with *)
(* another, however many queues and channels it is rendered for, as all    *)
(* its panels so far lie above y, every block is laid out well by itself   *)
(* and lies from its own y to the next one.                                *)
(*                                                                         *)
(* Then what the messaging boards show: whatever order the exporters are   *)
(* scraped in, each one's series are about its own queue manager           *)
(* (FlowInv), so an expression about a queue manager reads those only; and *)
(* once all were scraped they are what Report says now.                    *)
(***************************************************************************)
EXTENDS Dashboards, PromQLTheorems

IsPanel(p) == p.x \in Int /\ p.y \in Int /\ p.w \in Int /\ p.h \in Int

\* The panels lie in the lines from low to high, on the grid and apart.
Fits(board, low, high) ==
  /\ \A p \in board : IsPanel(p) /\ OnGrid(p) /\ low <= p.y /\ p.y + p.h <= high
  /\ NoOverlap(board)

FitsInv ==
  /\ y \in Nat
  /\ Fits(panels, 0, y)

\* Panels below others: both together fit.
LEMMA Below ==
  ASSUME NEW a, NEW b, NEW low \in Nat, NEW mid \in Nat, NEW high \in Nat,
         low <= mid, mid <= high, Fits(a, low, mid), Fits(b, mid, high)
  PROVE  Fits(a \cup b, low, high)
<1>1. \A p \in a \cup b : IsPanel(p) /\ OnGrid(p) /\ low <= p.y /\ p.y + p.h <= high
  BY SMT DEF Fits, IsPanel
<1>2. \A p, q \in a \cup b : p = q \/ Apart(p, q)
  <2>1. \A p \in a, q \in b : Apart(p, q) /\ Apart(q, p)
    BY SMT DEF Fits, IsPanel, Apart
  <2> QED BY <2>1, Zenon DEF Fits, NoOverlap
<1> QED BY <1>1, <1>2 DEF Fits, NoOverlap

\* The first block of the board, 21 lines high.
LEMMA HealthFits ==
  ASSUME NEW n \in Nat
  PROVE  Fits(QmHealth(n), n, n + 21)
<1>1. \A p \in QmHealth(n) : IsPanel(p) /\ OnGrid(p) /\ n <= p.y /\ p.y + p.h <= n + 21
  BY SMT DEF QmHealth, IsPanel, OnGrid, Panel, banner, row_header, timeseries, logs_panel, Columns
<1>2. \A p, q \in QmHealth(n) : p = q \/ Apart(p, q)
  BY SMTT(60) DEF QmHealth, Apart, Panel, banner, row_header, timeseries, logs_panel, Columns
<1> QED BY <1>1, <1>2 DEF Fits, NoOverlap

\* A queue's header, graphs and events, 23 lines.
LEMMA QueueFits ==
  ASSUME NEW queue \in STRING, NEW n \in Nat
  PROVE  Fits(QueueBlock(queue, n), n, n + 23)
<1>1. \A p \in QueueBlock(queue, n) : IsPanel(p) /\ OnGrid(p) /\ n <= p.y /\ p.y + p.h <= n + 23
  BY SMT DEF QueueBlock, Of, IsPanel, OnGrid, Panel, row_header, timeseries, logs_panel, Columns
<1>2. \A p, q \in QueueBlock(queue, n) : p = q \/ Apart(p, q)
  BY SMTT(60) DEF QueueBlock, Of, Apart, Panel, row_header, timeseries, logs_panel, Columns
<1> QED BY <1>1, <1>2 DEF Fits, NoOverlap

\* A channel's header, graphs and events, 16 lines.
LEMMA ChannelFits ==
  ASSUME NEW ch \in STRING, NEW n \in Nat
  PROVE  Fits(ChannelBlock(ch, n), n, n + 16)
<1>1. \A p \in ChannelBlock(ch, n) : IsPanel(p) /\ OnGrid(p) /\ n <= p.y /\ p.y + p.h <= n + 16
  BY SMT DEF ChannelBlock, Of, IsPanel, OnGrid, Panel, row_header, timeseries, logs_panel, Columns
<1>2. \A p, q \in ChannelBlock(ch, n) : p = q \/ Apart(p, q)
  BY SMTT(60) DEF ChannelBlock, Of, Apart, Panel, row_header, timeseries, logs_panel, Columns
<1> QED BY <1>1, <1>2 DEF Fits, NoOverlap

\* The boards whose positions are fixed.
LEMMA MessagingFits == Fits(messaging, 0, 46)
<1>1. \A p \in messaging : IsPanel(p) /\ OnGrid(p) /\ 0 <= p.y /\ p.y + p.h <= 46
  BY SMTT(60) DEF messaging, Tiles, IsPanel, OnGrid, Panel, banner, row_header, timeseries, logs_panel, Columns
<1>2. \A p, q \in messaging : p = q \/ Apart(p, q)
  BY SMTT(60) DEF messaging, Tiles, Apart, Panel, banner, row_header, timeseries, logs_panel, Columns
<1> QED BY <1>1, <1>2 DEF Fits, NoOverlap

LEMMA NativeHaFits == Fits(nativeha, 0, 42)
<1>1. \A p \in nativeha : IsPanel(p) /\ OnGrid(p) /\ 0 <= p.y /\ p.y + p.h <= 42
  BY SMTT(60) DEF nativeha, Tiles, Band, Site, Of, IsPanel, OnGrid, Panel, banner, row_header, state_timeline, logs_panel, Columns
<1>2. \A p, q \in nativeha : p = q \/ Apart(p, q)
  BY SMTT(60) DEF nativeha, Tiles, Band, Site, Of, Apart, Panel, banner, row_header, state_timeline, logs_panel, Columns
<1> QED BY <1>1, <1>2 DEF Fits, NoOverlap

LEMMA RdqmFits == Fits(rdqm, 0, 64)
<1>1. \A p \in rdqm : IsPanel(p) /\ OnGrid(p) /\ 0 <= p.y /\ p.y + p.h <= 64
  BY SMTT(60) DEF rdqm, Tiles, Band, Site, Of, IsPanel, OnGrid, Panel, matrix, banner, row_header, state_timeline, logs_panel, Columns
<1>2. \A p, q \in rdqm : p = q \/ Apart(p, q)
  BY SMTT(60) DEF rdqm, Tiles, Band, Site, Of, Apart, Panel, matrix, banner, row_header, state_timeline, logs_panel, Columns
<1> QED BY <1>1, <1>2 DEF Fits, NoOverlap

\* What BoardsFit asks of the i-th board that render_all returns.
BoardFits(i, board) ==
  /\ \A p \in board : OnGrid(p)
  /\ \A p, q \in board :
       p = q \/ Apart(p, q) \/ (i = 3 /\ {p.title, q.title} = {"Integrity", "Compute"})

LEMMA ClusterFits == BoardFits(3, cluster)
<1>1. \A p \in cluster : OnGrid(p)
  BY SMTT(60) DEF cluster, Tiles, OnGrid, Panel, matrix, banner, row_header, state_timeline, logs_panel, Columns
<1>2. \A p, q \in cluster :
        \/ p = q
        \/ Apart(p, q)
        \/ p.title = "Integrity" /\ q.title = "Compute"
        \/ p.title = "Compute" /\ q.title = "Integrity"
  BY SMTT(60) DEF cluster, Tiles, Apart, Panel, matrix, banner, row_header, state_timeline, logs_panel, Columns
<1> QED BY <1>1, <1>2, Zenon DEF BoardFits

LEMMA FitsBoard ==
  ASSUME NEW i, NEW board, NEW high, Fits(board, 0, high)
  PROVE  BoardFits(i, board)
BY DEF Fits, NoOverlap, BoardFits

\* Until render_qm_board returns nothing is rendered; after that its panels
\* and every rendered board stay as they are.
RenderInv ==
  /\ FitsInv
  /\ queues \in Seq(STRING) /\ channels \in Seq(STRING)
  /\ Len(rendered) \in 0 .. 5
  /\ rendered \in Seq({panels, messaging, cluster, nativeha, rdqm})
  /\ rendered # <<>> => queues = <<>> /\ channels = <<>> /\ y > 0
  /\ \A i \in 1 .. Len(rendered) : BoardFits(i, rendered[i])

\* RenderInv is inductive.
LEMMA InitFits == RenderInit => RenderInv
<1> SUFFICES ASSUME RenderInit PROVE RenderInv
  OBVIOUS
<1> USE DEF RenderInit
<1>1. FitsInv
  BY SMT DEF FitsInv, Fits, NoOverlap
<1>2. rendered \in Seq({panels, messaging, cluster, nativeha, rdqm}) /\ Len(rendered) = 0
  BY SMT
<1> QED BY <1>1, <1>2, BoardsAssumption, SMT DEF RenderInv, BoardsAssumption

LEMMA StepFits == RenderInv /\ [RenderNext]_renderVars => RenderInv'
<1> SUFFICES ASSUME RenderInv, [RenderNext]_renderVars PROVE RenderInv'
  OBVIOUS
<1> USE DEF RenderInv
\* A block below the panels so far.
<1>1. ASSUME NEW block, NEW n \in Nat, Fits(block, y, y + n),
             panels' = panels \cup block, y' = y + n
      PROVE  FitsInv'
  <2>1. y \in Nat /\ y + n \in Nat /\ y <= y + n
    BY SMT DEF FitsInv
  <2>2. Fits(panels \cup block, 0, y + n)
    BY <1>1, <2>1, Below DEF FitsInv
  <2> QED BY <1>1, <2>1, <2>2 DEF FitsInv, Fits, NoOverlap
<1>2. CASE AddHealth
  <2>1. y \in Nat /\ y = 0 /\ rendered = <<>>
    BY <1>2, SMT DEF AddHealth, FitsInv
  <2>2. panels = {}
    BY <2>1, SMT DEF FitsInv, Fits, OnGrid, IsPanel
  <2>3. Fits(QmHealth(y), y, y + 21)
    BY <2>1, HealthFits
  <2>4. FitsInv'
    BY <1>1, <1>2, <2>2, <2>3 DEF AddHealth
  <2> QED BY <1>2, <2>1, <2>4, SMT DEF AddHealth
<1>3. CASE AddQueue
  <2>1. y \in Nat /\ Head(queues) \in STRING /\ Tail(queues) \in Seq(STRING) /\ rendered = <<>>
    BY <1>3, SMT DEF AddQueue, FitsInv
  <2>2. Fits(QueueBlock(Head(queues), y), y, y + 23)
    BY <2>1, QueueFits
  <2>3. FitsInv'
    BY <1>1, <1>3, <2>2 DEF AddQueue
  <2> QED BY <1>3, <2>1, <2>3, SMT DEF AddQueue
<1>4. CASE AddChannel
  <2>1. y \in Nat /\ Head(channels) \in STRING /\ Tail(channels) \in Seq(STRING) /\ rendered = <<>>
    BY <1>4, SMT DEF AddChannel, FitsInv
  <2>2. Fits(ChannelBlock(Head(channels), y), y, y + 16)
    BY <2>1, ChannelFits
  <2>3. FitsInv'
    BY <1>1, <1>4, <2>2 DEF AddChannel
  <2> QED BY <1>4, <2>1, <2>3, SMT DEF AddChannel
<1>5. CASE AddBoard
  <2> DEFINE k == Len(rendered) + 1
  <2> DEFINE board == <<panels, messaging, cluster, nativeha, rdqm>>[k]
  <2>1. k \in 1 .. 5 /\ rendered' = Append(rendered, board)
    BY <1>5, SMT DEF AddBoard
  <2>2. BoardFits(k, board)
    <3>1. BoardFits(1, panels)
      BY FitsBoard DEF FitsInv
    <3>2. BoardFits(2, messaging) /\ BoardFits(4, nativeha) /\ BoardFits(5, rdqm)
      BY MessagingFits, NativeHaFits, RdqmFits, FitsBoard
    <3> QED BY <2>1, <3>1, <3>2, ClusterFits, SMT
  <2>3. board \in {panels, messaging, cluster, nativeha, rdqm}
    BY <2>1, SMT
  <2>4. rendered' \in Seq({panels, messaging, cluster, nativeha, rdqm}) /\ Len(rendered') = k
    BY <2>1, <2>3, SMT
  <2>5. \A i \in 1 .. Len(rendered') : BoardFits(i, rendered'[i])
    <3>1. \A i \in 1 .. Len(rendered) : rendered'[i] = rendered[i]
      BY <2>1, SMT
    <3>2. rendered'[k] = board
      BY <2>1, SMT
    <3> QED BY <2>1, <2>2, <2>4, <3>1, <3>2, SMT
  <2>6. FitsInv' /\ panels' = panels
    BY <1>5 DEF AddBoard, FitsInv
  <2> QED BY <1>5, <2>1, <2>4, <2>5, <2>6, SMT DEF AddBoard
<1>6. CASE UNCHANGED renderVars
  BY <1>6 DEF renderVars, FitsInv
<1> QED BY <1>2, <1>3, <1>4, <1>5, <1>6 DEF RenderNext

---------------------------------------------------------------------------
(* The messaging boards: what the exporters' series hold.                  *)

\* The round trips of a tick.
Trips == {t \in [total : Nat, failures : Nat] : t.failures <= t.total}

Windows == {w \in Seq(Trips) : Len(w) = Window}

FlowTyped ==
  /\ home \in [QMs -> Hosts \cup {NoHost}]
  /\ status \in [QMs -> {1, 2}]
  /\ channel \in [Channels -> 0 .. 2]
  /\ depth \in [Queues -> 0 .. 1]
  /\ DOMAIN traffic = Stacks /\ \A s \in Stacks : traffic[s] \in Windows
  /\ DOMAIN seen = QMs \X Hosts

\* A series that an exporter of queue manager q sends.
Sent(q, s) ==
  /\ "qmgr" \in DOMAIN s.labels /\ s.labels["qmgr"] = q
  /\ s.value \in 0 .. 2

\* Whenever an exporter was scraped, its series name its queue manager and
\* hold no value but those the pills and the flow strip expect.
FlowInv ==
  /\ FlowTyped
  /\ \A q \in QMs : \A h \in Hosts : \A s \in seen[<<q, h>>] : Sent(q, s)

QmSeries(name, q, h, value) == Metric(name, [qmgr |-> q, host |-> h], value)
StatusOf(q, h) == QmSeries("ibmmq_qmgr_status", q, h, IF home[q] = h THEN status[q] ELSE 0)
Works(q, part, value) == IF <<q, part>> \in broken THEN 0 ELSE value
InitiatorOf(q, h) == QmSeries("ibmmq_qmgr_channel_initiator_status", q, h, Works(q, "initiator", 2))
CommandServerOf(q, h) == QmSeries("ibmmq_qmgr_command_server_status", q, h, Works(q, "command_server", 2))
ListenersOf(q, h) == QmSeries("ibmmq_qmgr_active_listeners", q, h, Works(q, "listener", 1))
ChannelOf(q, h, c) ==
  Metric("ibmmq_channel_status_squash", [qmgr |-> q, host |-> h, channel |-> c[2]], channel[c])
DepthOf(q, h, c) == Metric("ibmmq_queue_depth", [qmgr |-> q, host |-> h, queue |-> c[2]], depth[c])

\* What only the host that runs the queue manager has.
OwnSeries(q, h, s) ==
  \/ s \in {InitiatorOf(q, h), CommandServerOf(q, h), ListenersOf(q, h)}
  \/ \E c \in Channels : c[1] = q /\ s = ChannelOf(q, h, c)
  \/ \E c \in Queues : c[1] = q /\ s = DepthOf(q, h, c)

LEMMA Reported ==
  ASSUME NEW q, NEW h, NEW s
  PROVE  s \in Report(q, h) <=>
           <<q, h>> \notin down /\ (s = StatusOf(q, h) \/ (home[q] = h /\ OwnSeries(q, h, s)))
<1> DEFINE chans == {Metric("ibmmq_channel_status_squash", [qmgr |-> q, host |-> h, channel |-> c[2]], channel[c])
                     : c \in {d \in Channels : d[1] = q}}
           depths == {Metric("ibmmq_queue_depth", [qmgr |-> q, host |-> h, queue |-> c[2]], depth[c])
                      : c \in {d \in Queues : d[1] = q}}
           own == {Metric("ibmmq_qmgr_status", [qmgr |-> q, host |-> h], status[q]),
                   InitiatorOf(q, h), CommandServerOf(q, h), ListenersOf(q, h)}
<1>1. s \in chans <=> \E c \in Channels : c[1] = q /\ s = ChannelOf(q, h, c)
  BY Zenon DEF ChannelOf
<1>2. s \in depths <=> \E c \in Queues : c[1] = q /\ s = DepthOf(q, h, c)
  BY Zenon DEF DepthOf
<1>3. CASE <<q, h>> \in down
  BY <1>3 DEF Report
<1>4. CASE <<q, h>> \notin down /\ home[q] # h
  <2>1. Report(q, h) = {Metric("ibmmq_qmgr_status", [qmgr |-> q, host |-> h], 0)}
    BY <1>4 DEF Report
  <2>2. StatusOf(q, h) = Metric("ibmmq_qmgr_status", [qmgr |-> q, host |-> h], 0)
    BY <1>4 DEF StatusOf, QmSeries
  <2> QED BY <1>4, <2>1, <2>2
<1>5. CASE <<q, h>> \notin down /\ home[q] = h
  <2>1. Report(q, h) = (own \cup chans) \cup depths
    BY <1>5, Zenon DEF Report, InitiatorOf, CommandServerOf, ListenersOf, QmSeries, Works
  <2>2. StatusOf(q, h) = Metric("ibmmq_qmgr_status", [qmgr |-> q, host |-> h], status[q])
    BY <1>5 DEF StatusOf, QmSeries
  <2> HIDE DEF chans, depths
  <2> QED BY <1>1, <1>2, <1>5, <2>1, <2>2 DEF OwnSeries
<1> QED BY <1>3, <1>4, <1>5

\* The objects' owners.
LEMMA Objects ==
  /\ \A c \in Channels : c[1] \in QMs /\ c = <<c[1], c[2]>>
  /\ \A c \in Queues : c[1] \in QMs /\ c = <<c[1], c[2]>>
<1>1. \A q : q \in QMs <=> \E t \in Stacks : q = AppQm(t) \/ q = SvcQm(t)
  BY Zenon DEF QMs
<1>2. \A c : c \in Channels <=>
        \E t \in Stacks : c \in {<<AppQm(t), Sdr(t)>>, <<AppQm(t), APP_SVRCONN>>, <<SvcQm(t), SVC_SVRCONN>>}
  BY Zenon DEF Channels
<1>3. \A c : c \in Queues <=> \E t \in Stacks : c \in {<<SvcQm(t), ReqQueue(t)>>, <<AppQm(t), APP_REPLY>>}
  BY Zenon DEF Queues
<1>4. \A a, b : <<a, b>>[1] = a /\ <<a, b>> = << <<a, b>>[1], <<a, b>>[2] >>
  OBVIOUS
<1>5. ASSUME NEW c \in Channels PROVE c[1] \in QMs /\ c = <<c[1], c[2]>>
  <2>1. PICK t \in Stacks : c \in {<<AppQm(t), Sdr(t)>>, <<AppQm(t), APP_SVRCONN>>, <<SvcQm(t), SVC_SVRCONN>>}
    BY <1>2
  <2> QED BY <1>1, <1>4, <2>1
<1>6. ASSUME NEW c \in Queues PROVE c[1] \in QMs /\ c = <<c[1], c[2]>>
  <2>1. PICK t \in Stacks : c \in {<<SvcQm(t), ReqQueue(t)>>, <<AppQm(t), APP_REPLY>>}
    BY <1>3
  <2> QED BY <1>1, <1>4, <2>1
<1> QED BY <1>5, <1>6

LEMMA QmFields ==
  ASSUME NEW name, NEW q, NEW h, NEW value, NEW s, s = QmSeries(name, q, h, value)
  PROVE  /\ s.name = name /\ s.value = value
         /\ DOMAIN s.labels = {"qmgr", "host"} /\ s.labels["qmgr"] = q /\ s.labels["host"] = h
BY MetricFields DEF QmSeries

LEMMA ObjectFields ==
  ASSUME NEW q, NEW h, NEW c
  PROVE  /\ \A s : s = ChannelOf(q, h, c) =>
              /\ s.name = "ibmmq_channel_status_squash" /\ s.value = channel[c]
              /\ DOMAIN s.labels = {"qmgr", "host", "channel"}
              /\ s.labels["qmgr"] = q /\ s.labels["channel"] = c[2]
         /\ \A s : s = DepthOf(q, h, c) =>
              /\ s.name = "ibmmq_queue_depth" /\ s.value = depth[c]
              /\ DOMAIN s.labels = {"qmgr", "host", "queue"}
              /\ s.labels["qmgr"] = q /\ s.labels["queue"] = c[2]
BY MetricFields DEF ChannelOf, DepthOf

LEMMA ReportSound ==
  ASSUME FlowTyped, NEW q \in QMs, NEW h \in Hosts, NEW s \in Report(q, h)
  PROVE  Sent(q, s)
<1>1. Sent(q, StatusOf(q, h))
  <2> DEFINE v == IF home[q] = h THEN status[q] ELSE 0
  <2>1. v \in 0 .. 2
    BY DEF FlowTyped
  <2>2. StatusOf(q, h) = QmSeries("ibmmq_qmgr_status", q, h, v)
    BY DEF StatusOf
  <2> HIDE DEF v
  <2> QED BY <2>1, <2>2, QmFields DEF Sent
<1>2. \A part : Works(q, part, 1) \in 0 .. 2 /\ Works(q, part, 2) \in 0 .. 2
  BY DEF Works
<1>3. Sent(q, InitiatorOf(q, h)) /\ Sent(q, CommandServerOf(q, h)) /\ Sent(q, ListenersOf(q, h))
  BY <1>2, QmFields DEF Sent, InitiatorOf, CommandServerOf, ListenersOf
<1>4. \A c \in Channels : Sent(q, ChannelOf(q, h, c))
  BY ObjectFields DEF Sent, FlowTyped
<1>5. \A c \in Queues : Sent(q, DepthOf(q, h, c))
  BY ObjectFields DEF Sent, FlowTyped
<1>6. \/ s \in {StatusOf(q, h), InitiatorOf(q, h), CommandServerOf(q, h), ListenersOf(q, h)}
      \/ \E c \in Channels : s = ChannelOf(q, h, c)
      \/ \E c \in Queues : s = DepthOf(q, h, c)
  <2>1. s \in Report(q, h)
    OBVIOUS
  <2>2. <<q, h>> \notin down /\ (s = StatusOf(q, h) \/ (home[q] = h /\ OwnSeries(q, h, s)))
    BY <2>1, Reported
  <2>3. s = StatusOf(q, h) \/ OwnSeries(q, h, s)
    BY <2>2
  <2> QED BY <2>3, Zenon DEF OwnSeries
<1>7. CASE s \in {StatusOf(q, h), InitiatorOf(q, h), CommandServerOf(q, h), ListenersOf(q, h)}
  BY <1>1, <1>3, <1>7
<1>8. CASE \E c \in Channels : s = ChannelOf(q, h, c)
  BY <1>4, <1>8
<1>9. CASE \E c \in Queues : s = DepthOf(q, h, c)
  BY <1>5, <1>9
<1> QED BY <1>6, <1>7, <1>8, <1>9

LEMMA FlowStarts == FlowInit => FlowInv
<1> SUFFICES ASSUME FlowInit PROVE FlowInv
  OBVIOUS
<1>1. home \in [QMs -> Hosts \cup {NoHost}]
  <2>1. (CHOOSE h \in Hosts : TRUE) \in Hosts
    BY MessagingAssumption DEF MessagingAssumption
  <2> QED BY <2>1 DEF FlowInit
<1>2. /\ status \in [QMs -> {1, 2}] /\ channel \in [Channels -> 0 .. 2] /\ depth \in [Queues -> 0 .. 1]
      /\ DOMAIN seen = QMs \X Hosts
  BY DEF FlowInit
<1>3. DOMAIN traffic = Stacks /\ \A s \in Stacks : traffic[s] \in Windows
  <2>1. Idle \in Trips
    BY DEF Idle, Trips
  <2>2. Window \in Nat
    BY MessagingAssumption DEF MessagingAssumption
  <2>3. [i \in 1 .. Window |-> Idle] \in Windows
    <3> HIDE DEF Trips, Idle
    <3> QED BY <2>1, <2>2 DEF Windows
  <2> QED BY <2>3 DEF FlowInit
<1>4. FlowTyped
  BY <1>1, <1>2, <1>3 DEF FlowTyped
<1>5. \A q \in QMs : \A h \in Hosts : seen[<<q, h>>] = Report(q, h)
  BY DEF FlowInit
<1> QED BY <1>4, <1>5, ReportSound DEF FlowInv

\* A window that has moved on by a tick.
LEMMA Slides ==
  ASSUME NEW w \in Windows, NEW t \in Trips
  PROVE  Append(Tail(w), t) \in Windows
<1>1. Window \in Nat /\ Window > 0
  BY MessagingAssumption DEF MessagingAssumption
<1>2. w \in Seq(Trips) /\ Len(w) = Window
  BY DEF Windows
<1>3. Append(Tail(w), t) \in Seq(Trips) /\ Len(Append(Tail(w), t)) = Window
  BY <1>1, <1>2
<1> QED BY <1>3 DEF Windows

LEMMA FlowKeeps == FlowInv /\ [FlowNext]_flowVars => FlowInv'
<1> SUFFICES ASSUME FlowInv, [FlowNext]_flowVars PROVE FlowInv'
  OBVIOUS
<1> USE DEF FlowInv
\* What the exporters were last seen to send stays sound.
<1>1. ASSUME UNCHANGED seen PROVE \A q \in QMs : \A h \in Hosts : \A s \in seen'[<<q, h>>] : Sent(q, s)
  BY <1>1
<1>2. ASSUME NEW q \in QMs, Stop(q) PROVE FlowInv'
  BY <1>1, <1>2 DEF Stop, Event, FlowTyped
<1>3. ASSUME NEW q \in QMs, NEW h \in Hosts, StartOn(q, h) PROVE FlowInv'
  BY <1>1, <1>3 DEF StartOn, Event, FlowTyped
<1>4. ASSUME NEW q \in QMs, Running(q) PROVE FlowInv'
  BY <1>1, <1>4 DEF Running, Event, FlowTyped
<1>5. ASSUME NEW q \in QMs, NEW part \in Parts, Break(q, part) PROVE FlowInv'
  BY <1>1, <1>5 DEF Break, Event, FlowTyped
<1>6. ASSUME NEW c \in Channels, NEW value \in {0, 1}, ChangeChannel(c, value) PROVE FlowInv'
  BY <1>1, <1>6 DEF ChangeChannel, Event, FlowTyped
<1>7. ASSUME NEW c \in Queues, Fill(c) PROVE FlowInv'
  BY <1>1, <1>7 DEF Fill, Event, FlowTyped
<1>8. ASSUME NEW q \in QMs, NEW h \in Hosts, LoseExporter(q, h) PROVE FlowInv'
  <2>1. FlowTyped'
    BY <1>8 DEF LoseExporter, FlowTyped
  <2>2. \A e \in QMs \X Hosts : seen'[e] = IF e = <<q, h>> THEN {} ELSE seen[e]
    BY <1>8 DEF LoseExporter, FlowTyped
  <2>3. \A p \in QMs : \A k \in Hosts : seen'[<<p, k>>] = {} \/ seen'[<<p, k>>] = seen[<<p, k>>]
    BY <2>2
  <2> QED BY <2>1, <2>3
<1>9. ASSUME NEW q \in QMs, NEW h \in Hosts, Scrape(q, h) PROVE FlowInv'
  <2>1. FlowTyped'
    BY <1>9 DEF Scrape, world, FlowTyped
  <2>2. \A e \in QMs \X Hosts : seen'[e] = IF e = <<q, h>> THEN Report(q, h) ELSE seen[e]
    BY <1>9 DEF Scrape, FlowTyped
  <2>3. \A p \in QMs : \A k \in Hosts :
          seen'[<<p, k>>] = (IF p = q /\ k = h THEN Report(q, h) ELSE seen[<<p, k>>])
    BY <2>2
  <2> QED BY <2>1, <2>3, ReportSound
<1>10. ASSUME NEW s \in Stacks, NEW t \in Trips, Tick(s, t) PROVE FlowInv'
  <2>1. Idle \in Trips
    BY DEF Idle, Trips
  <2>2. \A u \in Stacks : Append(Tail(traffic[u]), IF u = s THEN t ELSE Idle) \in Windows
    BY <2>1, Slides DEF FlowTyped
  <2>3. DOMAIN traffic' = Stacks /\ \A u \in Stacks : traffic'[u] \in Windows
    BY <1>10, <2>2 DEF Tick
  <2> QED BY <1>1, <1>10, <2>3 DEF Tick, Event, FlowTyped
<1>11. \A failures \in 0 .. 2 : [total |-> 2, failures |-> failures] \in Trips
  BY DEF Trips
<1>12. Idle \in Trips
  BY DEF Idle, Trips
<1>13. CASE UNCHANGED flowVars
  BY <1>13 DEF flowVars, world, FlowTyped
<1>14. CASE FlowNext
  <2>1. CASE \E q \in QMs : Stop(q) \/ Running(q) \/ \E part \in Parts : Break(q, part)
    BY <1>2, <1>4, <1>5, <2>1
  <2>2. CASE \E q \in QMs, h \in Hosts : StartOn(q, h) \/ LoseExporter(q, h) \/ Scrape(q, h)
    BY <1>3, <1>8, <1>9, <2>2
  <2>3. CASE \E c \in Channels, value \in {0, 1} : ChangeChannel(c, value)
    BY <1>6, <2>3
  <2>4. CASE \E c \in Queues : Fill(c)
    BY <1>7, <2>4
  <2>5. CASE \E s \in Stacks, failures \in 0 .. 2 : Tick(s, [total |-> 2, failures |-> failures])
    BY <1>10, <1>11, <2>5
  <2>6. CASE \E s \in Stacks : Tick(s, Idle)
    BY <1>10, <1>12, <2>6
  <2> QED BY <1>14, <2>1, <2>2, <2>3, <2>4, <2>5, <2>6 DEF FlowNext
<1> QED BY <1>13, <1>14

LEMMA FlowAlways == Spec => []FlowInv
<1>1. Init => FlowInv
  BY FlowStarts DEF Init
<1>2. FlowInv /\ [Next]_<<renderVars, flowVars>> => FlowInv'
  <2> SUFFICES ASSUME FlowInv, [Next]_<<renderVars, flowVars>> PROVE FlowInv'
    OBVIOUS
  <2>1. [FlowNext]_flowVars
    BY DEF Next
  <2> QED BY <2>1, FlowKeeps
<1> QED BY <1>1, <1>2, PTL DEF Spec

---------------------------------------------------------------------------
(* What an expression makes of one queue manager's series.                 *)

RowFor(s) == Sample(s.labels, s.value)
OfQmRows(metric, q) == Where(Samples(Exported, metric), "qmgr", {q})

\* The samples of a metric that name one queue manager are those its own
\* exporters were last seen to send.
LEMMA OwnRows ==
  ASSUME FlowInv, NEW metric, NEW q \in QMs, NEW x
  PROVE  x \in OfQmRows(metric, q) <=>
           \E h \in Hosts : \E s \in seen[<<q, h>>] : s.name = metric /\ x = RowFor(s)
<1>1. \A s : s \in Exported <=> \E p \in QMs : \E h \in Hosts : s \in seen[<<p, h>>]
  <2>1. \A s : s \in Exported <=> \E e \in QMs \X Hosts : s \in seen[e]
    BY Zenon DEF Exported
  <2>2. \A e \in QMs \X Hosts : e[1] \in QMs /\ e[2] \in Hosts /\ e = <<e[1], e[2]>>
    OBVIOUS
  <2>3. \A p \in QMs : \A h \in Hosts : <<p, h>> \in QMs \X Hosts
    OBVIOUS
  <2>4. ASSUME NEW s \in Exported PROVE \E p \in QMs : \E h \in Hosts : s \in seen[<<p, h>>]
    <3>1. PICK e \in QMs \X Hosts : s \in seen[e]
      BY <2>1
    <3>2. e[1] \in QMs /\ e[2] \in Hosts /\ s \in seen[<<e[1], e[2]>>]
      BY <2>2, <3>1
    <3> QED BY <3>2, Zenon
  <2>5. ASSUME NEW p \in QMs, NEW h \in Hosts, NEW s \in seen[<<p, h>>] PROVE s \in Exported
    BY <2>1, <2>3, <2>5
  <2> QED BY <2>4, <2>5, Zenon
<1>2. x \in Samples(Exported, metric) <=> \E s \in Exported : s.name = metric /\ x = RowFor(s)
  BY SamplesOf DEF RowFor
<1>3. \A s : RowFor(s).labels = s.labels /\ RowFor(s).value = s.value
  BY SampleFields DEF RowFor
<1>4. x \in OfQmRows(metric, q) <=>
        x \in Samples(Exported, metric) /\ "qmgr" \in DOMAIN x.labels /\ x.labels["qmgr"] = q
  BY DEF OfQmRows, Where
<1>5. \A p \in QMs : \A h \in Hosts : \A s \in seen[<<p, h>>] :
        "qmgr" \in DOMAIN s.labels /\ s.labels["qmgr"] = p
  BY DEF FlowInv, Sent
<1>6. ASSUME x \in OfQmRows(metric, q)
      PROVE  \E h \in Hosts : \E s \in seen[<<q, h>>] : s.name = metric /\ x = RowFor(s)
  <2>1. PICK s \in Exported : s.name = metric /\ x = RowFor(s)
    BY <1>2, <1>4, <1>6
  <2>2. PICK p \in QMs : \E h \in Hosts : s \in seen[<<p, h>>]
    BY <1>1
  <2>3. PICK h \in Hosts : s \in seen[<<p, h>>]
    BY <2>2
  <2>4. p = q
    BY <1>3, <1>4, <1>5, <1>6, <2>1, <2>3
  <2> QED BY <2>1, <2>3, <2>4
<1>7. ASSUME NEW h \in Hosts, NEW s \in seen[<<q, h>>], s.name = metric, x = RowFor(s)
      PROVE  x \in OfQmRows(metric, q)
  <2>1. s \in Exported
    BY <1>1
  <2> QED BY <1>2, <1>3, <1>4, <1>5, <1>7, <2>1
<1> QED BY <1>6, <1>7

\* So an expression over them has a value in their range, or none.
LEMMA OwnRange ==
  ASSUME FlowInv, NEW metric, NEW q \in QMs
  PROVE  \/ OfQm(metric, q) = {}
         \/ \E v \in 0 .. 2 : OfQm(metric, q) = Scalar(v)
<1> DEFINE vec == OfQmRows(metric, q)
<1>1. \A x \in vec : x.value \in 0 .. 2
  <2> TAKE x \in vec
  <2>1. PICK h \in Hosts : \E s \in seen[<<q, h>>] : s.name = metric /\ x = RowFor(s)
    BY OwnRows
  <2>2. PICK s \in seen[<<q, h>>] : s.name = metric /\ x = RowFor(s)
    BY <2>1
  <2>3. s.value \in 0 .. 2
    BY <2>2 DEF FlowInv, Sent
  <2> QED BY <2>2, <2>3, SampleFields DEF RowFor
<1>2. OfQm(metric, q) = By(vec, {}, MaxOf)
  BY DEF OfQm, OfQmRows
<1> HIDE DEF vec
<1>3. CASE vec = {}
  BY <1>2, <1>3, MaxOfAll
<1>4. CASE vec # {}
  <2>1. Values(vec) \in SUBSET (0 .. 2) /\ Values(vec) # {}
    BY <1>1, <1>4 DEF Values
  <2>2. IsFiniteSet(Values(vec))
    <3> DEFINE top == 2
    <3>1. top \in Int /\ Values(vec) \in SUBSET (0 .. top)
      BY <2>1
    <3> HIDE DEF top
    <3>2. IsFiniteSet(0 .. top)
      BY <3>1, FS_Interval
    <3> QED BY <3>1, <3>2, FS_Subset
  <2>3. IsFiniteSet(Values(vec))
    BY <2>2
  <2>4. Values(vec) \subseteq Int
    BY <2>1
  <2>5. MaxOf(vec) \in 0 .. 2
    <3> HIDE DEF Values
    <3>1. Max(Values(vec)) \in Values(vec)
      BY <2>1, <2>3, <2>4, FiniteBounds
    <3> QED BY <2>1, <3>1 DEF MaxOf
  <2>6. By(vec, {}, MaxOf) = Scalar(MaxOf(vec))
    BY <1>4, MaxOfAll
  <2> QED BY <1>2, <2>5, <2>6
<1> QED BY <1>3, <1>4

\* A vector in which one sample is the greatest.
LEMMA MaxOfTop ==
  ASSUME NEW vec, NEW x \in vec, x.value \in Int,
         \A other \in vec : other.value \in Int /\ other.value <= x.value
  PROVE  By(vec, {}, MaxOf) = Scalar(x.value)
<1> DEFINE m == x.value
<1>1. m \in Int /\ x.value = m /\ \A other \in vec : other.value \in Int /\ other.value <= m
  OBVIOUS
<1> HIDE DEF m
<1>2. MaxOf(vec) = m
  BY <1>1, MaxIs
<1>3. vec # {}
  OBVIOUS
<1> QED BY <1>1, <1>2, <1>3, MaxOfAll

\* max(...) or vector(-1).
LEMMA OrUnknown ==
  /\ Tile(Or({}, Scalar(-1))) = {-1}
  /\ \A v : Tile(Or(Scalar(v), Scalar(-1))) = {v}
BY ScalarOr, ScalarValues DEF Tile

---------------------------------------------------------------------------
(* Once every exporter was scraped.                                        *)

\* A running queue manager's own series, by their names.
LEMMA NamesOf ==
  ASSUME NEW q, NEW h, NEW s
  PROVE  /\ StatusOf(q, h).name = "ibmmq_qmgr_status"
         /\ OwnSeries(q, h, s) =>
              /\ s.name # "ibmmq_qmgr_status"
              /\ s.name = "ibmmq_qmgr_channel_initiator_status" => s = InitiatorOf(q, h)
              /\ s.name = "ibmmq_qmgr_command_server_status" => s = CommandServerOf(q, h)
              /\ s.name = "ibmmq_qmgr_active_listeners" => s = ListenersOf(q, h)
              /\ s.name = "ibmmq_channel_status_squash" => \E c \in Channels : c[1] = q /\ s = ChannelOf(q, h, c)
              /\ s.name = "ibmmq_queue_depth" => \E c \in Queues : c[1] = q /\ s = DepthOf(q, h, c)
<1>1. /\ StatusOf(q, h).name = "ibmmq_qmgr_status"
      /\ InitiatorOf(q, h).name = "ibmmq_qmgr_channel_initiator_status"
      /\ CommandServerOf(q, h).name = "ibmmq_qmgr_command_server_status"
      /\ ListenersOf(q, h).name = "ibmmq_qmgr_active_listeners"
  BY QmFields DEF StatusOf, InitiatorOf, CommandServerOf, ListenersOf
<1>2. \A c : /\ ChannelOf(q, h, c).name = "ibmmq_channel_status_squash"
             /\ DepthOf(q, h, c).name = "ibmmq_queue_depth"
  BY ObjectFields
<1> QED BY <1>1, <1>2 DEF OwnSeries

\* A series that host h's exporter sends about queue manager q.
Sends(q, h, s) ==
  <<q, h>> \notin down /\ (s = StatusOf(q, h) \/ (home[q] = h /\ OwnSeries(q, h, s)))

LEMMA CurrentRows ==
  ASSUME FlowInv, Current, NEW metric, NEW q \in QMs, NEW x
  PROVE  x \in OfQmRows(metric, q) <=>
           \E h \in Hosts : \E s : Sends(q, h, s) /\ s.name = metric /\ x = RowFor(s)
<1>1. \A h \in Hosts : seen[<<q, h>>] = Report(q, h)
  BY DEF Current
<1>2. \A h \in Hosts : \A s : s \in seen[<<q, h>>] <=> Sends(q, h, s)
  BY <1>1, Reported DEF Sends
<1>3. x \in OfQmRows(metric, q) <=>
        \E h \in Hosts : \E s \in seen[<<q, h>>] : s.name = metric /\ x = RowFor(s)
  BY OwnRows
<1> QED BY <1>2, <1>3, Zenon

\* A queue manager that reports runs on a host.
LEMMA ReportsFrom ==
  ASSUME FlowInv, NEW q \in QMs
  PROVE  /\ Reports(q) <=> \E h \in Hosts : home[q] = h /\ <<q, h>> \notin down
         /\ Reports(q) => home[q] \in Hosts
<1>1. home[q] \in Hosts \cup {NoHost} /\ NoHost \notin Hosts
  BY MessagingAssumption DEF FlowInv, FlowTyped, MessagingAssumption
<1> QED BY <1>1 DEF Reports

\* A vector of the one sample r, or of none.
LEMMA MaxOfOne ==
  ASSUME NEW vec, NEW r, NEW there, r.value \in Int, \A x : x \in vec <=> there /\ x = r
  PROVE  By(vec, {}, MaxOf) = IF there THEN Scalar(r.value) ELSE {}
<1>1. CASE there
  <2>1. r \in vec /\ \A other \in vec : other.value \in Int /\ other.value <= r.value
    BY <1>1
  <2>2. By(vec, {}, MaxOf) = Scalar(r.value)
    BY <2>1, MaxOfTop
  <2> QED BY <1>1, <2>2
<1>2. CASE ~there
  <2>1. vec = {}
    BY <1>2
  <2> QED BY <1>2, <2>1, MaxOfAll
<1> QED BY <1>1, <1>2

\* What only the host that runs the queue manager exports.
LEMMA RunningRows ==
  ASSUME FlowInv, Current, NEW metric, NEW q \in QMs, NEW x, metric # "ibmmq_qmgr_status"
  PROVE  x \in OfQmRows(metric, q) <=>
           \E t : Reports(q) /\ OwnSeries(q, home[q], t) /\ t.name = metric /\ x = RowFor(t)
<1>1. x \in OfQmRows(metric, q) <=>
        \E h \in Hosts : \E t : Sends(q, h, t) /\ t.name = metric /\ x = RowFor(t)
  BY CurrentRows
<1>2. \A h : StatusOf(q, h).name # metric
  BY NamesOf
<1>3. ASSUME NEW h \in Hosts, NEW t, Sends(q, h, t), t.name = metric
      PROVE  Reports(q) /\ OwnSeries(q, home[q], t)
  BY <1>2, <1>3, ReportsFrom DEF Sends
<1>4. ASSUME NEW t, Reports(q), OwnSeries(q, home[q], t)
      PROVE  home[q] \in Hosts /\ Sends(q, home[q], t)
  BY <1>4, ReportsFrom DEF Sends
<1> QED BY <1>1, <1>3, <1>4, Zenon

LEMMA OwnValue ==
  ASSUME FlowInv, Current, NEW metric, NEW q \in QMs, NEW s,
         metric # "ibmmq_qmgr_status", s.name = metric, s.value \in Int,
         OwnSeries(q, home[q], s),
         \A t : OwnSeries(q, home[q], t) /\ t.name = metric => t = s
  PROVE  OfQm(metric, q) = IF Reports(q) THEN Scalar(s.value) ELSE {}
<1>1. \A x : x \in OfQmRows(metric, q) <=> Reports(q) /\ x = RowFor(s)
  BY RunningRows
<1>2. RowFor(s).value = s.value
  BY SampleFields DEF RowFor
<1>3. OfQm(metric, q) = By(OfQmRows(metric, q), {}, MaxOf)
  BY DEF OfQm, OfQmRows
<1> QED BY <1>1, <1>2, <1>3, MaxOfOne

\* And of one of its objects.
LEMMA ObjectValue ==
  ASSUME FlowInv, Current, NEW metric, NEW label, NEW c, c[1] \in QMs, NEW s,
         metric # "ibmmq_qmgr_status", s.name = metric, s.value \in Int,
         OwnSeries(c[1], home[c[1]], s), label \in DOMAIN s.labels, s.labels[label] = c[2],
         \A t : (/\ OwnSeries(c[1], home[c[1]], t)
                /\ t.name = metric /\ t.labels[label] = c[2]) => t = s
  PROVE  OfObject(metric, label, c) = IF Reports(c[1]) THEN Scalar(s.value) ELSE {}
<1> DEFINE q == c[1]
           vec == Where(OfQmRows(metric, q), label, {c[2]})
<1>1. \A x : x \in OfQmRows(metric, q) <=>
        \E t : Reports(q) /\ OwnSeries(q, home[q], t) /\ t.name = metric /\ x = RowFor(t)
  BY RunningRows
<1>2. \A t : RowFor(t).value = t.value /\ RowFor(t).labels = t.labels
  BY SampleFields DEF RowFor
<1>3. \A x : x \in vec <=> x \in OfQmRows(metric, q) /\ label \in DOMAIN x.labels /\ x.labels[label] = c[2]
  BY DEF Where
<1>4. OfObject(metric, label, c) = By(vec, {}, MaxOf)
  BY DEF OfObject, OfQmRows
<1> HIDE DEF vec
<1>5. \A x : x \in vec <=> Reports(q) /\ x = RowFor(s)
  <2> TAKE x
  <2>1. ASSUME x \in vec PROVE Reports(q) /\ x = RowFor(s)
    <3>1. PICK t : Reports(q) /\ OwnSeries(q, home[q], t) /\ t.name = metric /\ x = RowFor(t)
      BY <1>1, <1>3, <2>1
    <3>2. t.labels[label] = c[2]
      BY <1>2, <1>3, <2>1, <3>1
    <3>3. t = s
      BY <3>1, <3>2
    <3> QED BY <3>1, <3>3
  <2>2. ASSUME Reports(q), x = RowFor(s) PROVE x \in vec
    BY <1>1, <1>2, <1>3, <2>2
  <2> QED BY <2>1, <2>2
<1> QED BY <1>2, <1>4, <1>5, MaxOfOne

\* The greatest status that the exporters report: the host that runs the
\* queue manager counts most, and one that does not counts as stopped.
LEMMA StatusValue ==
  ASSUME FlowInv, Current, NEW q \in QMs
  PROVE  OfQm("ibmmq_qmgr_status", q) =
           IF Reports(q) THEN Scalar(status[q]) ELSE IF Dark(q) THEN {} ELSE Scalar(0)
<1> DEFINE vec == OfQmRows("ibmmq_qmgr_status", q)
           row(h) == RowFor(StatusOf(q, h))
<1>1. \A x : x \in vec <=> \E h \in Hosts : <<q, h>> \notin down /\ x = row(h)
  <2> TAKE x
  <2>1. x \in vec <=>
          \E h \in Hosts : \E t : Sends(q, h, t) /\ t.name = "ibmmq_qmgr_status" /\ x = RowFor(t)
    BY CurrentRows
  <2>2. \A h : \A t : (Sends(q, h, t) /\ t.name = "ibmmq_qmgr_status") <=>
                      (<<q, h>> \notin down /\ t = StatusOf(q, h))
    BY NamesOf DEF Sends
  <2> HIDE DEF vec
  <2> QED BY <2>1, <2>2, Zenon
<1>2. \A h : row(h).value = IF home[q] = h THEN status[q] ELSE 0
  <2> TAKE h
  <2> DEFINE v == IF home[q] = h THEN status[q] ELSE 0
  <2>1. StatusOf(q, h) = QmSeries("ibmmq_qmgr_status", q, h, v)
    BY DEF StatusOf
  <2>2. row(h).value = StatusOf(q, h).value
    BY SampleFields DEF RowFor
  <2> HIDE DEF v, row
  <2>3. row(h).value = v
    BY <2>1, <2>2, QmFields
  <2> QED BY <2>3 DEF v
<1>3. status[q] \in {1, 2}
  BY DEF FlowInv, FlowTyped
<1>4. OfQm("ibmmq_qmgr_status", q) = By(vec, {}, MaxOf)
  BY DEF OfQm, OfQmRows
<1> HIDE DEF vec, row
<1>5. CASE Reports(q)
  <2>1. home[q] \in Hosts /\ <<q, home[q]>> \notin down
    BY <1>5, ReportsFrom
  <2> DEFINE x == row(home[q])
  <2>2. x \in vec /\ x.value = status[q]
    BY <1>1, <1>2, <2>1
  <2>3. \A other \in vec : other.value \in Int /\ other.value <= status[q]
    <3> TAKE other \in vec
    <3>1. PICK k \in Hosts : other = row(k)
      BY <1>1
    <3>2. other.value = 0 \/ other.value = status[q]
      BY <1>2, <3>1
    <3> QED BY <1>3, <3>2
  <2> HIDE DEF x
  <2>4. By(vec, {}, MaxOf) = Scalar(x.value)
    BY <1>3, <2>2, <2>3, MaxOfTop
  <2> QED BY <1>4, <1>5, <2>2, <2>4
<1>6. CASE ~Reports(q) /\ Dark(q)
  <2>1. vec = {}
    BY <1>1, <1>6 DEF Dark
  <2> QED BY <1>4, <1>6, <2>1, MaxOfAll
<1>7. CASE ~Reports(q) /\ ~Dark(q)
  <2>1. PICK h \in Hosts : <<q, h>> \notin down
    BY <1>7 DEF Dark
  <2>2. \A k \in Hosts : <<q, k>> \notin down => home[q] # k
    BY <1>7, ReportsFrom
  <2>3. \A other \in vec : other.value = 0
    BY <1>1, <1>2, <2>2
  <2> DEFINE x == row(h)
  <2>4. x \in vec
    BY <1>1, <2>1
  <2>5. x.value = 0
    BY <2>3, <2>4
  <2> HIDE DEF x
  <2>6. By(vec, {}, MaxOf) = Scalar(x.value)
    BY <2>3, <2>4, <2>5, MaxOfTop
  <2> QED BY <1>4, <1>7, <2>5, <2>6
<1> QED BY <1>5, <1>6, <1>7

\* A vector of the services' product: nothing, or one flag.
IsBit(vec) == vec = {} \/ vec = Scalar(0) \/ vec = Scalar(1)

LEMMA BitTimes ==
  ASSUME NEW a, NEW b, IsBit(a), IsBit(b)
  PROVE  IsBit(Times(a, b))
<1>1. \A c, d : /\ Times(Scalar(c), Scalar(d)) = Scalar(c * d)
                /\ Times(Scalar(c), {}) = {} /\ Times({}, Scalar(d)) = {}
  BY ScalarTimes
<1>2. Times({}, {}) = {}
  BY DEF Times
<1>3. CASE a = {}
  BY <1>1, <1>2, <1>3, Zenon DEF IsBit
<1>4. ASSUME NEW c \in {0, 1}, a = Scalar(c) PROVE IsBit(Times(a, b))
  <2>1. CASE b = {}
    BY <1>1, <1>4, <2>1, Zenon DEF IsBit
  <2>2. ASSUME NEW d \in {0, 1}, b = Scalar(d) PROVE IsBit(Times(a, b))
    <3>1. Times(a, b) = Scalar(c * d)
      BY <1>1, <1>4, <2>2
    <3>2. c * d = 0 \/ c * d = 1
      OBVIOUS
    <3> QED BY <3>1, <3>2 DEF IsBit
  <2> QED BY <2>1, <2>2 DEF IsBit
<1> QED BY <1>3, <1>4 DEF IsBit

LEMMA BitOf ==
  ASSUME NEW vec, NEW k, vec = {} \/ \E v : vec = Scalar(v)
  PROVE  IsBit(EqualsBool(vec, k)) /\ IsBit(AboveBool(vec, k))
<1>1. CASE vec = {}
  BY <1>1, EmptyCompare DEF IsBit
<1>2. ASSUME NEW v, vec = Scalar(v) PROVE IsBit(EqualsBool(vec, k)) /\ IsBit(AboveBool(vec, k))
  <2>1. /\ EqualsBool(vec, k) = Scalar(IF v = k THEN 1 ELSE 0)
        /\ AboveBool(vec, k) = Scalar(IF v > k THEN 1 ELSE 0)
    BY <1>2, ScalarCompare
  <2>2. (IF v = k THEN 1 ELSE 0) \in {0, 1} /\ (IF v > k THEN 1 ELSE 0) \in {0, 1}
    OBVIOUS
  <2> QED BY <2>1, <2>2 DEF IsBit
<1> QED BY <1>1, <1>2

\* The pills are never blank.
LEMMA PillsShown ==
  ASSUME FlowInv, NEW q \in QMs
  PROVE  /\ \E v \in -1 .. 2 : Tile(QmStatusExpr(q)) = {v}
         /\ \E v \in -1 .. 1 : Tile(ServicesExpr(q)) = {v}
<1>1. \A metric : OfQm(metric, q) = {} \/ \E v \in 0 .. 2 : OfQm(metric, q) = Scalar(v)
  BY OwnRange
<1>2. \E v \in -1 .. 2 : Tile(QmStatusExpr(q)) = {v}
  <2>1. CASE OfQm("ibmmq_qmgr_status", q) = {}
    <3>1. Tile(QmStatusExpr(q)) = {-1}
      BY <2>1, OrUnknown DEF QmStatusExpr
    <3> QED BY <3>1
  <2>2. ASSUME NEW v \in 0 .. 2, OfQm("ibmmq_qmgr_status", q) = Scalar(v)
        PROVE  \E u \in -1 .. 2 : Tile(QmStatusExpr(q)) = {u}
    <3>1. Tile(QmStatusExpr(q)) = {v}
      BY <2>2, OrUnknown DEF QmStatusExpr
    <3>2. v \in -1 .. 2
      OBVIOUS
    <3> QED BY <3>1, <3>2
  <2> QED BY <1>1, <2>1, <2>2
<1>3. \E v \in -1 .. 1 : Tile(ServicesExpr(q)) = {v}
  <2> DEFINE a == EqualsBool(OfQm("ibmmq_qmgr_channel_initiator_status", q), 2)
             b == EqualsBool(OfQm("ibmmq_qmgr_command_server_status", q), 2)
             c == AboveBool(OfQm("ibmmq_qmgr_active_listeners", q), 0)
  <2>1. IsBit(a) /\ IsBit(b) /\ IsBit(c)
    BY <1>1, BitOf
  <2>2. ServicesExpr(q) = Or(Times(Times(a, b), c), Scalar(-1))
    BY DEF ServicesExpr
  <2> HIDE DEF a, b, c
  <2>3. IsBit(Times(Times(a, b), c))
    BY <2>1, BitTimes
  <2>4. Tile(ServicesExpr(q)) \in {{-1}, {0}, {1}}
    BY <2>2, <2>3, OrUnknown DEF IsBit
  <2> QED BY <2>4
<1> QED BY <1>2, <1>3

\* A service is up if its series has its best value.
LEMMA ServiceValues ==
  ASSUME FlowInv, Current, NEW q \in QMs
  PROVE  /\ OfQm("ibmmq_qmgr_channel_initiator_status", q) =
              IF Reports(q) THEN Scalar(Works(q, "initiator", 2)) ELSE {}
         /\ OfQm("ibmmq_qmgr_command_server_status", q) =
              IF Reports(q) THEN Scalar(Works(q, "command_server", 2)) ELSE {}
         /\ OfQm("ibmmq_qmgr_active_listeners", q) =
              IF Reports(q) THEN Scalar(Works(q, "listener", 1)) ELSE {}
<1> DEFINE h == home[q]
           a == InitiatorOf(q, h)
           b == CommandServerOf(q, h)
           c == ListenersOf(q, h)
<1>1. /\ a.name = "ibmmq_qmgr_channel_initiator_status" /\ a.value = Works(q, "initiator", 2)
      /\ b.name = "ibmmq_qmgr_command_server_status" /\ b.value = Works(q, "command_server", 2)
      /\ c.name = "ibmmq_qmgr_active_listeners" /\ c.value = Works(q, "listener", 1)
  BY QmFields DEF InitiatorOf, CommandServerOf, ListenersOf
<1>2. OwnSeries(q, h, a) /\ OwnSeries(q, h, b) /\ OwnSeries(q, h, c)
  BY DEF OwnSeries
<1>3. \A t : OwnSeries(q, h, t) =>
        /\ t.name = "ibmmq_qmgr_channel_initiator_status" => t = a
        /\ t.name = "ibmmq_qmgr_command_server_status" => t = b
        /\ t.name = "ibmmq_qmgr_active_listeners" => t = c
  BY NamesOf
<1>4. \A part : Works(q, part, 1) \in Int /\ Works(q, part, 2) \in Int
  BY DEF Works
<1> HIDE DEF a, b, c
<1>5. OfQm("ibmmq_qmgr_channel_initiator_status", q) = IF Reports(q) THEN Scalar(a.value) ELSE {}
  BY <1>1, <1>2, <1>3, <1>4, OwnValue
<1>6. OfQm("ibmmq_qmgr_command_server_status", q) = IF Reports(q) THEN Scalar(b.value) ELSE {}
  BY <1>1, <1>2, <1>3, <1>4, OwnValue
<1>7. OfQm("ibmmq_qmgr_active_listeners", q) = IF Reports(q) THEN Scalar(c.value) ELSE {}
  BY <1>1, <1>2, <1>3, <1>4, OwnValue
<1> QED BY <1>1, <1>5, <1>6, <1>7

LEMMA ServicesValue ==
  ASSUME FlowInv, Current, NEW q \in QMs
  PROVE  Tile(ServicesExpr(q)) =
           {IF Reports(q) THEN Flag(\A part \in Parts : <<q, part>> \notin broken) ELSE -1}
<1> DEFINE a == EqualsBool(OfQm("ibmmq_qmgr_channel_initiator_status", q), 2)
           b == EqualsBool(OfQm("ibmmq_qmgr_command_server_status", q), 2)
           c == AboveBool(OfQm("ibmmq_qmgr_active_listeners", q), 0)
           bit(part) == IF <<q, part>> \in broken THEN 0 ELSE 1
<1>1. ServicesExpr(q) = Or(Times(Times(a, b), c), Scalar(-1))
  BY DEF ServicesExpr
<1>2. CASE ~Reports(q)
  <2>1. a = {} /\ b = {} /\ c = {}
    BY <1>2, ServiceValues, EmptyCompare
  <2>2. Times(Times(a, b), c) = {}
    BY <2>1 DEF Times
  <2> HIDE DEF a, b, c
  <2> QED BY <1>1, <1>2, <2>2, OrUnknown
<1>3. CASE Reports(q)
  <2>1. a = Scalar(bit("initiator"))
    <3>1. OfQm("ibmmq_qmgr_channel_initiator_status", q) = Scalar(Works(q, "initiator", 2))
      BY <1>3, ServiceValues
    <3>2. a = Scalar(IF Works(q, "initiator", 2) = 2 THEN 1 ELSE 0)
      BY <3>1, ScalarCompare
    <3> QED BY <3>2 DEF Works
  <2>2. b = Scalar(bit("command_server"))
    <3>1. OfQm("ibmmq_qmgr_command_server_status", q) = Scalar(Works(q, "command_server", 2))
      BY <1>3, ServiceValues
    <3>2. b = Scalar(IF Works(q, "command_server", 2) = 2 THEN 1 ELSE 0)
      BY <3>1, ScalarCompare
    <3> QED BY <3>2 DEF Works
  <2>3. c = Scalar(bit("listener"))
    <3>1. OfQm("ibmmq_qmgr_active_listeners", q) = Scalar(Works(q, "listener", 1))
      BY <1>3, ServiceValues
    <3>2. c = Scalar(IF Works(q, "listener", 1) > 0 THEN 1 ELSE 0)
      BY <3>1, ScalarCompare
    <3> QED BY <3>2 DEF Works
  <2> HIDE DEF a, b, c
  <2> DEFINE product == (bit("initiator") * bit("command_server")) * bit("listener")
  <2>4. Times(Times(a, b), c) = Scalar(product)
    <3> HIDE DEF bit
    <3>1. Times(a, b) = Scalar(bit("initiator") * bit("command_server"))
      BY <2>1, <2>2, ScalarTimes
    <3> QED BY <2>3, <3>1, ScalarTimes
  <2>5. product = Flag(\A part \in Parts : <<q, part>> \notin broken)
    BY DEF Flag, Parts
  <2> HIDE DEF product
  <2>6. Tile(ServicesExpr(q)) = {product}
    BY <1>1, <2>4, OrUnknown
  <2> QED BY <1>3, <2>5, <2>6
<1> QED BY <1>2, <1>3

LEMMA PillsFit == FlowInv => PillsAreRight
<1> SUFFICES ASSUME FlowInv PROVE PillsAreRight
  OBVIOUS
<1>1. ASSUME Current, NEW q \in QMs
      PROVE  Tile(QmStatusExpr(q)) = {IF Reports(q) THEN status[q] ELSE IF Dark(q) THEN -1 ELSE 0}
  <2>1. OfQm("ibmmq_qmgr_status", q) =
          IF Reports(q) THEN Scalar(status[q]) ELSE IF Dark(q) THEN {} ELSE Scalar(0)
    BY <1>1, StatusValue
  <2> QED BY <2>1, OrUnknown DEF QmStatusExpr
<1> QED BY <1>1, PillsShown, ServicesValue DEF PillsAreRight

LEMMA FlowFits == FlowInv => FlowIsOwn
<1> SUFFICES ASSUME FlowInv, Current
             PROVE  /\ \A c \in Channels : Tile(ChannelStatusExpr(c)) = {IF Reports(c[1]) THEN channel[c] ELSE -1}
                    /\ \A c \in Queues : Tile(QueueDepthExpr(c)) = {IF Reports(c[1]) THEN depth[c] ELSE -1}
  BY DEF FlowIsOwn
<1>1. ASSUME NEW c \in Channels
      PROVE  Tile(ChannelStatusExpr(c)) = {IF Reports(c[1]) THEN channel[c] ELSE -1}
  <2> DEFINE q == c[1]
             h == home[q]
             s == ChannelOf(q, h, c)
  <2>1. q \in QMs /\ c = <<q, c[2]>>
    BY Objects
  <2>2. \A e : /\ ChannelOf(q, h, e).name = "ibmmq_channel_status_squash"
               /\ ChannelOf(q, h, e).value = channel[e]
               /\ DOMAIN ChannelOf(q, h, e).labels = {"qmgr", "host", "channel"}
               /\ ChannelOf(q, h, e).labels["channel"] = e[2]
    BY ObjectFields
  <2>3. OwnSeries(q, h, s)
    BY Zenon DEF OwnSeries
  <2>4. \A t : (OwnSeries(q, h, t) /\ t.name = "ibmmq_channel_status_squash" /\ t.labels["channel"] = c[2])
               => t = s
    <3>1. ASSUME NEW t, OwnSeries(q, h, t), t.name = "ibmmq_channel_status_squash", t.labels["channel"] = c[2]
          PROVE  t = s
      <4>1. PICK e \in Channels : e[1] = q /\ t = ChannelOf(q, h, e)
        BY <3>1, NamesOf
      <4>2. e[2] = c[2]
        BY <2>2, <3>1, <4>1
      <4>3. e = c
        BY <2>1, <4>1, <4>2, Objects
      <4> QED BY <4>1, <4>3
    <3> HIDE DEF s
    <3> QED BY <3>1, Zenon
  <2>5. channel[c] \in Int
    BY DEF FlowInv, FlowTyped
  <2> HIDE DEF s
  <2>6. /\ s.name = "ibmmq_channel_status_squash" /\ s.value = channel[c]
        /\ "channel" \in DOMAIN s.labels /\ s.labels["channel"] = c[2]
    BY <2>2 DEF s
  <2>7. OfObject("ibmmq_channel_status_squash", "channel", c) = IF Reports(q) THEN Scalar(s.value) ELSE {}
    BY <2>1, <2>3, <2>4, <2>5, <2>6, ObjectValue
  <2> QED BY <2>6, <2>7, OrUnknown DEF ChannelStatusExpr
<1>2. ASSUME NEW c \in Queues
      PROVE  Tile(QueueDepthExpr(c)) = {IF Reports(c[1]) THEN depth[c] ELSE -1}
  <2> DEFINE q == c[1]
             h == home[q]
             s == DepthOf(q, h, c)
  <2>1. q \in QMs /\ c = <<q, c[2]>>
    BY Objects
  <2>2. \A e : /\ DepthOf(q, h, e).name = "ibmmq_queue_depth"
               /\ DepthOf(q, h, e).value = depth[e]
               /\ DOMAIN DepthOf(q, h, e).labels = {"qmgr", "host", "queue"}
               /\ DepthOf(q, h, e).labels["queue"] = e[2]
    BY ObjectFields
  <2>3. OwnSeries(q, h, s)
    BY Zenon DEF OwnSeries
  <2>4. \A t : (OwnSeries(q, h, t) /\ t.name = "ibmmq_queue_depth" /\ t.labels["queue"] = c[2])
               => t = s
    <3>1. ASSUME NEW t, OwnSeries(q, h, t), t.name = "ibmmq_queue_depth", t.labels["queue"] = c[2]
          PROVE  t = s
      <4>1. PICK e \in Queues : e[1] = q /\ t = DepthOf(q, h, e)
        BY <3>1, NamesOf
      <4>2. e[2] = c[2]
        BY <2>2, <3>1, <4>1
      <4>3. e = c
        BY <2>1, <4>1, <4>2, Objects
      <4> QED BY <4>1, <4>3
    <3> HIDE DEF s
    <3> QED BY <3>1, Zenon
  <2>5. depth[c] \in Int
    BY DEF FlowInv, FlowTyped
  <2> HIDE DEF s
  <2>6. /\ s.name = "ibmmq_queue_depth" /\ s.value = depth[c]
        /\ "queue" \in DOMAIN s.labels /\ s.labels["queue"] = c[2]
    BY <2>2 DEF s
  <2>7. OfObject("ibmmq_queue_depth", "queue", c) = IF Reports(q) THEN Scalar(s.value) ELSE {}
    BY <2>1, <2>3, <2>4, <2>5, <2>6, ObjectValue
  <2> QED BY <2>6, <2>7, OrUnknown DEF QueueDepthExpr
<1> QED BY <1>1, <1>2

---------------------------------------------------------------------------
(* The round trips.                                                        *)

Fields == {"total", "failures"}
Ticks(s, field) == [i \in 1 .. Window |-> traffic[s][i][field]]
Last(n) == Window - n + 1 .. Window

LEMMA LastTicks ==
  /\ Window \in Nat /\ Window > 0
  /\ Last(Window) = 1 .. Window /\ Last(1) = {Window}
  /\ \A n \in 1 .. Window : Last(n) \subseteq 1 .. Window /\ IsFiniteSet(Last(n))
<1>1. Window \in Nat /\ Window > 0
  BY MessagingAssumption DEF MessagingAssumption
<1>2. Last(Window) = 1 .. Window
  BY <1>1 DEF Last
<1>3. Last(1) = {Window}
  <2>1. \A i : i \in Last(1) <=> i \in Int /\ Window <= i /\ i <= Window
    BY <1>1 DEF Last
  <2>2. \A i \in Int : Window <= i /\ i <= Window <=> i = Window
    BY <1>1
  <2> QED BY <1>1, <2>1, <2>2
<1>4. ASSUME NEW n \in 1 .. Window PROVE Last(n) \subseteq 1 .. Window /\ IsFiniteSet(Last(n))
  <2> DEFINE low == Window - n + 1
  <2>1. low \in Int /\ low >= 1 /\ Window \in Int
    BY <1>1
  <2>2. Last(n) = low .. Window
    BY DEF Last
  <2> HIDE DEF low
  <2> QED BY <2>1, <2>2, FS_Interval
<1> QED BY <1>1, <1>2, <1>3, <1>4

LEMMA TicksFields ==
  ASSUME FlowInv, NEW s \in Stacks
  PROVE  /\ \A i \in 1 .. Window :
              /\ Ticks(s, "total")[i] = traffic[s][i].total
              /\ Ticks(s, "failures")[i] = traffic[s][i].failures
              /\ Ticks(s, "total")[i] \in Nat /\ Ticks(s, "failures")[i] \in Nat
              /\ Ticks(s, "failures")[i] <= Ticks(s, "total")[i]
         /\ \A field, n : n \in 1 .. Window => Growth(s, field, n) = Indexed(Ticks(s, field), Last(n))
<1>1. traffic[s] \in Seq(Trips) /\ Len(traffic[s]) = Window
  BY DEF FlowInv, FlowTyped, Windows
<1>2. \A i \in 1 .. Window : traffic[s][i] \in Trips
  BY <1>1
<1>3. \A t \in Trips : t.total \in Nat /\ t.failures \in Nat /\ t.failures <= t.total
  BY DEF Trips
<1>4. \A field : \A i \in 1 .. Window : Ticks(s, field)[i] = traffic[s][i][field]
  BY DEF Ticks
<1>5. ASSUME NEW field, NEW n \in 1 .. Window
      PROVE  Growth(s, field, n) = Indexed(Ticks(s, field), Last(n))
  <2>1. \A i \in Last(n) : Ticks(s, field)[i] = traffic[s][i][field]
    BY <1>4, LastTicks
  <2>2. \A x : x \in Growth(s, field, n) <=> \E i \in Last(n) : x = Sample([tick |-> i], traffic[s][i][field])
    BY Zenon DEF Growth, Last
  <2>3. \A x : x \in Indexed(Ticks(s, field), Last(n)) <=>
               \E i \in Last(n) : x = Sample([tick |-> i], Ticks(s, field)[i])
    BY Zenon DEF Indexed
  <2>4. \A x : x \in Growth(s, field, n) <=> x \in Indexed(Ticks(s, field), Last(n))
    BY <2>1, <2>2, <2>3, Zenon
  <2> QED BY <2>4
<1> QED BY <1>2, <1>3, <1>4, <1>5

\* What a stack's two counters grew by, compared.
Total(s, n) == SumOf(Growth(s, "total", n))
Failed(s, n) == SumOf(Growth(s, "failures", n))

LEMMA GrowthSums ==
  ASSUME FlowInv, NEW s \in Stacks, NEW n \in 1 .. Window
  PROVE  /\ Total(s, n) \in Nat /\ Failed(s, n) \in Nat /\ Failed(s, n) <= Total(s, n)
         /\ Total(s, n) = 0 <=> \A i \in Last(n) : traffic[s][i].total = 0
         /\ Failed(s, n) = 0 <=> \A i \in Last(n) : traffic[s][i].failures = 0
         /\ Failed(s, n) = Total(s, n) <=>
              \A i \in Last(n) : traffic[s][i].failures = traffic[s][i].total
<1> DEFINE f == Ticks(s, "total")
           g == Ticks(s, "failures")
           I == Last(n)
<1>1. IsFiniteSet(I) /\ I \subseteq 1 .. Window
  BY LastTicks
<1>2. \A i \in I : /\ f[i] = traffic[s][i].total /\ g[i] = traffic[s][i].failures
                   /\ f[i] \in Nat /\ g[i] \in Nat /\ g[i] <= f[i]
  BY <1>1, TicksFields
<1>3. Total(s, n) = SumOf(Indexed(f, I)) /\ Failed(s, n) = SumOf(Indexed(g, I))
  BY TicksFields DEF Total, Failed
<1> HIDE DEF f, g, I
<1>4. /\ SumOf(Indexed(f, I)) \in Nat /\ SumOf(Indexed(g, I)) \in Nat
      /\ SumOf(Indexed(g, I)) <= SumOf(Indexed(f, I))
      /\ SumOf(Indexed(f, I)) = 0 <=> \A i \in I : f[i] = 0
      /\ SumOf(Indexed(g, I)) = 0 <=> \A i \in I : g[i] = 0
      /\ SumOf(Indexed(g, I)) = SumOf(Indexed(f, I)) <=> \A i \in I : g[i] = f[i]
  <2>1. \A i \in I : f[i] \in Nat /\ g[i] \in Nat /\ g[i] <= f[i]
    BY <1>2
  <2>2. SumsComparable(f, g, I)
    BY <1>1, <2>1, SumsCompare
  <2> QED BY <2>2 DEF SumsComparable
<1>5. /\ (\A i \in I : f[i] = 0) <=> \A i \in I : traffic[s][i].total = 0
      /\ (\A i \in I : g[i] = 0) <=> \A i \in I : traffic[s][i].failures = 0
      /\ (\A i \in I : g[i] = f[i]) <=> \A i \in I : traffic[s][i].failures = traffic[s][i].total
  BY <1>2
<1> QED BY <1>3, <1>4, <1>5 DEF I

\* The last tick alone.
LEMMA LastTick ==
  ASSUME FlowInv, NEW s \in Stacks
  PROVE  Total(s, 1) = traffic[s][Window].total /\ Failed(s, 1) = traffic[s][Window].failures
<1> DEFINE f == Ticks(s, "total")
           g == Ticks(s, "failures")
<1>1. 1 \in 1 .. Window /\ Window \in 1 .. Window
  BY LastTicks
<1>2. /\ f[Window] = traffic[s][Window].total /\ g[Window] = traffic[s][Window].failures
      /\ f[Window] \in Nat /\ g[Window] \in Nat
  BY <1>1, TicksFields
<1>3. Total(s, 1) = SumOf(Indexed(f, {Window})) /\ Failed(s, 1) = SumOf(Indexed(g, {Window}))
  <2>1. Growth(s, "total", 1) = Indexed(f, Last(1)) /\ Growth(s, "failures", 1) = Indexed(g, Last(1))
    BY <1>1, TicksFields
  <2>2. Last(1) = {Window}
    BY LastTicks
  <2> HIDE DEF f, g
  <2> QED BY <2>1, <2>2 DEF Total, Failed
<1> HIDE DEF f, g
<1>4. IsFiniteSet({Window}) /\ {Window} \ {Window} = {}
  BY FS_Singleton
<1>5. SumOf(Indexed(f, {Window})) = f[Window] + SumOf(Indexed(f, {Window} \ {Window}))
      /\ SumOf(Indexed(f, {})) = 0
  BY <1>2, <1>4, IndexedSum
<1>6. SumOf(Indexed(g, {Window})) = g[Window] + SumOf(Indexed(g, {Window} \ {Window}))
      /\ SumOf(Indexed(g, {})) = 0
  BY <1>2, <1>4, IndexedSum
<1> QED BY <1>2, <1>3, <1>4, <1>5, <1>6

\* No other stack has sent anything within the window.
Alone(s) == \A t \in Stacks \ {s} : \A i \in 1 .. Window : traffic[t][i] = Idle

\* The sum over all stacks is then the stack's own.
LEMMA OwnRate ==
  ASSUME FlowInv, NEW s \in Stacks, Alone(s), NEW n \in 1 .. Window
  PROVE  /\ SumOf(Rate("total", n)) = Total(s, n) /\ SumOf(Rate("failures", n)) = Failed(s, n)
         /\ Rate("total", n) # {} /\ Rate("failures", n) # {}
<1>1. Total(s, n) \in Int /\ Failed(s, n) \in Int
  BY GrowthSums
<1>2. \A t \in Stacks \ {s} : Total(t, n) = 0 /\ Failed(t, n) = 0
  <2> TAKE t \in Stacks \ {s}
  <2>1. \A i \in Last(n) : traffic[t][i] = Idle
    BY LastTicks DEF Alone
  <2>2. Idle.total = 0 /\ Idle.failures = 0
    BY DEF Idle
  <2>3. (\A i \in Last(n) : traffic[t][i].total = 0) /\ (\A i \in Last(n) : traffic[t][i].failures = 0)
    BY <2>1, <2>2
  <2> QED BY <2>3, GrowthSums
<1>3. ASSUME NEW field, NEW sums, \A t \in Stacks : sums[t] = SumOf(Growth(t, field, n)),
             sums[s] \in Int, \A t \in Stacks \ {s} : sums[t] = 0
      PROVE  SumOf(Rate(field, n)) = sums[s] /\ Rate(field, n) # {}
  <2> DEFINE vec == Rate(field, n)
             rows == [t \in Stacks |-> Sample([client |-> t.short], sums[t])]
             x == rows[s]
  <2>1. \A z : z \in vec <=> \E t \in Stacks : z = Sample([client |-> t.short], SumOf(Growth(t, field, n)))
    BY Zenon DEF Rate
  <2>2. \A t \in Stacks : rows[t] = Sample([client |-> t.short], sums[t]) /\ rows[t].value = sums[t]
    BY SampleFields
  <2> HIDE DEF vec, rows
  <2>3. \A z : z \in vec <=> \E t \in Stacks : z = rows[t]
    <3>1. \A t \in Stacks : rows[t] = Sample([client |-> t.short], SumOf(Growth(t, field, n)))
      BY <1>3, <2>2
    <3> QED BY <2>1, <3>1, Zenon
  <2>4. IsFiniteSet(vec)
    BY <2>3, CoveredFinite, MessagingAssumption DEF MessagingAssumption
  <2>5. x \in vec /\ x.value = sums[s]
    BY <2>2, <2>3
  <2>6. \A z \in vec : z # x => z.value = 0
    <3> TAKE z \in vec
    <3>1. PICK t \in Stacks : z = rows[t]
      BY <2>3
    <3>2. CASE t = s
      BY <3>1, <3>2
    <3>3. CASE t # s
      <4>1. sums[t] = 0
        BY <1>3, <3>3
      <4> QED BY <2>2, <3>1, <4>1
    <3> QED BY <3>2, <3>3
  <2> HIDE DEF x
  <2>7. SumOf(vec) = x.value
    BY <1>3, <2>4, <2>5, <2>6, SumOfOne
  <2> QED BY <2>5, <2>7 DEF vec
<1>4. SumOf(Rate("total", n)) = Total(s, n) /\ Rate("total", n) # {}
  <2> DEFINE sums == [t \in Stacks |-> Total(t, n)]
  <2>1. /\ \A t \in Stacks : sums[t] = SumOf(Growth(t, "total", n))
        /\ sums[s] = Total(s, n) /\ \A t \in Stacks \ {s} : sums[t] = 0
    BY <1>2 DEF Total
  <2> HIDE DEF sums
  <2> QED BY <1>1, <1>3, <2>1
<1>5. SumOf(Rate("failures", n)) = Failed(s, n) /\ Rate("failures", n) # {}
  <2> DEFINE sums == [t \in Stacks |-> Failed(t, n)]
  <2>1. /\ \A t \in Stacks : sums[t] = SumOf(Growth(t, "failures", n))
        /\ sums[s] = Failed(s, n) /\ \A t \in Stacks \ {s} : sums[t] = 0
    BY <1>2 DEF Failed
  <2> HIDE DEF sums
  <2> QED BY <1>1, <1>3, <2>1
<1> QED BY <1>4, <1>5

LEMMA RoundTripFits == FlowInv => RoundTripIsRight
<1> SUFFICES ASSUME FlowInv, NEW s \in Stacks, Alone(s)
             PROVE  LET sent == {i \in 1 .. Window : traffic[s][i].total > 0}
                        failed == {i \in sent : traffic[s][i].failures > 0}
                        answered == {i \in sent : traffic[s][i].failures < traffic[s][i].total}
                    IN /\ Tile(MessageRateExpr) = {traffic[s][Window].total}
                       /\ Tile(FailureRateExpr) = {traffic[s][Window].failures}
                       /\ Tile(SuccessExpr) = {} <=> sent = {}
                       /\ \A v \in Tile(SuccessExpr) : v[1] = 100 * v[2] <=> failed = {}
                       /\ \A v \in Tile(SuccessExpr) : v[1] = 0 <=> answered = {}
  BY DEF RoundTripIsRight, Alone
<1> DEFINE sent == {i \in 1 .. Window : traffic[s][i].total > 0}
           failed == {i \in sent : traffic[s][i].failures > 0}
           answered == {i \in sent : traffic[s][i].failures < traffic[s][i].total}
           total == Total(s, Window)
           failures == Failed(s, Window)
<1>1. 1 \in 1 .. Window /\ Window \in 1 .. Window /\ Last(Window) = 1 .. Window
  BY LastTicks
<1>2. Tile(MessageRateExpr) = {traffic[s][Window].total}
  <2>1. MessageRateExpr = Scalar(traffic[s][Window].total)
    <3>1. Rate("total", 1) # {} /\ SumOf(Rate("total", 1)) = Total(s, 1)
      BY <1>1, OwnRate
    <3>2. Total(s, 1) = traffic[s][Window].total
      BY LastTick
    <3>3. By(Rate("total", 1), {}, SumOf) = Scalar(SumOf(Rate("total", 1)))
      BY <3>1, SumOfAll
    <3> QED BY <3>1, <3>2, <3>3 DEF MessageRateExpr
  <2> QED BY <2>1, ScalarValues DEF Tile
<1>3. Tile(FailureRateExpr) = {traffic[s][Window].failures}
  <2>1. FailureRateExpr = Scalar(traffic[s][Window].failures)
    <3>1. Rate("failures", 1) # {} /\ SumOf(Rate("failures", 1)) = Failed(s, 1)
      BY <1>1, OwnRate
    <3>2. Failed(s, 1) = traffic[s][Window].failures
      BY LastTick
    <3>3. By(Rate("failures", 1), {}, SumOf) = Scalar(SumOf(Rate("failures", 1)))
      BY <3>1, SumOfAll
    <3> QED BY <3>1, <3>2, <3>3 DEF FailureRateExpr
  <2> QED BY <2>1, ScalarValues DEF Tile
<1>4. \A i \in 1 .. Window : /\ traffic[s][i].total \in Nat /\ traffic[s][i].failures \in Nat
                             /\ traffic[s][i].failures <= traffic[s][i].total
  BY TicksFields
<1>5. /\ total \in Nat /\ failures \in Nat
      /\ total = 0 <=> \A i \in 1 .. Window : traffic[s][i].total = 0
      /\ failures = 0 <=> \A i \in 1 .. Window : traffic[s][i].failures = 0
      /\ failures = total <=> \A i \in 1 .. Window : traffic[s][i].failures = traffic[s][i].total
  BY <1>1, GrowthSums
<1>6. SuccessExpr = IF total = 0 THEN {} ELSE Scalar(Percent(failures, total))
  BY <1>1, OwnRate DEF SuccessExpr
<1> HIDE DEF total, failures
<1>7. total = 0 <=> sent = {}
  BY <1>4, <1>5
<1>8. failures = 0 <=> failed = {}
  BY <1>4, <1>5
<1>9. failures = total <=> answered = {}
  BY <1>4, <1>5
<1>10. /\ Percent(failures, total)[1] = 100 * Percent(failures, total)[2] <=> failures = 0
       /\ Percent(failures, total)[1] = 0 <=> failures = total
  BY <1>5 DEF Percent
<1>11. Tile(SuccessExpr) = IF total = 0 THEN {} ELSE {Percent(failures, total)}
  BY <1>6, ScalarValues DEF Tile, Values
<1> HIDE DEF sent, failed, answered
<1>12. /\ Tile(SuccessExpr) = {} <=> sent = {}
       /\ \A v \in Tile(SuccessExpr) : v[1] = 100 * v[2] <=> failed = {}
       /\ \A v \in Tile(SuccessExpr) : v[1] = 0 <=> answered = {}
  BY <1>7, <1>8, <1>9, <1>10, <1>11
<1> QED BY <1>2, <1>3, <1>12 DEF sent, failed, answered

---------------------------------------------------------------------------
(* The theorems.                                                           *)

\* No board has a panel off the grid or, the cluster board's Integrity panel
\* apart, one that covers another: for any lists of queues and channels that
\* render_qm_board may loop over.
THEOREM BoardsNeverOverlap == Spec => []BoardsFit
<1>1. Init => RenderInv
  BY InitFits DEF Init
<1>2. RenderInv /\ [Next]_<<renderVars, flowVars>> => RenderInv'
  <2> SUFFICES ASSUME RenderInv, [Next]_<<renderVars, flowVars>> PROVE RenderInv'
    OBVIOUS
  <2>1. [RenderNext]_renderVars
    BY DEF Next
  <2> QED BY <2>1, StepFits
<1>3. RenderInv => BoardsFit
  BY DEF RenderInv, FitsInv, Fits, BoardsFit, QmBoardFits, BoardFits
<1> QED BY <1>1, <1>2, <1>3, PTL DEF Spec

\* The status and services pills are never blank, and once every exporter
\* was scraped they tell the host that runs a queue manager from those that
\* it left: whatever the stacks, the hosts and the order of the scrapes.
THEOREM PillsRight == Spec => []PillsAreRight
BY FlowAlways, PillsFit, PTL

\* Every hop of a stack's path on the flow strip is that stack's own channel
\* or queue, however many stacks share object names or a service queue
\* manager.
THEOREM FlowRight == Spec => []FlowIsOwn
BY FlowAlways, FlowFits, PTL

\* The round-trip tiles are exact for a stack while no other has sent
\* anything within the window, for any window.
THEOREM RoundTripRight == Spec => []RoundTripIsRight
BY FlowAlways, RoundTripFits, PTL
=============================================================================
