------------------------------- MODULE Boards -------------------------------
(***************************************************************************)
(* Where the boards put their panels (gridPos of the builders in           *)
(* dashboards/boards/primitives.py).  render_all renders the five boards   *)
(* of a profile in order; render_qm_board carries y along while it appends *)
(* one block per queue and channel, the other boards fix every position.   *)
(***************************************************************************)
EXTENDS Integers, Sequences

CONSTANTS
  CriticalQueues,    \* the queues and channels render_qm_board loops over
  CriticalChannels

ASSUME BoardsAssumption ==
  /\ CriticalQueues \in Seq(STRING)
  /\ CriticalChannels \in Seq(STRING)

Columns == 24

Panel(title, x, y, w, h) == [title |-> title, of |-> "board", x |-> x, y |-> y, w |-> w, h |-> h]
Of(object, panel) == [panel EXCEPT !.of = object]

banner(y) == Panel("banner", 0, y, Columns, 2)
row_header(title, y) == Panel(title, 0, y, Columns, 1)
matrix(title, y, h) == Panel(title, 0, y, Columns, h)
timeseries(title, x, y, w) == Panel(title, x, y, w, 7)
state_timeline(y) == Panel("timeline", 0, y, Columns, 7)
logs_panel(title, y) == Panel(title, 0, y, Columns, 8)

\* A row of stat tiles of one width.
Tiles(titles, y, w, h) == {Panel(titles[i], (i - 1) * w, y, w, h) : i \in 1 .. Len(titles)}

\* The tiles of the HA cockpits' status bands.
Band(titles, y) ==
  {Panel(titles[1], 0, y, 5, 3), Panel(titles[2], 5, y, 4, 3), Panel(titles[3], 9, y, 5, 3),
   Panel(titles[4], 14, y, 5, 3), Panel(titles[5], 19, y, 5, 3)}

\* A site's badge and the matrix beside it.
Site(site, y, w, h) ==
  {Of(site, Panel("badge", 0, y, w, h)), Of(site, Panel("instances", w, y, Columns - w, h))}

(***************************************************************************)
(* The queue manager's board.                                              *)
(***************************************************************************)
QmHealth(y) ==
  {banner(y), row_header("QM_health", y + 2),
   Panel("Status", 0, y + 3, 8, 3), Panel("Uptime", 8, y + 3, 8, 3), Panel("Services", 16, y + 3, 8, 3),
   timeseries("Connections", 0, y + 6, 8), timeseries("Msg_rate", 8, y + 6, 8),
   timeseries("Recovery_log", 16, y + 6, 8),
   logs_panel("all_QM_events", y + 13)}

QueueBlock(queue, y) ==
  {Of(queue, row_header("queue", y)),
   Of(queue, timeseries("depth", 0, y + 1, 12)), Of(queue, timeseries("flow", 12, y + 1, 12)),
   Of(queue, timeseries("handles", 0, y + 8, 12)), Of(queue, timeseries("age", 12, y + 8, 12)),
   Of(queue, logs_panel("queue_events", y + 15))}

ChannelBlock(channel, y) ==
  {Of(channel, row_header("channel", y)),
   Of(channel, timeseries("throughput", 0, y + 1, 8)), Of(channel, timeseries("nettime", 8, y + 1, 8)),
   Of(channel, timeseries("status", 16, y + 1, 8)),
   Of(channel, logs_panel("channel_events", y + 8))}

(***************************************************************************)
(* The boards whose positions are fixed.                                   *)
(***************************************************************************)
messaging ==
  {banner(0), row_header("status", 2)}
  \cup Tiles(<<"App_QM", "SVC_QM", "Round_trip_OK", "Message_rate">>, 3, 5, 3)
  \cup {Panel("Failure_rate", 20, 3, 4, 3), row_header("flow", 6)}
  \cup Tiles(<<"app_client", "APP_SVRCONN", "app", "sdr", "svc", "SVC_SVRCONN", "svc_sim", "APP_REPLY">>, 7, 3, 4)
  \cup {row_header("round_trip", 11), timeseries("rate", 0, 12, 12), timeseries("latency", 12, 12, 12),
        row_header("logs", 19), logs_panel("round_trip_logs", 20),
        row_header("events", 28), logs_panel("events", 29),
        row_header("queues_channels", 37), Panel("queues", 0, 38, 12, 8), Panel("channels", 12, 38, 12, 8)}

cluster ==
  {banner(0), row_header("status", 2)}
  \cup Tiles(<<"Cluster_health", "Nodes_online", "Active_QM_owner", "Replication_backlog">>, 3, 6, 4)
  \cup {Panel("Integrity", 0, 7, Columns, 4), matrix("Compute", 10, 9), matrix("Storage", 19, 5),
        row_header("timeline", 24), state_timeline(25), row_header("logs", 32), logs_panel("cluster_logs", 33)}

nativeha ==
  {banner(0), row_header("status", 2)}
  \cup Band(<<"Active_instance", "Quorum", "Instances_in_sync", "HA_status", "Integrity">>, 3)
  \cup {row_header("instances", 6)} \cup Site("A", 7, 5, 7) \cup Site("B", 14, 5, 7)
  \cup {row_header("CRR", 21)} \cup Tiles(<<"CRR_connected", "CRR_in_sync", "CRR_backlog">>, 22, 8, 3)
  \cup {row_header("timeline", 25), state_timeline(26), row_header("logs", 33), logs_panel("logs", 34)}

rdqm ==
  {banner(0), row_header("status", 2)}
  \cup Band(<<"Running_on", "HA_status", "Nodes_online", "Floating_IP", "Integrity">>, 3)
  \cup {row_header("instances", 6)} \cup Site("A", 7, 4, 6) \cup Site("B", 13, 4, 6)
  \cup {row_header("Pacemaker", 19), matrix("Pacemaker_A", 20, 6), matrix("Pacemaker_B", 26, 6),
        row_header("storage", 32), matrix("Storage", 33, 10), row_header("DR", 43)}
  \cup Tiles(<<"DR_status", "DR_primary", "Failover_ready", "DR_backlog">>, 44, 6, 3)
  \cup {row_header("timeline", 47), state_timeline(48), row_header("logs", 55), logs_panel("logs", 56)}

VARIABLES
  y, panels, queues, channels,   \* render_qm_board: its y, its panels, what its loops have left
  rendered                       \* render_all: the boards rendered so far, each with its panels

renderVars == <<y, panels, queues, channels, rendered>>

RenderInit ==
  /\ y = 0 /\ panels = {} /\ rendered = <<>>
  /\ queues = CriticalQueues /\ channels = CriticalChannels

AddHealth ==
  /\ y = 0
  /\ panels' = QmHealth(y)
  /\ y' = y + 21
  /\ UNCHANGED <<queues, channels, rendered>>

\* Fault variant: the events below the graphs are not counted.
AddQueueShort ==
  /\ y > 0 /\ queues # <<>>
  /\ panels' = panels \cup QueueBlock(Head(queues), y)
  /\ y' = y + 15
  /\ queues' = Tail(queues)
  /\ UNCHANGED <<channels, rendered>>

AddQueue ==
  /\ y > 0 /\ queues # <<>>
  /\ panels' = panels \cup QueueBlock(Head(queues), y)
  /\ y' = y + 23
  /\ queues' = Tail(queues)
  /\ UNCHANGED <<channels, rendered>>

AddChannel ==
  /\ y > 0 /\ queues = <<>> /\ channels # <<>>
  /\ panels' = panels \cup ChannelBlock(Head(channels), y)
  /\ y' = y + 16
  /\ channels' = Tail(channels)
  /\ UNCHANGED <<queues, rendered>>

\* render_all goes on once render_qm_board has returned.
AddBoard ==
  /\ y > 0 /\ queues = <<>> /\ channels = <<>>
  /\ Len(rendered) < 5
  /\ rendered' = Append(rendered, <<panels, messaging, cluster, nativeha, rdqm>>[Len(rendered) + 1])
  /\ UNCHANGED <<y, panels, queues, channels>>

RenderNext == AddHealth \/ AddQueue \/ AddChannel \/ AddBoard

(***************************************************************************)
(* Properties.                                                             *)
(***************************************************************************)
OnGrid(p) == p.x \in 0 .. Columns /\ p.y \in Nat /\ p.w > 0 /\ p.h > 0 /\ p.x + p.w <= Columns

Apart(p, q) ==
  \/ p.x + p.w <= q.x \/ q.x + q.w <= p.x
  \/ p.y + p.h <= q.y \/ q.y + q.h <= p.y

NoOverlap(board) == \A p, q \in board : p = q \/ Apart(p, q)

\* However many queues and channels render_qm_board has laid out by hand-kept
\* offsets, none of its panels leaves Grafana's 24 columns or covers another.
QmBoardFits == NoOverlap(panels) /\ \A p \in panels : OnGrid(p)

\* The same of every board render_all returns, but for the cluster board's
\* Integrity panel, whose last row the Compute matrix below it takes.
BoardsFit ==
  /\ QmBoardFits
  /\ \A i \in 1 .. Len(rendered) :
       /\ \A p \in rendered[i] : OnGrid(p)
       /\ \A p, q \in rendered[i] :
            p = q \/ Apart(p, q) \/ (i = 3 /\ {p.title, q.title} = {"Integrity", "Compute"})
=============================================================================
