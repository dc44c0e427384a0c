----------------------------- MODULE Messaging -----------------------------
(***************************************************************************)
(* The queue-manager and messaging boards (dashboards/boards/qm.py and     *)
(* messaging.py) over the series of the mq_prometheus exporters and of the *)
(* application's round-trip probe, both outside the repository.  Several   *)
(* stacks share one Prometheus and one service queue manager; a queue      *)
(* manager moves between hosts, and every host's exporter is scraped in    *)
(* its own time.                                                           *)
(***************************************************************************)
EXTENDS Primitives, Exposition, Sequences

CONSTANTS
  Stacks,     \* the profiles: records of short and svc_short
  Hosts,      \* the hosts a queue manager can run on
  NoHost,
  Window,     \* the ticks of [5m], where [1m] is the last one
  MaxEvents   \* bound: the changes of the world

ASSUME MessagingAssumption ==
  /\ IsFiniteSet(Stacks)
  /\ Hosts # {} /\ NoHost \notin Hosts
  /\ Window \in Nat \ {0}
  /\ MaxEvents \in Nat

(***************************************************************************)
(* Names: a sequence of the words the code joins.                          *)
(***************************************************************************)
AppQm(stack) == <<stack.short, "APP">>
SvcQm(stack) == <<stack.svc_short, "QM">>
ReqQueue(stack) == <<stack.short, "SVC", "REQUEST">>
Sdr(stack) == AppQm(stack) \o SvcQm(stack)
APP_REPLY == <<"APP", "REPLY">>
APP_SVRCONN == <<"APP", "SVRCONN">>
SVC_SVRCONN == <<"SVC", "SVRCONN">>

QMs == {AppQm(s) : s \in Stacks} \cup {SvcQm(s) : s \in Stacks}
Channels == UNION {{<<AppQm(s), Sdr(s)>>, <<AppQm(s), APP_SVRCONN>>, <<SvcQm(s), SVC_SVRCONN>>} : s \in Stacks}
Queues == UNION {{<<SvcQm(s), ReqQueue(s)>>, <<AppQm(s), APP_REPLY>>} : s \in Stacks}
Parts == {"initiator", "command_server", "listener"}
Idle == [total |-> 0, failures |-> 0]

VARIABLES
  home,       \* where each queue manager runs
  status,     \* a running one's status: 1 in transition, 2 running
  broken,     \* the services that are down, as <<queue manager, part>>
  channel,    \* each channel's status
  depth,      \* each queue's depth
  down,       \* the exporters that are down, as <<queue manager, host>>
  seen,       \* each exporter's series, as last scraped
  traffic,    \* each stack's round trips in the last Window ticks
  events

world == <<home, status, broken, channel, depth, down, traffic>>
flowVars == <<world, seen, events>>

(***************************************************************************)
(* An exporter without its queue manager reports it stopped and no more.   *)
(***************************************************************************)
Report(q, h) ==
  IF <<q, h>> \in down THEN {}
  ELSE IF home[q] # h THEN {Metric("ibmmq_qmgr_status", [qmgr |-> q, host |-> h], 0)}
  ELSE LET base == [qmgr |-> q, host |-> h]
           works(part, value) == IF <<q, part>> \in broken THEN 0 ELSE value IN
       {Metric("ibmmq_qmgr_status", base, status[q]),
        Metric("ibmmq_qmgr_channel_initiator_status", base, works("initiator", 2)),
        Metric("ibmmq_qmgr_command_server_status", base, works("command_server", 2)),
        Metric("ibmmq_qmgr_active_listeners", base, works("listener", 1))}
       \cup {Metric("ibmmq_channel_status_squash", [qmgr |-> q, host |-> h, channel |-> c[2]], channel[c])
             : c \in {d \in Channels : d[1] = q}}
       \cup {Metric("ibmmq_queue_depth", [qmgr |-> q, host |-> h, queue |-> c[2]], depth[c])
             : c \in {d \in Queues : d[1] = q}}

FlowInit ==
  /\ home = [q \in QMs |-> CHOOSE h \in Hosts : TRUE]
  /\ status = [q \in QMs |-> 2]
  /\ broken = {}
  /\ channel = [c \in Channels |-> 2]
  /\ depth = [c \in Queues |-> 0]
  /\ down = {}
  /\ seen = [e \in QMs \X Hosts |-> Report(e[1], e[2])]
  /\ traffic = [s \in Stacks |-> [i \in 1 .. Window |-> Idle]]
  /\ events = 0

Event == events < MaxEvents /\ events' = events + 1 /\ UNCHANGED seen

\* A queue manager stops, starts on a host (it is in transition first), runs.
Stop(q) ==
  /\ Event
  /\ home[q] # NoHost
  /\ home' = [home EXCEPT ![q] = NoHost]
  /\ UNCHANGED <<status, broken, channel, depth, down, traffic>>
StartOn(q, h) ==
  /\ Event
  /\ home[q] = NoHost
  /\ home' = [home EXCEPT ![q] = h]
  /\ status' = [status EXCEPT ![q] = 1]
  /\ UNCHANGED <<broken, channel, depth, down, traffic>>
Running(q) ==
  /\ Event
  /\ home[q] # NoHost /\ status[q] = 1
  /\ status' = [status EXCEPT ![q] = 2]
  /\ UNCHANGED <<home, broken, channel, depth, down, traffic>>

\* One of a queue manager's services ends.
Break(q, part) ==
  /\ Event
  /\ broken' = broken \cup {<<q, part>>}
  /\ broken' # broken
  /\ UNCHANGED <<home, status, channel, depth, down, traffic>>

\* A channel stops or retries; messages pile up in a queue.
ChangeChannel(c, value) ==
  /\ Event
  /\ channel[c] # value
  /\ channel' = [channel EXCEPT ![c] = value]
  /\ UNCHANGED <<home, status, broken, depth, down, traffic>>
Fill(c) ==
  /\ Event
  /\ depth[c] = 0
  /\ depth' = [depth EXCEPT ![c] = 1]
  /\ UNCHANGED <<home, status, broken, channel, down, traffic>>

\* An exporter goes down, and its series with it.
LoseExporter(q, h) ==
  /\ events < MaxEvents /\ events' = events + 1
  /\ <<q, h>> \notin down
  /\ down' = down \cup {<<q, h>>}
  /\ seen' = [seen EXCEPT ![<<q, h>>] = {}]
  /\ UNCHANGED <<home, status, broken, channel, depth, traffic>>

\* A tick: the active requester, if any, made two round trips.
Tick(s, trips) ==
  /\ Event
  /\ traffic' = [t \in Stacks |->
       Append(Tail(traffic[t]), IF t = s THEN trips ELSE Idle)]
  /\ UNCHANGED <<home, status, broken, channel, depth, down>>

Scrape(q, h) ==
  /\ seen' = [seen EXCEPT ![<<q, h>>] = Report(q, h)]
  /\ UNCHANGED <<world, events>>

FlowNext ==
  \/ \E q \in QMs : Stop(q) \/ Running(q) \/ \E part \in Parts : Break(q, part)
  \/ \E q \in QMs, h \in Hosts : StartOn(q, h) \/ LoseExporter(q, h) \/ Scrape(q, h)
  \/ \E c \in Channels, value \in {0, 1} : ChangeChannel(c, value)
  \/ \E c \in Queues : Fill(c)
  \/ \E s \in Stacks, failures \in 0 .. 2 : Tick(s, [total |-> 2, failures |-> failures])
  \/ \E s \in Stacks : Tick(s, Idle)

(***************************************************************************)
(* The boards' expressions.                                                *)
(***************************************************************************)
\* rate(field[n]): what each stack's counter grew by in its last n ticks, at
\* its client's host.
Growth(s, field, n) == {Sample([tick |-> i], traffic[s][i][field]) : i \in Window - n + 1 .. Window}
Rate(field, n) == {Sample([client |-> s.short], SumOf(Growth(s, field, n))) : s \in Stacks}

Exported == UNION {seen[e] : e \in QMs \X Hosts}

\* Fault variant: every queue manager's object of this name.
OfNamesake(metric, label, obj) ==
  By(Where(Samples(Exported, metric), label, {obj[2]}), {}, MaxOf)

\* max(metric{qmgr="q"}), and with an object of the queue manager.
OfQm(metric, q) == By(Where(Samples(Exported, metric), "qmgr", {q}), {}, MaxOf)
OfObject(metric, label, obj) ==
  By(Where(Where(Samples(Exported, metric), "qmgr", {obj[1]}), label, {obj[2]}), {}, MaxOf)

QmStatusExpr(q) == Or(OfQm("ibmmq_qmgr_status", q), Scalar(-1))
ChannelStatusExpr(c) == Or(OfObject("ibmmq_channel_status_squash", "channel", c), Scalar(-1))
QueueDepthExpr(c) == Or(OfObject("ibmmq_queue_depth", "queue", c), Scalar(-1))

\* Fault variant: a part without a series counts as up.
ServicesExprLenient(q) ==
  LET up(metric, least) == Or(AboveBool(OfQm(metric, q), least), Scalar(1))
  IN Times(Times(up("ibmmq_qmgr_channel_initiator_status", 1), up("ibmmq_qmgr_command_server_status", 1)),
           up("ibmmq_qmgr_active_listeners", 0))

ServicesExpr(q) ==
  Or(Times(Times(EqualsBool(OfQm("ibmmq_qmgr_channel_initiator_status", q), 2),
                 EqualsBool(OfQm("ibmmq_qmgr_command_server_status", q), 2)),
           AboveBool(OfQm("ibmmq_qmgr_active_listeners", q), 0)),
     Scalar(-1))

\* 100 * (1 - failures / total), as the fraction it is.
Percent(failures, total) == <<100 * (total - failures), total>>

\* Fault variant: no traffic is full success.
SuccessExprDefault ==
  LET total == SumOf(Rate("total", Window))
      failures == SumOf(Rate("failures", Window))
  IN Scalar(IF total = 0 THEN Percent(0, 1) ELSE Percent(failures, total))

\* 0 / 0 is no number and shown as no data.
SuccessExpr ==
  LET total == SumOf(Rate("total", Window))
      failures == SumOf(Rate("failures", Window))
  IN IF total = 0 THEN {} ELSE Scalar(Percent(failures, total))

MessageRateExpr == By(Rate("total", 1), {}, SumOf)
FailureRateExpr == By(Rate("failures", 1), {}, SumOf)

(***************************************************************************)
(* What the boards' reader relies on.                                      *)
(***************************************************************************)
Current == \A e \in QMs \X Hosts : seen[e] = Report(e[1], e[2])
Reports(q) == home[q] # NoHost /\ <<q, home[q]>> \notin down
Dark(q) == \A h \in Hosts : <<q, h>> \in down

\* The status and services pills of qm.py and the status tiles of
\* messaging.py: never blank, and once every exporter was scraped a queue
\* manager's status is that of the host it runs on, not of the hosts it left;
\* without any exporter it is unknown, and so are its services unless the
\* host that runs it says otherwise.
PillsAreRight ==
  \A q \in QMs :
    /\ \E v \in -1 .. 2 : Tile(QmStatusExpr(q)) = {v}
    /\ \E v \in -1 .. 1 : Tile(ServicesExpr(q)) = {v}
    /\ Current =>
         /\ Tile(QmStatusExpr(q)) = {IF Reports(q) THEN status[q] ELSE IF Dark(q) THEN -1 ELSE 0}
         /\ Tile(ServicesExpr(q)) =
              {IF Reports(q) THEN Flag(\A part \in Parts : <<q, part>> \notin broken) ELSE -1}

\* The flow strip of messaging.py: every hop of a stack's path is that
\* stack's own channel or queue, although all stacks use the same object
\* names and one service queue manager, and reads -1 while the queue manager
\* that holds it does not report.
FlowIsOwn ==
  Current =>
    /\ \A c \in Channels : Tile(ChannelStatusExpr(c)) = {IF Reports(c[1]) THEN channel[c] ELSE -1}
    /\ \A c \in Queues : Tile(QueueDepthExpr(c)) = {IF Reports(c[1]) THEN depth[c] ELSE -1}

\* The round-trip tiles of messaging.py are not scoped to a stack.  While no
\* other stack has sent anything within the window they are exact for this
\* one: no success rate at all without traffic, never a full one; and a
\* requester that has fallen silent keeps its success rate for a window
\* although its message rate is already zero.
RoundTripIsRight ==
  \A s \in Stacks :
    (\A t \in Stacks \ {s} : \A i \in 1 .. Window : traffic[t][i] = Idle) =>
      LET sent == {i \in 1 .. Window : traffic[s][i].total > 0}
          failed == {i \in sent : traffic[s][i].failures > 0}
          answered == {i \in sent : traffic[s][i].failures < traffic[s][i].total}
      IN /\ Tile(MessageRateExpr) = {traffic[s][Window].total}
         /\ Tile(FailureRateExpr) = {traffic[s][Window].failures}
         /\ Tile(SuccessExpr) = {} <=> sent = {}
         /\ \A v \in Tile(SuccessExpr) : v[1] = 100 * v[2] <=> failed = {}
         /\ \A v \in Tile(SuccessExpr) : v[1] = 0 <=> answered = {}
=============================================================================
