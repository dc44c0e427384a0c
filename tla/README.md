# mqro in TLA+

A specification of **mqro** (`src/`), the collectors and Grafana boards that watch
IBM MQ high-availability clusters, with the model-checking configurations and the
machine-checked proofs that belong to it. `src/mqro/...` below is short for
`src/src/mqro/...` in the tree; `base.py`, `nativeha.py`, `rdqm.py`, `cluster.py`,
`drbd.py` are the files of `collectors/`, `boards/X.py` those of `dashboards/boards/`.

## 1. The system

On every node a systemd timer starts a collector every few seconds. A collector is a
short process: it captures the clock, runs the tools of its HA technology one after
the other, each under a timeout, parses what they print, renders Prometheus series and
replaces one *textfile*. node_exporter reads that file whenever it is scraped;
Prometheus holds the union of all nodes' files, and the boards are PromQL expressions
over that union. Nothing else is kept: a run starts from nothing, the textfile is the
only state that outlives it.

    tools ──probe──> run() ──write_textfile──> X.prom ──scrape──> Prometheus ──PromQL──> board
    (crm_mon, ...)   (one node, timer)         (.tmp + rename)    (union of nodes)

### Components

| Component | State | Operations | Interacts with |
|---|---|---|---|
| `write_textfile` (`base.py:73-82`) | `.tmp` and the target path, the inodes behind them | truncate and fill `.tmp`; rename | node_exporter's open and reads of the target, at any instant; another run of the same collector through the shared `.tmp` |
| `probe` and the run cycle (`base.py:36-62`, `run`/`collect` of the three collectors) | locals of one run: the captured clock, the readings so far | capture clock, probe each source, parse, stamp, write | the tools (answer, fail, hang, print malformed text), the timer, `write_textfile` |
| Detection (`detect.py`) | locals of one call | override, `probe_rdqm`, `probe_nativeha`, `probe_pacemaker`, `resolve` | the node's software, which an operator may change meanwhile |
| DRBD parser (`drbd.py`) | the block under construction | one loop iteration per line | both the RDQM and the Pacemaker collector |
| Native HA collector and board | none beyond the file | `parse_x`, `parse_g`, `render`; the board's expressions | every node reports every instance: views of different times meet in one expression |
| RDQM collector and board | none beyond the file | `parse_rdqmstatus`, `parse_crm`, `render`; expressions | two sites of a DR pair, three sources per node |
| Pacemaker collector and board | none beyond the file | `parse_crm`, `parse_stonith`, `parse_daemons`, `parse_iscsi`, `render`; expressions | two nodes, five sources per node |
| Emitted contract (`contract.py`) | constants | the families and labels each arm may emit | collectors on one side, boards on the other |
| Queue-manager and messaging boards (`boards/qm.py`, `boards/messaging.py`) | the running `y` and panel list of one rendering | lay panels out, write expressions | the mq_prometheus exporters and the application's round-trip probe, outside the repository |
| Primitives, rendering, profile (`boards/primitives.py`, `render.py`, `profile.py`) | none | panel builders, value mappings, `render_all`, object names | every board |
| Config, packaging | none | settings, build files | - |

### What is hard here

- *Interleaving.* A scrape opens, reads and closes the target between any two steps of a
  write. Every node collects at its own time, so one expression relates reports from
  before and after a failover.
- *Failure in the middle.* A run may be killed, the disk may be full, one of several
  probes may fail, a parser may raise after other sources have answered.
- *Time.* Timeouts add up (6, 8 and 11 seconds for the three arms); the timestamp is taken
  before the probes and stands for all of them.
- *Staleness.* "STALE" must never be shown as green, and a dead source's last value must
  not be served for ever. Both hinge on series that are **absent**, and PromQL makes
  absence easy to get wrong: `absent()`'s labels, `or vector(0)`, `and on()` gates.
- *Union.* Several clusters share family names in one Prometheus; a DR pair has two of
  nearly everything.

### What makes each component correct

- *write_textfile*: a scrape delivers one render in full, and renders in order.
- *run cycle*: a timestamp never claims more freshness than its reading has; a file is
  fresh when it appears; the file comes to mirror the tools; a dead source disappears.
- *detection*: precedence and exclusion hold although the node changes under the probes;
  nothing is activated that was never there.
- *DRBD parser*: no block colours another; a resync or a StandAlone peer is never hidden.
- *boards*: with current reports the light is red exactly for a hazard and green
  otherwise (section 4 has the cases in which it is not); owners, counts, chips, matrix cells and DR status are those of the cluster.
- *contract*: every series an arm renders is declared, with exactly its labels.
- *queue-manager and messaging boards*: a pill, hop or rate is that of the stack it is drawn
  for; "no data" is told from "stopped" and from "fine"; no panel covers another.

`PROJECT.json` lists the same components with their status, and every hazard at the line
where it bites with the properties that cover it or the reason none does.

## 2. Modules

| Module | Models | Correspondence |
|---|---|---|
| `AtomicFile` | the promise of `write_textfile` | a register of renders: `Publish`, `Begin`, `Deliver` |
| `Textfile` | `write_textfile` against node_exporter | `OpenTmp`/`FillTmp` are `tmp.write_text` (open with truncation, then one write per block), `Replace` is `tmp.replace`, `Abandon` a kill or a write error; paths name inodes, open descriptors keep them. `Register` is the refinement mapping to `AtomicFile` |
| `Collector` | `run()` and `collect()`, shared by the three arms | `Start` captures the clock, `ProbeReads`/`ProbeFails`/`ParseRaises` are the outcomes of one `probe()` and its parser, `Publish` is `write_textfile` (one step, by what `Textfile` shows), `Abort` a kill or a failed write; `Tick`, `Answer`, `Sicken`, `Change` are the environment |
| `CollectorArms` | the three arms' sources, order, timeouts, raising parsers | constants for `Collector` |
| `Detect` | `detect.py` | one action per probe, two for `probe_pacemaker`, which looks at the node twice |
| `DrbdStatus` | `parse_drbd` | one action per kind of line; the printer is external |
| `PromQL` | the operators of the boards' expressions | external: vectors, matchers, aggregation, `or`, `and on()`, `absent` |
| `Primitives` | `boards/primitives.py` | what a tile, a matrix cell and a light make of a vector: `MAPPINGS` is `_MAPPINGS`, `Cell` is `_norm`, `LightOf` the integrity mapping |
| `Contract` | `contract.py` | the families of each arm with their labels; `Emits` is what the type invariants of the arms check every series against |
| `Exposition` | series, flags and the DRBD section the arms share | helpers of the modules below |
| `NativeHa` | `nativeha.py` and `boards/nativeha.py` | `XReport`/`GReport`/`StandbyReport` are dspmq (external); `ParseX`, `ParseG`, `RenderX`, `RenderG`, `Body` the collector; `Collect(n)` one whole run on node n with any probe failing; the operators after `Scraped` are the board's expressions |
| `Pacemaker` | `cluster.py` and `boards/cluster.py` | likewise, beside an RDQM cluster in the same Prometheus |
| `Rdqm` | `rdqm.py` and `boards/rdqm.py` | likewise, for two names of the queue manager's resources |
| `Boards` | the layout of the five boards and the order of `render_all` | `AddHealth`, `AddQueue`, `AddChannel` are the stages of `render_qm_board`, `AddBoard` one board of `render_all` |
| `Messaging` | the expressions of `boards/qm.py` and `boards/messaging.py` | queue managers, channels, queues and traffic of several stacks are external; `seen` is what Prometheus last scraped of each exporter |
| `Dashboards` | both together | boards are rendered, then they show what is exported |
| `MCPrograms` | `Detect`, `DrbdStatus` and `Dashboards` side by side, for one run | one of the three moves, the others stay in an initial state: they share nothing |
| `TextfileProofs`, `CollectorProofs`, `NodeProofs` (`Detect` and `DrbdStatus`), `NativeHaProofs`, `PacemakerProofs`, `RdqmProofs`, `DashboardsProofs` | the theorems of section 5 | |
| `PromQLTheorems` | the lemmas they share | what `PromQL` and `Primitives` return for vectors of any size |
| `MC...` | instances for TLC: the arms' constants, symmetry sets | |

How they compose: `Textfile` implements `AtomicFile`, which is what allows `Collector`
and the board modules to replace a file in one step. `Collector` says when a section and
its timestamp are in the file; `NativeHa`, `Pacemaker` and `Rdqm` say what is in a section
and what the board makes of all nodes' sections. `DrbdStatus` says what a DRBD section
holds for a printed report; the board modules start from its result for one peer. `Boards`
and `Messaging` share no state with the arms: their series come from other exporters.

Operators whose comment begins "Fault variant" are not part of any specification. Each is
a definition of the same module with a plausible slip in it (a dropped guard, an
off-by-one, a missing reset), kept so that one can see every property fail when
it is put in the place of the right one; `PROJECT.json` "mutants" pairs them.

## 3. Runs

Every run uses `tlc -config <cfg> <module>`; distinct states in parentheses.

| Run | Question and answer |
|---|---|
| `textfile_serial` (77k) | Is a scrape ever torn? No: for runs that do not overlap, two processes in turn, killed at any point, never let a reader see anything but one whole render, and the steps implement `AtomicFile` |
| `collector_cycle` (1.78M) | Is the timestamp honest, and does a collector recover? Yes: never newer than the reading; a file is at most the sum of the timeouts old when it appears, second by second; and once no tool prints malformed text any more and nothing changes, the file comes to mirror every tool that is never late again, and stays so, although another tool may be late in every run |
| `programs` (111k) | Three programs that share no state, each by itself. Does detection stand changes of the node and late tools? Yes, with the one exception written into `OnlyWhatIsThere`. Does `parse_drbd` keep resources apart? Yes, over every report of two resources with up to two peers and three in all. Do panels overlap, and does one stack's board show another's flow? No, but for one row of the cluster board; pills, hops and rates are their own stack's |
| `nativeha_board` (108k) | Does a failure show although other nodes' files are older, and are light, tiles, site chips, matrices and replication card right through crashes, elections, switchovers and failing probes? Yes, but for what `nativeha_lost` shows |
| `pacemaker_board` (177k) | Do split brains, lost disks, fencing, partitions and lost sessions show? Yes, but for what `pacemaker_split` and `pacemaker_neighbour` show |
| `rdqm_board` (176k) | Does the board name the true owner, site states and member states through moves, bans, cutovers, disasters and a broken link? Yes; what it makes of bans is stated for the name `qmrdqm`, `rdqm_stranded` has another |
| `cluster_garbled` | *violation*: a source that is gone does not disappear while another one's parser raises |
| `drbd_peers` | *violation*: a StandAlone peer is overwritten by the peer printed after it |
| `nativeha_lost` | *violation*: the site that was live is lost, and neither the light, nor the HA status, nor the replication card shows it |
| `pacemaker_split` | *violation*: a split brain whose sides are Secondary again shows neither in the light nor in the out-of-sync cells |
| `pacemaker_neighbour` | *violation*: an RDQM pair in the same Prometheus is in the light, in the backlog and in the count of Primaries |
| `rdqm_stranded` | *violation*: one site lost and every node of the other banned, and no place of the board for either shows it |

A run that expects a violation checks one property. The last four state theirs as a
disjunction of several promises of the board, each with a name and the line it is quoted
from: the counterexample is a state in which all of them are broken at once. The passing runs
state the same panels on the other side of that line: `LightIsRight`, `TilesAreRight`,
`CrrCardIsRight`, `BadgeIsRight` and `MatricesAreRight` have a premise where a promise is broken,
and no property takes a broken promise for the expected value.

### Bounds and why they are enough

- `textfile_serial`: two writers, one reader, three inodes, two blocks, four renders. A
  torn read needs one reader and two renders; two blocks give a "half way"; three inodes
  are the target, an orphan a reader still holds, and `.tmp`, so that recycling happens.
- `collector_cycle`: the Native HA arm. Its parsers accept any text; what raises on it is the
  decoding of a report that is not UTF-8. `MaxTime` is 7, one second more than the six both
  probes can take, with one fault and one change, so that a run can use its whole budget and
  be followed by another one. At `MaxTime` the clock no longer advances but the seconds of a
  probe go on, so that a tool can be late in every run for ever, as it can without a bound.
  The three arms differ in their constants only; the theorems cover them all, and
  `RunsOutlastTheirTick` evaluates their budgets.
- `programs`: in detection three changes of the node's software, one between any two looks. In
  the parser two resources are what one block can leak into; two peers are what one
  peer can overwrite (an HA volume of three nodes has two), and one beside them is what either
  can be mixed up with (`PeersInAll`). On the boards two stacks that share
  a service queue manager are what one flow can be mistaken for; two hosts what a queue manager
  can leave and reach; two ticks for a window, so that traffic can be in `[5m]` and no longer in
  `[1m]`; three events: stop, start, running. The queue and channel lists are those of the code.
- `nativeha_board`: a site of three instances and one of two, three events: two to lose a
  quorum or to elect after a crash, one for a probe that fails. A failed probe counts as an
  event, collections that succeed are free before, between and after.
- `pacemaker_board`: two compute and two storage nodes, one node being both, three events: a
  partition, a promotion in it, and a heal, a fence or a failed probe.
- `rdqm_board`: site A with two nodes, site B with one, three events from any placement of
  the primaries and from every combination of DR roles, the diverged one included; the
  nodes of site A are interchangeable, which is what the symmetry says.
- `nativeha_lost`: five events, three crashes and two switchovers, one in which the groups exchange
  their names and one in which they keep them, so that the site here is the live one and the
  other goes by another name than Recovery. The light and the HA status are wrong without
  the switchovers, the card is blank without the crashes.
- `pacemaker_split`: two nodes are what a split brain takes; five events.
- `pacemaker_neighbour`: one event; the pair beside the cluster has lost a node and is 8192 behind.
- `rdqm_stranded`: four events: two crashes, a ban, a demotion.

`MaxTime`, `MaxChanges`, `MaxFaults`, `MaxRenders`, `MaxEvents`, `MaxPeers`, `PeersInAll`
and `Window` are
the only bounds. `CHECK_DEADLOCK FALSE` stands where a behaviour really ends: detection
returns, a parse returns, the changes of a bounded run are used up.

### Fairness

Only `Collector` assumes any: `WF_vars(Run)`, the timer keeps starting runs and a started
run keeps executing, which is what the systemd timer the code is written for does
(`base.py:48`), and `WF_vars(Answer)`, a tool that is not down eventually prints its
report. Nothing is assumed of the clock or of faults. What no fairness can give, `Converges`
asks of the environment by name (`QuietFor`): nothing changes for good, no tool prints
malformed text, and the tool of the source in question is not cut off by its timeout in
every run to come. Without the last, a tool that is up and always late never has a reading.
`subprocess.run(timeout=...)` ends every probe, so a run cannot wait for a tool for ever; a
child in uninterruptible sleep, which cannot be killed, is outside the model.

## 4. Findings

1. **A parser that raises freezes the whole file** (`cluster.py:191-193`,
   run `cluster_garbled`). `ElementTree.ParseError` or `ValueError` ends `run()` before
   `write_textfile`; every source's last value and timestamp stay and are scraped again,
   that of a source that is gone too. `contract.py:305-308` says "A stalled source stops
   appearing, so its timestamp never advances and staleness alerting fires — never a
   republished value".
2. **A StandAlone peer is masked** (`drbd.py:49`, run `drbd_peers`). Each `connection:`
   overwrites the one before it, so a connected peer printed later hides a StandAlone one;
   `drbd.py:30-31` says the connection state drives the integrity light.
3. **The loss of the live site does not show** (run `nativeha_lost`; three lines of
   `boards/nativeha.py`).
   - Line 65: `absent()` carries the label its selector fixes, the other terms of the light's sum
     carry none; the default `vector(0)` beside it is the one that matches, so "no-Active-owner"
     (lines 59-60) never counts.
   - Line 113: the HA status is a minimum over series that are all 1. It reads Normal or STALE and
     never DOWN, against "No-data reads STALE/DOWN, never healthy" (lines 72-73); the other
     site's members keep it Normal.
   - Line 50: the replication card selects `group="Recovery"`, the group's name and not its
     role. Where groups keep their names a switchover leaves the card blank, against lines 47-49 and
     168-169.
4. **A split brain can be invisible** (run `pacemaker_split`). The dual-primary term has no
   `or vector(0)` (`boards/cluster.py:107`): with DRBD data but no Primary the sum is empty, and a
   reported StandAlone (or Diskless) reads STALE, which lines 102-103 keep for no data. `clean0` ends
   at 9999 (`boards/primitives.py:53`): a larger out-of-sync count has no colour, where line
   32 says "≥1→red".
5. **Another arm's storage leaks in** (run `pacemaker_neighbour`). The DRBD counts of the light, the
   backlog and the timeline's Primaries have no groups matcher (`boards/cluster.py:92,105-107,142`), against
   lines 42-44 and `contract.py:309-313`; beside a healthy RDQM pair the light is red for good.
6. **A pair that can start nowhere reads ready** (run `rdqm_stranded`).
   - `boards/rdqm.py:266`: with one site lost, the other's series satisfy the data-present gate, against
     the comment at line 263.
   - `rdqm.py:159`: fail-counts are looked up under the id `qmrdqm`, so that for a queue manager of
     another name no ban is seen by light, badge, ready or fail-count, against
     `boards/rdqm.py:74-78`, `:182-184`, `:206-208` and `contract.py:490-507`.
   - `rdqm.py:61`: the resources' states are emitted under fixed names while the board takes its names
     from the profile (`boards/rdqm.py:13-16`): their cells are blank.

Also seen while modelling:

- Two runs at once share `.tmp` and can publish a mixture; `Overlap = TRUE` in `Textfile`
  shows it. Only the timer keeps runs apart.
- After a move of the queue manager the old node's file names itself the holder until that
  node collects: two owners, Active instances or floating IPs for one interval.
- A probe of `detect.py` that times out reads as "absent", not as "unknown"
  (`detect.py:62`); `StillStackResolved` holds only where no tool is late.
- `UnicodeDecodeError` escapes `probe()`, with the effect of finding 1.

*Pacemaker arm*:

- `fence_count` is 0 on a node whose `stonith_admin` gave nothing (`cluster.py:160`); the
  other node's count hides that through `max` (`FencingShows`).
- `iscsiadm` exits nonzero when there are no sessions, so zero sessions is STALE, never 0
  (`MatricesAreRight`).
- "resync %" is green from 1 % on.
- A storage-only node reads red for corosync and pacemaker, which it does not run
  (`MatricesAreRight`). `standby` is parsed and never rendered.

*Native HA arm*: the quorum tile is the larger of both sites' (`TilesAreRight`).

*RDQM arm*:

- A member that is down has no history and counts as startable (`rdqm.py:263-264`): a recovery site that
  has lost a node and has the others banned reads RECOVERY, and the light's term for an unstartable
  site does not count it. `BadgeIsRight` leaves that case out by a premise; the light is red there
  for the node that is down.
- The last node of a site is counted offline, since its own HA status is not Normal; the
  in-sync cell is green or blank, never red (`TilesAreRight`, `MatricesAreRight`).

*All boards*: the annotation `changes(count by (resource)(owner))` does not change on a move
that is reported one node at a time.

*Queue-manager and messaging boards* (`PillsAreRight`, `RoundTripIsRight`, `BoardsFit`):

- The round-trip tiles are not scoped to a stack, and the success rate stays for a window
  after traffic has stopped. `_msg_rate_expr` (`boards/qm.py:61-66`) is not aggregated, so
  the -1 of `vector(-1)` is drawn beside the rate.
- The status pill reads Stopped, not "No status", if the exporter of the host that runs the
  queue manager is down and another host's exporter is not.
- The Integrity panel of the cluster board (rows 7-10) and the Compute matrix (from row 10)
  share a row (`boards/cluster.py:110-111,186-187`). `BoardsFit` exempts that pair by name.
- Board uids can collide: `render_all` keys by uid, and `mqro-qm-<short>` lowercases.

## 5. Proofs

`TLC` shows a property on the small instances above; the theorems below hold for every
value of the constants that meets the named `ASSUME`s.

| Theorem | Says | From |
|---|---|---|
| `TextfileProofs!TypeCorrect` | `Textfile` is well typed | `TextfileAssumption` |
| `TextfileProofs!SerialRunsNeverTorn` | `WholeScrape`, for any writers, readers, inodes, blocks | also `~Overlap`: a systemd oneshot unit is not started again while it runs |
| `TextfileProofs!SerialRunsImplementRegister` | `Textfile` implements `AtomicFile` | also `~Overlap` |
| `CollectorProofs!TypeCorrect` | `Collector` is well typed | `CollectorAssumption` |
| `CollectorProofs!StampsAreHonest` | `StampHonest`, for any list of sources and timeouts | same |
| `CollectorProofs!FilesArePublishedInTime` | `PublishedInTime`, an action property | same |
| `TextfileProofs!SerialRunsKeepTmpPrivate` | `Inductive`, the strengthening itself | also `~Overlap` |
| `CollectorProofs!RunsStayInBudget` | `IInv`, the strengthening itself | `CollectorAssumption` |
| `NodeProofs!TypeCorrect` | `Detect` is well typed | `DetectAssumption` |
| `NodeProofs!RdqmNodesRunRdqmAlone` | `RdqmNodeIsRdqm`, for any number of changes | same |
| `NodeProofs!NothingAbsentIsActivated` | `OnlyWhatIsThere` | same |
| `NodeProofs!StillNodesResolve` | `StillStackResolved` | same |
| `NodeProofs!ParserTypeCorrect` | `DrbdStatus` is well typed | `DrbdAssumption` |
| `NodeProofs!BlocksKeptApart` | `OwnBlockOnly`, for any list of resources with any number of peers | same |
| `NodeProofs!OnePeerExact` | `ExactForOnePeer` | same |
| `NodeProofs!ResyncShown` | `ResyncVisible` | same |
| `NativeHaProofs!TypeCorrect` | `NativeHa` is well typed; its files hold what the contract declares | `NativeHaAssumption` |
| `NativeHaProofs!SourcesAreWhole` | `SourceAllOrNothing` | same |
| `NativeHaProofs!LightRight`, `TilesRight`, `SitesRight`, `CrrCardRight` | `LightIsRight`, `TilesAreRight`, `SitesAreRight`, `CrrCardIsRight`, for sites of any size | same |
| `PacemakerProofs!TypeCorrect` | `Pacemaker` is well typed; its files hold what the contract declares | `PacemakerAssumption`, `ReportAssumption` |
| `PacemakerProofs!LightRight`, `FencingIsShown`, `PartitionIsShown`, `TilesRight`, `MatricesRight` | `LightIsRight`, `FencingShows`, `PartitionShows`, `TilesAreRight`, `MatricesAreRight`, for any number of compute nodes | same |
| `RdqmProofs!TypeCorrect` | `Rdqm` is well typed; its files hold what the contract declares | `RdqmAssumption`, `FieldAssumption` |
| `RdqmProofs!OwnerRight`, `BadgeRight`, `DrCardRight`, `LightRight`, `TilesRight`, `MatricesRight` | `OwnerIsReal`, `BadgeIsRight`, `DrCardIsRight`, `LightIsRight`, `TilesAreRight`, `MatricesAreRight`, for sites of any size | same |
| `DashboardsProofs!BoardsNeverOverlap` | `BoardsFit`, for any lists of critical queues and channels | `BoardsAssumption` |
| `DashboardsProofs!PillsRight`, `FlowRight`, `RoundTripRight` | `PillsAreRight`, `FlowIsOwn`, `RoundTripIsRight`, for any stacks, hosts and window | `MessagingAssumption` |

**Textfile.** `WholeScrape` is not inductive: nothing in it says why the inode a scrape
has open cannot change under it. `IInv` adds that at most one process has `.tmp` open
(`OneWriter`), that the inode of `.tmp` is neither the target's nor open in a scrape
(`TmpPrivate`), that what has been written is a prefix of one body (`WriterPrefix`), that
whatever a scrape can reach is whole (`ReachableWhole`), and that what it has read is a
prefix of that (`BufferPrefix`). `TmpPrivate` survives the rename because a rename empties
the name `.tmp`, and survives the next open because a new inode is one nobody uses. For the refinement,
`TargetOlder` says that the body being written is newer than the published render, so a
rename is a `Publish`; all other writer steps map to stutters, and `RegisterStep` has one
step per action.

**Collector.** `StampHonest` is about the file; the induction needs the run that will
write it. `RunInBudget` relates the clock to the captured one: `clock <= now +
Budget[at - 1] + spent`, which a `Tick` preserves because a probe that has used its
timeout is over before the clock moves. `ReadingsInBudget` and `AnswerInBudget` say the
same of each reading taken and of the answer being read, `IdleIsBlank` that nothing is
carried from one run to the next.

**Detect.** The strengthening is that from the first probe on, while RDQM has been there
in every stack seen, the RDQM claim is set; the precedence in `Resolve` does the rest.
`ClaimsCaused` gives every claim a stack it was seen in, and `crm_mon` a look that found no
RDQM tooling, which is what makes the one exception of `OnlyWhatIsThere` exact.
`StillProbes` says, probe by probe, that what has been probed is what the stack is while
nothing changed and nothing was late.

**DRBD parser.** Two things have to be known: where the blocks are in the text, and where the
parser is in its block. The text is a `FlattenSeq` of blocks, each itself a `FlattenSeq` of its
peers' lines, so a recursion of the library's; that it lays its parts end to end (`Laid`)
is shown by a least number for which it does not (`LeastNumber`, `FlattenLaid`). From that,
`PrintedLegible`: each block is found whole at the line with its name and ends at the next
line that is not indented (`Placed`), and there are no lines at column 0 but the heading
and those (`TopsOnly`). `OwnBlockOnly` is not inductive without the second half, `Progress`:
the current block started last and reaches to the line being read, the dict has exactly
the blocks that have started, and all that was read could be. Then an indented line says
the last word in its block (`SaysMore`), one at column 0 ends every block before it
(`SaysSame`), and a new entry says nothing but its role (`SaysNothing`). `ExactForOnePeer`
and `ResyncVisible` follow when the text is read to its end (`WholeBlock`), from what one block
tells of a key: nothing, one value, or, of several resyncs, one below 100 (`SoleSays`,
`LacksSays`, `SyncingSays`).

**Vectors.** Every board is a PromQL expression, so the proofs about boards rest on what
its operators return, stated once in `PromQLTheorems`: aggregations without a label give
one unlabelled sample or nothing (`CountOfAll`, `MaxOfAll`, ...), arithmetic pairs unlabelled
vectors and loses everything with nothing (`ScalarPlus`, ...), an aggregation by a label
has one sample for every value of that label (`MaxByLabel`, `CountRows`), a cell is the
greatest of its group (`CellOf`). Counts and sums over sets of any size need induction,
for which no installed prover can instantiate the library's theorems; `LeastSubset` takes its
place: a set of counterexamples, being well-founded under inclusion, has a least one. From
it follow the bounds of a finite set (`FiniteBounds`), that the fold behind `SumOf` exists,
is unique and may take its elements in any order (`SumExists`, `SumUnique`,
`SumWithout`), that a sum of flags is a count (`SumOfFlags`), and how the sums of two functions
compare (`SumsCompare`).

**The arms** (`NativeHaProofs`, `PacemakerProofs`, `RdqmProofs`). Each has the same three
layers. *What a run writes*: the body of a file is characterised series by series, and every
series is `Sound`, declared by the contract with these labels and with a value its panel
can take. *The invariant*: `IInv` says that all that is in any file is `Sound`, and keeps
what the cluster promises while nobody looks: for Native HA that the leader is up; for
Pacemaker that what is down holds no role and that no node has more fences than there were
events; for RDQM where a site's primary can be (`Placement`) and which faults can be there
(`Faults`). `TypeOK` and `SourceAllOrNothing` follow, since a run replaces the whole file.
*The board*: if the reports are current the union of the files is a function of the cluster, so
that each expression can be evaluated; the rows that other arms or other sites export into
the same Prometheus are shown not to meet the matchers, or, where the code has none, to be
left to the property that expects a violation. That an instance is counted once, however many nodes report
it, is `CountRows` in every arm.

**Messaging.** `FlowInv` says that the series an exporter was last seen to send are about its own
queue manager and in the range the pills expect; a scrape puts `Report` there
(`ReportSound`), every other step leaves it alone. So an expression about a queue manager
reads its own exporters and no other's (`OwnRows`), although the stacks share object names.
A pill is then never blank (`OwnRange`), and once all exporters were scraped the greatest
status is the one of the host that runs the queue manager (`StatusValue`), a part or an object
has one row or none (`OwnValue`, `ObjectValue`). The round-trip tiles are sums over the ticks of
a window; with no other stack's traffic they are the stack's own (`OwnRate`), and compare as
the ticks do (`GrowthSums`).

**Boards.** What makes the layout of any number of blocks inductive is that all panels so
far end at or above `y` (`FitsInv`). `QueueFits` and `ChannelFits` show that a block laid out
at `y` has no overlap in itself and ends where the loop's constants say; by `Below` it then
covers nothing above it. The fixed boards are one lemma each.

`IInv` and `Inductive` are also invariants of the runs `collector_cycle` and
`textfile_serial`.

**Assumptions.** They say no more than the code or the tools do: that a name is not also
another name (`NoNode`, `None`, `NoInstance` are no hosts), that a report is never equal to the
absence of one (`ReportAssumption`, `FieldAssumption`), that there are finitely many hosts and
stacks and at least one host to run on, and that storage is a pair of nodes, as DRBD's is.
`DrbdAssumption` says that the resources of a node have different names, none of which is
the heading's `#`, blank, or the mark for "no block yet".

**Model-checked only.** Liveness: `Converges`, and the counterexample to
`StalledSourceDisappears`. It is out of the proof system's reach. The counterexamples of the
other runs that expect one are TLC's too. Every invariant and every other action
property of the runs that pass is a theorem.

## 6. Not modelled

- The text of a sample line, label escaping, argument parsing, logging: no property is
  about them.
- A crash of the machine: `write_textfile` does not fsync, so after a power loss the target
  may be short. The model's file system keeps what was written.
- A wall clock that steps back.
- Of the queue-manager and messaging boards: the queries of the trend graphs, the latency
  quantiles and the queue and channel tables (their panels are placed in `Boards`). They show
  numbers as they are; the selectors they share with the pills and the strip are modelled.
  Log panels, annotations, links, titles and uids of all boards: text.
- JSON serialisation (`render.dumps`) and `config.py`, a record of settings.
- Several runs of the same collector at once (see section 4).
- The self-check of the textfile directory that the repository README announces (line 76):
  there is no code for it under `src/mqro`; a failed write only raises.
- `detect()`'s caller: nothing in the repository starts collectors from its answer, nor
  removes the textfile of a collector that a node no longer runs.

## 7. Plan

Order of the work: the path every sample takes comes first (file, run cycle), then what
decides which collector runs, then the parser two arms share, then each arm with its board.

Done: every module of section 2 and the proofs of section 5.

No proof is left over: what remains with TLC is liveness.

Next, modelling: the queries of the trend graphs, should one of them come to combine series
the way the pills do.
