---------------------------- MODULE Collector -----------------------------
(***************************************************************************)
(* One collector on one node: the run() that a timer starts over and over  *)
(* (collectors/nativeha.py, rdqm.py, cluster.py share this shape).  A run  *)
(* captures the clock, probes its sources one after the other, each        *)
(* bounded by its own timeout, parses what answered and replaces the       *)
(* textfile by the render of what it got.  A source that gave no reading   *)
(* has no section and no timestamp in the new file; a parser that raises   *)
(* ends the run and leaves the old file.                                   *)
(*                                                                         *)
(* What a source reports is a version of the state it watches: versions    *)
(* grow as the watched state changes.  Replacing the file is one step:     *)
(* Textfile shows that for runs that do not overlap.                       *)
(***************************************************************************)
EXTENDS Integers, Sequences

CONSTANTS Sources,     \* what this collector probes
          Order,       \* the order in which collect() probes them
          Timeout,     \* the timeout of each probe, in seconds
          Budget,      \* sum of the timeouts of the first j probes
          Raising,     \* sources whose parser may raise
          NoReading,   \* None: the probe gave nothing
          Garbled,     \* text the source's parser raises on
          NoFile,      \* no textfile yet
          MaxTime,     \* bound: the last second that is told apart
          MaxChanges,  \* bound: changes of the watched state
          MaxFaults    \* bound: tools that break, kills and failed writes

Slots == 1 .. Len(Order)

ASSUME CollectorAssumption ==
  /\ Order \in Seq(Sources)
  /\ Order # <<>>
  /\ \A i, j \in Slots : Order[i] = Order[j] => i = j
  /\ Timeout \in [Sources -> Nat]
  /\ Budget \in [0 .. Len(Order) -> Nat]
  /\ Budget[0] = 0
  /\ \A j \in Slots : Budget[j] = Budget[j - 1] + Timeout[Order[j]]
  /\ Raising \subseteq Sources
  /\ NoReading \notin [version : Nat, time : Nat]
  /\ Garbled \notin [version : Nat, time : Nat] \cup {NoReading}
  /\ MaxTime \in Nat /\ MaxChanges \in Nat /\ MaxFaults \in Nat

VARIABLES clock,     \* the node's wall clock
          world,     \* the current version of what each source watches
          health,    \* how each source's tool behaves now
          faults,    \* faults so far
          pc,        \* "idle", "probe" or "write"
          at,        \* the slot of Order being probed
          spent,     \* seconds the current probe has taken
          answer,    \* what the probed tool has printed, and when
          now,       \* the clock run() captured
          reading,   \* the parsed readings of this run
          file       \* the textfile

envVars == <<clock, world, health, faults>>
runVars == <<pc, at, spent, answer, now, reading, file>>
vars == <<clock, world, health, faults, pc, at, spent, answer, now, reading, file>>

\* ok: the tool answers.  down: not installed, failing or hung.  garbled: it
\* answers with malformed text.
Healths == {"ok", "down", "garbled"}
Readings == [Sources -> [version : Nat, time : Nat] \cup {NoReading}]
Blank == [s \in Sources |-> NoReading]
Current == Order[at]

Init == /\ clock = 0
        /\ world = [s \in Sources |-> 0]
        /\ health = [s \in Sources |-> "ok"]
        /\ faults = 0
        /\ pc = "idle" /\ at = 1 /\ spent = 0 /\ answer = NoReading /\ now = 0
        /\ reading = Blank
        /\ file = NoFile

---------------------------------------------------------------------------
(* The environment.                                                        *)

\* Fault variant: subprocess.run without its timeout.
TickUnbounded == /\ \/ pc = "idle" /\ UNCHANGED spent
                    \/ pc = "probe" /\ clock < MaxTime /\ spent' = spent + 1
                 /\ clock' = IF clock < MaxTime THEN clock + 1 ELSE clock
                 /\ UNCHANGED <<world, health, faults, pc, at, answer, now, reading, file>>

\* Parsing and writing take less than a second; a probe that has used its
\* timeout is over before the clock moves again.  Only the clock's reading
\* stops at the bound: time goes on in the probes, so a tool can be late
\* again and again for ever.
Tick == /\ \/ pc = "idle" /\ UNCHANGED spent
           \/ /\ pc = "probe"
              /\ spent < Timeout[Current]
              /\ spent' = spent + 1
        /\ clock' = IF clock < MaxTime THEN clock + 1 ELSE clock
        /\ UNCHANGED <<world, health, faults, pc, at, answer, now, reading, file>>

Change(s) == /\ world[s] < MaxChanges
             /\ world' = [world EXCEPT ![s] = @ + 1]
             /\ UNCHANGED <<clock, health, faults>>
             /\ UNCHANGED runVars

\* A tool breaks or recovers; breaking counts as a fault.
Sicken(s, h) == /\ h # health[s]
                /\ faults < MaxFaults \/ h = "ok"
                /\ health' = [health EXCEPT ![s] = h]
                /\ faults' = IF h = "ok" THEN faults ELSE faults + 1
                /\ UNCHANGED <<clock, world>>
                /\ UNCHANGED runVars

\* The tool writes its report: the state as it is at this moment.  A parser
\* that never raises makes what it can of malformed text.
Answer == /\ pc = "probe"
          /\ answer = NoReading
          /\ health[Current] # "down"
          /\ answer' = IF health[Current] = "garbled" /\ Current \in Raising
                       THEN Garbled
                       ELSE [version |-> world[Current], time |-> clock]
          /\ UNCHANGED <<pc, at, spent, now, reading, file>>
          /\ UNCHANGED envVars

---------------------------------------------------------------------------
(* The run.  Its locals are blank between runs.                            *)

\* Fault variant: the clock is captured when the run is under way.
StartLate == /\ pc = "idle"
             /\ pc' = "probe"
             /\ now' = clock + 1
             /\ UNCHANGED <<at, spent, answer, reading, file>>
             /\ UNCHANGED envVars

\* run(): the clock is captured before anything is probed.
Start == /\ pc = "idle"
         /\ pc' = "probe"
         /\ now' = clock
         /\ UNCHANGED <<at, spent, answer, reading, file>>
         /\ UNCHANGED envVars

\* Fault variant: one probe too many.
AdvanceTooFar == /\ IF at > Len(Order) THEN pc' = "write" /\ UNCHANGED at
                    ELSE at' = at + 1 /\ UNCHANGED pc
                 /\ answer' = NoReading
                 /\ spent' = 0

\* On to the next probe, or to the write after the last one.
Advance == /\ IF at = Len(Order) THEN pc' = "write" /\ UNCHANGED at
              ELSE at' = at + 1 /\ UNCHANGED pc
           /\ answer' = NoReading
           /\ spent' = 0

\* Fault variant: a run that ends badly leaves its readings to the next one.
ReturnKeepingReadings ==
  /\ pc' = "idle" /\ at' = 1 /\ spent' = 0 /\ answer' = NoReading /\ now' = 0
  /\ UNCHANGED reading

\* run() returns or raises, and its locals go.
Return == /\ pc' = "idle" /\ at' = 1 /\ spent' = 0 /\ answer' = NoReading /\ now' = 0
          /\ reading' = Blank

\* probe() returned text and the parser accepted it.
ProbeReads == /\ pc = "probe"
              /\ answer \notin {NoReading, Garbled}
              /\ reading' = [reading EXCEPT ![Current] = answer]
              /\ Advance
              /\ UNCHANGED <<now, file>>
              /\ UNCHANGED envVars

\* Fault variant: a failed probe ends the run.
ProbeFailureEndsRun ==
  /\ pc = "probe"
  /\ health[Current] = "down" \/ spent = Timeout[Current]
  /\ Return
  /\ UNCHANGED <<clock, world, health, faults, file>>

\* probe() returned None: a nonzero exit or a missing binary at any time, or
\* the timeout, which a tool that is merely slow can also meet.
ProbeFails == /\ pc = "probe"
              /\ health[Current] = "down" \/ spent = Timeout[Current]
              /\ Advance
              /\ UNCHANGED <<now, reading, file>>
              /\ UNCHANGED envVars

\* The parser raises: run() ends before it writes.
ParseRaises == /\ pc = "probe"
               /\ answer = Garbled
               /\ Return
               /\ UNCHANGED file
               /\ UNCHANGED envVars

\* write_textfile replaces the file by this run's render.
Publish == /\ pc = "write"
           /\ file' = [now |-> now, reading |-> reading]
           /\ Return
           /\ UNCHANGED envVars

\* The process is killed, or write_textfile raises: the old file stays.
Abort == /\ pc # "idle"
         /\ faults < MaxFaults
         /\ faults' = faults + 1
         /\ Return
         /\ UNCHANGED <<clock, world, health, file>>

Run == Start \/ ProbeReads \/ ProbeFails \/ ParseRaises \/ Publish

Next == \/ Tick \/ Answer \/ Run \/ Abort
        \/ \E s \in Sources : Change(s) \/ \E h \in Healths : Sicken(s, h)

\* The timer keeps starting runs, a run keeps executing, a tool that is not
\* down eventually prints its report.
Fairness == WF_vars(Run) /\ WF_vars(Answer)

Spec == Init /\ [][Next]_vars /\ Fairness

---------------------------------------------------------------------------
TypeOK ==
  /\ clock \in 0 .. MaxTime
  /\ world \in [Sources -> Nat]
  /\ health \in [Sources -> Healths]
  /\ faults \in Nat
  /\ pc \in {"idle", "probe", "write"}
  /\ at \in Slots
  /\ spent \in Nat
  /\ answer \in [version : Nat, time : Nat] \cup {NoReading, Garbled}
  /\ now \in Nat
  /\ reading \in Readings
  /\ file = NoFile \/ file \in [now : Nat, reading : Readings]

\* The timestamp a source carries never claims more freshness than its
\* reading has, and understates it by at most the timeouts of the probes up
\* to that one: a run that stalls in an earlier probe cannot pass an old
\* reading off as new.
StampHonest ==
  file # NoFile =>
    \A j \in Slots : file.reading[Order[j]] # NoReading =>
      /\ file.now <= file.reading[Order[j]].time
      /\ file.reading[Order[j]].time <= file.now + Budget[j]

\* A file is at most the sum of all timeouts old when it appears.
PublishedInTime ==
  [][file' # file => clock <= file'.now + Budget[Len(Order)]]_vars

Settled == \A s \in Sources : health[s] # "garbled"
Mirrors(s) ==
  /\ file # NoFile
  /\ IF health[s] = "down" THEN file.reading[s] = NoReading
     ELSE file.reading[s] # NoReading /\ file.reading[s].version = world[s]

\* A tool that would answer is cut off by its timeout (base.py:58).
Late(s) == ProbeFails /\ Current = s /\ health[s] = "ok"

\* From some moment on nothing changes, breaks or is killed, and the tool of s
\* is never again late when it is probed.
QuietFor(s) ==
  /\ <>[]Settled
  /\ <>[][UNCHANGED <<world, health, faults>> /\ ~Late(s)]_vars

\* What no bound and no fairness can give is asked of the environment: once
\* no tool prints malformed text, nothing changes and the tool of s is never
\* late again, the file comes to show exactly the reading s has, and stays so,
\* even if every other tool is late in every run.  No earlier kill, failed
\* write or garbled report wedges the collector.
Converges == \A s \in Sources : QuietFor(s) => <>[]Mirrors(s)

\* A source that is down for good disappears from the file, whatever the
\* other sources print: "a stalled source stops appearing" (contract.py).
StalledSourceDisappears ==
  \A s \in Sources :
    <>[](health[s] = "down") => <>[](file # NoFile => file.reading[s] = NoReading)

---------------------------------------------------------------------------
\* Where a run stands against its budget; the readings it holds; inductive.
RunInBudget ==
  /\ pc = "probe" => /\ spent <= Timeout[Current]
                     /\ now <= clock
                     /\ clock <= now + Budget[at - 1] + spent
  /\ pc = "write" => now <= clock /\ clock <= now + Budget[Len(Order)]
ReadingsInBudget ==
  pc # "idle" => \A j \in Slots : reading[Order[j]] # NoReading =>
    /\ pc = "probe" => j < at
    /\ now <= reading[Order[j]].time
    /\ reading[Order[j]].time <= now + Budget[j]
AnswerInBudget ==
  pc = "probe" /\ answer \notin {NoReading, Garbled} => now <= answer.time /\ answer.time <= now + Budget[at]

IdleIsBlank ==
  pc = "idle" => at = 1 /\ spent = 0 /\ answer = NoReading /\ reading = Blank

IInv == IdleIsBlank /\ RunInBudget /\ ReadingsInBudget /\ AnswerInBudget /\ StampHonest
=============================================================================
