------------------------------ MODULE Detect ------------------------------
(***************************************************************************)
(* detect.py: which collectors a node runs.  An override is taken as it    *)
(* is; otherwise three probes look at the node one after the other and     *)
(* resolve() picks a collector by precedence, or detection fails loud.     *)
(* The node is not frozen meanwhile: software comes and goes between two   *)
(* looks, and a tool that is there may miss its timeout.                   *)
(***************************************************************************)
EXTENDS Naturals

CONSTANTS RDQM, NATIVEHA, PACEMAKER,  \* the collectors (class Collector)
          NoOverride,                 \* detect() called without override
          Pending, Unresolvable,      \* detection not over; it raised
          MaxChanges                  \* bound: changes of the node's software

Collectors == {RDQM, NATIVEHA, PACEMAKER}

ASSUME DetectAssumption ==
  /\ RDQM # NATIVEHA /\ RDQM # PACEMAKER /\ NATIVEHA # PACEMAKER
  /\ Pending # Unresolvable /\ NoOverride # Pending /\ NoOverride # Unresolvable
  /\ \A chosen \in SUBSET Collectors : chosen \notin {NoOverride, Pending, Unresolvable}
  /\ MaxChanges \in Nat

VARIABLES stack,     \* what the node runs: each technology, present or not
          changes,   \* how often the stack has changed
          override,  \* the operator's choice
          pc,        \* the next thing detect() does
          probes,    \* what the probes so far have determined
          late,      \* has a tool missed its timeout?
          result,    \* what detect() returned, or that it raised
          had       \* the stacks the node had while detect() ran

detectVars == <<stack, changes, override, pc, probes, late, result, had>>

Software == [Collectors -> BOOLEAN]
Unprobed == [c \in Collectors |-> FALSE]   \* None: not claimed either

\* Fault variants: falling off the end returns None; guessing instead of
\* raising.
ResolveFallsThrough(p) ==
  IF p[RDQM] THEN {RDQM}
  ELSE IF p[NATIVEHA] THEN {NATIVEHA}
  ELSE IF p[PACEMAKER] THEN {PACEMAKER}
  ELSE NoOverride

ResolveGuesses(p) == IF p[RDQM] THEN {RDQM}
                     ELSE IF p[NATIVEHA] THEN {NATIVEHA}
                     ELSE {PACEMAKER}

\* resolve(): precedence and exclusion.
Resolve(p) == IF p[RDQM] THEN {RDQM}
              ELSE IF p[NATIVEHA] THEN {NATIVEHA}
              ELSE IF p[PACEMAKER] THEN {PACEMAKER}
              ELSE Unresolvable

DetectInit == /\ stack \in Software
              /\ changes = 0
              /\ override \in {NoOverride} \cup SUBSET Collectors
              /\ pc = "detect"
              /\ probes = Unprobed
              /\ late = FALSE
              /\ result = Pending
              /\ had = {stack}

---------------------------------------------------------------------------
\* A technology is installed, removed, configured or stopped.
ChangeStack(c) == /\ result = Pending
                  /\ changes < MaxChanges
                  /\ changes' = changes + 1
                  /\ stack' = [stack EXCEPT ![c] = ~@]
                  /\ had' = had \cup {stack'}
                  /\ UNCHANGED <<override, pc, probes, late, result>>

\* A probe has looked: it saw what is there, or missed it for being late.
Probed(c, there, answer, next) ==
  /\ probes' = [probes EXCEPT ![c] = answer]
  /\ late' = (late \/ answer # there)
  /\ pc' = next
  /\ UNCHANGED <<stack, changes, override, result, had>>

\* detect(): an override, the empty set too, ends detection before any probe.
Detect ==
  /\ pc = "detect"
  /\ IF override # NoOverride
     THEN result' = override /\ pc' = "done"
     ELSE pc' = "rdqm" /\ UNCHANGED result
  /\ UNCHANGED <<stack, changes, override, probes, late, had>>

\* Fault variant: RDQM is recognised by a command that can time out.
ProbeRdqmByCommand == /\ pc = "rdqm"
                      /\ \E answer \in {stack[RDQM], FALSE} :
                           Probed(RDQM, stack[RDQM], answer, "nativeha")

\* probe_rdqm: is the rdqmstatus binary there?
ProbeRdqm == /\ pc = "rdqm"
             /\ Probed(RDQM, stack[RDQM], stack[RDQM], "nativeha")

\* probe_nativeha: dspmq answers in time, or does not.
ProbeNativeHa == /\ pc = "nativeha"
                 /\ \E answer \in {stack[NATIVEHA], FALSE} :
                      Probed(NATIVEHA, stack[NATIVEHA], answer, "pacemaker")

\* probe_pacemaker looks for the RDQM binary a second time ...
ProbePacemaker == /\ pc = "pacemaker"
                  /\ Probed(PACEMAKER, FALSE, FALSE, IF stack[RDQM] THEN "resolve" ELSE "crm_mon")

\* Fault variant: the exclusion of RDQM is the only thing looked at.
ProbeCrmMonBlind == /\ pc = "crm_mon"
                    /\ Probed(PACEMAKER, TRUE, TRUE, "resolve")

\* ... and only then runs crm_mon, which RDQM's own Pacemaker answers too.
ProbeCrmMon == /\ pc = "crm_mon"
               /\ LET there == stack[PACEMAKER] \/ stack[RDQM] IN
                  \E answer \in {there, FALSE} : Probed(PACEMAKER, there, answer, "resolve")

ResolveProbes == /\ pc = "resolve"
                 /\ result' = Resolve(probes)
                 /\ pc' = "done"
                 /\ UNCHANGED <<stack, changes, override, probes, late, had>>

DetectNext == \/ Detect \/ ProbeRdqm \/ ProbeNativeHa \/ ProbePacemaker \/ ProbeCrmMon
              \/ ResolveProbes
              \/ \E c \in Collectors : ChangeStack(c)

DetectSpec == DetectInit /\ [][DetectNext]_detectVars

---------------------------------------------------------------------------
TypeOK ==
  /\ stack \in Software
  /\ changes \in 0 .. MaxChanges
  /\ override \in {NoOverride} \cup SUBSET Collectors
  /\ pc \in {"detect", "rdqm", "nativeha", "pacemaker", "crm_mon", "resolve", "done"}
  /\ probes \in Software
  /\ late \in BOOLEAN
  /\ \/ result \in {Pending, Unresolvable}
     \/ \E chosen \in SUBSET Collectors : result = chosen
  /\ result # Pending <=> pc = "done"
  /\ had \subseteq Software /\ stack \in had

Automatic == override = NoOverride /\ result # Pending

\* The node had the RDQM tooling whenever detect() could look.
RdqmThroughout == \A s \in had : s[RDQM]

\* A node that has the RDQM tooling all along is an RDQM node and nothing
\* else, whatever times out and whatever else changes: "an RDQM node ...
\* activates rdqmstate ALONE" (detect.py:29-31).
RdqmNodeIsRdqm ==
  Automatic /\ RdqmThroughout => result = {RDQM}

\* A collector is never activated for a technology the node did not have at
\* any moment of the detection.  The one way round it is real: the generic
\* collector on RDQM's own Pacemaker, which takes an RDQM installation that
\* comes or goes while detect() runs.
OnlyWhatIsThere ==
  Automatic /\ result # Unresolvable =>
    \A c \in result : \/ \E s \in had : s[c]
                      \/ /\ c = PACEMAKER
                         /\ \E s, t \in had : s[RDQM] /\ ~t[RDQM]

\* A node whose software holds still and whose tools answer in time gets
\* exactly the collector of its stack by precedence, and raises only if it
\* has none: "Fail loud only on genuinely unresolvable stacks" (detect.py:21).
\* Each of the two conditions is needed.
StillStackResolved ==
  Automatic /\ changes = 0 /\ ~late =>
    IF \A c \in Collectors : ~stack[c] THEN result = Unresolvable
    ELSE \E c \in Collectors :
           /\ stack[c] /\ result = {c}
           /\ stack[RDQM] => c = RDQM
           /\ c = PACEMAKER => ~stack[NATIVEHA]
=============================================================================
