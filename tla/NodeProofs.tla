----------------------------- MODULE NodeProofs -----------------------------
(***************************************************************************)
(* The two programs of a node that keep no state from run to run, for      *)
(* every value of the constants: detection, however often the stack        *)
(* changes under it, and the parser of DRBD's status, for any list of      *)
(* resources with any number of peers.                                     *)
(***************************************************************************)
EXTENDS Detect, DrbdStatus, WellFoundedInduction, SequenceTheorems, TLAPS

---------------------------------------------------------------------------
(* Detection.                                                              *)

\* While detect() runs without override on a node that keeps its RDQM
\* tooling, the RDQM probe, once made, has claimed the node, and whatever is
\* returned is RDQM alone.
RdqmClaimed ==
  override = NoOverride /\ RdqmThroughout =>
    /\ pc \notin {"detect", "rdqm"} => probes[RDQM]
    /\ result \in {Pending, {RDQM}}

IInv == TypeOK /\ RdqmClaimed

\* Every state of a detection is well typed; changes are capped and a
\* detection is over exactly when it has a result.
LEMMA TypeStep == ASSUME TypeOK, [DetectNext]_detectVars PROVE TypeOK'
<1> USE DetectAssumption DEF TypeOK, Software, Collectors
<1>1. CASE UNCHANGED detectVars BY <1>1 DEF detectVars
<1>2. CASE Detect BY <1>2 DEF Detect
<1>3. CASE ProbeRdqm BY <1>3 DEF ProbeRdqm, Probed
<1>4. CASE ProbeNativeHa BY <1>4 DEF ProbeNativeHa, Probed
<1>5. CASE ProbePacemaker BY <1>5 DEF ProbePacemaker, Probed
<1>6. CASE ProbeCrmMon
  <2>1. PICK answer \in BOOLEAN :
          Probed(PACEMAKER, stack[PACEMAKER] \/ stack[RDQM], answer, "resolve")
    BY <1>6 DEF ProbeCrmMon
  <2>2. probes' = [probes EXCEPT ![PACEMAKER] = answer] BY <2>1 DEF Probed
  <2>3. probes' \in Software BY <2>2, Zenon
  <2>. QED BY <2>1, <2>3, <1>6 DEF Probed, ProbeCrmMon
<1>7. CASE ResolveProbes
  <2>1. Resolve(probes) = Unresolvable \/ \E chosen \in SUBSET Collectors : Resolve(probes) = chosen
    BY DEF Resolve
  <2>2. Resolve(probes) # Pending
    BY <2>1
  <2>. QED BY <1>7, <2>1, <2>2 DEF ResolveProbes
<1>8. ASSUME NEW c \in Collectors, ChangeStack(c) PROVE TypeOK'
  <2>1. stack' = [stack EXCEPT ![c] = ~stack[c]] BY <1>8 DEF ChangeStack
  <2>2. (~stack[c]) \in BOOLEAN BY Zenon
  <2>3. stack' \in Software BY <2>1, <2>2, Zenon
  <2>4. changes' \in 0 .. MaxChanges BY <1>8 DEF ChangeStack
  <2>. QED BY <1>8, <2>3, <2>4 DEF ChangeStack
<1>. QED BY <1>1, <1>2, <1>3, <1>4, <1>5, <1>6, <1>7, <1>8 DEF DetectNext

\* No step takes the claim of the RDQM probe back: the stacks seen only grow,
\* so a node that has had the tooling throughout had it at the probe.
LEMMA ClaimStep == ASSUME IInv, [DetectNext]_detectVars PROVE RdqmClaimed'
<1> USE DetectAssumption DEF IInv, RdqmClaimed, RdqmThroughout
<1>1. CASE UNCHANGED detectVars BY <1>1 DEF detectVars
<1>2. CASE Detect BY <1>2 DEF Detect, TypeOK
<1>3. CASE ProbeRdqm
  <2>1. RdqmThroughout => stack[RDQM] BY DEF TypeOK
  <2>2. probes'[RDQM] = stack[RDQM]
    BY <1>3 DEF ProbeRdqm, Probed, TypeOK, Software, Collectors
  <2>3. UNCHANGED <<stack, override, result, had>> BY <1>3 DEF ProbeRdqm, Probed
  <2>. QED BY <2>1, <2>2, <2>3
<1>4. CASE ProbeNativeHa \/ ProbePacemaker \/ ProbeCrmMon
  <2>1. RDQM # NATIVEHA /\ RDQM # PACEMAKER
    BY DetectAssumption
  <2>2. pc \notin {"detect", "rdqm"}
    BY <1>4 DEF ProbeNativeHa, ProbePacemaker, ProbeCrmMon
  <2>3. probes'[RDQM] = probes[RDQM]
    BY <1>4, <2>1 DEF ProbeNativeHa, ProbePacemaker, ProbeCrmMon, Probed, TypeOK, Software, Collectors
  <2>4. UNCHANGED <<stack, override, result, had>>
    BY <1>4 DEF ProbeNativeHa, ProbePacemaker, ProbeCrmMon, Probed
  <2>. QED BY <2>2, <2>3, <2>4
<1>5. CASE ResolveProbes BY <1>5 DEF ResolveProbes, Resolve
<1>6. ASSUME NEW c \in Collectors, ChangeStack(c) PROVE RdqmClaimed'
  BY <1>6 DEF ChangeStack
<1>. QED BY <1>1, <1>2, <1>3, <1>4, <1>5, <1>6 DEF DetectNext

\* A detection starts well typed.
LEMMA TypeInit == DetectInit => TypeOK
<1> SUFFICES ASSUME DetectInit PROVE TypeOK OBVIOUS
<1>1. probes \in Software /\ late \in BOOLEAN BY Zenon DEF DetectInit, Software, Unprobed
<1>2. changes \in 0 .. MaxChanges BY DetectAssumption DEF DetectInit
<1>3. result = Pending /\ pc = "detect" BY DEF DetectInit
<1>. QED BY <1>1, <1>2, <1>3 DEF DetectInit, TypeOK

\* Every state of a detection is well typed.
THEOREM TypeCorrect == DetectSpec => []TypeOK
<1>1. TypeOK /\ [DetectNext]_detectVars => TypeOK' BY TypeStep
<1>. QED BY <1>1, TypeInit, PTL DEF DetectSpec

\* A node that keeps its RDQM tooling while detect() runs gets the RDQM
\* collector and nothing else, for any number of other changes and whichever
\* probes time out.
THEOREM RdqmNodesRunRdqmAlone == DetectSpec => []RdqmNodeIsRdqm
<1>1. DetectInit => IInv BY TypeInit DEF DetectInit, IInv, RdqmClaimed
<1>2. IInv /\ [DetectNext]_detectVars => IInv' BY TypeStep, ClaimStep DEF IInv
<1>3. IInv => RdqmNodeIsRdqm
  BY DEF IInv, RdqmClaimed, RdqmNodeIsRdqm, Automatic
<1>. QED BY <1>1, <1>2, <1>3, PTL DEF DetectSpec

---------------------------------------------------------------------------
\* A claim for c has a cause among the stacks seen: the technology itself or,
\* for the generic collector, an RDQM installation that came or went.
Caused(c) == \/ \E s \in had : s[c]
             \/ /\ c = PACEMAKER
                /\ \E s, t \in had : s[RDQM] /\ ~t[RDQM]

ClaimsCaused ==
  /\ \A c \in Collectors : probes[c] => Caused(c)
  /\ pc = "crm_mon" => \E t \in had : ~t[RDQM]
  /\ Automatic /\ result # Unresolvable => \A c \in result : Caused(c)

\* No step leaves a claim without its cause: crm_mon runs only after a look
\* that found no RDQM tooling, and the stacks seen are never forgotten.
LEMMA CausedStep == ASSUME TypeOK, ClaimsCaused, [DetectNext]_detectVars PROVE ClaimsCaused'
<1> USE DetectAssumption DEF ClaimsCaused, Automatic
<1>0. RDQM # NATIVEHA /\ RDQM # PACEMAKER /\ NATIVEHA # PACEMAKER /\ Unresolvable # Pending
  BY DetectAssumption
<1>1. CASE UNCHANGED detectVars BY <1>1 DEF detectVars, Caused
<1>2. CASE Detect BY <1>2 DEF Detect, TypeOK, Caused
<1>3. ASSUME NEW c \in Collectors, NEW answer \in BOOLEAN, NEW there, NEW next,
             Probed(c, there, answer, next), pc # "done", next # "done",
             next = "crm_mon" => \E t \in had : ~t[RDQM],
             answer => Caused(c)
      PROVE  ClaimsCaused'
  <2>1. probes' = [probes EXCEPT ![c] = answer] /\ had' = had /\ pc' = next /\ result' = result
    BY <1>3 DEF Probed
  <2>2. \A d \in Collectors : Caused(d)' <=> Caused(d)
    BY <2>1 DEF Caused
  <2>3. \A d \in Collectors : probes'[d] => (d = c /\ answer) \/ probes[d]
    BY <2>1 DEF TypeOK, Software
  <2>4. result = Pending
    BY <1>3 DEF TypeOK
  <2>. QED BY <2>1, <2>2, <2>3, <2>4, <1>3
<1>4. CASE ProbeRdqm
  <2>1. stack[RDQM] \in BOOLEAN /\ stack \in had /\ RDQM \in Collectors
    BY DEF TypeOK, Software, Collectors
  <2>2. stack[RDQM] => Caused(RDQM)
    BY <2>1 DEF Caused
  <2>3. Probed(RDQM, stack[RDQM], stack[RDQM], "nativeha") /\ pc = "rdqm"
    BY <1>4 DEF ProbeRdqm
  <2>. QED BY <1>3, <2>1, <2>2, <2>3
<1>5. CASE ProbeNativeHa
  <2>1. stack[NATIVEHA] \in BOOLEAN /\ stack \in had /\ NATIVEHA \in Collectors
    BY DEF TypeOK, Software, Collectors
  <2>2. PICK answer \in {stack[NATIVEHA], FALSE} : Probed(NATIVEHA, stack[NATIVEHA], answer, "pacemaker")
    BY <1>5 DEF ProbeNativeHa
  <2>3. answer => Caused(NATIVEHA)
    BY <2>1, <2>2 DEF Caused
  <2>4. answer \in BOOLEAN /\ pc = "nativeha"
    BY <1>5, <2>1, <2>2 DEF ProbeNativeHa
  <2>. QED BY <1>3, <2>1, <2>2, <2>3, <2>4
<1>6. CASE ProbePacemaker
  <2>1. stack \in had /\ PACEMAKER \in Collectors
    BY DEF TypeOK, Collectors
  <2>2. PICK next : /\ next = IF stack[RDQM] THEN "resolve" ELSE "crm_mon"
                    /\ Probed(PACEMAKER, FALSE, FALSE, next)
    BY <1>6 DEF ProbePacemaker
  <2>3. next = "crm_mon" => \E t \in had : ~t[RDQM]
    BY <2>1, <2>2
  <2>. QED BY <1>3, <1>6, <2>1, <2>2, <2>3 DEF ProbePacemaker
<1>7. CASE ProbeCrmMon
  <2>1. stack \in had /\ PACEMAKER \in Collectors /\ stack[PACEMAKER] \in BOOLEAN /\ stack[RDQM] \in BOOLEAN
    BY DEF TypeOK, Software, Collectors
  <2>2. PICK there, answer \in BOOLEAN : /\ there = (stack[PACEMAKER] \/ stack[RDQM])
                                         /\ answer \in {there, FALSE}
                                         /\ Probed(PACEMAKER, there, answer, "resolve")
    BY <1>7, <2>1 DEF ProbeCrmMon
  <2>3. \E t \in had : ~t[RDQM]
    BY <1>7 DEF ProbeCrmMon
  <2>4. answer => Caused(PACEMAKER)
    BY <2>1, <2>2, <2>3 DEF Caused
  <2>. QED BY <1>3, <1>7, <2>1, <2>2, <2>4 DEF ProbeCrmMon
<1>8. CASE ResolveProbes
  <2>1. /\ result' = Resolve(probes) /\ pc' = "done"
        /\ UNCHANGED <<override, probes, had>>
    BY <1>8 DEF ResolveProbes
  <2>2. \/ result' = Unresolvable
        \/ \E c \in Collectors : probes[c] /\ result' = {c}
    BY <2>1 DEF Resolve, Collectors
  <2>. QED BY <2>1, <2>2 DEF Caused
<1>9. ASSUME NEW c \in Collectors, ChangeStack(c) PROVE ClaimsCaused'
  <2>1. had \subseteq had' /\ UNCHANGED <<override, pc, probes, result>>
    BY <1>9 DEF ChangeStack
  <2>2. \A d : Caused(d) => Caused(d)'
    BY <2>1 DEF Caused
  <2>. QED BY <2>1, <2>2
<1>. QED BY <1>1, <1>2, <1>4, <1>5, <1>6, <1>7, <1>8, <1>9 DEF DetectNext

\* Detection without override never activates a collector for a technology
\* the node did not have at some moment of it, but for the generic collector
\* on an RDQM installation that came or went between two looks.
THEOREM NothingAbsentIsActivated == DetectSpec => []OnlyWhatIsThere
<1>1. DetectInit => ClaimsCaused
  BY DetectAssumption DEF DetectInit, ClaimsCaused, Automatic, Unprobed, Collectors
<1>2. ClaimsCaused => OnlyWhatIsThere
  BY DEF ClaimsCaused, OnlyWhatIsThere, Caused
<1>. QED BY <1>1, <1>2, CausedStep, TypeCorrect, PTL DEF DetectSpec

---------------------------------------------------------------------------
\* While the node holds still and its tools answer in time, each probe that
\* has been made says what the node runs; Pacemaker's is left unasked on an
\* RDQM node.
StillProbes ==
  override = NoOverride /\ changes = 0 /\ ~late =>
    /\ pc \notin {"detect", "rdqm"} => probes[RDQM] = stack[RDQM]
    /\ pc \in {"pacemaker", "crm_mon", "resolve", "done"} => probes[NATIVEHA] = stack[NATIVEHA]
    /\ pc = "crm_mon" => ~stack[RDQM]
    /\ pc \in {"resolve", "done"} => stack[RDQM] \/ probes[PACEMAKER] = stack[PACEMAKER]
    /\ pc = "done" => result = Resolve(probes)

\* No step spoils that: a change of the node or a late tool is remembered,
\* and what a probe writes it has just looked at.
LEMMA StillStep == ASSUME TypeOK, StillProbes, [DetectNext]_detectVars PROVE StillProbes'
<1> USE DEF StillProbes
<1>0. RDQM # NATIVEHA /\ RDQM # PACEMAKER /\ NATIVEHA # PACEMAKER
  BY DetectAssumption
<1>1. CASE UNCHANGED detectVars BY <1>1 DEF detectVars, Resolve
<1>2. CASE Detect BY <1>2 DEF Detect
<1>3. ASSUME NEW c \in Collectors, NEW there, NEW answer, NEW next,
             Probed(c, there, answer, next)
      PROVE  /\ ~late' => ~late /\ answer = there
             /\ probes'[c] = answer
             /\ \A d \in Collectors \ {c} : probes'[d] = probes[d]
             /\ pc' = next /\ UNCHANGED <<stack, changes, override, result>>
  BY <1>3 DEF Probed, TypeOK, Software
<1>4. CASE ProbeRdqm
  BY <1>0, <1>3, <1>4 DEF ProbeRdqm, Collectors
<1>5. CASE ProbeNativeHa
  <2>1. PICK answer \in {stack[NATIVEHA], FALSE} : Probed(NATIVEHA, stack[NATIVEHA], answer, "pacemaker")
    BY <1>5 DEF ProbeNativeHa
  <2>. QED BY <1>0, <1>3, <1>5, <2>1 DEF ProbeNativeHa, Collectors
<1>6. CASE ProbePacemaker
  <2>1. PICK next : /\ next = IF stack[RDQM] THEN "resolve" ELSE "crm_mon"
                    /\ Probed(PACEMAKER, FALSE, FALSE, next)
    BY <1>6 DEF ProbePacemaker
  <2>2. pc = "pacemaker" /\ PACEMAKER \in Collectors
    BY <1>6 DEF ProbePacemaker, Collectors
  <2>3. /\ ~late' => ~late
        /\ \A d \in Collectors \ {PACEMAKER} : probes'[d] = probes[d]
        /\ pc' = next /\ UNCHANGED <<stack, changes, override, result>>
    BY <1>3, <2>1, <2>2
  <2>. QED BY <1>0, <2>1, <2>2, <2>3 DEF Collectors
<1>7. CASE ProbeCrmMon
  <2>1. PICK there, answer : /\ there = (stack[PACEMAKER] \/ stack[RDQM])
                             /\ Probed(PACEMAKER, there, answer, "resolve")
    BY <1>7 DEF ProbeCrmMon
  <2>2. stack[PACEMAKER] \in BOOLEAN
    BY DEF TypeOK, Software, Collectors
  <2>3. pc = "crm_mon"
    BY <1>7 DEF ProbeCrmMon
  <2>. QED BY <1>0, <1>3, <2>1, <2>2, <2>3 DEF Collectors
<1>8. CASE ResolveProbes BY <1>8 DEF ResolveProbes, Resolve
<1>9. ASSUME NEW c \in Collectors, ChangeStack(c) PROVE StillProbes'
  BY <1>9 DEF ChangeStack, TypeOK
<1>. QED BY <1>1, <1>2, <1>4, <1>5, <1>6, <1>7, <1>8, <1>9 DEF DetectNext

\* A node that holds still under tools that answer in time gets the collector
\* of its stack by precedence, and detection raises only if it has none.
THEOREM StillNodesResolve == DetectSpec => []StillStackResolved
<1>1. DetectInit => StillProbes
  BY DEF DetectInit, StillProbes
<1>2. TypeOK /\ StillProbes => StillStackResolved
  BY DetectAssumption
     DEF TypeOK, Software, StillProbes, StillStackResolved, Automatic, Resolve, Collectors
<1>. QED BY <1>1, <1>2, StillStep, TypeCorrect, PTL DEF DetectSpec

---------------------------------------------------------------------------
(* Texts laid end to end.                                                  *)

\* A set of naturals has a least one: a least counterexample takes the place
\* of induction over the numbers.
LEMMA LeastNumber ==
  ASSUME NEW T \in SUBSET Nat, T # {}
  PROVE  \E n \in T : \A m \in T : n <= m
<1> DEFINE R == OpToRel(<, Nat)
<1>1. IsWellFoundedOn(R, Nat)
  BY NatLessThanWellFounded, Zenon
<1>2. \A m \in Nat, n \in Nat : m < n => <<m, n>> \in R
  BY Zenon DEF OpToRel
<1> HIDE DEF R
<1>3. PICK n \in T : \A m \in T : <<m, n>> \notin R
  BY <1>1, WFMin, Zenon
<1>4. n \in Nat /\ \A m \in T : m \in Nat /\ ~(m < n)
  BY <1>2, <1>3
<1> QED BY <1>3, <1>4

\* What FlattenSeq builds on the way.
IsFlat(f, ss, n) == f = [i \in 1 .. n |-> IF i = 1 THEN ss[i] ELSE f[i - 1] \o ss[i]]

LEMMA FlatExists ==
  ASSUME NEW ss, NEW n \in Nat
  PROVE  \E f : IsFlat(f, ss, n)
<1> DEFINE Bad == {m \in Nat : ~\E f : IsFlat(f, ss, m)}
<1>1. Bad = {}
  <2> SUFFICES ASSUME Bad # {} PROVE FALSE
    OBVIOUS
  <2>1. PICK m \in Bad : \A k \in Bad : m <= k
    BY LeastNumber
  <2>2. m \in Nat /\ ~\E f : IsFlat(f, ss, m)
    OBVIOUS
  <2>3. CASE m = 0
    <3>1. IsFlat(<<>>, ss, 0)
      BY DEF IsFlat
    <3> QED BY <2>2, <2>3, <3>1
  <2>4. CASE m # 0
    <3>1. PICK f : IsFlat(f, ss, m - 1)
      BY <2>1, <2>2, <2>4
    <3> DEFINE g == [i \in 1 .. m |-> IF i = m THEN IF m = 1 THEN ss[m] ELSE f[m - 1] \o ss[m] ELSE f[i]]
    <3>2. \A i \in 1 .. m - 1 : f[i] = IF i = 1 THEN ss[i] ELSE f[i - 1] \o ss[i]
      BY <3>1 DEF IsFlat
    <3>3. \A i \in 1 .. m : g[i] = IF i = 1 THEN ss[i] ELSE g[i - 1] \o ss[i]
      <4> TAKE i \in 1 .. m
      <4>1. CASE i = m
        BY <2>2, <4>1
      <4>2. CASE i # m
        <5>1. i \in 1 .. m - 1 /\ (i # 1 => i - 1 \in 1 .. m /\ i - 1 # m)
          BY <2>2, <4>2
        <5> QED BY <3>2, <4>2, <5>1
      <4> QED BY <4>1, <4>2
    <3>4. g = [i \in 1 .. m |-> g[i]]
      OBVIOUS
    <3> HIDE DEF g
    <3>5. IsFlat(g, ss, m)
      BY <3>3, <3>4, Zenon DEF IsFlat
    <3> QED BY <2>2, <3>5
  <2> QED BY <2>3, <2>4
<1> QED BY <1>1

LEMMA FlattenIsFlat ==
  ASSUME NEW ss, Len(ss) \in Nat \ {0}
  PROVE  \E f : IsFlat(f, ss, Len(ss)) /\ FlattenSeq(ss) = f[Len(ss)]
<1> DEFINE f == CHOOSE g : IsFlat(g, ss, Len(ss))
<1>1. IsFlat(f, ss, Len(ss))
  BY FlatExists
<1>2. FlattenSeq(ss) = f[Len(ss)]
  BY DEF FlattenSeq, IsFlat
<1> QED BY <1>1, <1>2

\* t is the sequence of the ss, the i-th of them from at[i - 1] + 1 to at[i].
Laid(t, ss, at) ==
  /\ at \in [0 .. Len(ss) -> Nat] /\ at[0] = 0 /\ at[Len(ss)] = Len(t)
  /\ \A i \in 1 .. Len(ss) : at[i] = at[i - 1] + Len(ss[i])
  /\ \A i \in 1 .. Len(ss) : \A j \in 1 .. Len(ss[i]) : t[at[i - 1] + j] = ss[i][j]

LEMMA FlattenLaid ==
  ASSUME NEW S, NEW ss \in Seq(Seq(S))
  PROVE  FlattenSeq(ss) \in Seq(S) /\ \E at : Laid(FlattenSeq(ss), ss, at)
<1>1. Len(ss) \in Nat /\ \A i \in 1 .. Len(ss) : ss[i] \in Seq(S) /\ Len(ss[i]) \in Nat
  OBVIOUS
<1>2. CASE Len(ss) = 0
  <2>1. ss = <<>> /\ FlattenSeq(ss) = <<>>
    BY <1>2 DEF FlattenSeq
  <2>2. Laid(<<>>, <<>>, [i \in 0 .. 0 |-> 0])
    BY DEF Laid
  <2> QED BY <2>1, <2>2
<1>3. CASE Len(ss) # 0
  <2> DEFINE L == Len(ss)
  <2>1. PICK f : IsFlat(f, ss, L) /\ FlattenSeq(ss) = f[L]
    BY <1>1, <1>3, FlattenIsFlat
  <2> DEFINE at == [i \in 0 .. L |-> IF i = 0 THEN 0 ELSE Len(f[i])]
             Good(n) == /\ f[n] \in Seq(S) /\ at[n] = at[n - 1] + Len(ss[n])
                        /\ \A i \in 1 .. n : \A j \in 1 .. Len(ss[i]) :
                             at[i - 1] + j \in 1 .. at[n] /\ f[n][at[i - 1] + j] = ss[i][j]
             Bad == {n \in 1 .. L : ~Good(n)}
  <2>11. L \in Nat \ {0} /\ \A i \in 1 .. L : ss[i] \in Seq(S) /\ Len(ss[i]) \in Nat
    BY <1>1, <1>3
  <2> HIDE DEF L
  <2>2. f[1] = ss[1] /\ \A i \in 2 .. L : f[i] = f[i - 1] \o ss[i]
    <3>1. \A i \in 1 .. L : f[i] = IF i = 1 THEN ss[i] ELSE f[i - 1] \o ss[i]
      BY <2>1, Zenon DEF IsFlat
    <3>2. 1 \in 1 .. L /\ \A i \in 2 .. L : i \in 1 .. L /\ i # 1
      BY <2>11
    <3> QED BY <3>1, <3>2
  <2>3. at[0] = 0 /\ \A i \in 1 .. L : at[i] = Len(f[i])
    BY <2>11
  <2>4. Bad = {}
    <3> SUFFICES ASSUME Bad # {} PROVE FALSE
      OBVIOUS
    <3>1. PICK n \in Bad : \A m \in Bad : n <= m
      <4>1. Bad \in SUBSET Nat
        BY <2>11
      <4> HIDE DEF Bad
      <4> QED BY <4>1, LeastNumber
    <3>2. n \in 1 .. L /\ ~Good(n)
      OBVIOUS
    <3>3. ss[n] \in Seq(S) /\ Len(ss[n]) \in Nat
      BY <2>11, <3>2
    <3>4. CASE n = 1
      <4>1. at[1] = Len(ss[1]) /\ at[0] = 0
        BY <2>2, <2>3, <3>2, <3>4
      <4> HIDE DEF at
      <4>2. Good(1)
        BY <2>2, <3>3, <3>4, <4>1
      <4> QED BY <3>2, <3>4, <4>2
    <3>5. CASE n # 1
      <4>1. n - 1 \in 1 .. L /\ n \in 2 .. L /\ n - 1 \notin Bad
        <5> HIDE DEF Bad
        <5> QED BY <2>11, <3>1, <3>2, <3>5
      <4>2. Good(n - 1)
        <5>1. \A m \in 1 .. L : m \in Bad \/ Good(m)
          OBVIOUS
        <5> HIDE DEF Bad, Good
        <5> QED BY <4>1, <5>1
      <4> HIDE DEF at, Bad
      <4>6. f[n - 1] \in Seq(S) /\ at[n - 1] = Len(f[n - 1])
        BY <2>3, <4>1, <4>2
      <4>3. f[n] = f[n - 1] \o ss[n] /\ at[n] = Len(f[n]) /\ at[n - 1] = Len(f[n - 1])
        BY <2>2, <2>3, <3>2, <4>1
      <4>4. /\ f[n] \in Seq(S) /\ at[n - 1] \in Nat /\ at[n] = at[n - 1] + Len(ss[n])
            /\ \A k \in 1 .. at[n] : f[n][k] = IF k <= at[n - 1] THEN f[n - 1][k] ELSE ss[n][k - at[n - 1]]
        <5> DEFINE a == f[n - 1]
                   b == ss[n]
        <5>1. a \in Seq(S) /\ b \in Seq(S) /\ f[n] = a \o b /\ at[n - 1] = Len(a) /\ at[n] = Len(f[n])
          BY <3>3, <4>3, <4>6
        <5> HIDE DEF a, b
        <5>2. /\ a \o b \in Seq(S) /\ Len(a \o b) = Len(a) + Len(b) /\ Len(a) \in Nat
              /\ \A k \in 1 .. Len(a) + Len(b) : (a \o b)[k] = IF k <= Len(a) THEN a[k] ELSE b[k - Len(a)]
          BY <5>1, ConcatProperties
        <5> QED BY <5>1, <5>2 DEF a, b
      <4>5. ASSUME NEW i \in 1 .. n, NEW j \in 1 .. Len(ss[i])
            PROVE  at[i - 1] + j \in 1 .. at[n] /\ f[n][at[i - 1] + j] = ss[i][j]
        <5>1. CASE i = n
          <6> DEFINE k == at[n - 1] + j
          <6>1. k \in 1 .. at[n] /\ ~(k <= at[n - 1]) /\ k - at[n - 1] = j
            BY <3>3, <4>4, <4>5, <5>1
          <6> HIDE DEF k
          <6>2. f[n][k] = ss[n][j]
            BY <4>4, <6>1
          <6> QED BY <5>1, <6>1, <6>2 DEF k
        <5>2. CASE i # n
          <6>1. i \in 1 .. n - 1
            BY <4>1, <5>2
          <6>2. at[i - 1] + j \in 1 .. at[n - 1] /\ f[n - 1][at[i - 1] + j] = ss[i][j]
            BY <4>2, <4>5, <6>1
          <6>3. at[i - 1] + j \in 1 .. at[n] /\ at[i - 1] + j <= at[n - 1]
            BY <3>3, <4>4, <6>2
          <6> QED BY <4>4, <6>2, <6>3
        <5> QED BY <5>1, <5>2
      <4> QED BY <3>2, <4>4, <4>5
    <3> QED BY <3>4, <3>5
  <2>5. \A n \in 1 .. L : Good(n)
    <3> HIDE DEF Good
    <3>1. \A n \in 1 .. L : n \in Bad \/ Good(n)
      OBVIOUS
    <3> HIDE DEF Bad
    <3> QED BY <2>4, <3>1
  <2> HIDE DEF Bad
  <2>6. \A i \in 1 .. L : f[i] \in Seq(S) /\ Len(f[i]) \in Nat
    <3>1. \A i \in 1 .. L : f[i] \in Seq(S)
      BY <2>5
    <3> QED BY <3>1
  <2>7. at \in [0 .. L -> Nat]
    BY <2>6, <2>11
  <2>8. L \in 1 .. L
    BY <2>11
  <2> HIDE DEF at
  <2>9. /\ at[L] = Len(f[L])
        /\ \A i \in 1 .. L : at[i] = at[i - 1] + Len(ss[i])
        /\ \A i \in 1 .. L : \A j \in 1 .. Len(ss[i]) : f[L][at[i - 1] + j] = ss[i][j]
    BY <2>3, <2>5, <2>8
  <2>10. Laid(f[L], ss, at)
    BY <2>3, <2>7, <2>9 DEF Laid, L
  <2> QED BY <2>1, <2>6, <2>8, <2>10
<1> QED BY <1>2, <1>3

\* Every position of the whole is a position of one part.
LEMMA LaidCovers ==
  ASSUME NEW t, NEW ss, NEW at, Laid(t, ss, at), Len(ss) \in Nat, NEW k \in 1 .. Len(t)
  PROVE  \E i \in 1 .. Len(ss) : \E j \in 1 .. Len(ss[i]) : k = at[i - 1] + j
<1> DEFINE L == Len(ss)
           T == {i \in 0 .. L : k <= at[i]}
<1>1. /\ at \in [0 .. L -> Nat] /\ at[0] = 0 /\ at[L] = Len(t) /\ L \in Nat
      /\ \A i \in 1 .. L : at[i] = at[i - 1] + Len(ss[i])
  BY DEF Laid
<1> HIDE DEF L
<1>2. L \in T /\ T \in SUBSET Nat
  BY <1>1
<1>3. PICK i \in T : \A m \in T : i <= m
  BY <1>2, LeastNumber
<1>4. i \in 1 .. L /\ i - 1 \in 0 .. L /\ k <= at[i]
  BY <1>1, <1>3
<1>5. at[i - 1] < k /\ at[i - 1] \in Nat /\ at[i] \in Nat
  BY <1>1, <1>3, <1>4
<1>6. at[i] = at[i - 1] + Len(ss[i])
  BY <1>1, <1>4
<1> DEFINE j == k - at[i - 1]
<1>7. k = at[i - 1] + j /\ j \in 1 .. at[i] - at[i - 1] /\ at[i] - at[i - 1] = Len(ss[i])
  BY <1>4, <1>5, <1>6
<1> HIDE DEF j, T
<1> QED BY <1>4, <1>7 DEF L

\* And every position of a part is one of the whole.
LEMMA LaidWithin ==
  ASSUME NEW t, NEW ss, NEW at, Laid(t, ss, at), Len(ss) \in Nat,
         \A i \in 1 .. Len(ss) : Len(ss[i]) \in Nat
  PROVE  \A i \in 0 .. Len(ss) : at[i] \in 0 .. Len(t)
<1> DEFINE L == Len(ss)
           Bad == {d \in 0 .. L : ~(at[L - d] <= at[L])}
<1>1. /\ at \in [0 .. L -> Nat] /\ at[L] = Len(t) /\ L \in Nat
      /\ \A i \in 1 .. L : at[i] = at[i - 1] + Len(ss[i]) /\ Len(ss[i]) \in Nat
  BY DEF Laid
<1> HIDE DEF L
<1>2. Bad = {}
  <2> SUFFICES ASSUME Bad # {} PROVE FALSE
    OBVIOUS
  <2>1. Bad \in SUBSET Nat
    BY <1>1
  <2>2. PICK d \in Bad : \A e \in Bad : d <= e
    BY <2>1, LeastNumber
  <2>3. d \in 0 .. L /\ ~(at[L - d] <= at[L]) /\ d # 0
    BY <1>1, <2>2
  <2>4. d - 1 \in 0 .. L /\ d - 1 \notin Bad
    <3> HIDE DEF Bad
    <3> QED BY <1>1, <2>1, <2>2, <2>3
  <2>5. at[L - (d - 1)] <= at[L]
    BY <2>4
  <2>6. L - (d - 1) \in 1 .. L /\ L - (d - 1) - 1 = L - d /\ L - d \in 0 .. L
    BY <1>1, <2>3
  <2>7. at[L - (d - 1)] = at[L - d] + Len(ss[L - (d - 1)]) /\ Len(ss[L - (d - 1)]) \in Nat
    BY <1>1, <2>6
  <2> QED BY <1>1, <2>3, <2>5, <2>6, <2>7
<1>3. ASSUME NEW i \in 0 .. L PROVE at[i] \in 0 .. Len(t)
  <2>1. L - i \in 0 .. L /\ L - (L - i) = i
    BY <1>1
  <2>2. at[L - (L - i)] <= at[L]
    BY <1>2, <2>1
  <2>3. at[i] <= at[L] /\ at[i] \in Nat
    BY <1>1, <2>1, <2>2
  <2> QED BY <1>1, <2>3
<1> QED BY <1>3 DEF L

---------------------------------------------------------------------------
(* The lines of a report.                                                  *)

Roles == {"Primary", "Secondary"}
HeadLine(i) == Line(ResourceNames[i], [role |-> report[i].role])

DiskLines == {Line(Indent, [disk |-> disk]) : disk \in {"UpToDate", "Diskless"}}
ConnectionLines == {Line(Indent, [connection |-> conn, role |-> "Secondary"]) :
                      conn \in {"Connected", "StandAlone"}}
DoneLines == {Line(Indent, [k \in {"done"} |-> done]) : done \in {42, Garbled}}
LagLines == {Line(Indent, [k \in {"out-of-sync"} |-> lag]) : lag \in {0, 7}}
InnerLines == DiskLines \cup ConnectionLines \cup DoneLines \cup LagLines

LEMMA LineFields ==
  \A head, tokens : Line(head, tokens).head = head /\ Line(head, tokens).tokens = tokens
BY DEF Line

\* An inner line is indented, and each kind has the one token it is for.
InnerFacts(line) ==
  /\ line.head = Indent
  /\ "disk" \in DOMAIN line.tokens => line.tokens["disk"] \in {"UpToDate", "Diskless"}
  /\ "connection" \in DOMAIN line.tokens => line.tokens["connection"] \in {"Connected", "StandAlone"}
  /\ "done" \in DOMAIN line.tokens => line.tokens["done"] \in {42, Garbled}
  /\ "out-of-sync" \in DOMAIN line.tokens => line.tokens["out-of-sync"] \in {0, 7}

LEMMA InnerTokens == ASSUME NEW line \in InnerLines PROVE InnerFacts(line)
<1>1. CASE line \in DiskLines
  BY <1>1, LineFields DEF DiskLines, InnerFacts
<1>2. CASE line \in ConnectionLines
  BY <1>2, LineFields DEF ConnectionLines, InnerFacts
<1>3. CASE line \in DoneLines
  BY <1>3, LineFields DEF DoneLines, InnerFacts
<1>4. CASE line \in LagLines
  BY <1>4, LineFields DEF LagLines, InnerFacts
<1> QED BY <1>1, <1>2, <1>3, <1>4 DEF InnerLines

\* What some lines say of a key: nothing, or one value on one line.
Has(line, key) == key \in DOMAIN line.tokens
Lacks(lines, key) == \A j \in 1 .. Len(lines) : ~Has(lines[j], key)
Sole(lines, key, value) ==
  \E j \in 1 .. Len(lines) :
    /\ Has(lines[j], key) /\ lines[j].tokens[key] = value
    /\ \A m \in 1 .. Len(lines) : Has(lines[m], key) => m = j
Tells(lines, key, value) == IF value = NoToken THEN Lacks(lines, key) ELSE Sole(lines, key, value)

LEMMA LacksConcat ==
  ASSUME NEW S, NEW a \in Seq(S), NEW b \in Seq(S), NEW key
  PROVE  Lacks(a \o b, key) <=> Lacks(a, key) /\ Lacks(b, key)
<1> DEFINE c == a \o b
           m == Len(a)
           n == Len(b)
<1>1. /\ Len(c) = m + n /\ m \in Nat /\ n \in Nat
      /\ \A i \in 1 .. m + n : c[i] = IF i <= m THEN a[i] ELSE b[i - m]
  BY ConcatProperties
<1> HIDE DEF c
<1>2. ASSUME Lacks(c, key) PROVE Lacks(a, key) /\ Lacks(b, key)
  <2> HIDE DEF m, n
  <2>1. ASSUME NEW j \in 1 .. m PROVE ~Has(a[j], key)
    BY <1>1, <1>2 DEF Lacks
  <2>2. ASSUME NEW j \in 1 .. n PROVE ~Has(b[j], key)
    <3>1. m + j \in 1 .. m + n /\ ~(m + j <= m) /\ m + j - m = j
      BY <1>1
    <3>2. c[m + j] = b[j]
      BY <1>1, <3>1
    <3> QED BY <1>1, <1>2, <3>1, <3>2 DEF Lacks
  <2> QED BY <2>1, <2>2 DEF Lacks, m, n
<1>3. ASSUME Lacks(a, key), Lacks(b, key) PROVE Lacks(c, key)
  <2> SUFFICES ASSUME NEW i \in 1 .. m + n PROVE ~Has(c[i], key)
    BY <1>1 DEF Lacks
  <2>1. i \in 1 .. m \/ (~(i <= m) /\ i - m \in 1 .. n)
    BY <1>1
  <2> QED BY <1>1, <1>3, <2>1 DEF Lacks
<1> QED BY <1>2, <1>3 DEF c

LEMMA SoleConcat ==
  ASSUME NEW S, NEW a \in Seq(S), NEW b \in Seq(S), NEW key, NEW value
  PROVE  /\ Sole(a, key, value) /\ Lacks(b, key) => Sole(a \o b, key, value)
         /\ Lacks(a, key) /\ Sole(b, key, value) => Sole(a \o b, key, value)
<1> DEFINE c == a \o b
           m == Len(a)
           n == Len(b)
<1>1. /\ Len(c) = m + n /\ m \in Nat /\ n \in Nat
      /\ \A i \in 1 .. m + n : c[i] = IF i <= m THEN a[i] ELSE b[i - m]
  BY ConcatProperties
<1> HIDE DEF c, m, n
<1>2. /\ \A i \in 1 .. m : i \in 1 .. m + n /\ c[i] = a[i]
      /\ \A i \in 1 .. n : m + i \in 1 .. m + n /\ c[m + i] = b[i]
  <2>1. \A i \in 1 .. m : i \in 1 .. m + n /\ i <= m
    BY <1>1
  <2>2. \A i \in 1 .. n : m + i \in 1 .. m + n /\ ~(m + i <= m) /\ m + i - m = i
    BY <1>1
  <2> QED BY <1>1, <2>1, <2>2
<1>3. \A k \in 1 .. m + n : k \in 1 .. m \/ \E i \in 1 .. n : k = m + i
  <2> TAKE k \in 1 .. m + n
  <2>1. k \in 1 .. m \/ (k - m \in 1 .. n /\ k = m + (k - m))
    BY <1>1
  <2> QED BY <2>1
<1>4. ASSUME Sole(a, key, value), Lacks(b, key) PROVE Sole(c, key, value)
  <2>1. PICK j \in 1 .. m : /\ Has(a[j], key) /\ a[j].tokens[key] = value
                            /\ \A i \in 1 .. m : Has(a[i], key) => i = j
    BY <1>4 DEF Sole, m
  <2>2. \A i \in 1 .. n : ~Has(c[m + i], key)
    BY <1>2, <1>4 DEF Lacks, n
  <2>3. \A k \in 1 .. m + n : Has(c[k], key) => k = j
    BY <1>2, <1>3, <2>1, <2>2
  <2> QED BY <1>1, <1>2, <2>1, <2>3 DEF Sole
<1>5. ASSUME Lacks(a, key), Sole(b, key, value) PROVE Sole(c, key, value)
  <2>1. PICK j \in 1 .. n : /\ Has(b[j], key) /\ b[j].tokens[key] = value
                            /\ \A i \in 1 .. n : Has(b[i], key) => i = j
    BY <1>5 DEF Sole, n
  <2>2. \A i \in 1 .. m : ~Has(c[i], key)
    BY <1>2, <1>5 DEF Lacks, m
  <2>3. \A k \in 1 .. m + n : Has(c[k], key) => k = m + j
    BY <1>2, <1>3, <2>1, <2>2
  <2>4. m + j \in 1 .. m + n /\ Has(c[m + j], key) /\ c[m + j].tokens[key] = value
    BY <1>2, <2>1
  <2> QED BY <1>1, <2>3, <2>4 DEF Sole
<1> QED BY <1>4, <1>5 DEF c

LEMMA OptionalSays ==
  ASSUME NEW key, NEW value, NEW S, value # NoToken => Line(Indent, [k \in {key} |-> value]) \in S
  PROVE  /\ Optional(key, value) \in Seq(S)
         /\ Tells(Optional(key, value), key, value)
         /\ \A other : other # key => Lacks(Optional(key, value), other)
<1>1. CASE value = NoToken
  BY <1>1 DEF Optional, Tells, Lacks
<1>2. CASE value # NoToken
  <2> DEFINE line == Line(Indent, [k \in {key} |-> value])
  <2>1. Optional(key, value) = <<line>> /\ line \in S
    BY <1>2 DEF Optional
  <2>2. DOMAIN line.tokens = {key} /\ line.tokens[key] = value
    BY LineFields
  <2> HIDE DEF line
  <2>3. <<line>> \in Seq(S) /\ Len(<<line>>) = 1 /\ <<line>>[1] = line
    BY <2>1
  <2> QED BY <1>2, <2>1, <2>2, <2>3 DEF Tells, Sole, Lacks, Has
<1> QED BY <1>1, <1>2

LEMMA LaidPosition ==
  ASSUME NEW t, NEW ss, NEW at, Laid(t, ss, at), Len(ss) \in Nat,
         \A i \in 1 .. Len(ss) : Len(ss[i]) \in Nat, Len(t) \in Nat
  PROVE  \A i \in 1 .. Len(ss) : \A j \in 1 .. Len(ss[i]) :
           /\ at[i - 1] \in Nat /\ at[i] = at[i - 1] + Len(ss[i])
           /\ at[i - 1] + j \in 1 .. Len(t) /\ t[at[i - 1] + j] = ss[i][j]
<1>1. \A i \in 0 .. Len(ss) : at[i] \in 0 .. Len(t)
  BY LaidWithin
<1>5. \A i \in 1 .. Len(ss) : at[i] = at[i - 1] + Len(ss[i])
  BY DEF Laid
<1>6. \A i \in 1 .. Len(ss) : \A j \in 1 .. Len(ss[i]) : t[at[i - 1] + j] = ss[i][j]
  BY DEF Laid
<1> TAKE i \in 1 .. Len(ss)
<1> TAKE j \in 1 .. Len(ss[i])
<1>2. i \in 0 .. Len(ss) /\ i - 1 \in 0 .. Len(ss) /\ Len(ss[i]) \in Nat
  OBVIOUS
<1>3. at[i] \in 0 .. Len(t) /\ at[i - 1] \in 0 .. Len(t)
  BY <1>1, <1>2
<1>4. at[i] = at[i - 1] + Len(ss[i]) /\ t[at[i - 1] + j] = ss[i][j]
  BY <1>5, <1>6
<1> DEFINE a == at[i - 1]
           b == at[i]
           n == Len(ss[i])
<1>7. n \in Nat /\ j \in 1 .. n /\ a \in 0 .. Len(t) /\ b \in 0 .. Len(t) /\ b = a + n
  BY <1>2, <1>3, <1>4
<1> HIDE DEF a, b, n
<1>8. a \in Nat /\ a + j \in 1 .. Len(t)
  BY <1>7
<1> QED BY <1>4, <1>8 DEF a, b, n

LEMMA LacksFlatten ==
  ASSUME NEW S, NEW ss \in Seq(Seq(S)), NEW key
  PROVE  Lacks(FlattenSeq(ss), key) <=> \A i \in 1 .. Len(ss) : Lacks(ss[i], key)
<1> DEFINE t == FlattenSeq(ss)
<1>1. t \in Seq(S)
  BY FlattenLaid
<1>2. PICK at : Laid(t, ss, at)
  BY FlattenLaid
<1>3. Len(ss) \in Nat /\ Len(t) \in Nat /\ \A i \in 1 .. Len(ss) : Len(ss[i]) \in Nat
  <2>1. \A i \in 1 .. Len(ss) : ss[i] \in Seq(S)
    OBVIOUS
  <2> QED BY <1>1, <2>1
<1> HIDE DEF t
<1>4. \A i \in 1 .. Len(ss) : \A j \in 1 .. Len(ss[i]) :
        at[i - 1] + j \in 1 .. Len(t) /\ t[at[i - 1] + j] = ss[i][j]
  BY <1>2, <1>3, LaidPosition
<1>5. \A k \in 1 .. Len(t) : \E i \in 1 .. Len(ss) : \E j \in 1 .. Len(ss[i]) : k = at[i - 1] + j
  <2> TAKE k \in 1 .. Len(t)
  <2>1. Len(ss) \in Nat
    BY <1>3
  <2> QED BY <1>2, <2>1, LaidCovers
<1>6. Lacks(t, key) => \A i \in 1 .. Len(ss) : Lacks(ss[i], key)
  BY <1>4 DEF Lacks
<1>7. (\A i \in 1 .. Len(ss) : Lacks(ss[i], key)) => Lacks(t, key)
  BY <1>4, <1>5 DEF Lacks
<1> QED BY <1>6, <1>7 DEF t

LEMMA FlattenOne ==
  ASSUME NEW ss, Len(ss) = 1
  PROVE  FlattenSeq(ss) = ss[1]
<1>3. Len(ss) \in Nat \ {0}
  OBVIOUS
<1>1. PICK f : IsFlat(f, ss, Len(ss)) /\ FlattenSeq(ss) = f[Len(ss)]
  BY <1>3, FlattenIsFlat
<1>2. f[1] = ss[1]
  BY <1>1 DEF IsFlat
<1> QED BY <1>1, <1>2

LEMMA PeerSays ==
  ASSUME NEW p \in Peers
  PROVE  LET lines == PeerLines(p) IN
         /\ lines \in Seq(InnerLines)
         /\ Lacks(lines, "disk") /\ Sole(lines, "connection", p.conn)
         /\ Tells(lines, "done", p.done) /\ Tells(lines, "out-of-sync", p.lag)
<1> DEFINE c == Line(Indent, [connection |-> p.conn, role |-> "Secondary"])
           done == Optional("done", p.done)
           lag == Optional("out-of-sync", p.lag)
<1>1. /\ p.conn \in {"Connected", "StandAlone"}
      /\ p.done \in {NoToken, 42, Garbled} /\ p.lag \in {NoToken, 0, 7}
  BY DEF Peers
<1>2. c \in InnerLines
  BY <1>1 DEF InnerLines, ConnectionLines
<1>3. c.tokens["connection"] = p.conn /\ DOMAIN c.tokens = {"connection", "role"}
  BY LineFields
<1>4. PeerLines(p) = <<c>> \o done \o lag
  BY DEF PeerLines
<1>5. done \in Seq(InnerLines) /\ Tells(done, "done", p.done)
      /\ \A other : other # "done" => Lacks(done, other)
  <2>1. p.done # NoToken => Line(Indent, [k \in {"done"} |-> p.done]) \in InnerLines
    BY <1>1 DEF InnerLines, DoneLines
  <2> QED BY <2>1, OptionalSays
<1>6. lag \in Seq(InnerLines) /\ Tells(lag, "out-of-sync", p.lag)
      /\ \A other : other # "out-of-sync" => Lacks(lag, other)
  <2>1. p.lag # NoToken => Line(Indent, [k \in {"out-of-sync"} |-> p.lag]) \in InnerLines
    BY <1>1 DEF InnerLines, LagLines
  <2> QED BY <2>1, OptionalSays
<1> HIDE DEF c, done, lag
<1>7. <<c>> \in Seq(InnerLines) /\ Len(<<c>>) = 1 /\ <<c>>[1] = c
  BY <1>2
<1>8. Sole(<<c>>, "connection", p.conn) /\ Lacks(<<c>>, "disk") /\ Lacks(<<c>>, "done") /\ Lacks(<<c>>, "out-of-sync")
  BY <1>3, <1>7 DEF Sole, Lacks, Has
<1> DEFINE first == <<c>>
           front == first \o done
<1>9. first \in Seq(InnerLines) /\ front \in Seq(InnerLines) /\ PeerLines(p) = front \o lag
  BY <1>4, <1>5, <1>7
<1> HIDE DEF first
<1>10. /\ Sole(front, "connection", p.conn) /\ Tells(front, "done", p.done)
       /\ Lacks(front, "disk") /\ Lacks(front, "out-of-sync")
  <2>1. Lacks(done, "connection") /\ Lacks(done, "disk") /\ Lacks(done, "out-of-sync")
    BY <1>5
  <2>2. Sole(first, "connection", p.conn) /\ Lacks(first, "disk") /\ Lacks(first, "done") /\ Lacks(first, "out-of-sync")
    BY <1>8 DEF first
  <2>3. Lacks(front, "disk") /\ Lacks(front, "out-of-sync")
    BY <1>5, <1>9, <2>1, <2>2, LacksConcat
  <2>4. Sole(front, "connection", p.conn)
    BY <1>5, <1>9, <2>1, <2>2, SoleConcat
  <2>5. Tells(front, "done", p.done)
    BY <1>5, <1>9, <2>2, LacksConcat, SoleConcat DEF Tells
  <2> QED BY <2>3, <2>4, <2>5
<1> HIDE DEF front
<1>11. /\ Sole(front \o lag, "connection", p.conn) /\ Tells(front \o lag, "done", p.done)
       /\ Lacks(front \o lag, "disk") /\ Tells(front \o lag, "out-of-sync", p.lag)
  BY <1>6, <1>9, <1>10, LacksConcat, SoleConcat DEF Tells
<1>12. front \o lag \in Seq(InnerLines)
  BY <1>6, <1>9
<1> QED BY <1>9, <1>11, <1>12

---------------------------------------------------------------------------
(* A block: a line of its own, then inner lines.                           *)

BlockLines(name, r) == {Line(name, [role |-> r.role])} \cup InnerLines

\* Every conjunct is about one resource.
BlockFacts(name, r) ==
  LET block == Block(name, r) IN
  /\ block \in Seq(BlockLines(name, r)) /\ Len(block) >= 1
  /\ block[1] = Line(name, [role |-> r.role])
  /\ \A j \in 2 .. Len(block) : block[j] \in InnerLines
  /\ Lacks(block, "done") <=> \A k \in DOMAIN r.peers : r.peers[k].done = NoToken
  /\ Len(r.peers) = 1 =>
       /\ Sole(block, "disk", r.disk) /\ Sole(block, "connection", r.peers[1].conn)
       /\ Tells(block, "done", r.peers[1].done) /\ Tells(block, "out-of-sync", r.peers[1].lag)

LEMMA BlockSays ==
  ASSUME NEW name, NEW r \in Resources
  PROVE  BlockFacts(name, r)
<1> DEFINE top == Line(name, [role |-> r.role])
           disk == Line(Indent, [disk |-> r.disk])
           of == [i \in DOMAIN r.peers |-> PeerLines(r.peers[i])]
           rest == FlattenSeq(of)
           front == <<top, disk>>
           All == BlockLines(name, r)
<1>1. r.disk \in {"UpToDate", "Diskless"} /\ r.peers \in Seq(Peers)
  BY DEF Resources, BoundedSeq, SeqOf
<1>2. Block(name, r) = front \o rest
  BY DEF Block
<1>3. DOMAIN r.peers = 1 .. Len(r.peers) /\ Len(r.peers) \in Nat /\ \A i \in DOMAIN r.peers : r.peers[i] \in Peers
  BY <1>1
<1>4. \A i \in DOMAIN r.peers : of[i] = PeerLines(r.peers[i])
  OBVIOUS
<1>5. of \in Seq(Seq(InnerLines)) /\ Len(of) = Len(r.peers)
  <2>1. \A i \in 1 .. Len(r.peers) : PeerLines(r.peers[i]) \in Seq(InnerLines)
    BY <1>3, PeerSays
  <2>2. of = [i \in 1 .. Len(r.peers) |-> PeerLines(r.peers[i])]
    BY <1>3
  <2> QED BY <1>3, <2>1, <2>2
<1>6. top \in All /\ disk \in InnerLines
  BY <1>1 DEF BlockLines, InnerLines, DiskLines
<1>7. DOMAIN top.tokens = {"role"} /\ DOMAIN disk.tokens = {"disk"} /\ disk.tokens["disk"] = r.disk
  BY LineFields
<1> HIDE DEF of, top, disk
<1>8. rest \in Seq(InnerLines)
  BY <1>5, FlattenLaid
<1>9. Lacks(rest, "done") <=> \A k \in DOMAIN r.peers : r.peers[k].done = NoToken
  <2>1. Lacks(rest, "done") <=> \A i \in 1 .. Len(of) : Lacks(of[i], "done")
    BY <1>5, LacksFlatten
  <2>2. \A i \in DOMAIN r.peers : Tells(of[i], "done", r.peers[i].done)
    BY <1>3, <1>4, PeerSays
  <2>3. \A lines, value : Sole(lines, "done", value) => ~Lacks(lines, "done")
    BY DEF Sole, Lacks
  <2> QED BY <1>3, <1>5, <2>1, <2>2, <2>3 DEF Tells
<1>10. Len(r.peers) = 1 => rest = PeerLines(r.peers[1]) /\ r.peers[1] \in Peers
  BY <1>3, <1>4, <1>5, FlattenOne
<1> HIDE DEF rest
<1>11. InnerLines \subseteq All
  BY DEF BlockLines
<1>12. rest \in Seq(All) /\ front \in Seq(All) /\ Len(front) = 2 /\ front[1] = top /\ front[2] = disk
  BY <1>6, <1>8, <1>11
<1> HIDE DEF front, All
<1>13. Sole(front, "disk", r.disk) /\ \A key : key \notin {"role", "disk"} => Lacks(front, key)
  <2>1. Has(front[2], "disk") /\ ~Has(front[1], "disk")
    BY <1>7, <1>12 DEF Has
  <2>2. \A m \in 1 .. Len(front) : m = 1 \/ m = 2
    BY <1>12
  <2>3. 2 \in 1 .. Len(front)
    BY <1>12
  <2>4. Sole(front, "disk", r.disk)
    BY <1>7, <1>12, <2>1, <2>2, <2>3 DEF Sole
  <2>5. \A key : key \notin {"role", "disk"} => Lacks(front, key)
    BY <1>7, <1>12, <2>2 DEF Lacks, Has
  <2> QED BY <2>4, <2>5
<1> DEFINE block == front \o rest
<1>14. /\ block \in Seq(All) /\ Len(block) = 2 + Len(rest) /\ Len(rest) \in Nat
       /\ \A i \in 1 .. 2 + Len(rest) : block[i] = IF i <= 2 THEN front[i] ELSE rest[i - 2]
  <2>1. rest \in Seq(All) /\ front \in Seq(All)
    BY <1>12
  <2>2. /\ block \in Seq(All) /\ Len(block) = Len(front) + Len(rest)
        /\ \A i \in 1 .. Len(front) + Len(rest) : block[i] = IF i <= Len(front) THEN front[i] ELSE rest[i - Len(front)]
    BY <2>1, ConcatProperties
  <2>3. Len(rest) \in Nat
    BY <1>12
  <2> HIDE DEF block
  <2> QED BY <1>12, <2>2, <2>3
<1>15. Lacks(block, "done") <=> Lacks(rest, "done")
  BY <1>12, <1>13, LacksConcat
<1>16. ASSUME Len(r.peers) = 1
       PROVE  /\ Sole(block, "disk", r.disk) /\ Sole(block, "connection", r.peers[1].conn)
              /\ Tells(block, "done", r.peers[1].done) /\ Tells(block, "out-of-sync", r.peers[1].lag)
  <2> DEFINE p == r.peers[1]
  <2>1. Lacks(rest, "disk") /\ Sole(rest, "connection", p.conn)
        /\ Tells(rest, "done", p.done) /\ Tells(rest, "out-of-sync", p.lag)
    BY <1>10, <1>16, PeerSays
  <2>2. Lacks(front, "connection") /\ Lacks(front, "done") /\ Lacks(front, "out-of-sync")
    BY <1>13
  <2>3. Sole(block, "disk", r.disk) /\ Sole(block, "connection", p.conn)
    BY <1>12, <1>13, <2>1, <2>2, SoleConcat
  <2>4. Tells(block, "done", p.done)
    BY <1>12, <2>1, <2>2, SoleConcat, LacksConcat DEF Tells
  <2>5. Tells(block, "out-of-sync", p.lag)
    BY <1>12, <2>1, <2>2, SoleConcat, LacksConcat DEF Tells
  <2> QED BY <2>3, <2>4, <2>5
<1> HIDE DEF block
<1>17. block[1] = top /\ \A j \in 2 .. Len(block) : block[j] \in InnerLines
  <2>1. 1 \in 1 .. 2 + Len(rest)
    BY <1>14
  <2>2. block[1] = top
    BY <1>12, <1>14, <2>1
  <2>3. ASSUME NEW j \in 2 .. Len(block) PROVE block[j] \in InnerLines
    <3>1. CASE j = 2
      BY <1>6, <1>12, <1>14, <3>1
    <3>2. CASE j # 2
      <4>1. j \in 1 .. 2 + Len(rest) /\ ~(j <= 2) /\ j - 2 \in 1 .. Len(rest)
        BY <1>14, <3>2
      <4>2. block[j] = rest[j - 2]
        BY <1>14, <4>1
      <4> QED BY <1>8, <4>1, <4>2
    <3> QED BY <3>1, <3>2
  <2> QED BY <2>2, <2>3
<1>18. Len(block) >= 1
  BY <1>14
<1>19. Block(name, r) = block
  BY <1>2 DEF block
<1> QED BY <1>9, <1>14, <1>15, <1>16, <1>17, <1>18, <1>19 DEF BlockFacts, All, top

---------------------------------------------------------------------------
(* The text: the heading, then the blocks in the order of ResourceNames.           *)

BlockOf(i) == Block(ResourceNames[i], report[i])

\* The block of a resource is in the text from the line that has its name to
\* the next line at column 0.
Placed ==
  \A i \in DOMAIN ResourceNames :
    LET first == Start(ResourceNames[i])
        after == first + Len(BlockOf(i))
    IN /\ first \in DOMAIN text
       /\ \A j \in 1 .. Len(BlockOf(i)) : /\ first + j - 1 \in DOMAIN text
                                          /\ text[first + j - 1] = BlockOf(i)[j]
       /\ \/ after = Len(text) + 1
          \/ after \in DOMAIN text /\ text[after].head # Indent

\* A line is the heading, an inner line or the first line of a block.
TopsOnly ==
  \A k \in DOMAIN text : \/ k = 1 /\ text[k] = Line("#", <<>>)
                         \/ text[k] \in InnerLines
                         \/ \E i \in DOMAIN ResourceNames : k = Start(ResourceNames[i]) /\ text[k] = HeadLine(i)

Legible == /\ Len(text) \in Nat /\ DOMAIN text = 1 .. Len(text)
           /\ Placed /\ TopsOnly

LEMMA PrintedLegible ==
  ASSUME report \in [DOMAIN ResourceNames -> Resources], text = Printed
  PROVE  Legible
<1> DEFINE ss == [i \in DOMAIN ResourceNames |-> Block(ResourceNames[i], report[i])]
           L == Len(ResourceNames)
           S == UNION {BlockLines(ResourceNames[i], report[i]) : i \in DOMAIN ResourceNames}
           body == FlattenSeq(ss)
           top == Line("#", <<>>)
           All == S \cup {top}
<1>1. L \in Nat /\ DOMAIN ResourceNames = 1 .. L
  BY DrbdAssumption
<1>2. \A i \in 1 .. L : BlockFacts(ResourceNames[i], report[i]) /\ ss[i] = BlockOf(i)
  BY <1>1, BlockSays DEF BlockOf
<1>3. \A i \in 1 .. L : BlockOf(i) \in Seq(S)
  <2> TAKE i \in 1 .. L
  <2>1. BlockOf(i) \in Seq(BlockLines(ResourceNames[i], report[i])) /\ BlockLines(ResourceNames[i], report[i]) \subseteq S
    BY <1>1, <1>2 DEF BlockFacts, BlockOf
  <2> HIDE DEF S
  <2> QED BY <2>1
<1>4. ss \in Seq(Seq(S)) /\ Len(ss) = L
  <2>1. ss = [i \in 1 .. L |-> BlockOf(i)]
    BY <1>1 DEF BlockOf
  <2> HIDE DEF ss, S, L
  <2> QED BY <1>1, <1>3, <2>1
<1>5. text = <<top>> \o body
  BY DEF Printed, Heading
<1> HIDE DEF ss, S, L
<1>6. body \in Seq(S)
  BY <1>4, FlattenLaid
<1>7. PICK at : Laid(body, ss, at)
  BY <1>4, FlattenLaid
<1> HIDE DEF body, top
<1>8. Len(body) \in Nat /\ Len(text) = 1 + Len(body) /\ DOMAIN text = 1 .. Len(text)
      /\ text[1] = top /\ \A k \in 1 .. Len(body) : text[1 + k] = body[k]
  <2> DEFINE one == <<top>>
  <2>1. one \in Seq(All) /\ body \in Seq(All) /\ Len(one) = 1 /\ one[1] = top
    BY <1>6
  <2> HIDE DEF All, one
  <2>2. text \in Seq(All) /\ Len(body) \in Nat /\ Len(text) = Len(one) + Len(body)
        /\ \A i \in 1 .. Len(one) + Len(body) : text[i] = IF i <= Len(one) THEN one[i] ELSE body[i - Len(one)]
    BY <1>5, <2>1, ConcatProperties DEF one
  <2>3. Len(text) = 1 + Len(body) /\ \A i \in 1 .. 1 + Len(body) : text[i] = IF i <= 1 THEN one[i] ELSE body[i - 1]
    BY <2>1, <2>2
  <2>4. \A k \in 1 .. Len(body) : 1 + k \in 1 .. 1 + Len(body) /\ ~(1 + k <= 1) /\ 1 + k - 1 = k
    BY <2>2
  <2>5. \A k \in 1 .. Len(body) : text[1 + k] = body[k]
    BY <2>3, <2>4
  <2>6. text[1] = top
    BY <2>1, <2>2, <2>3
  <2> QED BY <2>2, <2>3, <2>5, <2>6
<1>9. \A i \in 1 .. L : /\ Len(BlockOf(i)) \in Nat /\ Len(BlockOf(i)) >= 1 /\ BlockOf(i)[1] = HeadLine(i)
                        /\ \A j \in 2 .. Len(BlockOf(i)) : BlockOf(i)[j] \in InnerLines
  <2>1. \A i \in 1 .. L : Len(BlockOf(i)) \in Nat
    BY <1>3
  <2> QED BY <1>2, <2>1 DEF BlockFacts, BlockOf, HeadLine
<1>10. \A i \in 1 .. L : \A j \in 1 .. Len(BlockOf(i)) :
         /\ at[i - 1] \in Nat /\ at[i] = at[i - 1] + Len(BlockOf(i))
         /\ at[i - 1] + j \in 1 .. Len(body) /\ body[at[i - 1] + j] = BlockOf(i)[j]
  <2>1. Len(ss) \in Nat /\ \A i \in 1 .. Len(ss) : Len(ss[i]) \in Nat
    BY <1>1, <1>2, <1>4, <1>9
  <2>3. Len(body) \in Nat
    BY <1>8
  <2>2. \A i \in 1 .. Len(ss) : \A j \in 1 .. Len(ss[i]) :
          /\ at[i - 1] \in Nat /\ at[i] = at[i - 1] + Len(ss[i])
          /\ at[i - 1] + j \in 1 .. Len(body) /\ body[at[i - 1] + j] = ss[i][j]
    BY <1>7, <2>1, <2>3, LaidPosition
  <2> TAKE i \in 1 .. L
  <2>4. i \in 1 .. Len(ss) /\ ss[i] = BlockOf(i)
    BY <1>2, <1>4
  <2> QED BY <2>2, <2>4
<1>11. \A k \in 1 .. Len(body) : \E i \in 1 .. L : \E j \in 1 .. Len(BlockOf(i)) : k = at[i - 1] + j
  <2>1. \A k \in 1 .. Len(body) : \E i \in 1 .. Len(ss) : \E j \in 1 .. Len(ss[i]) : k = at[i - 1] + j
    BY <1>1, <1>4, <1>7, LaidCovers
  <2> QED BY <1>2, <1>4, <2>1
<1> DEFINE first(i) == at[i - 1] + 2
<1>12. \A i \in 1 .. L : /\ at[i - 1] \in Nat /\ at[i] = at[i - 1] + Len(BlockOf(i))
                         /\ first(i) \in 1 .. Len(text) /\ text[first(i)] = HeadLine(i)
  <2> TAKE i \in 1 .. L
  <2>1. 1 \in 1 .. Len(BlockOf(i))
    BY <1>9
  <2>2. at[i - 1] \in Nat /\ at[i] = at[i - 1] + Len(BlockOf(i)) /\ at[i - 1] + 1 \in 1 .. Len(body)
        /\ body[at[i - 1] + 1] = HeadLine(i)
    <3>1. \A j \in 1 .. Len(BlockOf(i)) :
            /\ at[i - 1] \in Nat /\ at[i] = at[i - 1] + Len(BlockOf(i))
            /\ at[i - 1] + j \in 1 .. Len(body) /\ body[at[i - 1] + j] = BlockOf(i)[j]
      BY <1>10
    <3>2. BlockOf(i)[1] = HeadLine(i)
      BY <1>9
    <3> QED BY <2>1, <3>1, <3>2
  <2>3. text[1 + (at[i - 1] + 1)] = HeadLine(i)
    BY <1>8, <2>2
  <2>4. 1 + (at[i - 1] + 1) = first(i) /\ first(i) \in 1 .. Len(text)
    BY <1>8, <2>2
  <2> HIDE DEF first
  <2> QED BY <2>2, <2>3, <2>4
<1>13. \A k \in 1 .. Len(text) : \/ k = 1 /\ text[k] = top
                                 \/ text[k] \in InnerLines
                                 \/ \E i \in 1 .. L : k = first(i) /\ text[k] = HeadLine(i)
  <2> TAKE k \in 1 .. Len(text)
  <2>1. CASE k = 1
    BY <1>8, <2>1
  <2>2. CASE k # 1
    <3>1. k - 1 \in 1 .. Len(body) /\ 1 + (k - 1) = k
      BY <1>8, <2>2
    <3>2. PICK i \in 1 .. L : \E j \in 1 .. Len(BlockOf(i)) : k - 1 = at[i - 1] + j
      BY <1>11, <3>1
    <3>3. PICK j \in 1 .. Len(BlockOf(i)) : k - 1 = at[i - 1] + j
      BY <3>2
    <3>4. text[k] = BlockOf(i)[j]
      BY <1>8, <1>10, <3>1, <3>3
    <3>5. CASE j = 1
      BY <1>9, <1>12, <3>1, <3>3, <3>4, <3>5
    <3>6. CASE j # 1
      <4>1. j \in 2 .. Len(BlockOf(i))
        BY <1>9, <3>6
      <4> QED BY <1>9, <3>4, <4>1
    <3> QED BY <3>5, <3>6
  <2> QED BY <2>1, <2>2
<1>14. \A i \in 1 .. L : HeadLine(i).head = ResourceNames[i] /\ ResourceNames[i] \notin {"#", Indent}
  BY <1>1, LineFields, DrbdAssumption DEF HeadLine
<1>15. top.head = "#" /\ \A line \in InnerLines : line.head = Indent
  BY LineFields, InnerTokens DEF InnerFacts, top
<1>16. \A i \in 1 .. L : Start(ResourceNames[i]) = first(i)
  <2> TAKE i \in 1 .. L
  <2>1. \A k \in 1 .. Len(text) : text[k].head = ResourceNames[i] => k = first(i)
    <3> TAKE k \in 1 .. Len(text)
    <3> HAVE text[k].head = ResourceNames[i]
    <3>1. PICK m \in 1 .. L : k = first(m) /\ text[k] = HeadLine(m)
      <4> HIDE DEF first
      <4> QED BY <1>13, <1>14, <1>15
    <3>2. ResourceNames[m] = ResourceNames[i]
      BY <1>14, <3>1
    <3>3. m = i
      BY <1>1, <3>2, DrbdAssumption
    <3> QED BY <3>1, <3>3
  <2>2. first(i) \in DOMAIN text /\ text[first(i)].head = ResourceNames[i]
    BY <1>8, <1>12, <1>14
  <2> HIDE DEF first
  <2>3. \A k \in DOMAIN text : text[k].head = ResourceNames[i] <=> k = first(i)
    BY <1>8, <2>1, <2>2
  <2> QED BY <2>2, <2>3, Zenon DEF Start
<1>17. ASSUME NEW i \in 1 .. L
       PROVE  \/ first(i) + Len(BlockOf(i)) = Len(text) + 1
              \/ /\ first(i) + Len(BlockOf(i)) \in DOMAIN text
                 /\ text[first(i) + Len(BlockOf(i))].head # Indent
  <2>1. first(i) + Len(BlockOf(i)) = at[i] + 2
    BY <1>9, <1>12
  <2>2. CASE i = L
    <3>1. at[L] = Len(body)
      BY <1>4, <1>7 DEF Laid
    <3> QED BY <1>8, <2>1, <2>2, <3>1
  <2>3. CASE i # L
    <3>1. i + 1 \in 1 .. L /\ i + 1 - 1 = i
      BY <1>1, <2>3
    <3>2. first(i + 1) = at[i] + 2
      BY <3>1
    <3>3. first(i) + Len(BlockOf(i)) = first(i + 1)
      BY <2>1, <3>2
    <3> HIDE DEF first
    <3>4. first(i + 1) \in DOMAIN text /\ text[first(i + 1)].head # Indent
      BY <1>8, <1>12, <1>14, <3>1
    <3> QED BY <3>3, <3>4
  <2> QED BY <2>2, <2>3
<1>18. Placed
  <2> SUFFICES ASSUME NEW i \in 1 .. L
      PROVE  /\ first(i) \in DOMAIN text
             /\ \A j \in 1 .. Len(BlockOf(i)) : /\ first(i) + j - 1 \in DOMAIN text
                                                /\ text[first(i) + j - 1] = BlockOf(i)[j]
             /\ \/ first(i) + Len(BlockOf(i)) = Len(text) + 1
                \/ /\ first(i) + Len(BlockOf(i)) \in DOMAIN text
                   /\ text[first(i) + Len(BlockOf(i))].head # Indent
    <3> HIDE DEF first
    <3> QED BY <1>1, <1>16 DEF Placed
  <2>1. ASSUME NEW j \in 1 .. Len(BlockOf(i))
        PROVE  first(i) + j - 1 \in DOMAIN text /\ text[first(i) + j - 1] = BlockOf(i)[j]
    <3>3. \A k \in 1 .. Len(BlockOf(i)) : /\ at[i - 1] \in Nat /\ at[i - 1] + k \in 1 .. Len(body)
                                          /\ body[at[i - 1] + k] = BlockOf(i)[k]
      BY <1>10
    <3>1. at[i - 1] \in Nat /\ at[i - 1] + j \in 1 .. Len(body) /\ body[at[i - 1] + j] = BlockOf(i)[j] /\ j \in Int
      BY <3>3
    <3> DEFINE a == at[i - 1]
    <3>4. a \in Nat /\ j \in Int /\ a + j \in 1 .. Len(body) /\ Len(body) \in Nat /\ Len(text) = 1 + Len(body)
      BY <1>8, <3>1
    <3>5. first(i) = a + 2
      OBVIOUS
    <3> HIDE DEF first, a
    <3>6. first(i) + j - 1 = 1 + (a + j) /\ 1 + (a + j) \in 1 .. Len(text)
      BY <3>4, <3>5
    <3>2. first(i) + j - 1 = 1 + (at[i - 1] + j) /\ 1 + (at[i - 1] + j) \in 1 .. Len(text)
      BY <3>6 DEF a
    <3> QED BY <1>8, <3>1, <3>2
  <2>2. first(i) \in DOMAIN text
    BY <1>8, <1>12
  <2> HIDE DEF first
  <2> QED BY <1>17, <2>1, <2>2
<1>19. TopsOnly
  <2> HIDE DEF first
  <2> SUFFICES ASSUME NEW k \in 1 .. Len(text)
               PROVE  \/ k = 1 /\ text[k] = top
                      \/ text[k] \in InnerLines
                      \/ \E i \in 1 .. L : k = Start(ResourceNames[i]) /\ text[k] = HeadLine(i)
    BY <1>1, <1>8 DEF TopsOnly, top
  <2> QED BY <1>13, <1>16
<1> QED BY <1>8, <1>18, <1>19 DEF Legible

---------------------------------------------------------------------------
(* The walk over the text.                                                 *)

\* The block of the current name is the last one opened and reaches to the
\* line being read; what was opened is in the dict, with its role; and all
\* that was read could be read.
Progress ==
  /\ cur = NoResource => DOMAIN out = {}
  /\ cur # NoResource => /\ cur \in DOMAIN out /\ Start(cur) < pos
                         /\ \A k \in Start(cur) + 1 .. pos - 1 : text[k].head = Indent
  /\ \A name \in DOMAIN out : /\ Start(name) < pos /\ Start(name) <= Start(cur)
                              /\ out[name].role = text[Start(name)].tokens["role"]
  /\ \A name \in ToSet(ResourceNames) : Start(name) < pos => name \in DOMAIN out
  /\ \A k \in 1 .. pos - 1 : Opens(text[k]) \/ Readable(text[k])
  /\ stage = "returned" => pos = Len(text) + 1

ParserInv == ParseTypeOK /\ Progress /\ OwnBlockOnly

LEMMA TypedLegible == ASSUME ParseTypeOK PROVE Legible
BY PrintedLegible DEF ParseTypeOK

LEMMA NamesOf ==
  /\ \A name : name \in ToSet(ResourceNames) <=> \E i \in DOMAIN ResourceNames : name = ResourceNames[i]
  /\ NoResource \notin ToSet(ResourceNames)
BY DrbdAssumption DEF ToSet

\* A line that opens is the first of a block; any other is an inner line, or
\* the heading.
LEMMA LineKinds ==
  ASSUME ParseTypeOK, NEW k \in 1 .. Len(text)
  PROVE  /\ Opens(text[k]) =>
              \E i \in DOMAIN ResourceNames : k = Start(ResourceNames[i]) /\ text[k] = HeadLine(i)
         /\ ~Opens(text[k]) => \/ text[k] \in InnerLines /\ InnerFacts(text[k])
                               \/ k = 1 /\ DOMAIN text[k].tokens = {} /\ text[k].head = "#"
<1>1. Legible
  BY TypedLegible
<1>2. \A i \in DOMAIN ResourceNames : Opens(HeadLine(i))
  <2> TAKE i \in DOMAIN ResourceNames
  <2>1. HeadLine(i).head = ResourceNames[i] /\ HeadLine(i).tokens = [role |-> report[i].role]
    BY LineFields DEF HeadLine
  <2>2. ResourceNames[i] # Indent
    BY DrbdAssumption
  <2> QED BY <2>1, <2>2 DEF Opens
<1>3. \A line \in InnerLines : InnerFacts(line) /\ ~Opens(line)
  BY InnerTokens DEF InnerFacts, Opens
<1>4. LET top == Line("#", <<>>) IN top.head = "#" /\ DOMAIN top.tokens = {} /\ ~Opens(top)
  <2>1. Line("#", <<>>).head = "#" /\ Line("#", <<>>).tokens = <<>>
    BY LineFields
  <2>2. DOMAIN <<>> = {}
    OBVIOUS
  <2> QED BY <2>1, <2>2 DEF Opens
<1>5. \/ k = 1 /\ text[k] = Line("#", <<>>)
      \/ text[k] \in InnerLines
      \/ \E i \in DOMAIN ResourceNames : k = Start(ResourceNames[i]) /\ text[k] = HeadLine(i)
  BY <1>1 DEF Legible, TopsOnly
<1> QED BY <1>2, <1>3, <1>4, <1>5

LEMMA Starts ==
  ASSUME ParseTypeOK
  PROVE  \A i \in DOMAIN ResourceNames :
           Start(ResourceNames[i]) \in 1 .. Len(text) /\ text[Start(ResourceNames[i])] = HeadLine(i)
<1> TAKE i \in DOMAIN ResourceNames
<1>1. Legible
  BY TypedLegible
<1>2. BlockFacts(ResourceNames[i], report[i])
  BY BlockSays DEF ParseTypeOK
<1>3. 1 \in 1 .. Len(BlockOf(i)) /\ BlockOf(i)[1] = HeadLine(i)
  BY <1>2 DEF BlockFacts, BlockOf, HeadLine
<1>4. Start(ResourceNames[i]) \in DOMAIN text /\ text[Start(ResourceNames[i]) + 1 - 1] = BlockOf(i)[1]
  BY <1>1, <1>3 DEF Legible, Placed
<1>5. Start(ResourceNames[i]) \in 1 .. Len(text) /\ Start(ResourceNames[i]) + 1 - 1 = Start(ResourceNames[i])
  BY <1>1, <1>4 DEF Legible
<1> QED BY <1>3, <1>4, <1>5

\* What a head line says: its role and nothing else.
LEMMA HeadTokens ==
  ASSUME ParseTypeOK, NEW i \in DOMAIN ResourceNames
  PROVE  /\ HeadLine(i).head = ResourceNames[i] /\ ResourceNames[i] # Indent
         /\ DOMAIN HeadLine(i).tokens = {"role"}
         /\ HeadLine(i).tokens["role"] = report[i].role /\ report[i].role \in Roles
<1>1. report[i] \in Resources
  BY DEF ParseTypeOK
<1>2. report[i].role \in Roles
  BY <1>1 DEF Resources, Roles
<1> QED BY <1>2, LineFields, DrbdAssumption DEF HeadLine

LEMMA RefineFields ==
  ASSUME NEW entry, NEW tokens
  PROVE  LET e == Refine(entry, tokens) IN
         /\ e.role = entry.role /\ e.disk = Token(tokens, "disk", entry.disk)
         /\ e.conn = Token(tokens, "connection", entry.conn)
         /\ e.resync_pct = Token(tokens, "done", entry.resync_pct)
         /\ e.out_of_sync_bytes = Token(tokens, "out-of-sync", entry.out_of_sync_bytes)
BY DEF Refine

\* Refining an entry by a line that can be read leaves it an entry.
LEMMA RefineTyped ==
  ASSUME NEW line, Readable(line), InnerFacts(line) \/ DOMAIN line.tokens = {}, NEW entry \in Entries
  PROVE  Refine(entry, line.tokens) \in Entries
<1>1. /\ entry.role \in {"Primary", "Secondary"} /\ entry.disk \in {"Unknown", "UpToDate", "Diskless"}
      /\ entry.conn \in {"Unknown", "Connected", "StandAlone"}
      /\ entry.resync_pct \in {100, 42} /\ entry.out_of_sync_bytes \in {0, 7}
  BY DEF Entries
<1>2. "done" \in DOMAIN line.tokens => line.tokens["done"] # Garbled
  BY DEF Readable
<1>3. /\ Token(line.tokens, "disk", entry.disk) \in {"Unknown", "UpToDate", "Diskless"}
      /\ Token(line.tokens, "connection", entry.conn) \in {"Unknown", "Connected", "StandAlone"}
      /\ Token(line.tokens, "done", entry.resync_pct) \in {100, 42}
      /\ Token(line.tokens, "out-of-sync", entry.out_of_sync_bytes) \in {0, 7}
  <2>1. "disk" \in DOMAIN line.tokens => line.tokens["disk"] \in {"Unknown", "UpToDate", "Diskless"}
    BY DEF InnerFacts
  <2>2. "connection" \in DOMAIN line.tokens => line.tokens["connection"] \in {"Unknown", "Connected", "StandAlone"}
    BY DEF InnerFacts
  <2>3. "done" \in DOMAIN line.tokens => line.tokens["done"] \in {100, 42}
    BY <1>2 DEF InnerFacts
  <2>4. "out-of-sync" \in DOMAIN line.tokens => line.tokens["out-of-sync"] \in {0, 7}
    BY DEF InnerFacts
  <2>5. Token(line.tokens, "disk", entry.disk) \in {"Unknown", "UpToDate", "Diskless"}
    BY <1>1, <2>1 DEF Token
  <2>6. Token(line.tokens, "connection", entry.conn) \in {"Unknown", "Connected", "StandAlone"}
    BY <1>1, <2>2 DEF Token
  <2>7. Token(line.tokens, "done", entry.resync_pct) \in {100, 42}
    BY <1>1, <2>3 DEF Token
  <2>8. Token(line.tokens, "out-of-sync", entry.out_of_sync_bytes) \in {0, 7}
    BY <1>1, <2>4 DEF Token
  <2> QED BY <2>5, <2>6, <2>7, <2>8
<1> QED BY <1>1, <1>3 DEF Refine, Entries

LEMMA NewEntryTyped == \A role \in Roles : NewEntry(role) \in Entries
BY DEF NewEntry, Entries, Roles

\* Read and Says, for what is read before line p.
ReadTo(name, p) == {k \in Start(name) .. p - 1 : \A j \in Start(name) + 1 .. k : text[j].head = Indent}
With(name, key, p) == {k \in ReadTo(name, p) : Has(text[k], key)}
SaysTo(name, key, default, p) ==
  IF With(name, key, p) = {} THEN default ELSE text[Max(With(name, key, p))].tokens[key]

LEMMA SaysIsSaysTo ==
  \A name, key, default : Says(name, key, default) = SaysTo(name, key, default, pos)
BY DEF Says, SaysTo, With, ReadTo, Read, Has

LEMMA MaxOfNew ==
  ASSUME NEW T \in SUBSET Int, NEW p \in Int, \A k \in T : k < p
  PROVE  Max(T \cup {p}) = p
<1> DEFINE U == T \cup {p}
<1>1. p \in U /\ \A y \in U : p >= y
  OBVIOUS
<1>2. \A x \in U : (\A y \in U : x >= y) => x = p
  OBVIOUS
<1> HIDE DEF U
<1>3. Max(U) \in U /\ \A y \in U : Max(U) >= y
  BY <1>1 DEF Max
<1> QED BY <1>2, <1>3 DEF U

\* An indented line after a block belongs to it, and says the last word.
LEMMA SaysMore ==
  ASSUME NEW name, NEW p \in Nat, Start(name) \in Nat, Start(name) < p,
         \A k \in Start(name) + 1 .. p : text[k].head = Indent,
         NEW key, NEW default
  PROVE  SaysTo(name, key, default, p + 1) = Token(text[p].tokens, key, SaysTo(name, key, default, p))
<1> DEFINE s == Start(name)
           T == With(name, key, p)
           U == With(name, key, p + 1)
<1>1. ReadTo(name, p) = s .. p - 1 /\ ReadTo(name, p + 1) = s .. p
  BY DEF ReadTo
<1>2. s .. p = (s .. p - 1) \cup {p} /\ T \in SUBSET Int /\ \A k \in T : k < p
  BY <1>1 DEF With
<1>3. U = IF Has(text[p], key) THEN T \cup {p} ELSE T
  BY <1>1, <1>2 DEF With
<1> HIDE DEF T, U
<1>4. CASE Has(text[p], key)
  <2>2. U = T \cup {p}
    BY <1>3, <1>4
  <2>4. T \in SUBSET Int /\ p \in Int
    BY <1>2
  <2>5. \A k \in T : k < p
    BY <1>2
  <2>3. Max(T \cup {p}) = p
    BY <2>4, <2>5, MaxOfNew
  <2>1. U # {} /\ Max(U) = p
    BY <2>2, <2>3
  <2> QED BY <1>4, <2>1 DEF SaysTo, Token, Has, U
<1>5. CASE ~Has(text[p], key)
  <2>1. U = T
    BY <1>3, <1>5
  <2> QED BY <1>5, <2>1 DEF SaysTo, Token, Has, U, T
<1> QED BY <1>4, <1>5

\* A line that is not indented ends the block before it.
LEMMA SaysSame ==
  ASSUME NEW name, NEW p \in Nat, Start(name) \in Nat,
         NEW top \in Start(name) + 1 .. p, text[top].head # Indent
  PROVE  \A key, default : SaysTo(name, key, default, p + 1) = SaysTo(name, key, default, p)
<1>1. ReadTo(name, p + 1) = ReadTo(name, p)
  <2>1. \A k : k \in ReadTo(name, p + 1) => k \in ReadTo(name, p)
    <3> SUFFICES ASSUME NEW k \in ReadTo(name, p + 1) PROVE k \in ReadTo(name, p)
      OBVIOUS
    <3>1. k \in Start(name) .. p /\ \A j \in Start(name) + 1 .. k : text[j].head = Indent
      BY DEF ReadTo
    <3>2. k # p
      BY <3>1
    <3> QED BY <3>1, <3>2 DEF ReadTo
  <2>2. \A k : k \in ReadTo(name, p) => k \in ReadTo(name, p + 1)
    BY DEF ReadTo
  <2> QED BY <2>1, <2>2
<1> QED BY <1>1 DEF SaysTo, With

\* A block of which only the head line is read says nothing but its role.
LEMMA SaysNothing ==
  ASSUME NEW name, Start(name) \in Nat, NEW key, ~Has(text[Start(name)], key)
  PROVE  \A default : SaysTo(name, key, default, Start(name) + 1) = default
<1>1. ReadTo(name, Start(name) + 1) \subseteq {Start(name)}
  BY DEF ReadTo
<1> QED BY <1>1 DEF SaysTo, With

\* An entry holds what is said of its block before line p.
Agrees(entry, name, p) ==
  /\ entry.disk = SaysTo(name, "disk", "Unknown", p)
  /\ entry.conn = SaysTo(name, "connection", "Unknown", p)
  /\ entry.resync_pct = SaysTo(name, "done", 100, p)
  /\ entry.out_of_sync_bytes = SaysTo(name, "out-of-sync", 0, p)

LEMMA OwnIsAgreement ==
  /\ OwnBlockOnly <=> \A name \in DOMAIN out : Agrees(out[name], name, pos)
  /\ text' = text => (OwnBlockOnly' <=> \A name \in DOMAIN out' : Agrees(out'[name], name, pos'))
<1>1. OwnBlockOnly <=> \A name \in DOMAIN out : Agrees(out[name], name, pos)
  BY SaysIsSaysTo DEF OwnBlockOnly, Agrees
<1>2. ASSUME text' = text
      PROVE  OwnBlockOnly' <=> \A name \in DOMAIN out' : Agrees(out'[name], name, pos')
  <2>1. \A name, key, default : Says(name, key, default)' = SaysTo(name, key, default, pos')
    BY <1>2 DEF Says, SaysTo, With, ReadTo, Read, Start, Has
  <2> QED BY <2>1 DEF OwnBlockOnly, Agrees
<1> QED BY <1>1, <1>2

---------------------------------------------------------------------------
(* The steps of the parser.                                                *)

\* The parser is at the head line of the i-th resource and makes its entry.
OpensAt(i) ==
  /\ pos \in 1 .. Len(text) /\ pos' = pos + 1
  /\ pos = Start(ResourceNames[i]) /\ text[pos] = HeadLine(i) /\ Opens(text[pos])
  /\ cur' = ResourceNames[i] /\ DOMAIN out' = DOMAIN out \cup {ResourceNames[i]}
  /\ out'[ResourceNames[i]] = NewEntry(report[i].role)
  /\ \A name \in DOMAIN out : name # ResourceNames[i] => out'[name] = out[name]

LEMMA RefineByHead ==
  ASSUME NEW role, NEW tokens, DOMAIN tokens = {"role"}
  PROVE  Refine(NewEntry(role), tokens) = NewEntry(role)
<1>1. \A default : /\ Token(tokens, "disk", default) = default
                   /\ Token(tokens, "connection", default) = default
                   /\ Token(tokens, "done", default) = default
                   /\ Token(tokens, "out-of-sync", default) = default
  BY DEF Token
<1> QED BY <1>1 DEF Refine, NewEntry

LEMMA OpenBlockOpens ==
  ASSUME ParseTypeOK, OpenBlock
  PROVE  \E i \in DOMAIN ResourceNames : OpensAt(i)
<1>1. Len(text) \in Nat /\ pos \in 1 .. Len(text) + 1 /\ pos <= Len(text) /\ Opens(text[pos])
  BY TypedLegible DEF Legible, ParseTypeOK, OpenBlock, InLoop, Here
<1>2. pos \in 1 .. Len(text)
  BY <1>1
<1>3. PICK i \in DOMAIN ResourceNames : pos = Start(ResourceNames[i]) /\ text[pos] = HeadLine(i)
  BY <1>1, <1>2, LineKinds
<1>4. /\ text[pos].head = ResourceNames[i] /\ DOMAIN text[pos].tokens = {"role"}
      /\ text[pos].tokens["role"] = report[i].role
  BY <1>3, HeadTokens
<1> DEFINE e == NewEntry(report[i].role)
<1>5. Refine(NewEntry(text[pos].tokens["role"]), text[pos].tokens) = e
  BY <1>4, RefineByHead
<1> HIDE DEF e
<1>6. cur' = ResourceNames[i] /\ out' = Put(out, ResourceNames[i], e) /\ pos' = pos + 1
  BY <1>4, <1>5 DEF OpenBlock, Here
<1>7. out' = [k \in {ResourceNames[i]} \cup DOMAIN out |-> IF k = ResourceNames[i] THEN e ELSE out[k]]
  BY <1>6 DEF Put
<1>8. /\ DOMAIN out' = DOMAIN out \cup {ResourceNames[i]} /\ out'[ResourceNames[i]] = e
      /\ \A name \in DOMAIN out : name # ResourceNames[i] => out'[name] = out[name]
  BY <1>7
<1> QED BY <1>1, <1>2, <1>3, <1>6, <1>8 DEF OpensAt, e

\* The line refines the entry of the current block, of which it is a part.
RefinesEntry ==
  /\ cur \in DOMAIN out /\ cur \in ToSet(ResourceNames) /\ InnerFacts(text[pos])
  /\ Start(cur) \in 1 .. Len(text) /\ text[Start(cur)].head = cur /\ cur # Indent
  /\ Start(cur) < pos /\ \A k \in Start(cur) + 1 .. pos : text[k].head = Indent
  /\ out'[cur] = Refine(out[cur], text[pos].tokens)
  /\ \A name \in DOMAIN out : name # cur => out'[name] = out[name]

RefinesAt ==
  /\ pos \in 1 .. Len(text) /\ pos' = pos + 1 /\ cur' = cur
  /\ Readable(text[pos]) /\ ~Opens(text[pos]) /\ DOMAIN out' = DOMAIN out
  /\ \/ cur = NoResource /\ DOMAIN out = {}
     \/ cur # NoResource /\ RefinesEntry

\* A resource's head line opens; it is found by its name.
LEMMA HeadsOpen ==
  ASSUME ParseTypeOK
  PROVE  \A name \in ToSet(ResourceNames) : /\ Start(name) \in 1 .. Len(text) /\ Opens(text[Start(name)])
                                    /\ text[Start(name)].head = name /\ name # Indent
<1> TAKE name \in ToSet(ResourceNames)
<1>1. PICK i \in DOMAIN ResourceNames : name = ResourceNames[i]
  BY NamesOf
<1>2. Start(name) \in 1 .. Len(text) /\ text[Start(name)] = HeadLine(i)
  BY <1>1, Starts
<1>3. HeadLine(i).head = name /\ name # Indent /\ DOMAIN HeadLine(i).tokens = {"role"}
  BY <1>1, HeadTokens
<1> QED BY <1>2, <1>3 DEF Opens

LEMMA RefineBlockRefines ==
  ASSUME ParseTypeOK, Progress, RefineBlock
  PROVE  RefinesAt
<1>1. Len(text) \in Nat /\ pos \in 1 .. Len(text) + 1 /\ pos <= Len(text)
  BY TypedLegible DEF Legible, ParseTypeOK, RefineBlock, InLoop
<1>2. pos \in 1 .. Len(text)
  BY <1>1
<1>3. Readable(text[pos]) /\ ~Opens(text[pos]) /\ pos' = pos + 1 /\ cur' = cur
  BY DEF RefineBlock, Here
<1>4. CASE cur = NoResource
  <2>1. out' = out /\ DOMAIN out = {}
    BY <1>4 DEF RefineBlock, Progress
  <2> QED BY <1>2, <1>3, <1>4, <2>1 DEF RefinesAt
<1>5. CASE cur # NoResource
  <2>1. cur \in ToSet(ResourceNames)
    BY <1>5 DEF ParseTypeOK
  <2>2. Start(cur) \in 1 .. Len(text) /\ text[Start(cur)].head = cur /\ cur # Indent
    BY <2>1, HeadsOpen
  <2>3. /\ cur \in DOMAIN out /\ Start(cur) < pos
        /\ \A k \in Start(cur) + 1 .. pos - 1 : text[k].head = Indent
    BY <1>5 DEF Progress
  <2>4. pos # 1
    BY <2>2, <2>3
  <2>5. InnerFacts(text[pos])
    BY <1>2, <1>3, <2>4, LineKinds
  <2>6. \A k \in Start(cur) + 1 .. pos : text[k].head = Indent
    BY <1>2, <2>2, <2>3, <2>5 DEF InnerFacts
  <2>7. out' = [out EXCEPT ![cur] = Refine(out[cur], text[pos].tokens)]
    BY <1>5 DEF RefineBlock, Here
  <2>8. /\ DOMAIN out' = DOMAIN out /\ out'[cur] = Refine(out[cur], text[pos].tokens)
        /\ \A name \in DOMAIN out : name # cur => out'[name] = out[name]
    BY <2>3, <2>7
  <2> QED BY <1>2, <1>3, <1>5, <2>1, <2>2, <2>3, <2>5, <2>6, <2>8 DEF RefinesAt, RefinesEntry
<1> QED BY <1>4, <1>5

\* The steps keep the invariant: first what a step that opens a block does to
\* each part of it, then one that refines a block.
LEMMA OpenKeepsType ==
  ASSUME ParseTypeOK, OpenBlock
  PROVE  ParseTypeOK'
<1>1. PICK i \in DOMAIN ResourceNames : OpensAt(i)
  BY OpenBlockOpens
<1>2. report' = report /\ text' = text /\ stage' = stage
  BY DEF OpenBlock
<1>3. text' = Printed'
  BY <1>2 DEF ParseTypeOK, Printed
<1>4. ResourceNames[i] \in ToSet(ResourceNames) /\ NewEntry(report[i].role) \in Entries
  BY NamesOf, HeadTokens, NewEntryTyped
<1>5. pos' \in 1 .. Len(text)' + 1
  BY <1>1, <1>2, TypedLegible DEF OpensAt, Legible
<1>6. DOMAIN out' \subseteq ToSet(ResourceNames) /\ \A name \in DOMAIN out' : out'[name] \in Entries
  BY <1>1, <1>4 DEF OpensAt, ParseTypeOK
<1>7. cur' \in ToSet(ResourceNames) \cup {NoResource}
  BY <1>1, <1>4 DEF OpensAt
<1> QED BY <1>2, <1>3, <1>5, <1>6, <1>7 DEF ParseTypeOK

LEMMA OpenKeepsProgress ==
  ASSUME ParseTypeOK, Progress, OpenBlock
  PROVE  Progress'
<1>1. PICK i \in DOMAIN ResourceNames : OpensAt(i)
  BY OpenBlockOpens
<1>2. report' = report /\ text' = text /\ stage' = "parse"
  BY DEF OpenBlock, InLoop
<1>3. \A name : Start(name)' = Start(name)
  BY <1>2 DEF Start
<1>4. ResourceNames[i] \in ToSet(ResourceNames) /\ ResourceNames[i] # NoResource /\ pos \in Nat
  BY <1>1, NamesOf DEF OpensAt
<1>5. \A name \in ToSet(ResourceNames) : Start(name) = pos => name = ResourceNames[i]
  BY <1>1, <1>4, HeadsOpen DEF OpensAt
<1>6. \A name \in ToSet(ResourceNames) : Start(name) \in Nat
  BY HeadsOpen
<1>7. cur' # NoResource /\ cur' \in DOMAIN out' /\ Start(cur)' = pos /\ pos' = pos + 1
  <2>1. cur' = ResourceNames[i] /\ Start(ResourceNames[i]) = pos /\ pos' = pos + 1 /\ cur' \in DOMAIN out'
    BY <1>1 DEF OpensAt
  <2>2. Start(cur)' = Start(ResourceNames[i])
    BY <1>2, <2>1 DEF Start
  <2> QED BY <1>4, <2>1, <2>2
<1>8. \A k \in Start(cur)' + 1 .. pos' - 1 : text'[k].head = Indent
  BY <1>4, <1>7
<1>9. ASSUME NEW name \in DOMAIN out'
      PROVE  /\ Start(name)' < pos' /\ Start(name)' <= Start(cur)'
             /\ out'[name].role = text'[Start(name)'].tokens["role"]
  <2>1. CASE name = ResourceNames[i]
    <3>1. out'[name].role = report[i].role
      BY <1>1, <2>1 DEF OpensAt, NewEntry
    <3>2. text[Start(name)].tokens["role"] = report[i].role /\ Start(name) = pos
      BY <1>1, <2>1, HeadTokens DEF OpensAt
    <3> QED BY <1>2, <1>3, <1>4, <1>7, <3>1, <3>2
  <2>2. CASE name # ResourceNames[i]
    <3>1. name \in DOMAIN out /\ out'[name] = out[name]
      BY <1>1, <2>2 DEF OpensAt
    <3>2. Start(name) < pos /\ out[name].role = text[Start(name)].tokens["role"]
      BY <3>1 DEF Progress
    <3>3. Start(name) \in Nat
      BY <1>6, <3>1 DEF ParseTypeOK
    <3> QED BY <1>2, <1>3, <1>4, <1>7, <3>1, <3>2, <3>3
  <2> QED BY <2>1, <2>2
<1>10. ASSUME NEW name \in ToSet(ResourceNames), Start(name)' < pos' PROVE name \in DOMAIN out'
  <2>1. Start(name) < pos \/ Start(name) = pos
    BY <1>3, <1>4, <1>6, <1>7, <1>10
  <2> QED BY <1>1, <1>5, <2>1 DEF OpensAt, Progress
<1>11. \A k \in 1 .. pos' - 1 : Opens(text[k]) \/ Readable(text[k])
  <2>1. \A k \in 1 .. pos' - 1 : k \in 1 .. pos - 1 \/ k = pos
    BY <1>4, <1>7
  <2> QED BY <1>1, <2>1 DEF OpensAt, Progress
<1>12. \A k \in 1 .. pos' - 1 : (Opens(text[k]) \/ Readable(text[k]))'
  BY <1>2, <1>11 DEF Opens, Readable
<1> QED BY <1>2, <1>7, <1>8, <1>9, <1>10, <1>12 DEF Progress

LEMMA OpenKeepsBlocks ==
  ASSUME ParseTypeOK, Progress, OwnBlockOnly, OpenBlock
  PROVE  OwnBlockOnly'
<1>1. PICK i \in DOMAIN ResourceNames : OpensAt(i)
  BY OpenBlockOpens
<1>2. text' = text
  BY DEF OpenBlock
<1>3. pos \in Nat /\ pos' = pos + 1 /\ pos = Start(ResourceNames[i])
  BY <1>1 DEF OpensAt
<1>4. text[pos].head # Indent /\ DOMAIN text[pos].tokens = {"role"}
  BY <1>1, HeadTokens DEF OpensAt
<1>5. ASSUME NEW name \in DOMAIN out' PROVE Agrees(out'[name], name, pos')
  <2>1. CASE name = ResourceNames[i]
    <3>1. \A key : key # "role" => ~Has(text[Start(name)], key)
      BY <1>3, <1>4, <2>1 DEF Has
    <3>2. \A key : key # "role" => \A default : SaysTo(name, key, default, Start(name) + 1) = default
      BY <1>3, <2>1, <3>1, SaysNothing
    <3>3. /\ SaysTo(name, "disk", "Unknown", pos') = "Unknown"
          /\ SaysTo(name, "connection", "Unknown", pos') = "Unknown"
          /\ SaysTo(name, "done", 100, pos') = 100
          /\ SaysTo(name, "out-of-sync", 0, pos') = 0
      BY <1>3, <2>1, <3>2
    <3>4. out'[name] = NewEntry(report[i].role)
      BY <1>1, <2>1 DEF OpensAt
    <3> QED BY <3>3, <3>4 DEF Agrees, NewEntry
  <2>2. CASE name # ResourceNames[i]
    <3>1. name \in DOMAIN out /\ out'[name] = out[name]
      BY <1>1, <2>2 DEF OpensAt
    <3>2. Start(name) < pos /\ Start(name) \in Nat
      BY <3>1, HeadsOpen DEF Progress, ParseTypeOK
    <3>3. pos \in Start(name) + 1 .. pos
      BY <1>3, <3>2
    <3>4. \A key, default : SaysTo(name, key, default, pos + 1) = SaysTo(name, key, default, pos)
      BY <1>3, <1>4, <3>2, <3>3, SaysSame
    <3>5. Agrees(out[name], name, pos)
      BY <3>1, OwnIsAgreement
    <3> QED BY <1>3, <3>1, <3>4, <3>5 DEF Agrees
  <2> QED BY <2>1, <2>2
<1> QED BY <1>2, <1>5, OwnIsAgreement

LEMMA RefineKeepsType ==
  ASSUME ParseTypeOK, Progress, RefineBlock
  PROVE  ParseTypeOK'
<1>1. RefinesAt
  BY RefineBlockRefines
<1>2. report' = report /\ text' = text /\ cur' = cur /\ stage' = stage
  BY DEF RefineBlock
<1>3. text' = Printed'
  BY <1>2 DEF ParseTypeOK, Printed
<1>4. pos' \in 1 .. Len(text)' + 1
  BY <1>1, <1>2, TypedLegible DEF RefinesAt, Legible
<1>5. DOMAIN out' \subseteq ToSet(ResourceNames)
  BY <1>1 DEF RefinesAt, ParseTypeOK
<1>6. ASSUME NEW name \in DOMAIN out' PROVE out'[name] \in Entries
  <2>1. name \in DOMAIN out /\ out[name] \in Entries /\ RefinesEntry
    BY <1>1 DEF RefinesAt, ParseTypeOK
  <2>2. CASE name = cur
    <3>1. out'[name] = Refine(out[name], text[pos].tokens) /\ InnerFacts(text[pos]) /\ Readable(text[pos])
      BY <1>1, <2>1, <2>2 DEF RefinesAt, RefinesEntry
    <3> QED BY <2>1, <3>1, RefineTyped
  <2>3. CASE name # cur
    BY <2>1, <2>3 DEF RefinesEntry
  <2> QED BY <2>2, <2>3
<1> QED BY <1>2, <1>3, <1>4, <1>5, <1>6 DEF ParseTypeOK

LEMMA RefineKeepsProgress ==
  ASSUME ParseTypeOK, Progress, RefineBlock
  PROVE  Progress'
<1>1. RefinesAt
  BY RefineBlockRefines
<1>2. text' = text /\ cur' = cur /\ stage' = "parse" /\ pos \in 1 .. Len(text) /\ pos' = pos + 1
      /\ DOMAIN out' = DOMAIN out
  BY <1>1 DEF RefineBlock, InLoop, RefinesAt
<1>3. \A name : Start(name)' = Start(name)
  BY <1>2 DEF Start
<1>4. \A name \in ToSet(ResourceNames) : Start(name) \in Nat /\ Start(name) # pos
  BY <1>1, HeadsOpen DEF RefinesAt
<1>5. ASSUME cur # NoResource
      PROVE  /\ cur \in DOMAIN out' /\ Start(cur) < pos'
             /\ \A k \in Start(cur) + 1 .. pos' - 1 : text[k].head = Indent
  <2>1. /\ cur \in DOMAIN out /\ Start(cur) < pos /\ Start(cur) \in Nat
        /\ \A k \in Start(cur) + 1 .. pos : text[k].head = Indent
    BY <1>1, <1>5 DEF RefinesAt, RefinesEntry
  <2>2. pos' - 1 = pos /\ Start(cur) < pos'
    BY <1>2, <2>1
  <2> QED BY <1>2, <2>1, <2>2
<1>6. ASSUME NEW name \in DOMAIN out
      PROVE  /\ Start(name) < pos' /\ Start(name) <= Start(cur)
             /\ out'[name].role = text[Start(name)].tokens["role"]
  <2>1. /\ Start(name) < pos /\ Start(name) <= Start(cur)
        /\ out[name].role = text[Start(name)].tokens["role"]
    BY DEF Progress
  <2>2. Start(name) \in Nat
    BY <1>4 DEF ParseTypeOK
  <2>3. out'[name].role = out[name].role
    BY <1>1, RefineFields DEF RefinesAt, RefinesEntry
  <2> QED BY <1>2, <2>1, <2>2, <2>3
<1>7. ASSUME NEW name \in ToSet(ResourceNames), Start(name) < pos' PROVE name \in DOMAIN out
  <2>1. Start(name) < pos
    BY <1>2, <1>4, <1>7
  <2> QED BY <2>1 DEF Progress
<1>8. \A k \in 1 .. pos' - 1 : Opens(text[k]) \/ Readable(text[k])
  <2>1. \A k \in 1 .. pos' - 1 : k \in 1 .. pos - 1 \/ k = pos
    BY <1>2
  <2> QED BY <1>1, <2>1 DEF RefinesAt, Progress
<1>9. \A k \in 1 .. pos' - 1 : (Opens(text[k]) \/ Readable(text[k]))'
  BY <1>2, <1>8 DEF Opens, Readable
<1>10. cur = NoResource => DOMAIN out = {}
  BY DEF Progress
<1> QED BY <1>2, <1>3, <1>5, <1>6, <1>7, <1>9, <1>10 DEF Progress

LEMMA RefineKeepsBlocks ==
  ASSUME ParseTypeOK, Progress, OwnBlockOnly, RefineBlock
  PROVE  OwnBlockOnly'
<1>1. RefinesAt
  BY RefineBlockRefines
<1>2. text' = text /\ pos \in Nat /\ pos' = pos + 1 /\ DOMAIN out' = DOMAIN out
  BY <1>1 DEF RefineBlock, RefinesAt
<1>3. ASSUME NEW name \in DOMAIN out PROVE Agrees(out'[name], name, pos')
  <2>1. RefinesEntry /\ Agrees(out[name], name, pos)
    BY <1>1, OwnIsAgreement DEF RefinesAt
  <2>2. Start(cur) \in Nat /\ Start(cur) < pos /\ \A k \in Start(cur) + 1 .. pos : text[k].head = Indent
    BY <2>1 DEF RefinesEntry
  <2>3. CASE name = cur
    <3>1. \A key, default :
            SaysTo(name, key, default, pos + 1) = Token(text[pos].tokens, key, SaysTo(name, key, default, pos))
      BY <1>2, <2>2, <2>3, SaysMore
    <3>2. out'[name] = Refine(out[name], text[pos].tokens)
      BY <2>1, <2>3 DEF RefinesEntry
    <3> QED BY <1>2, <2>1, <3>1, <3>2, RefineFields DEF Agrees
  <2>4. CASE name # cur
    <3>1. out'[name] = out[name]
      BY <2>1, <2>4 DEF RefinesEntry
    <3>2. name \in ToSet(ResourceNames) /\ Start(name) <= Start(cur)
      BY DEF Progress, ParseTypeOK
    <3>3. Start(name) \in Nat /\ text[Start(name)].head = name
      BY <3>2, HeadsOpen
    <3>4. text[Start(cur)].head = cur /\ cur # Indent
      BY <2>1 DEF RefinesEntry
    <3>5. Start(cur) \in Start(name) + 1 .. pos
      BY <1>2, <2>2, <2>4, <3>2, <3>3, <3>4
    <3>6. \A key, default : SaysTo(name, key, default, pos + 1) = SaysTo(name, key, default, pos)
      BY <1>2, <3>3, <3>4, <3>5, SaysSame
    <3> QED BY <1>2, <2>1, <3>1, <3>6 DEF Agrees
  <2> QED BY <2>3, <2>4
<1> QED BY <1>2, <1>3, OwnIsAgreement

LEMMA RestKeeps ==
  ASSUME ParserInv, UNCHANGED <<report, text, pos, cur, out>>,
         stage' \in {"parse", "returned", "raised"}, stage' = "returned" => pos = Len(text) + 1
  PROVE  ParserInv'
<1>1. ParseTypeOK'
  BY DEF ParserInv, ParseTypeOK, Printed
<1>2. \A name : Start(name)' = Start(name)
  BY DEF Start
<1>3. \A k : (Opens(text[k]) \/ Readable(text[k]))' <=> Opens(text[k]) \/ Readable(text[k])
  BY DEF Opens, Readable
<1>4. Start(cur)' = Start(cur)
  BY DEF Start
<1>5. Progress'
  BY <1>2, <1>3, <1>4 DEF ParserInv, Progress
<1>6. OwnBlockOnly'
  BY OwnIsAgreement DEF ParserInv
<1> QED BY <1>1, <1>5, <1>6 DEF ParserInv

LEMMA ParserStarts == ASSUME ParseInit PROVE ParserInv
<1>1. Len(text) \in Nat
  BY PrintedLegible DEF ParseInit, Legible
<1>2. DOMAIN out = {} /\ pos = 1 /\ cur = NoResource /\ stage = "parse"
  BY DEF ParseInit
<1>3. ParseTypeOK
  BY <1>1, <1>2 DEF ParseInit, ParseTypeOK
<1>4. \A name \in ToSet(ResourceNames) : ~(Start(name) < pos)
  BY <1>2, <1>3, HeadsOpen
<1>5. Progress
  BY <1>2, <1>4 DEF Progress
<1>6. OwnBlockOnly
  BY <1>2 DEF OwnBlockOnly
<1> QED BY <1>3, <1>5, <1>6 DEF ParserInv

LEMMA ParserSteps == ASSUME ParserInv, [ParseNext]_parseVars PROVE ParserInv'
<1>1. Len(text) \in Nat /\ pos \in 1 .. Len(text) + 1 /\ stage \in {"parse", "returned", "raised"}
      /\ (stage = "returned" => pos = Len(text) + 1)
  BY TypedLegible DEF Legible, ParserInv, ParseTypeOK, Progress
<1>2. CASE OpenBlock
  BY <1>2, OpenKeepsType, OpenKeepsProgress, OpenKeepsBlocks DEF ParserInv
<1>3. CASE RefineBlock
  BY <1>3, RefineKeepsType, RefineKeepsProgress, RefineKeepsBlocks DEF ParserInv
<1>4. CASE Raise
  <2>1. UNCHANGED <<report, text, pos, cur, out>> /\ stage' = "raised"
    BY <1>4 DEF Raise
  <2> QED BY <2>1, RestKeeps
<1>5. CASE Return
  <2>1. UNCHANGED <<report, text, pos, cur, out>> /\ stage' = "returned" /\ pos > Len(text)
    BY <1>5 DEF Return
  <2>2. pos = Len(text) + 1
    BY <1>1, <2>1
  <2> QED BY <2>1, <2>2, RestKeeps
<1>6. CASE UNCHANGED parseVars
  <2>1. UNCHANGED <<report, text, pos, cur, out>> /\ stage' = stage
    BY <1>6 DEF parseVars
  <2> QED BY <1>1, <2>1, RestKeeps
<1> QED BY <1>2, <1>3, <1>4, <1>5, <1>6 DEF ParseNext

LEMMA ParserSafe == ParseSpec => []ParserInv
BY ParserStarts, ParserSteps, PTL DEF ParseSpec

---------------------------------------------------------------------------
(* What a whole text has said of a block.                                  *)

\* A block is read from its first line to its last.
LEMMA WholeBlock ==
  ASSUME ParseTypeOK, NEW i \in DOMAIN ResourceNames
  PROVE  LET first == Start(ResourceNames[i])
             n == Len(BlockOf(i))
         IN /\ n \in Nat /\ first \in Nat /\ ReadTo(ResourceNames[i], Len(text) + 1) = first .. first + n - 1
            /\ \A j \in 1 .. n : first + j - 1 \in 1 .. Len(text) /\ text[first + j - 1] = BlockOf(i)[j]
<1> DEFINE first == Start(ResourceNames[i])
           n == Len(BlockOf(i))
           R == ReadTo(ResourceNames[i], Len(text) + 1)
<1>1. Legible /\ BlockFacts(ResourceNames[i], report[i])
  BY TypedLegible, BlockSays DEF ParseTypeOK
<1>2. Len(text) \in Nat /\ DOMAIN text = 1 .. Len(text)
  BY <1>1 DEF Legible
<1>3. /\ first \in DOMAIN text
      /\ \A j \in 1 .. n : first + j - 1 \in DOMAIN text /\ text[first + j - 1] = BlockOf(i)[j]
      /\ \/ first + n = Len(text) + 1
         \/ first + n \in DOMAIN text /\ text[first + n].head # Indent
  BY <1>1 DEF Legible, Placed
<1>4. n \in Nat /\ n >= 1 /\ \A j \in 2 .. n : BlockOf(i)[j].head = Indent
  <2>1. BlockOf(i) \in Seq(BlockLines(ResourceNames[i], report[i])) /\ n >= 1
    BY <1>1 DEF BlockFacts, BlockOf
  <2>2. \A j \in 2 .. n : BlockOf(i)[j] \in InnerLines
    BY <1>1 DEF BlockFacts, BlockOf
  <2> QED BY <2>1, <2>2, InnerTokens DEF InnerFacts
<1> HIDE DEF first, n
<1>5. first \in 1 .. Len(text)
  BY <1>2, <1>3
<1>6. \A k \in first + 1 .. first + n - 1 : text[k].head = Indent
  <2> TAKE k \in first + 1 .. first + n - 1
  <2>1. k - first + 1 \in 2 .. n /\ k - first + 1 \in 1 .. n /\ first + (k - first + 1) - 1 = k
    BY <1>4, <1>5
  <2> QED BY <1>3, <1>4, <2>1
<1>7. first + n - 1 \in 1 .. Len(text)
  BY <1>2, <1>3, <1>4, <1>5
<1>8. R = {k \in first .. Len(text) : \A j \in first + 1 .. k : text[j].head = Indent}
  BY <1>2 DEF ReadTo, first
<1>9. \A k \in first .. first + n - 1 : k \in R
  BY <1>4, <1>5, <1>6, <1>7, <1>8
<1>10. \A k \in R : k \in first .. first + n - 1
  <2> SUFFICES ASSUME NEW k \in R, ~(k <= first + n - 1) PROVE FALSE
    BY <1>4, <1>5, <1>8
  <2>1. k \in first .. Len(text) /\ \A j \in first + 1 .. k : text[j].head = Indent
    BY <1>8
  <2>2. first + n \in first + 1 .. k
    BY <1>4, <1>5, <2>1
  <2> QED BY <1>2, <1>3, <1>4, <1>5, <2>1, <2>2
<1>11. R = first .. first + n - 1
  BY <1>8, <1>9, <1>10
<1> QED BY <1>2, <1>3, <1>4, <1>5, <1>11 DEF first, n, R

\* What a block tells once is what it has said at the end.
LEMMA SoleSays ==
  ASSUME ParseTypeOK, NEW i \in DOMAIN ResourceNames, NEW key, NEW value, Sole(BlockOf(i), key, value)
  PROVE  \A default : SaysTo(ResourceNames[i], key, default, Len(text) + 1) = value
<1> DEFINE first == Start(ResourceNames[i])
           n == Len(BlockOf(i))
           W == With(ResourceNames[i], key, Len(text) + 1)
<1>1. /\ n \in Nat /\ first \in Nat /\ ReadTo(ResourceNames[i], Len(text) + 1) = first .. first + n - 1
      /\ \A j \in 1 .. n : text[first + j - 1] = BlockOf(i)[j]
  BY WholeBlock
<1>2. PICK j \in 1 .. n : /\ Has(BlockOf(i)[j], key) /\ BlockOf(i)[j].tokens[key] = value
                          /\ \A m \in 1 .. n : Has(BlockOf(i)[m], key) => m = j
  BY DEF Sole
<1> DEFINE p == first + j - 1
<1>3. W = {k \in first .. first + n - 1 : Has(text[k], key)}
  BY <1>1 DEF With
<1> HIDE DEF first, n, W
<1>4. p \in W
  BY <1>1, <1>2, <1>3
<1>5. \A k \in W : k = p
  <2> TAKE k \in W
  <2>1. k \in first .. first + n - 1 /\ Has(text[k], key)
    BY <1>3
  <2>2. k - first + 1 \in 1 .. n /\ first + (k - first + 1) - 1 = k
    BY <1>1, <2>1
  <2>3. k - first + 1 = j
    BY <1>1, <1>2, <2>1, <2>2
  <2> QED BY <2>2, <2>3
<1>6. p \in Int
  BY <1>1
<1>7. text[p].tokens[key] = value
  BY <1>1, <1>2
<1> HIDE DEF p
<1>8. Max({} \cup {p}) = p
  BY <1>6, MaxOfNew
<1>9. W = {} \cup {p}
  BY <1>4, <1>5
<1>10. W # {} /\ text[Max(W)].tokens[key] = value
  BY <1>7, <1>8, <1>9
<1> QED BY <1>10 DEF SaysTo, W

LEMMA LacksSays ==
  ASSUME ParseTypeOK, NEW i \in DOMAIN ResourceNames, NEW key, Lacks(BlockOf(i), key)
  PROVE  \A default : SaysTo(ResourceNames[i], key, default, Len(text) + 1) = default
<1> DEFINE first == Start(ResourceNames[i])
           n == Len(BlockOf(i))
<1>1. /\ n \in Nat /\ first \in Nat /\ ReadTo(ResourceNames[i], Len(text) + 1) = first .. first + n - 1
      /\ \A j \in 1 .. n : text[first + j - 1] = BlockOf(i)[j]
  BY WholeBlock
<1>2. \A j \in 1 .. n : ~Has(BlockOf(i)[j], key)
  BY DEF Lacks
<1> HIDE DEF first, n
<1>3. \A k \in first .. first + n - 1 : ~Has(text[k], key)
  <2> TAKE k \in first .. first + n - 1
  <2>1. k - first + 1 \in 1 .. n /\ first + (k - first + 1) - 1 = k
    BY <1>1
  <2> QED BY <1>1, <1>2, <2>1
<1> QED BY <1>1, <1>3 DEF SaysTo, With

LEMMA TellsSays ==
  ASSUME ParseTypeOK, NEW i \in DOMAIN ResourceNames, NEW key, NEW value, Tells(BlockOf(i), key, value)
  PROVE  \A default : SaysTo(ResourceNames[i], key, default, Len(text) + 1) = Known(value, default)
<1>1. CASE value = NoToken
  BY <1>1, LacksSays DEF Tells, Known
<1>2. CASE value # NoToken
  BY <1>2, SoleSays DEF Tells, Known
<1> QED BY <1>1, <1>2

LEMMA MaxOf ==
  ASSUME NEW n \in Nat, NEW T \in SUBSET (0 .. n), T # {}
  PROVE  Max(T) \in T
<1> DEFINE D == {n - k : k \in T}
<1>5. \A k \in T : k \in Nat /\ n - k \in Nat
  OBVIOUS
<1>1. D \in SUBSET Nat /\ D # {}
  BY <1>5
<1>2. PICK d \in D : \A m \in D : d <= m
  BY <1>1, LeastNumber
<1>3. PICK k \in T : d = n - k
  OBVIOUS
<1>4. \A y \in T : k >= y
  <2> TAKE y \in T
  <2>1. n - y \in D
    OBVIOUS
  <2>2. n - k <= n - y
    BY <1>2, <1>3, <2>1
  <2> QED BY <2>2
<1> QED BY <1>4 DEF Max

\* A resync that a block tells of ends below 100.
LEMMA SyncingSays ==
  ASSUME ParserInv, pos = Len(text) + 1, NEW i \in DOMAIN ResourceNames, ~Lacks(BlockOf(i), "done")
  PROVE  SaysTo(ResourceNames[i], "done", 100, Len(text) + 1) = 42
<1> DEFINE first == Start(ResourceNames[i])
           n == Len(BlockOf(i))
           W == With(ResourceNames[i], "done", Len(text) + 1)
<1>1. /\ n \in Nat /\ first \in Nat /\ ReadTo(ResourceNames[i], Len(text) + 1) = first .. first + n - 1
      /\ \A j \in 1 .. n : first + j - 1 \in 1 .. Len(text) /\ text[first + j - 1] = BlockOf(i)[j]
  BY WholeBlock DEF ParserInv
<1>2. PICK j \in 1 .. n : Has(BlockOf(i)[j], "done")
  BY DEF Lacks
<1>3. W = {k \in first .. first + n - 1 : Has(text[k], "done")}
  BY <1>1 DEF With
<1>4. BlockFacts(ResourceNames[i], report[i])
  BY BlockSays DEF ParserInv, ParseTypeOK
<1>5. BlockOf(i)[1] = HeadLine(i) /\ \A m \in 2 .. n : BlockOf(i)[m] \in InnerLines
  BY <1>4 DEF BlockFacts, BlockOf, HeadLine
<1>6. ~Has(BlockOf(i)[1], "done")
  <2>1. DOMAIN HeadLine(i).tokens = {"role"}
    BY HeadTokens DEF ParserInv
  <2> QED BY <1>5, <2>1 DEF Has
<1>7. Len(text) \in Nat
  BY TypedLegible DEF ParserInv, Legible
<1> HIDE DEF first, n, W
<1>8. first + j - 1 \in W
  BY <1>1, <1>2, <1>3
<1>9. W # {} /\ first + n \in Nat /\ W \in SUBSET (0 .. first + n)
  BY <1>1, <1>3, <1>8
<1>10. Max(W) \in W
  BY <1>9, MaxOf
<1> DEFINE k == Max(W)
           m == k - first + 1
<1>11. k \in first .. first + n - 1 /\ Has(text[k], "done")
  BY <1>3, <1>10
<1> HIDE DEF k
<1>12. m \in 1 .. n /\ first + m - 1 = k
  BY <1>1, <1>11
<1>13. text[k] = BlockOf(i)[m] /\ k \in 1 .. Len(text)
  BY <1>1, <1>12
<1>14. m # 1
  BY <1>6, <1>11, <1>13
<1>15. text[k] \in InnerLines
  BY <1>5, <1>12, <1>13, <1>14
<1>16. InnerFacts(text[k])
  BY <1>15, InnerTokens
<1>17. Readable(text[k])
  <2>1. ~Opens(text[k])
    BY <1>16 DEF InnerFacts, Opens
  <2>2. k \in 1 .. pos - 1
    BY <1>7, <1>13
  <2> QED BY <2>1, <2>2 DEF ParserInv, Progress
<1>18. text[k].tokens["done"] = 42
  BY <1>11, <1>16, <1>17 DEF InnerFacts, Has, Readable
<1> QED BY <1>9, <1>18 DEF SaysTo, W, k

\* At the end every resource has its entry, which holds what its block said.
LEMMA Finished ==
  ASSUME ParserInv, stage = "returned"
  PROVE  /\ pos = Len(text) + 1 /\ DOMAIN out = ToSet(ResourceNames)
         /\ \A i \in DOMAIN ResourceNames :
              /\ out[ResourceNames[i]] \in Entries /\ out[ResourceNames[i]].role = report[i].role
              /\ Agrees(out[ResourceNames[i]], ResourceNames[i], Len(text) + 1)
<1>1. ParseTypeOK /\ pos = Len(text) + 1 /\ Len(text) \in Nat
  BY TypedLegible DEF ParserInv, Progress, Legible
<1>2. \A name \in ToSet(ResourceNames) : Start(name) < pos
  <2> TAKE name \in ToSet(ResourceNames)
  <2>1. Start(name) \in 1 .. Len(text)
    BY <1>1, HeadsOpen
  <2> QED BY <1>1, <2>1
<1>3. DOMAIN out = ToSet(ResourceNames)
  BY <1>1, <1>2 DEF ParserInv, Progress, ParseTypeOK
<1>4. ASSUME NEW i \in DOMAIN ResourceNames
      PROVE  /\ out[ResourceNames[i]] \in Entries /\ out[ResourceNames[i]].role = report[i].role
             /\ Agrees(out[ResourceNames[i]], ResourceNames[i], Len(text) + 1)
  <2>1. ResourceNames[i] \in DOMAIN out
    BY <1>3, NamesOf
  <2>2. out[ResourceNames[i]].role = text[Start(ResourceNames[i])].tokens["role"]
    BY <2>1 DEF ParserInv, Progress
  <2>3. text[Start(ResourceNames[i])].tokens["role"] = report[i].role
    BY <1>1, Starts, HeadTokens
  <2>4. Agrees(out[ResourceNames[i]], ResourceNames[i], Len(text) + 1)
    BY <1>1, <2>1, OwnIsAgreement DEF ParserInv
  <2> QED BY <1>1, <2>1, <2>2, <2>3, <2>4 DEF ParseTypeOK
<1> QED BY <1>1, <1>3, <1>4

LEMMA FinishedExact == ASSUME ParserInv PROVE ExactForOnePeer
<1> SUFFICES ASSUME stage = "returned" PROVE ExactForOnePeer
  BY DEF ExactForOnePeer
<1>1. ParseTypeOK /\ DOMAIN out = ToSet(ResourceNames)
  BY Finished DEF ParserInv
<1>2. ASSUME NEW i \in DOMAIN ResourceNames, Len(report[i].peers) = 1
      PROVE  LET peer == report[i].peers[1] IN
             out[ResourceNames[i]] = [role |-> report[i].role, disk |-> report[i].disk,
                              conn |-> peer.conn, resync_pct |-> Known(peer.done, 100),
                              out_of_sync_bytes |-> Known(peer.lag, 0)]
  <2> DEFINE peer == report[i].peers[1]
             e == out[ResourceNames[i]]
  <2>1. /\ Sole(BlockOf(i), "disk", report[i].disk) /\ Sole(BlockOf(i), "connection", peer.conn)
        /\ Tells(BlockOf(i), "done", peer.done) /\ Tells(BlockOf(i), "out-of-sync", peer.lag)
    <3>1. BlockFacts(ResourceNames[i], report[i])
      BY <1>1, BlockSays DEF ParseTypeOK
    <3> QED BY <1>2, <3>1 DEF BlockFacts, BlockOf
  <2>2. e \in Entries /\ e.role = report[i].role /\ Agrees(e, ResourceNames[i], Len(text) + 1)
    BY Finished
  <2> HIDE DEF peer, e
  <2>3. /\ e.disk = report[i].disk /\ e.conn = peer.conn
        /\ e.resync_pct = Known(peer.done, 100) /\ e.out_of_sync_bytes = Known(peer.lag, 0)
    BY <1>1, <2>1, <2>2, SoleSays, TellsSays DEF Agrees
  <2>4. e = [role |-> e.role, disk |-> e.disk, conn |-> e.conn, resync_pct |-> e.resync_pct,
             out_of_sync_bytes |-> e.out_of_sync_bytes]
    BY <2>2 DEF Entries
  <2>5. e = [role |-> report[i].role, disk |-> report[i].disk, conn |-> peer.conn,
             resync_pct |-> Known(peer.done, 100), out_of_sync_bytes |-> Known(peer.lag, 0)]
    BY <2>2, <2>3, <2>4
  <2> QED BY <2>5 DEF peer, e
<1> QED BY <1>1, <1>2 DEF ExactForOnePeer

LEMMA FinishedVisible == ASSUME ParserInv PROVE ResyncVisible
<1> SUFFICES ASSUME stage = "returned", NEW i \in DOMAIN ResourceNames
             PROVE  out[ResourceNames[i]].resync_pct = 100 <=>
                      \A k \in DOMAIN report[i].peers : report[i].peers[k].done = NoToken
  BY DEF ResyncVisible
<1>1. ParseTypeOK /\ pos = Len(text) + 1
  BY Finished DEF ParserInv
<1>2. out[ResourceNames[i]].resync_pct = SaysTo(ResourceNames[i], "done", 100, Len(text) + 1)
  BY Finished DEF Agrees
<1>3. Lacks(BlockOf(i), "done") <=> \A k \in DOMAIN report[i].peers : report[i].peers[k].done = NoToken
  <2>1. BlockFacts(ResourceNames[i], report[i])
    BY <1>1, BlockSays DEF ParseTypeOK
  <2> QED BY <2>1 DEF BlockFacts, BlockOf
<1>4. CASE Lacks(BlockOf(i), "done")
  BY <1>1, <1>2, <1>3, <1>4, LacksSays
<1>5. CASE ~Lacks(BlockOf(i), "done")
  BY <1>1, <1>2, <1>3, <1>5, SyncingSays
<1> QED BY <1>4, <1>5

---------------------------------------------------------------------------
(* The theorems about the parser.                                          *)

\* The parser's dict only ever holds entries of the node's resources.
THEOREM ParserTypeCorrect == ParseSpec => []ParseTypeOK
BY ParserSafe, PTL DEF ParserInv

\* Each entry of parse_drbd's dict holds at every line what its own block has
\* said so far and nothing of a neighbour's block, for any list of resources.
THEOREM BlocksKeptApart == ParseSpec => []OwnBlockOnly
BY ParserSafe, PTL DEF ParserInv

\* parse_drbd returns every resource, and one with a single peer exactly as
\* DRBD has it.
THEOREM OnePeerExact == ParseSpec => []ExactForOnePeer
BY ParserSafe, FinishedExact, PTL

\* parse_drbd never reports a resync as complete while some peer of the
\* resource is still syncing, however many peers there are.
THEOREM ResyncShown == ParseSpec => []ResyncVisible
BY ParserSafe, FinishedVisible, PTL
=============================================================================
