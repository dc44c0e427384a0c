------------------------- MODULE CollectorProofs --------------------------
(***************************************************************************)
(* For every set of sources, order of probes and timeouts: a published     *)
(* timestamp never claims more freshness than its reading has, and a file  *)
(* is never published later than the sum of the timeouts after its stamp.  *)
(***************************************************************************)
EXTENDS Collector, TLAPS

LEMMA OrderFacts ==
  /\ Len(Order) \in Nat /\ Len(Order) >= 1
  /\ \A j \in Slots : Order[j] \in Sources
  /\ \A i, j \in Slots : Order[i] = Order[j] => i = j
BY CollectorAssumption DEF Slots

\* Budgets grow along the order, so each one bounds those before it.
LEMMA BudgetStep ==
  ASSUME NEW j \in Slots
  PROVE  /\ Budget[j - 1] \in Nat /\ Budget[j] \in Nat /\ Timeout[Order[j]] \in Nat
         /\ Budget[j] = Budget[j - 1] + Timeout[Order[j]]
BY CollectorAssumption, OrderFacts DEF Slots

\* Every step keeps every variable in its type.
THEOREM TypeCorrect == Spec => []TypeOK
<1>1. Init => TypeOK
  BY CollectorAssumption, OrderFacts DEF Init, TypeOK, Slots, Readings, Healths, Blank
<1>2. TypeOK /\ [Next]_vars => TypeOK'
  <2> SUFFICES ASSUME TypeOK, [Next]_vars PROVE TypeOK'
    OBVIOUS
  <2> USE CollectorAssumption, OrderFacts DEF TypeOK, Readings, Healths, Slots
  <2>1. CASE Tick
    <3>1. clock' \in 0 .. MaxTime
      <4>1. clock' = (IF clock < MaxTime THEN clock + 1 ELSE clock) /\ clock \in 0 .. MaxTime /\ MaxTime \in Nat
        BY <2>1 DEF Tick
      <4> HIDE DEF TypeOK
      <4> QED BY <4>1
    <3>2. spent' \in Nat
      BY <2>1 DEF Tick
    <3>3. UNCHANGED <<world, health, faults, pc, at, answer, now, reading, file>>
      BY <2>1 DEF Tick
    <3> QED
      BY <3>1, <3>2, <3>3
  <2>2. ASSUME NEW s \in Sources, Change(s) PROVE TypeOK'
    <3>1. world' = [world EXCEPT ![s] = world[s] + 1] /\ world[s] + 1 \in Nat
      BY <2>2 DEF Change
    <3>2. world' \in [Sources -> Nat]
      BY <3>1
    <3> QED
      BY <2>2, <3>2 DEF Change, runVars
  <2>3. ASSUME NEW s \in Sources, NEW h \in Healths, Sicken(s, h) PROVE TypeOK'
    BY <2>3 DEF Sicken, runVars
  <2>4. CASE Answer
    BY <2>4 DEF Answer, envVars, Current
  <2>5. CASE Start
    BY <2>5 DEF Start, envVars
  <2>6. CASE ProbeReads
    <3>1. reading' \in Readings
      BY <2>6 DEF ProbeReads, Current
    <3>2. /\ at' \in 1 .. Len(Order) /\ pc' \in {"probe", "write"} /\ spent' = 0
          /\ answer' = NoReading
      BY <2>6 DEF ProbeReads, Advance
    <3> QED
      BY <2>6, <3>1, <3>2 DEF ProbeReads, envVars
  <2>7. CASE ProbeFails
    <3>1. /\ at' \in 1 .. Len(Order) /\ pc' \in {"probe", "write"} /\ spent' = 0
          /\ answer' = NoReading
      <4>1. Advance /\ at \in 1 .. Len(Order) /\ Len(Order) \in Nat
        BY <2>7 DEF ProbeFails
      <4>2. pc' \in {"probe", "write"}
        BY <2>7, <4>1 DEF Advance, ProbeFails
      <4> QED BY <4>1, <4>2 DEF Advance
    <3> QED
      BY <2>7, <3>1 DEF ProbeFails, envVars
  <2>8. CASE ParseRaises
    BY <2>8 DEF ParseRaises, Return, Blank, envVars
  <2>9. CASE Publish
    BY <2>9 DEF Publish, Return, Blank, envVars
  <2>10. CASE Abort
    BY <2>10 DEF Abort, Return, Blank
  <2>11. CASE UNCHANGED vars
    BY <2>11 DEF vars
  <2> HIDE DEF TypeOK, Readings, Healths, Slots
  <2> QED
    BY <2>1, <2>2, <2>3, <2>4, <2>5, <2>6, <2>7, <2>8, <2>9, <2>10, <2>11 DEF Next, Run
<1> QED
  BY <1>1, <1>2, PTL DEF Spec

LEMMA IInvInit == Init => IInv
BY DEF Init, IInv, IdleIsBlank, RunInBudget, ReadingsInBudget, AnswerInBudget, StampHonest

\* A run that ends holds no readings, so only the published file matters.
LEMMA ReturnKeepsIInv ==
  ASSUME Return, StampHonest'
  PROVE  IInv'
BY DEF Return, Blank, IInv, IdleIsBlank, RunInBudget, ReadingsInBudget, AnswerInBudget

\* While a run probes slot j, at most the budget before j plus the time spent
\* on j has passed since it captured the clock; every reading it holds was
\* given in between.
LEMMA IInvStep == TypeOK /\ IInv /\ [Next]_vars => IInv'
<1> SUFFICES ASSUME TypeOK, IInv, [Next]_vars PROVE IInv'
  OBVIOUS
<1> USE OrderFacts DEF TypeOK, Slots
<1>0. ASSUME file' = file PROVE StampHonest'
  BY <1>0 DEF IInv, StampHonest
<1>1. CASE Tick
  <2>1. /\ pc' = pc /\ at' = at /\ now' = now /\ reading' = reading /\ answer' = answer
        /\ file' = file /\ clock' \in {clock, clock + 1} /\ pc # "write"
        /\ pc = "idle" => spent' = spent
        /\ pc = "probe" => spent < Timeout[Current] /\ spent' = spent + 1
    BY <1>1 DEF Tick
  <2>2. IdleIsBlank' /\ ReadingsInBudget' /\ AnswerInBudget'
    BY <2>1 DEF IInv, IdleIsBlank, Blank, ReadingsInBudget, AnswerInBudget, Current
  <2>3. RunInBudget'
    <3>1. CASE pc = "probe"
      <4>1. spent + 1 <= Timeout[Current]
        BY <3>1, <2>1, BudgetStep DEF Current
      <4>2. now <= clock /\ clock <= now + Budget[at - 1] + spent /\ Budget[at - 1] \in Nat
        BY <3>1, BudgetStep DEF IInv, RunInBudget
      <4>3. clock \in Nat /\ spent \in Nat /\ now \in Nat /\ spent' = spent + 1
        BY <3>1, <2>1, CollectorAssumption
      <4>4. now <= clock' /\ clock' <= now + Budget[at - 1] + spent'
        <5>1. CASE clock' = clock
          BY <5>1, <4>2, <4>3
        <5>2. CASE clock' = clock + 1
          BY <5>2, <4>2, <4>3
        <5> QED BY <5>1, <5>2, <2>1
      <4> QED
        BY <3>1, <2>1, <4>1, <4>4 DEF RunInBudget, Current
    <3> QED
      BY <3>1, <2>1 DEF RunInBudget
  <2> QED
    BY <2>1, <2>2, <2>3, <1>0 DEF IInv
<1>2. ASSUME NEW s \in Sources, Change(s) \/ \E h \in Healths : Sicken(s, h) PROVE IInv'
  <2>1. /\ pc' = pc /\ at' = at /\ spent' = spent /\ now' = now /\ reading' = reading
        /\ answer' = answer /\ file' = file /\ clock' = clock
    BY <1>2 DEF Change, Sicken, runVars
  <2> QED
    BY <2>1, <1>0 DEF IInv, IdleIsBlank, Blank, RunInBudget, ReadingsInBudget, AnswerInBudget, Current
<1>3. CASE Answer
  <2>1. /\ pc = "probe" /\ pc' = pc /\ at' = at /\ now' = now /\ spent' = spent /\ reading' = reading
        /\ file' = file /\ clock' = clock
        /\ answer' # Garbled => answer' = [version |-> world[Current], time |-> clock]
    BY <1>3 DEF Answer, envVars
  <2>2. IdleIsBlank' /\ RunInBudget' /\ ReadingsInBudget'
    BY <2>1 DEF IInv, IdleIsBlank, RunInBudget, ReadingsInBudget, Current
  <2>3. AnswerInBudget'
    <3>1. now <= clock /\ clock <= now + Budget[at - 1] + spent /\ spent <= Timeout[Current]
      BY <2>1 DEF IInv, RunInBudget
    <3>2. /\ Budget[at - 1] \in Nat /\ Timeout[Current] \in Nat
          /\ Budget[at] = Budget[at - 1] + Timeout[Current]
      BY BudgetStep DEF Current
    <3>3. clock <= now + Budget[at]
      BY <3>1, <3>2
    <3> QED
      BY <2>1, <3>1, <3>3 DEF AnswerInBudget
  <2> QED
    BY <2>1, <2>2, <2>3, <1>0 DEF IInv
<1>4. CASE Start
  <2>1. /\ at' = 1 /\ spent' = 0 /\ answer' = NoReading /\ reading' = Blank
        /\ pc' = "probe" /\ now' = clock /\ clock' = clock /\ file' = file
    BY <1>4 DEF Start, envVars, IInv, IdleIsBlank
  <2>2. RunInBudget'
    <3>1. Budget[1 - 1] = 0 /\ Timeout[Order[1]] \in Nat
      BY CollectorAssumption, BudgetStep
    <3> QED
      BY <2>1, <3>1 DEF RunInBudget, Current
  <2> QED
    BY <2>1, <2>2, <1>0 DEF IInv, IdleIsBlank, Blank, ReadingsInBudget, AnswerInBudget
<1>5. ASSUME pc = "probe", Advance, clock' = clock, now' = now, file' = file,
             \/ reading' = reading
             \/ answer \notin {NoReading, Garbled} /\ reading' = [reading EXCEPT ![Current] = answer]
      PROVE  IInv'
  <2>1. spent \in Nat /\ spent <= Timeout[Current] /\ now <= clock /\ clock <= now + Budget[at - 1] + spent
    BY <1>5 DEF IInv, RunInBudget
  <2>2. clock <= now + Budget[at]
    <3>1. /\ Budget[at - 1] \in Nat /\ Timeout[Current] \in Nat
          /\ Budget[at] = Budget[at - 1] + Timeout[Current]
      BY BudgetStep DEF Current
    <3> QED
      BY <2>1, <3>1
  <2>3. RunInBudget'
    <3>1. CASE at = Len(Order)
      BY <3>1, <1>5, <2>1, <2>2 DEF Advance, RunInBudget
    <3>2. CASE at # Len(Order)
      <4>1. at' = at + 1 /\ at' \in 1 .. Len(Order) /\ at' - 1 = at /\ spent' = 0 /\ pc' = "probe"
        BY <3>2, <1>5 DEF Advance
      <4>2. Timeout[Order[at']] \in Nat /\ Budget[at] \in Nat
        BY <4>1, BudgetStep
      <4> QED
        BY <1>5, <2>1, <2>2, <4>1, <4>2 DEF RunInBudget, Current
    <3> QED
      BY <3>1, <3>2
  <2>4. ReadingsInBudget'
    <3> SUFFICES ASSUME NEW j \in Slots, reading'[Order[j]] # NoReading
                 PROVE  /\ pc' = "probe" => j < at'
                        /\ now <= reading'[Order[j]].time
                        /\ reading'[Order[j]].time <= now + Budget[j]
      BY <1>5 DEF ReadingsInBudget
    <3>1. pc' = "probe" => at' = at + 1
      BY <1>5 DEF Advance
    <3>2. CASE reading'[Order[j]] = reading[Order[j]]
      BY <3>1, <3>2, <1>5 DEF IInv, ReadingsInBudget
    <3>3. CASE reading'[Order[j]] # reading[Order[j]]
      <4>1. Order[j] = Order[at] /\ answer \notin {NoReading, Garbled} /\ reading'[Order[j]] = answer
        BY <3>3, <1>5 DEF Current, Readings
      <4>2. j = at
        BY <4>1
      <4> QED
        BY <3>1, <4>1, <4>2, <1>5 DEF IInv, AnswerInBudget
    <3> QED
      BY <3>2, <3>3
  <2>5. AnswerInBudget'
    BY <1>5 DEF Advance, AnswerInBudget
  <2>6. IdleIsBlank'
    BY <1>5 DEF Advance, IdleIsBlank
  <2> QED
    BY <2>3, <2>4, <2>5, <2>6, <1>0, <1>5 DEF IInv
<1>6. CASE ProbeReads
  BY <1>6, <1>5 DEF ProbeReads, envVars
<1>7. CASE ProbeFails
  BY <1>7, <1>5 DEF ProbeFails, envVars
<1>8. CASE ParseRaises
  BY <1>8, <1>0, ReturnKeepsIInv DEF ParseRaises
<1>9. CASE Publish
  <2>1. StampHonest'
    BY <1>9 DEF Publish, IInv, ReadingsInBudget, StampHonest
  <2> QED
    BY <1>9, <2>1, ReturnKeepsIInv DEF Publish
<1>10. CASE Abort
  BY <1>10, <1>0, ReturnKeepsIInv DEF Abort
<1>11. CASE UNCHANGED vars
  BY <1>11, <1>0 DEF vars, IInv, IdleIsBlank, Blank, RunInBudget, ReadingsInBudget, AnswerInBudget, Current
<1> QED
  BY <1>1, <1>2, <1>3, <1>4, <1>6, <1>7, <1>8, <1>9, <1>10, <1>11 DEF Next, Run

\* A run stays within the budget of the probes behind it, so does every
\* reading and answer it holds, and nothing survives from one run to the next.
THEOREM RunsStayInBudget == Spec => []IInv
<1> QED
  BY IInvInit, IInvStep, TypeCorrect, PTL DEF Spec

\* The timestamps in the textfile are honest, for every arm.
THEOREM StampsAreHonest == Spec => []StampHonest
<1>1. IInv => StampHonest
  BY DEF IInv
<1> QED
  BY <1>1, IInvInit, IInvStep, TypeCorrect, PTL DEF Spec

\* A published file is at most the sum of the probes' timeouts old: 6 s for
\* Native HA, 8 s for RDQM, 11 s for Pacemaker.
THEOREM FilesArePublishedInTime == Spec => PublishedInTime
<1>1. TypeOK /\ IInv /\ [Next]_vars => [file' # file => clock <= file'.now + Budget[Len(Order)]]_vars
  <2> SUFFICES ASSUME TypeOK, IInv, Next, file' # file
               PROVE  clock <= file'.now + Budget[Len(Order)]
    BY DEF vars
  <2>1. Publish
    BY DEF Next, Run, Tick, Change, Sicken, runVars, Answer, Start, ProbeReads, ProbeFails,
           ParseRaises, Abort
  <2> QED
    BY <2>1 DEF Publish, IInv, RunInBudget
<1> QED
  BY <1>1, IInvInit, IInvStep, TypeCorrect, PTL DEF Spec, PublishedInTime
=============================================================================
