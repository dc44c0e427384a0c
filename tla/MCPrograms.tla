----------------------------- MODULE MCPrograms -----------------------------
(***************************************************************************)
(* One run for the three programs of the package that share no state: the  *)
(* detection of a node's collectors, the parser of drbdsetup's report, and *)
(* the rendering of the boards with the messaging stacks they then show.   *)
(* Each runs by itself while the others are idle in an initial state of    *)
(* theirs, so every behaviour of each is one of this module, and no other. *)
(***************************************************************************)
EXTENDS Detect, MCDrbdStatus, MCDashboards

VARIABLE program

boardVars == <<renderVars, flowVars>>

\* A bound: one resource has two peers beside another with one.
PeersInAll == 3
FewPeers == FoldLeft(LAMBDA n, r : n + Len(r.peers), 0, report) <= PeersInAll

DetectIdle == stack = Unprobed /\ override = NoOverride /\ DetectInit
ParseIdle ==
  /\ report = [i \in DOMAIN ResourceNames |-> [role |-> "Secondary", disk |-> "UpToDate", peers |-> <<>>]]
  /\ ParseInit

ProgramsInit ==
  /\ Init
  /\ \/ program = "detect" /\ DetectInit /\ ParseIdle
     \/ program = "parse" /\ DetectIdle /\ ParseInit /\ FewPeers
     \/ program = "boards" /\ DetectIdle /\ ParseIdle

ProgramsNext ==
  \/ program = "detect" /\ DetectNext /\ UNCHANGED <<program, parseVars, boardVars>>
  \/ program = "parse" /\ ParseNext /\ UNCHANGED <<program, detectVars, boardVars>>
  \/ program = "boards" /\ Next /\ UNCHANGED <<program, detectVars, parseVars>>

ProgramsSpec == ProgramsInit /\ [][ProgramsNext]_<<program, detectVars, parseVars, boardVars>>
=============================================================================
