----------------------------- MODULE Dashboards -----------------------------
(***************************************************************************)
(* The boards are rendered once; then they show what is exported.          *)
(***************************************************************************)
EXTENDS Boards, Messaging

Init == RenderInit /\ FlowInit

Next ==
  \/ RenderNext /\ UNCHANGED flowVars
  \/ Len(rendered) = 5 /\ FlowNext /\ UNCHANGED renderVars

Spec == Init /\ [][Next]_<<renderVars, flowVars>>
=============================================================================
