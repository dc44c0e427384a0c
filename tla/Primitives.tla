----------------------------- MODULE Primitives -----------------------------
(***************************************************************************)
(* dashboards/boards/primitives.py: what a tile, a matrix cell and a status*)
(* light make of an expression's vector.  Wording and layout of the values *)
(* are left out; a colour stands for its mapping's text.                   *)
(***************************************************************************)
EXTENDS PromQL

Entry(from, to, color) == [from |-> from, to |-> to, color |-> color]

\* 1e12, the upper end of the open ranges.
Unlimited == 2147483647

\* A value no entry covers is shown without a colour.
MAPPINGS ==
  [up         |-> {Entry(0, 0, "red"), Entry(1, 1, "green")},
   clean0     |-> {Entry(0, 0, "green"), Entry(1, 9999, "red")},
   sessions   |-> {Entry(0, 0, "red"), Entry(1, 9999, "green")},
   role       |-> {Entry(0, 0, "red"), Entry(1, 1, "blue"), Entry(2, 2, "green"), Entry(3, 3, "blue")},
   rdqm_role  |-> {Entry(0, 0, "red"), Entry(1, 1, "blue"), Entry(2, 2, "green")},
   qm_running |-> {Entry(0, 0, "blue"), Entry(1, 1, "green")},
   node_ready |-> {Entry(0, 0, "red"), Entry(1, 1, "green")},
   pm_state   |-> {Entry(0, 0, "grey"), Entry(1, 1, "blue"), Entry(2, 2, "green")},
   failcount  |-> {Entry(0, 0, "green"), Entry(1, 999999, "yellow"), Entry(1000000, Unlimited, "red")},
   drbd_oos   |-> {Entry(0, 4095, "green"), Entry(4096, Unlimited, "red")}]

ColorOf(kind, value) ==
  {entry.color : entry \in {e \in MAPPINGS[kind] : e.from <= value /\ value <= e.to}}

\* INTEGRITY_MAPS: 0 is green, above is a hazard, nothing is STALE.
LightOf(vec) == IF vec = {} THEN "STALE"
                ELSE IF \E x \in vec : x.value > 0 THEN "HAZARD"
                ELSE "OK"

\* Fault variant: a cell shows the least any reporter has.
CellLeast(vec, label, row) == Values(By(Where(vec, label, {row}), {label}, MinOf))

\* _norm: the cell of a row is the most any reporter has.
Cell(vec, label, row) == Values(By(Where(vec, label, {row}), {label}, MaxOf))

\* A column of a matrix: an expression, the label its rows are joined on, a
\* mapping.  A row has a colourless or no cell where the set is empty.
Column(vec, label, kind) == [vec |-> vec, label |-> label, kind |-> kind]
Color(column, row) ==
  UNION {ColorOf(column.kind, v) : v \in Cell(column.vec, column.label, row)}

\* A stat tile: the values of an expression; the names under a label.
Tile(vec) == Values(vec)
Names(vec, label) == {x.labels[label] : x \in vec}
=============================================================================
