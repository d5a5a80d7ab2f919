----------------------------- MODULE MCEditLeases -----------------------------
(* A dialog edits the area: when it first asks it also depends on the item. The plan    *)
(* view's first selection is the item, its second the area. So requests overlap in what *)
(* they edit, or in what one depends on, or not at all.                                 *)
EXTENDS EditLeases

CONSTANTS dialog, plan, area, item

WantsValue ==
  [s \in {dialog, plan} |->
     [n \in 1..2 |-> IF s = plan /\ n = 1 THEN {item} ELSE {area}]]
ReadsValue ==
  [s \in {dialog, plan} |->
     [n \in 1..2 |-> IF s = dialog /\ n = 1 THEN {item} ELSE {}]]
===============================================================================
