------------------------------ MODULE MainThread ------------------------------
(***************************************************************************)
(* What the user and an AI client change on the main thread: the           *)
(* visibility of layers, which is written later, and the changesets of a   *)
(* client, a scale and an element. The handlers of both run on one thread, *)
(* one at a time and in any order.                                         *)
(***************************************************************************)
EXTENDS AiChangesets, DeferredWrites

MainInit == Init /\ DWInit

MainNext ==
  \/ DWNext /\ UNCHANGED vars
  \/ Next /\ UNCHANGED dwVars

MainSpec == MainInit /\ [][MainNext]_<<vars, dwVars>>
=============================================================================
