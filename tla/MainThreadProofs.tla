--------------------------- MODULE MainThreadProofs ---------------------------
(***************************************************************************)
(* MainThread keeps what its two parts promise: each of its behaviours is  *)
(* one of DeferredWrites and one of AiChangesets.                          *)
(***************************************************************************)
EXTENDS MainThread, AiChangesetsProofs, DeferredWritesProofs

\* The two parts share nothing: a step of one, a handler of the main thread, leaves the
\* other as it is (DeferredPersistenceManager, ai_changeset_store.py).
THEOREM PartsAreImplemented == MainSpec => DWSpec /\ Spec
<1>1. MainInit => DWInit /\ Init
  BY DEF MainInit
<1>2. [MainNext]_<<vars, dwVars>> => [DWNext]_dwVars /\ [Next]_vars
  BY DEF MainNext
<1> QED BY <1>1, <1>2, PTL DEF MainSpec, DWSpec, Spec

\* No state of a layer outlives the changes it is for, and what the user asked for is stored
\* (DeferredPersistenceManager); only what was reviewed is applied, and the history is true
\* (ai_changeset_store.py): whatever the user and the client do on the main thread.
THEOREM MainThreadCorrect ==
  MainSpec => /\ []NothingIsLeftBehind /\ []IntentIsStored
              /\ []ReviewedIsApplied /\ []HistoryIsTrue /\ UndoIsExact
BY PartsAreImplemented, NothingLeftCorrect, IntentCorrect, ReviewCorrect, HistoryCorrect,
   UndoExactCorrect, PTL
=============================================================================
