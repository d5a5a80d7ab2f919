---------------------------- MODULE MCLiveness ----------------------------
(***************************************************************************)
(* The liveness of writes on small instances without symmetry: of the      *)
(* mutation pipeline of a client, and of the transactions on the server. A *)
(* behaviour is one of the pipeline, or one of the server in which the     *)
(* transactions of one session, `live`, are watched; the other instance    *)
(* stays as it begins, so that the two add up and do not multiply.         *)
(***************************************************************************)
EXTENDS MutationPipeline

CONSTANTS Sessions, NoSession, Items, Bid, Watched

VARIABLES
  live, row, editing, lock, version, marker, lastToken, held, tx, client, known, seen,
  lost, absent

store ==
  <<row, editing, lock, version, marker, lastToken, held, tx, client, known, seen, lost,
    absent>>

Store == INSTANCE CollaborationStore WITH
  Rank <- [r \in Items \cup {Bid} |-> IF r = Bid THEN 0 ELSE 1], MaxTokens <- 0,
  uncertain <- lost

LiveInit == live \in {"pipeline", "store"} /\ Init /\ Store!Init

LiveNext ==
  \/ live = "pipeline" /\ Next /\ UNCHANGED <<live, store>>
  \/ live = "store" /\ Store!Next /\ UNCHANGED <<live, vars>>

\* The fairness of each specification, for the instance that takes the steps.
LiveSpec ==
  /\ LiveInit
  /\ [][LiveNext]_<<live, vars, store>>
  /\ WF_vars(live = "pipeline" /\ UiStep)
  /\ WF_vars(live = "pipeline" /\ WorkerStep)
  /\ \A op \in Ops : WF_vars(live = "pipeline" /\ ServerResolve(op))
  /\ \A s \in Sessions :
       /\ SF_store(live = "store" /\ Store!TakeLock(s))
       /\ WF_store(live = "store" /\ Store!AdvanceTx(s))
       /\ WF_store(live = "store" /\ Store!Missing(s) = {} /\ Store!Refuse(s))

\* Every transaction ends, although no lock wait times out: see CollaborationStore, of
\* which every session stands for the one that is watched.
TransactionsEnd == tx[Watched].kind # "none" ~> tx[Watched].kind = "none"
=============================================================================
