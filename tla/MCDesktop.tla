----------------------------- MODULE MCDesktop -----------------------------
(***************************************************************************)
(* Small instances of Desktop. Each initial state gives the work to one    *)
(* group of services, so that the instances add up and do not multiply.    *)
(***************************************************************************)
EXTENDS Desktop

\* The work of each group: an instance is idle when it has none.
Gate(n, failures, ostStatus, m, queued) ==
  Mdb!InitWith(n, failures) /\ Monitor!InitWith(ostStatus, m, queued)
GateIdle == Gate(0, 0, "offline", 0, <<>>)
HistoryIdle == History!InitWith(0, 0)
PlanIdle == Plan!InitWith(0, 0)

MCInit ==
  \/ /\ \/ \E s \in {"absent", "offline", "online"} : Gate(2, 0, s, 3, <<>>)
        \/ \E queued \in {<<>>, <<TRUE>>} : Gate(4, 2, "online", 0, queued)
     /\ HistoryIdle
     /\ PlanIdle
  \/ GateIdle /\ History!InitWith(6, 2) /\ PlanIdle
  \/ GateIdle /\ HistoryIdle /\ (Plan!InitWith(3, 1) \/ Plan!InitWith(2, 2))

MCSpec == MCInit /\ [][Next]_vars /\ Fairness
=============================================================================
