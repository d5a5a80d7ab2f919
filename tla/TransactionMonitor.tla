------------------------- MODULE TransactionMonitor -------------------------
(***************************************************************************)
(* The monitor of On-Screen Takeoff                                        *)
(* (infrastructure/monitoring/transaction_monitor.py). A thread opens the  *)
(* events On-Screen Takeoff signals, follows its status and publishes each *)
(* change; the main thread receives what is published as queued signals    *)
(* and blocks or allows writes to Access databases accordingly             *)
(* (builders/service_builder.py). The main thread starts the monitor for   *)
(* the database that is open and stops it when another is opened           *)
(* (services/visualization_service.py).                                    *)
(***************************************************************************)
EXTENDS Integers, Sequences

CONSTANTS
  Main,          \* the thread that starts and stops the monitor
  MaxStarts,     \* bound: how often the monitor is started
  MaxSignals     \* bound: statuses the main thread has not handled yet

VARIABLES
  ost,           \* On-Screen Takeoff: "absent", "offline" or "online"
  worker,        \* [1..MaxStarts -> where the thread of a start is]
  step,          \* [threads -> what the thread does], shared with MdbConnections
  stopFlag,      \* _stop_flag
  isMonitoring,  \* _is_monitoring
  event,         \* _event: the commit event is open
  statusEvent,   \* _status_event: the status event is open
  state,         \* _state
  statusOnline,  \* _status_online
  published,     \* _status_published
  signals,       \* the statuses that are published and not handled
  work,          \* starts and changes of On-Screen Takeoff and the events to come
  others         \* the state of the modules this one is composed with

monitorVars ==
  <<ost, worker, step, stopFlag, isMonitoring, event, statusEvent, state, statusOnline,
    published, signals, work>>

\* _handle_connection_failed leaves INITIAL for one of two states that only differ in
\* the message the user sees: one of them stands for both.
States == {"INITIAL", "WAITING", "CONNECTED"}

TypeOK ==
  /\ ost \in {"absent", "offline", "online"}
  /\ worker \in [1..MaxStarts -> {"none", "connecting", "watching", "ended"}]
  /\ stopFlag \in BOOLEAN
  /\ isMonitoring \in BOOLEAN
  /\ event \in BOOLEAN
  /\ statusEvent \in BOOLEAN
  /\ state \in States
  /\ statusOnline \in BOOLEAN
  /\ published \in BOOLEAN
  /\ signals \in Seq(BOOLEAN)
  /\ Len(signals) <= MaxSignals
  /\ work \in Nat

InitWith(status, changes, queued) ==
  /\ ost = status
  /\ worker = [n \in 1..MaxStarts |-> "none"]
  /\ stopFlag = FALSE
  /\ isMonitoring = FALSE
  /\ event = FALSE
  /\ statusEvent = FALSE
  /\ state = "INITIAL"
  /\ statusOnline = FALSE
  /\ published = (queued # <<>> /\ queued[Len(queued)])
  /\ signals = queued
  /\ work = changes

-----------------------------------------------------------------------------
Alive(n) == worker[n] \in {"connecting", "watching"}

At(n, place) == worker' = [worker EXCEPT ![n] = place]

\* _publish_status: the callback emits a queued signal.
Publish(status) ==
  /\ Len(signals) < MaxSignals
  /\ signals' = Append(signals, status)
  /\ published' = status

PublishNothing == UNCHANGED <<signals, published>>

\* Mutant: a monitor that is started again does not take back what was published.
PublishNoOffline == PublishNothing

\* _publish_stale_offline
PublishStaleOffline == IF published THEN Publish(FALSE) ELSE PublishNothing

\* _reset_events: DISCONNECTED, which only lasts until the events are reset, is WAITING.
ResetEvents ==
  /\ event' = FALSE
  /\ statusEvent' = FALSE
  /\ statusOnline' = FALSE

\* _connect_to_events when the commit event cannot be opened.
ConnectFails(n) ==
  /\ worker[n] = "connecting"
  /\ ~stopFlag
  /\ ost = "absent"
  /\ PublishStaleOffline
  /\ state' = IF state = "INITIAL" THEN "WAITING" ELSE state
  /\ UNCHANGED <<ost, worker, step, stopFlag, isMonitoring, event, statusEvent,
                 statusOnline, work, others>>

\* _connect_to_events: the status is read and published, unless the thread was connected
\* before and lost its events. The status event may not exist as long as On-Screen
\* Takeoff is offline.
Connect(n) ==
  /\ worker[n] = "connecting"
  /\ ~stopFlag
  /\ ost # "absent"
  /\ event' = TRUE
  /\ statusEvent' \in {TRUE, ost = "online"}
  /\ statusOnline' = (ost = "online")
  /\ IF ost # "online"
     THEN PublishStaleOffline
     ELSE IF state # "CONNECTED"
     THEN Publish(TRUE)
     ELSE PublishNothing
  /\ state' = "CONNECTED"
  /\ At(n, "watching")
  /\ UNCHANGED <<ost, step, stopFlag, isMonitoring, work, others>>

\* _check_status_state: On-Screen Takeoff came online, or went offline.
CheckStatus(n) ==
  /\ worker[n] = "watching"
  /\ ~stopFlag
  /\ statusEvent
  /\ statusOnline # (ost = "online")
  /\ Publish(ost = "online")
  /\ IF ost = "online"
     THEN /\ statusOnline' = TRUE
          /\ UNCHANGED <<worker, event, statusEvent, state>>
     ELSE /\ ResetEvents
          /\ state' = "WAITING"
          /\ At(n, "connecting")
  /\ UNCHANGED <<ost, step, stopFlag, isMonitoring, work, others>>

\* A wait is abandoned or fails: the events are reset, the state stays.
LoseEvents(n) ==
  /\ worker[n] = "watching"
  /\ ~stopFlag
  /\ work > 0
  /\ work' = work - 1
  /\ ResetEvents
  /\ At(n, "connecting")
  /\ UNCHANGED <<ost, step, stopFlag, isMonitoring, state, published, signals, others>>

\* The end of _monitor_loop.
EndLoop(n) ==
  /\ Alive(n)
  /\ stopFlag
  /\ ResetEvents
  /\ isMonitoring' = FALSE
  /\ At(n, "ended")
  /\ UNCHANGED <<ost, step, stopFlag, state, published, signals, work, others>>

-----------------------------------------------------------------------------
StartMonitoring(n) ==
  /\ step[Main] = "idle"
  /\ ~isMonitoring
  /\ worker[n] = "none"
  /\ \A m \in 1..(n - 1) : worker[m] # "none"
  /\ work > 0
  /\ work' = work - 1
  /\ stopFlag' = FALSE
  /\ isMonitoring' = TRUE
  /\ At(n, "connecting")
  /\ UNCHANGED <<ost, step, event, statusEvent, state, statusOnline, published, signals,
                 others>>

\* stop_monitoring: another database is opened, or none.
StopMonitoring ==
  /\ step[Main] = "idle"
  /\ worker[1] # "none"
  /\ stopFlag' = TRUE
  /\ step' = [step EXCEPT ![Main] = "joining"]
  /\ UNCHANGED <<ost, worker, isMonitoring, event, statusEvent, state, statusOnline,
                 published, signals, work, others>>

\* The thread is no longer alive: what it left is reset. A status it published stays
\* published.
Joined ==
  /\ step[Main] = "joining"
  /\ \A n \in 1..MaxStarts : ~Alive(n)
  /\ step' = [step EXCEPT ![Main] = "idle"]
  /\ ResetEvents
  /\ isMonitoring' = FALSE
  /\ state' = "INITIAL"
  /\ UNCHANGED <<ost, worker, stopFlag, published, signals, work, others>>

\* Mutant: the monitor counts as stopped although its thread runs on.
JoinForgets ==
  /\ step[Main] = "joining"
  /\ \E n \in 1..MaxStarts : Alive(n)
  /\ step' = [step EXCEPT ![Main] = "idle"]
  /\ isMonitoring' = FALSE
  /\ UNCHANGED <<ost, worker, stopFlag, event, statusEvent, state, statusOnline, published,
                 signals, work, others>>

\* The join times out: the monitor counts as running until the thread ends.
JoinTimesOut ==
  /\ step[Main] = "joining"
  /\ \E n \in 1..MaxStarts : Alive(n)
  /\ step' = [step EXCEPT ![Main] = "idle"]
  /\ UNCHANGED <<ost, worker, stopFlag, isMonitoring, event, statusEvent, state,
                 statusOnline, published, signals, work, others>>

\* On-Screen Takeoff starts, comes online, goes offline or ends.
OstChanges ==
  /\ work > 0
  /\ work' = work - 1
  /\ ost' \in {"absent", "offline", "online"} \ {ost}
  /\ UNCHANGED <<worker, step, stopFlag, isMonitoring, event, statusEvent, state,
                 statusOnline, published, signals, others>>

Thread(n) == ConnectFails(n) \/ Connect(n) \/ CheckStatus(n) \/ EndLoop(n)

Next ==
  \/ \E n \in 1..MaxStarts : Thread(n) \/ LoseEvents(n) \/ StartMonitoring(n)
  \/ StopMonitoring
  \/ Joined
  \/ JoinTimesOut
  \/ OstChanges

\* The thread runs and reaches its next connection or check; a join ends.
Fairness ==
  /\ WF_monitorVars(\E n \in 1..MaxStarts : Thread(n))
  /\ WF_monitorVars(Joined \/ JoinTimesOut)

-----------------------------------------------------------------------------
\* A stop that times out leaves a thread behind: no second thread is started beside it.
OneMonitor == \A m, n \in 1..MaxStarts : Alive(m) /\ Alive(n) => m = n
=============================================================================
