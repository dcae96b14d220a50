----------------------------- MODULE Delivery -----------------------------
(***************************************************************************)
(* DeliveryService.transition_task: the task's state is read without a     *)
(* lock, the table consulted, the new state written by a plain UPDATE and  *)
(* committed.  Nothing re-checks the state that was read.                  *)
(***************************************************************************)
EXTENDS Lifecycles

CONSTANTS
    Tasks,     \* delivery task ids (bound)
    Clients    \* concurrent requests (bound)

VARIABLES
    task,      \* delivery_tasks.state, committed
    been,      \* the states each task has had
    treq       \* the requests in flight

deliveryVars == <<task, been, treq>>

NoTaskReq == [pc |-> "idle", t |-> "none", to |-> "none"]

DeliveryTypeOK ==
    /\ task \in [Tasks -> DeliveryState \cup {"ABSENT"}]
    /\ been \in [Tasks -> SUBSET DeliveryState]
    /\ treq \in [Clients -> [pc : {"idle", "write", "commit"}, t : Tasks \cup {"none"},
                            to : DeliveryState \cup {"none"}]]

DeliveryInit ==
    /\ task = [t \in Tasks |-> "ABSENT"]
    /\ been = [t \in Tasks |-> {}]
    /\ treq = [w \in Clients |-> NoTaskReq]

(* The committed state of a task, and the record of it.                    *)
SetTask(t, s) ==
    /\ task' = [task EXCEPT ![t] = s]
    /\ been' = [been EXCEPT ![t] = @ \cup {s}]

(* create_task inserts the row.                                            *)
CreateTask(t) ==
    /\ task[t] = "ABSENT"
    /\ SetTask(t, "UNASSIGNED")
    /\ UNCHANGED treq

(* Slips of DeliveryFSM.transition: the table is not consulted for the     *)
(* state that was read; the event is written as the state.                 *)
AnyReadTask(w, t, edge) ==
    /\ treq[w].pc = "idle" /\ task[t] # "ABSENT"
    /\ treq' = [treq EXCEPT ![w] = [pc |-> "write", t |-> t, to |-> edge[3]]]
    /\ UNCHANGED <<task, been>>

EventReadTask(w, t, edge) ==
    /\ treq[w].pc = "idle" /\ task[t] = edge[1]
    /\ treq' = [treq EXCEPT ![w] = [pc |-> "write", t |-> t, to |-> edge[2]]]
    /\ UNCHANGED <<task, been>>

(* DeliveryFSM.transition reads the state; an event the table does not     *)
(* allow is rejected and changes nothing.                                  *)
ReadTask(w, t, edge) ==
    /\ treq[w].pc = "idle"
    /\ task[t] = edge[1]
    /\ treq' = [treq EXCEPT ![w] = [pc |-> "write", t |-> t, to |-> edge[3]]]
    /\ UNCHANGED <<task, been>>

(* write_state: the UPDATE waits for a request that has the row.           *)
WriteTask(w) ==
    /\ treq[w].pc = "write"
    /\ \A v \in Clients \ {w} : ~(treq[v].t = treq[w].t /\ treq[v].pc = "commit")
    /\ treq' = [treq EXCEPT ![w].pc = "commit"]
    /\ UNCHANGED <<task, been>>

CommitTask(w) ==
    /\ treq[w].pc = "commit"
    /\ SetTask(treq[w].t, treq[w].to)
    /\ treq' = [treq EXCEPT ![w] = NoTaskReq]

(* The server process restarts: what was not committed is rolled back.     *)
DeliveryCrash ==
    /\ treq' = [w \in Clients |-> NoTaskReq]
    /\ UNCHANGED <<task, been>>

DeliveryNext ==
    \/ \E t \in Tasks : CreateTask(t)
    \/ \E w \in Clients, t \in Tasks, edge \in DELIVERY_TRANSITIONS : ReadTask(w, t, edge)
    \/ \E w \in Clients : WriteTask(w) \/ CommitTask(w)
    \/ DeliveryCrash

DeliverySpec == DeliveryInit /\ [][DeliveryNext]_deliveryVars

---------------------------------------------------------------------------
(* Although concurrent requests can overwrite each other, no stage is      *)
(* skipped: a task reaches a state only after it has had some state from   *)
(* which the table leads there, and so DELIVERED only after ON_ROUTE,      *)
(* PICKED_UP and ASSIGNED.                                                 *)
NoStageSkipped ==
    \A t \in Tasks : \A s \in been[t] :
        s = "UNASSIGNED" \/ \E r \in been[t] : r # s /\ IsEdge(DELIVERY_TRANSITIONS, r, s)

===========================================================================
