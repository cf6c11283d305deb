------------------------------ MODULE CloudJob ------------------------------
(***************************************************************************)
(* A job submitted to Azure Quantum, as its client sees it:                *)
(* src/Azure/Azure.Quantum.Client/JobManagement/CloudJob.cs and            *)
(* Workspace.cs.                                                           *)
(*                                                                         *)
(* A CloudJob keeps a copy of the job's details.  One task runs            *)
(* WaitForCompletion, which polls; others may refresh or cancel the same   *)
(* CloudJob meanwhile.  Every call is a request, an answer that the        *)
(* service computes at some moment, and a continuation that stores the     *)
(* answer: the answers of different tasks may be stored in another order.  *)
(* The service is outside the repository; of it the model has the statuses *)
(* a job goes through.                                                     *)
(*                                                                         *)
(* Definitions named X_Bug are X with a mistake, for the mutation runs.    *)
(***************************************************************************)
EXTENDS Integers

CONSTANTS
    Waiter,         \* the task that runs WaitForCompletion
    Refreshers,     \* tasks that run RefreshAsync once
    Cancellers,     \* tasks that run CancelAsync once
    MaxFailures     \* bound: requests that fail

ASSUME ConstantsAssumption ==
    Waiter \notin Refreshers \cup Cancellers /\ MaxFailures \in Nat

VARIABLES
    service,        \* the job's status at the service
    Details,        \* the status in the CloudJob's details
    pc,             \* what each task is doing
    answer,         \* the answer each task was last given
    polled,         \* has the waiter polled before?
    canceled,       \* has the waiter's cancellation token been signalled?
    failures        \* requests that failed

vars == <<service, Details, pc, answer, polled, canceled, failures>>

Tasks == {Waiter} \cup Refreshers \cup Cancellers
Final == {"Cancelled", "Failed", "Succeeded"}
InProgress_NotCancelled == Details \notin Final \ {"Cancelled"}

InProgress == Details \notin Final

Init ==
    /\ service = "Waiting" /\ Details = "Waiting"
    /\ pc = [t \in Tasks |-> "start"]
    /\ answer = [t \in Tasks |-> "Waiting"]
    /\ polled = FALSE /\ canceled = FALSE /\ failures = 0

-----------------------------------------------------------------------------
(* The service.                                                             *)

Execute == /\ service = "Waiting"
           /\ service' = "Executing"
           /\ UNCHANGED <<Details, pc, answer, polled, canceled, failures>>

Finish == /\ service = "Executing"
          /\ service' \in {"Succeeded", "Failed"}
          /\ UNCHANGED <<Details, pc, answer, polled, canceled, failures>>

\* A cancellation takes effect when it arrives, unless the job has finished.
AnswerCancel(t) ==
    /\ pc[t] = "cancelling"
    /\ service' = IF service \in Final THEN service ELSE "Cancelled"
    /\ pc' = [pc EXCEPT ![t] = "getting"]
    /\ UNCHANGED <<Details, answer, polled, canceled, failures>>

AnswerGet(t) ==
    /\ pc[t] = "getting"
    /\ answer' = [answer EXCEPT ![t] = service]
    /\ pc' = [pc EXCEPT ![t] = "answered"]
    /\ UNCHANGED <<service, Details, polled, canceled, failures>>

RequestFails(t) ==
    /\ pc[t] \in {"cancelling", "getting"} /\ failures < MaxFailures
    /\ failures' = failures + 1
    /\ pc' = [pc EXCEPT ![t] = "thrown"]
    /\ UNCHANGED <<service, Details, answer, polled, canceled>>

-----------------------------------------------------------------------------
(* The client.                                                              *)

SignalToken ==
    /\ ~canceled /\ canceled' = TRUE
    /\ UNCHANGED <<service, Details, pc, answer, polled, failures>>

\* RefreshAsync sends GetJobAsync, CancelAsync sends CancelJobAsync, which cancels and
\* then gets; WaitForCompletion refreshes first.
Send(t) ==
    /\ pc[t] = "start"
    /\ pc' = [pc EXCEPT ![t] = IF t \in Cancellers THEN "cancelling" ELSE "getting"]
    /\ UNCHANGED <<service, Details, answer, polled, canceled, failures>>

\* this.Details = job.Details
Store(t) ==
    /\ pc[t] = "answered"
    /\ Details' = answer[t]
    /\ pc' = [pc EXCEPT ![t] = IF t = Waiter THEN "checking" ELSE "done"]
    /\ UNCHANGED <<service, answer, polled, canceled, failures>>

Check_Inverted ==
    /\ pc[Waiter] = "checking"
    /\ pc' = [pc EXCEPT ![Waiter] = IF InProgress THEN "done" ELSE "delay"]
    /\ UNCHANGED <<service, Details, answer, polled, canceled, failures>>

\* while (this.InProgress)
Check ==
    /\ pc[Waiter] = "checking"
    /\ pc' = [pc EXCEPT ![Waiter] = IF InProgress THEN "delay" ELSE "done"]
    /\ UNCHANGED <<service, Details, answer, polled, canceled, failures>>

\* The delay ends and the next request is sent, without the cancellation token.
Poll ==
    /\ pc[Waiter] = "delay"
    /\ pc' = [pc EXCEPT ![Waiter] = "getting"]
    /\ polled' = TRUE
    /\ UNCHANGED <<service, Details, answer, canceled, failures>>

\* Only the first request carries the token.
TokenStops ==
    /\ canceled /\ ~polled /\ pc[Waiter] \in {"start", "getting"}
    /\ pc' = [pc EXCEPT ![Waiter] = "thrown"]
    /\ UNCHANGED <<service, Details, answer, polled, canceled, failures>>

Client == Check \/ Poll \/ \E t \in Tasks : Send(t) \/ Store(t)

Next ==
    \/ Execute \/ Finish
    \/ \E t \in Tasks : AnswerCancel(t) \/ AnswerGet(t) \/ RequestFails(t)
    \/ SignalToken \/ TokenStops
    \/ Client

\* Continuations run, requests are answered or fail, and the service finishes every job.
Fairness ==
    /\ WF_vars(Execute) /\ WF_vars(Finish)
    /\ WF_vars(Check) /\ WF_vars(Poll) /\ WF_vars(TokenStops)
    /\ \A t \in Tasks : /\ WF_vars(Send(t)) /\ WF_vars(Store(t))
                        /\ WF_vars(AnswerGet(t)) /\ WF_vars(AnswerCancel(t))

Spec == Init /\ [][Next]_vars /\ Fairness

-----------------------------------------------------------------------------
(* Properties                                                               *)

Ended(t) == pc[t] \in {"done", "thrown"}

\* The wait ends if the service finishes the job, whoever else refreshes or cancels the
\* same CloudJob and in whatever order the answers come.
WaitTerminates == <>Ended(Waiter)

\* When the wait has returned, the job is finished at the service.
WaitOutlastsJob == pc[Waiter] = "done" => service \in Final
=============================================================================
