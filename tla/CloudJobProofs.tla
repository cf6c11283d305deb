--------------------------- MODULE CloudJobProofs ---------------------------
(***************************************************************************)
(* A theorem about CloudJob, for any number of tasks that refresh or       *)
(* cancel the job while one waits for it, and any number of failed         *)
(* requests.                                                               *)
(***************************************************************************)
EXTENDS CloudJob, TLAPS

Statuses == {"Waiting", "Executing"} \cup Final
Places == {"start", "cancelling", "getting", "answered", "checking", "delay", "done", "thrown"}

Typing ==
    /\ service \in Statuses /\ Details \in Statuses
    /\ pc \in [Tasks -> Places]
    /\ answer \in [Tasks -> Statuses]

\* What a task was told was true, and a job that has finished stays finished: an answer
\* or a copy of the details with a final status is never ahead of the service, however
\* late it is stored.
NoneAhead ==
    /\ Details \in Final => service \in Final
    /\ \A t \in Tasks : answer[t] \in Final => service \in Final

JobInv == Typing /\ NoneAhead /\ WaitOutlastsJob

\* A finished job stays finished.
LEMMA FinalStays ==
    ASSUME Next, service \in Final
    PROVE  service' \in Final
BY DEF Next, Client, Execute, Finish, AnswerCancel, AnswerGet, RequestFails, SignalToken,
   TokenStops, Check, Poll, Send, Store, Final

\* A step that neither stores nor asks the service, and does not end the wait.
LEMMA OnlyMoves ==
    ASSUME JobInv, Next, NEW t \in Tasks, NEW next \in Places,
           pc' = [pc EXCEPT ![t] = next], t = Waiter /\ next = "done" => service \in Final,
           UNCHANGED <<Details, answer>>, service' \in Statuses
    PROVE  JobInv'
<1>1. Typing /\ NoneAhead /\ (pc[Waiter] = "done" => service \in Final)
  BY DEF JobInv, WaitOutlastsJob
<1>2. Typing'
  BY <1>1 DEF Typing
<1>3. NoneAhead'
  BY <1>1, FinalStays DEF NoneAhead
<1>4. WaitOutlastsJob'
  <2>1. pc'[Waiter] = "done" => service \in Final
    BY <1>1 DEF Typing, Tasks
  <2> QED  BY <2>1, FinalStays DEF WaitOutlastsJob
<1> QED  BY <1>2, <1>3, <1>4 DEF JobInv

LEMMA JobStep ==
    ASSUME JobInv, [Next]_vars
    PROVE  JobInv'
<1>1. Typing /\ NoneAhead /\ WaitOutlastsJob /\ Waiter \in Tasks
  BY DEF JobInv, Tasks
<1>2. CASE Execute \/ Finish \/ SignalToken
  <2>1. UNCHANGED <<Details, pc, answer>> /\ service' \in Statuses /\ Next
    BY <1>1, <1>2 DEF Execute, Finish, SignalToken, Next, Typing, Statuses, Final
  <2> QED  BY <1>1, <2>1, FinalStays DEF JobInv, Typing, NoneAhead, WaitOutlastsJob
<1>3. ASSUME NEW t \in Tasks, AnswerCancel(t)
      PROVE  JobInv'
  <2>1. service' \in Statuses
    BY <1>1, <1>3 DEF AnswerCancel, Typing, Statuses, Final
  <2> QED  BY <1>3, <2>1, OnlyMoves DEF AnswerCancel, Next, Places
<1>4. ASSUME NEW t \in Tasks, AnswerGet(t)
      PROVE  JobInv'
  <2>1. /\ pc' = [pc EXCEPT ![t] = "answered"] /\ answer' = [answer EXCEPT ![t] = service]
        /\ UNCHANGED <<service, Details>>
    BY <1>4 DEF AnswerGet
  <2>2. Typing'
    BY <1>1, <2>1 DEF Typing, Places
  <2>3. NoneAhead'
    BY <1>1, <2>1 DEF NoneAhead, Typing
  <2>4. WaitOutlastsJob'
    BY <1>1, <2>1 DEF WaitOutlastsJob, Typing
  <2> QED  BY <2>2, <2>3, <2>4 DEF JobInv
<1>5. ASSUME NEW t \in Tasks, RequestFails(t)
      PROVE  JobInv'
  BY <1>1, <1>5, OnlyMoves DEF RequestFails, Next, Places, Typing
<1>6. ASSUME NEW t \in Tasks, Send(t)
      PROVE  JobInv'
  BY <1>1, <1>6, OnlyMoves DEF Send, Next, Client, Places, Typing
<1>7. ASSUME NEW t \in Tasks, Store(t)
      PROVE  JobInv'
  <2>1. /\ pc' = [pc EXCEPT ![t] = IF t = Waiter THEN "checking" ELSE "done"]
        /\ Details' = answer[t] /\ UNCHANGED <<service, answer>>
    BY <1>7 DEF Store
  <2>2. Typing'
    BY <1>1, <2>1 DEF Typing, Places
  <2>3. NoneAhead'
    BY <1>1, <2>1 DEF NoneAhead
  <2>4. WaitOutlastsJob'
    BY <1>1, <2>1 DEF WaitOutlastsJob, Typing
  <2> QED  BY <2>2, <2>3, <2>4 DEF JobInv
<1>8. CASE Check
  <2>1. ~InProgress => service \in Final
    BY <1>1 DEF InProgress, NoneAhead
  <2> QED  BY <1>1, <1>8, <2>1, OnlyMoves DEF Check, Next, Client, Places, Typing
<1>9. CASE Poll
  BY <1>1, <1>9, OnlyMoves DEF Poll, Next, Client, Places, Typing
<1>10. CASE TokenStops
  BY <1>1, <1>10, OnlyMoves DEF TokenStops, Next, Places, Typing
<1>11. CASE UNCHANGED vars
  BY <1>1, <1>11 DEF vars, JobInv, Typing, NoneAhead, WaitOutlastsJob
<1> QED  BY <1>2, <1>3, <1>4, <1>5, <1>6, <1>7, <1>8, <1>9, <1>10, <1>11 DEF Next, Client

\* When WaitForCompletion returns, the job has finished at the service, whatever other
\* tasks stored in the same CloudJob meanwhile and in whatever order (CloudJob.cs:131-140).
THEOREM WaitOutlastsTheJob == Spec => []WaitOutlastsJob
<1>1. Init => JobInv
  BY DEF Init, JobInv, Typing, NoneAhead, WaitOutlastsJob, Statuses, Places, Final, Tasks
<1>2. JobInv /\ [Next]_vars => JobInv'
  BY JobStep
<1>3. JobInv => WaitOutlastsJob
  BY DEF JobInv
<1> QED  BY <1>1, <1>2, <1>3, PTL DEF Spec
=============================================================================
