------------------------ MODULE SubagentTasksProofs ------------------------
(* A delegation returns what was settled first, for any number of tasks and  *)
(* of pool threads, whoever races to settle the result holder.               *)
EXTENDS SubagentTasks, TLAPS

Status == {"pending", "running"} \cup Terminal
Shown == {"nothing", "result", "error"}
Result == [status : Status, shows : Shown]
Answers == [status : Status \cup {"none", "polling_timed_out", "raised"}, shows : Shown]
Claims == [by : {"tool", "thread", "coroutine"}, status : Terminal]

Types ==
    /\ holder \in [Tasks -> Result]
    /\ writer \in [Tasks -> {Idle} \cup Claims]
    /\ answer \in [Tasks -> Answers]
    /\ thread \in [Tasks -> {"none", "queued", "started", "waiting", "recalling", "cancelled",
                            "timed_out", "leaving", "gone"}]
    /\ coroutine \in [Tasks -> {"none", "posted", "streaming", "ended"}]
    /\ tool \in [Tasks -> {"none", "polling", "calling", "withdrawing", "draining", "deferred",
                          "done"}]
    /\ recalled \in [Tasks -> BOOLEAN]

\* The call has an answer that it took from the holder.
Answered(t) == answer[t].status \notin {"none", "polling_timed_out", "raised"}

\* A status and its payload belong together, before and after the status is written.
Paired(t) ==
    /\ Settled(t) => holder[t].shows = Payload(holder[t].status)
    /\ writer[t] # Idle => ~Settled(t) /\ holder[t].shows = Payload(writer[t].status)

\* An answer is taken from a settled holder, which nobody writes any more.
Final(t) == Answered(t) => Settled(t) /\ answer[t] = holder[t]

\* Nothing has begun before the call.
Fresh(t) ==
    tool[t] = "none" =>
        /\ holder[t].status = "pending" /\ writer[t] = Idle /\ ~Answered(t)
        /\ thread[t] = "none" /\ coroutine[t] = "none"

\* Whoever ends or leaves has settled the holder, or is about to publish what he claimed.
Waited(t) ==
    /\ thread[t] \in {"none", "queued", "started", "waiting"} => ~recalled[t]
    /\ coroutine[t] = "ended" /\ ~recalled[t] => Settled(t) \/ writer[t].by = "coroutine"
    /\ thread[t] = "leaving" => Settled(t) \/ writer[t].by = "thread"

Settling == \A t \in Tasks : Paired(t) /\ Final(t) /\ Fresh(t) /\ Waited(t)

-----------------------------------------------------------------------------
(* The helpers *)

\* The records that the actions write have their types.
LEMMA Literals ==
    /\ [status |-> "polling_timed_out", shows |-> "error"] \in Answers
    /\ [status |-> "raised", shows |-> "error"] \in Answers
    /\ NoAnswer \in Answers
    /\ Result \subseteq Answers
    /\ \A r \in Result, status \in Status : [r EXCEPT !.status = status] \in Result
    /\ \A r \in Result, status \in Terminal : [r EXCEPT !.shows = Payload(status)] \in Result
    /\ \A c \in Claims : c.status \in Status
BY DEF Answers, Result, Claims, Status, Shown, NoAnswer, Payload, Terminal

\* A task that has an idle writer has no claim.
LEMMA IdleIsNoClaim == Idle \notin Claims /\ Idle.by = "nobody"
BY DEF Idle, Claims

\* try_set_terminal, first half: nothing, or the payload and the claim, of one task.
LEMMA Claimed ==
    ASSUME Types, NEW u \in Tasks, NEW who \in {"tool", "thread", "coroutine"},
           NEW status \in Terminal, Claim(u, who, status)
    PROVE  /\ writer[u] = Idle
           /\ \/ Settled(u) /\ UNCHANGED <<holder, writer>>
              \/ /\ ~Settled(u)
                 /\ holder' = [holder EXCEPT ![u] = [status |-> holder[u].status,
                                                     shows |-> Payload(status)]]
                 /\ writer' = [writer EXCEPT ![u] = [by |-> who, status |-> status]]
<1>1. ASSUME ~Settled(u)
      PROVE  /\ holder' = [holder EXCEPT ![u].shows = Payload(status)]
             /\ writer' = [writer EXCEPT ![u] = [by |-> who, status |-> status]]
  BY <1>1 DEF Claim
<1>2. holder[u] \in Result
  BY DEF Types
<1>3. [holder[u] EXCEPT !.shows = Payload(status)]
      = [status |-> holder[u].status, shows |-> Payload(status)]
  BY <1>2 DEF Result
<1>. QED
  BY <1>1, <1>3 DEF Claim

\* A claim keeps the types.
LEMMA ClaimTypes ==
    ASSUME Types, NEW u \in Tasks, NEW who \in {"tool", "thread", "coroutine"},
           NEW status \in Terminal, Claim(u, who, status)
    PROVE  holder' \in [Tasks -> Result] /\ writer' \in [Tasks -> {Idle} \cup Claims]
<1>1. [by |-> who, status |-> status] \in Claims
  BY DEF Claims
<1>2. holder \in [Tasks -> Result] /\ writer \in [Tasks -> {Idle} \cup Claims]
  BY DEF Types
<1>3. [status |-> holder[u].status, shows |-> Payload(status)] \in Result
  BY <1>2 DEF Result, Payload, Shown
<1>. QED
  BY <1>1, <1>2, <1>3, Claimed

\* The thread ends its wait.
LEMMA EndWaitTypes ==
    ASSUME Types, NEW u \in Tasks, NEW status \in {"cancelled", "timed_out"}, EndWait(u, status)
    PROVE  Types'
<1>. USE DEF supervision, Types
<1>1. CASE u \in calls
  BY <1>1 DEF EndWait, Move
<1>2. CASE u \notin calls
  <2>1. holder' \in [Tasks -> Result] /\ writer' \in [Tasks -> {Idle} \cup Claims]
    BY <1>2, ClaimTypes DEF EndWait, Terminal
  <2>. QED
    BY <1>2, <2>1 DEF EndWait, Move
<1>. QED
  BY <1>1, <1>2

\* Every step preserves the types.
LEMMA TypesStep ==
    ASSUME Types, [Next]_vars
    PROVE  Types'
<1>. USE DEF supervision, Types
<1>1. ASSUME NEW u \in Tasks, Delegate(u) PROVE Types'
  BY <1>1, Literals DEF Delegate
<1>2. ASSUME NEW u \in Tasks, Call(u) PROVE Types'
  <2>1. holder' \in [Tasks -> Result]
    BY <1>2, Literals DEF Call, Status
  <2>. QED
    BY <1>2, <2>1 DEF Call
<1>3. ASSUME NEW u \in Tasks, GiveUp(u) PROVE Types'
  BY <1>3, Literals DEF GiveUp, RequestCancel
<1>4. ASSUME NEW u \in Tasks, Interrupt(u) PROVE Types'
  BY <1>4, Literals DEF Interrupt, RequestCancel
<1>5. ASSUME NEW u \in Tasks, InterruptAgain(u) PROVE Types'
  BY <1>5, Literals DEF InterruptAgain
<1>6. ASSUME NEW u \in Tasks, Poll(u) PROVE Types'
  BY <1>6, Literals DEF Poll
<1>7. ASSUME NEW u \in Tasks, Withdraw(u) PROVE Types'
  <2>1. Claim(u, "tool", "cancelled") /\ "cancelled" \in Terminal
    BY <1>7 DEF Withdraw, Terminal
  <2>2. holder' \in [Tasks -> Result] /\ writer' \in [Tasks -> {Idle} \cup Claims]
    BY <2>1, ClaimTypes
  <2>. QED
    BY <1>7, <2>2 DEF Withdraw
<1>8. ASSUME NEW u \in Tasks, Remove(u) PROVE Types'
  BY <1>8, Literals DEF Remove, Free
<1>9. ASSUME NEW u \in Tasks, Take(u) PROVE Types'
  <2>1. holder' \in [Tasks -> Result]
    BY <1>9, Literals, SMTT(20) DEF Take, Status
  <2>. QED
    BY <1>9, <2>1 DEF Take, Move
<1>10. ASSUME NEW u \in Tasks, Post(u) PROVE Types'
  <2>1. CASE UNCHANGED <<holder, writer>>
    BY <1>10, <2>1 DEF Post, Move
  <2>2. CASE \E status \in Terminal : Claim(u, "thread", status)
    <3>1. holder' \in [Tasks -> Result] /\ writer' \in [Tasks -> {Idle} \cup Claims]
      BY <2>2, ClaimTypes
    <3>. QED
      BY <1>10, <3>1 DEF Post, Move
  <2>. QED
    BY <1>10, <2>1, <2>2 DEF Post, Terminal
<1>11. ASSUME NEW u \in Tasks, StopWait(u) PROVE Types'
  BY <1>11, EndWaitTypes DEF StopWait
<1>12. ASSUME NEW u \in Tasks, TimeOut(u) PROVE Types'
  BY <1>12, EndWaitTypes DEF TimeOut
<1>13. ASSUME NEW u \in Tasks, SettleCall(u) PROVE Types'
  <2>1. Claim(u, "thread", thread[u]) /\ thread[u] \in Terminal
    BY <1>13 DEF SettleCall, Terminal
  <2>2. holder' \in [Tasks -> Result] /\ writer' \in [Tasks -> {Idle} \cup Claims]
    BY <2>1, ClaimTypes
  <2>. QED
    BY <1>13, <2>2 DEF SettleCall, Move
<1>14. ASSUME NEW u \in Tasks, Recall(u) PROVE Types'
  BY <1>14, Literals DEF Recall, Move, Free
<1>15. ASSUME NEW u \in Tasks, Joined(u) PROVE Types'
  BY <1>15, Literals DEF Joined, Move, Free
<1>16. ASSUME NEW u \in Tasks, Leave(u) PROVE Types'
  BY <1>16, Literals DEF Leave, Move, Free
<1>17. ASSUME NEW u \in Tasks, Begin(u) PROVE Types'
  <2>1. CASE UNCHANGED <<holder, writer>>
    BY <1>17, <2>1 DEF Begin, End
  <2>2. CASE \E status \in Terminal : Claim(u, "coroutine", status)
    <3>1. holder' \in [Tasks -> Result] /\ writer' \in [Tasks -> {Idle} \cup Claims]
      BY <2>2, ClaimTypes
    <3>. QED
      BY <1>17, <3>1 DEF Begin, End
  <2>. QED
    BY <1>17, <2>1, <2>2 DEF Begin, Terminal
<1>18. ASSUME NEW u \in Tasks, Cancelled(u) PROVE Types'
  <2>1. Claim(u, "coroutine", "cancelled") /\ "cancelled" \in Terminal
    BY <1>18 DEF Cancelled, Terminal
  <2>2. holder' \in [Tasks -> Result] /\ writer' \in [Tasks -> {Idle} \cup Claims]
    BY <2>1, ClaimTypes
  <2>. QED
    BY <1>18, <2>2 DEF Cancelled, End
<1>19. ASSUME NEW u \in Tasks, Notice(u) PROVE Types'
  <2>1. Claim(u, "coroutine", "cancelled") /\ "cancelled" \in Terminal
    BY <1>19 DEF Notice, Terminal
  <2>2. holder' \in [Tasks -> Result] /\ writer' \in [Tasks -> {Idle} \cup Claims]
    BY <2>1, ClaimTypes
  <2>. QED
    BY <1>19, <2>2 DEF Notice, End
<1>20. ASSUME NEW u \in Tasks, Finish(u) PROVE Types'
  <2>1. PICK status \in {"completed", "failed"} : Claim(u, "coroutine", status)
    BY <1>20 DEF Finish
  <2>2. holder' \in [Tasks -> Result] /\ writer' \in [Tasks -> {Idle} \cup Claims]
    BY <2>1, ClaimTypes DEF Terminal
  <2>. QED
    BY <1>20, <2>2 DEF Finish, End
<1>21. ASSUME NEW u \in Tasks, Publish(u) PROVE Types'
  <2>1. writer[u] \in Claims /\ writer' \in [Tasks -> {Idle} \cup Claims]
    BY <1>21 DEF Publish
  <2>2. writer[u].status \in Status /\ holder[u] \in Result
    BY <2>1, Literals
  <2>3. holder' \in [Tasks -> Result]
    BY <1>21, <2>2, Literals DEF Publish
  <2>. QED
    BY <1>21, <2>1, <2>3 DEF Publish
<1>22. CASE Abort
  BY <1>22 DEF Abort
<1>23. CASE UNCHANGED vars
  BY <1>23 DEF vars
<1>. QED
  BY <1>1, <1>2, <1>3, <1>4, <1>5, <1>6, <1>7, <1>8, <1>9, <1>10, <1>11, <1>12, <1>13,
     <1>14, <1>15, <1>16, <1>17, <1>18, <1>19, <1>20, <1>21, <1>22, <1>23 DEF Next, Tool,
     Thread, Loop

-----------------------------------------------------------------------------
(* Settling *)

Own(t) == Paired(t) /\ Final(t) /\ Fresh(t) /\ Waited(t)

\* What a claim does to its task: nothing if it was settled, and then no claim is under way.
ClaimEffect(u, who) ==
    /\ writer[u] = Idle
    /\ \/ Settled(u) /\ UNCHANGED <<holder, writer>>
       \/ /\ ~Settled(u) /\ holder'[u].status = holder[u].status
          /\ writer'[u].by = who /\ writer'[u] # Idle
          /\ holder'[u].shows = Payload(writer'[u].status)

\* try_set_terminal with a terminal status has this effect.
LEMMA ClaimSettles ==
    ASSUME Types, NEW u \in Tasks, NEW who \in {"tool", "thread", "coroutine"},
           NEW status \in Terminal, Claim(u, who, status)
    PROVE  ClaimEffect(u, who)
<1>1. CASE Settled(u)
  BY <1>1, Claimed DEF ClaimEffect
<1>2. CASE ~Settled(u)
  <2>1. /\ holder'[u] = [status |-> holder[u].status, shows |-> Payload(status)]
        /\ writer'[u] = [by |-> who, status |-> status]
    BY <1>2, Claimed DEF Types
  <2>2. [by |-> who, status |-> status] \in Claims
    BY DEF Claims
  <2>. QED
    BY <1>2, <2>1, <2>2, Claimed, IdleIsNoClaim DEF ClaimEffect
<1>. QED
  BY <1>1, <1>2

\* The end of the thread's wait keeps the invariant of its task.
LEMMA EndWaitOwn ==
    ASSUME Types, NEW u \in Tasks, Own(u), NEW status \in {"cancelled", "timed_out"},
           EndWait(u, status)
    PROVE  Own(u)'
<1>. USE IdleIsNoClaim DEF supervision, Types, Own, Paired, Final, Fresh, Waited, Settled, Answered
<1>1. CASE u \in calls
  BY <1>1 DEF EndWait, Move
<1>2. CASE u \notin calls
  <2>1. ClaimEffect(u, "thread")
    BY <1>2, ClaimSettles DEF EndWait, Terminal
  <2>. QED
    BY <1>2, <2>1 DEF EndWait, Move, ClaimEffect
<1>. QED
  BY <1>1, <1>2

\* A step of a task: every action but Abort.
Step(u) ==
    \/ Delegate(u) \/ Call(u) \/ GiveUp(u) \/ Interrupt(u) \/ InterruptAgain(u)
    \/ Tool(u) \/ Thread(u) \/ Loop(u) \/ Notice(u) \/ Finish(u) \/ Publish(u)

\* A step keeps the invariant of its task.
LEMMA OwnStep ==
    ASSUME Types, NEW u \in Tasks, Own(u), Step(u)
    PROVE  Own(u)'
<1>. USE IdleIsNoClaim DEF supervision, Types, Own, Paired, Final, Fresh, Waited, Settled, Answered
<1>1. CASE Delegate(u)
  BY <1>1 DEF Delegate
<1>2. CASE Call(u)
  <2>1. holder'[u].status = "running" /\ holder'[u].status \notin Terminal
    BY <1>2 DEF Call, Result, Terminal
  <2>. QED
    BY <1>2, <2>1 DEF Call
<1>3. CASE GiveUp(u)
  BY <1>3 DEF GiveUp, RequestCancel
<1>4. CASE Interrupt(u)
  BY <1>4 DEF Interrupt, RequestCancel
<1>5. CASE InterruptAgain(u)
  BY <1>5 DEF InterruptAgain
<1>6. CASE Poll(u)
  BY <1>6 DEF Poll
<1>7. CASE Withdraw(u)
  <2>1. ClaimEffect(u, "tool")
    BY <1>7, ClaimSettles DEF Withdraw, Terminal
  <2>. QED
    BY <1>7, <2>1 DEF Withdraw, ClaimEffect
<1>8. CASE Remove(u)
  BY <1>8 DEF Remove, Free
<1>9. CASE Take(u)
  <2>1. CASE Settled(u)
    BY <1>9, <2>1 DEF Take, Move
  <2>2. CASE ~Settled(u)
    <3>1. holder'[u].status = "running" /\ holder'[u].status \notin Terminal
      BY <1>9, <2>2 DEF Take, Result, Terminal
    <3>. QED
      BY <1>9, <2>2, <3>1 DEF Take, Move
  <2>. QED
    BY <2>1, <2>2
<1>10. CASE Post(u)
  <2>1. CASE UNCHANGED <<holder, writer>> /\ thread'[u] = "waiting" /\ coroutine'[u] = "posted"
    BY <1>10, <2>1 DEF Post, Move
  <2>2. CASE /\ \E status \in Terminal : Claim(u, "thread", status)
             /\ thread' = [thread EXCEPT ![u] = "leaving"] /\ UNCHANGED coroutine
    <3>1. ClaimEffect(u, "thread")
      BY <2>2, ClaimSettles
    <3>. QED
      BY <1>10, <2>2, <3>1 DEF Post, ClaimEffect
  <2>. QED
    BY <1>10, <2>1, <2>2 DEF Post, Move, Terminal
<1>11. CASE StopWait(u)
  BY <1>11, EndWaitOwn DEF StopWait
<1>12. CASE TimeOut(u)
  BY <1>12, EndWaitOwn DEF TimeOut
<1>13. CASE SettleCall(u)
  <2>1. ClaimEffect(u, "thread")
    BY <1>13, ClaimSettles DEF SettleCall, Terminal
  <2>. QED
    BY <1>13, <2>1 DEF SettleCall, Move, ClaimEffect
<1>14. CASE Recall(u)
  BY <1>14 DEF Recall, Move, Free
<1>15. CASE Joined(u)
  BY <1>15 DEF Joined, Move, Free
<1>16. CASE Leave(u)
  BY <1>16 DEF Leave, Move, Free
<1>17. CASE Begin(u)
  <2>1. CASE UNCHANGED <<holder, writer>> /\ (recalled[u] \/ coroutine'[u] = "streaming")
    BY <1>17, <2>1 DEF Begin, End
  <2>2. CASE Claim(u, "coroutine", "cancelled") /\ coroutine' = [coroutine EXCEPT ![u] = "ended"]
    <3>1. ClaimEffect(u, "coroutine")
      BY <2>2, ClaimSettles DEF Terminal
    <3>. QED
      BY <1>17, <2>2, <3>1 DEF Begin, ClaimEffect
  <2>. QED
    BY <1>17, <2>1, <2>2 DEF Begin, End
<1>18. CASE Cancelled(u)
  <2>1. ClaimEffect(u, "coroutine")
    BY <1>18, ClaimSettles DEF Cancelled, Terminal
  <2>. QED
    BY <1>18, <2>1 DEF Cancelled, End, ClaimEffect
<1>19. CASE Notice(u)
  <2>1. ClaimEffect(u, "coroutine")
    BY <1>19, ClaimSettles DEF Notice, Terminal
  <2>. QED
    BY <1>19, <2>1 DEF Notice, End, ClaimEffect
<1>20. CASE Finish(u)
  <2>1. ClaimEffect(u, "coroutine")
    BY <1>20, ClaimSettles DEF Finish, Terminal
  <2>. QED
    BY <1>20, <2>1 DEF Finish, End, ClaimEffect
<1>21. CASE Publish(u)
  <2>1. writer[u] \in Claims
    BY <1>21 DEF Publish
  <2>2. writer[u].status \in Terminal /\ writer[u].by # "nobody"
    BY <2>1 DEF Claims
  <2>3. holder'[u].status = writer[u].status /\ holder'[u].shows = holder[u].shows
    BY <1>21 DEF Publish, Result
  <2>4. writer'[u] = Idle /\ UNCHANGED <<answer, tool, thread, coroutine, recalled>>
    BY <1>21 DEF Publish
  <2>. QED
    BY <1>21, <2>2, <2>3, <2>4 DEF Publish
<1>. QED
  BY <1>1, <1>2, <1>3, <1>4, <1>5, <1>6, <1>7, <1>8, <1>9, <1>10, <1>11, <1>12, <1>13,
     <1>14, <1>15, <1>16, <1>17, <1>18, <1>19, <1>20, <1>21 DEF Step, Tool, Thread, Loop

\* A step leaves the other tasks alone.
Same(t) ==
    /\ holder'[t] = holder[t] /\ writer'[t] = writer[t] /\ answer'[t] = answer[t]
    /\ thread'[t] = thread[t] /\ coroutine'[t] = coroutine[t] /\ tool'[t] = tool[t]
    /\ recalled'[t] = recalled[t]

\* No step of a task touches another one's entries ...
LEMMA OthersSame ==
    ASSUME Types, NEW u \in Tasks, Step(u), NEW t \in Tasks, t # u
    PROVE  Same(t)
<1>. USE DEF supervision, Types, Same, Claim
<1>1. CASE Delegate(u)
  BY <1>1 DEF Delegate
<1>2. CASE Call(u)
  BY <1>2 DEF Call
<1>3. CASE GiveUp(u)
  BY <1>3 DEF GiveUp, RequestCancel
<1>4. CASE Interrupt(u)
  BY <1>4 DEF Interrupt, RequestCancel
<1>5. CASE InterruptAgain(u)
  BY <1>5 DEF InterruptAgain
<1>6. CASE Poll(u)
  BY <1>6 DEF Poll
<1>7. CASE Withdraw(u)
  BY <1>7 DEF Withdraw
<1>8. CASE Remove(u)
  BY <1>8 DEF Remove, Free
<1>9. CASE Take(u)
  BY <1>9 DEF Take, Move
<1>10. CASE Post(u)
  BY <1>10 DEF Post, Move
<1>11. CASE StopWait(u)
  BY <1>11 DEF StopWait, EndWait, Move
<1>12. CASE TimeOut(u)
  BY <1>12 DEF TimeOut, EndWait, Move
<1>13. CASE SettleCall(u)
  BY <1>13 DEF SettleCall, Move
<1>14. CASE Recall(u)
  BY <1>14 DEF Recall, Move, Free
<1>15. CASE Joined(u)
  BY <1>15 DEF Joined, Move, Free
<1>16. CASE Leave(u)
  BY <1>16 DEF Leave, Move, Free
<1>17. CASE Begin(u)
  BY <1>17 DEF Begin, End
<1>18. CASE Cancelled(u)
  BY <1>18 DEF Cancelled, End
<1>19. CASE Notice(u)
  BY <1>19 DEF Notice, End
<1>20. CASE Finish(u)
  BY <1>20 DEF Finish, End
<1>21. CASE Publish(u)
  BY <1>21 DEF Publish
<1>. QED
  BY <1>1, <1>2, <1>3, <1>4, <1>5, <1>6, <1>7, <1>8, <1>9, <1>10, <1>11, <1>12, <1>13,
     <1>14, <1>15, <1>16, <1>17, <1>18, <1>19, <1>20, <1>21 DEF Step, Tool, Thread, Loop

\* ... so every step keeps the invariant of all of them.
LEMMA SettlingStep ==
    ASSUME Types, Settling, [Next]_vars
    PROVE  Settling'
<1>. SUFFICES ASSUME NEW t \in Tasks PROVE Own(t)'
  BY DEF Settling, Own
<1>0. Own(t)
  BY DEF Settling, Own
<1>1. ASSUME Same(t) PROVE Own(t)'
  BY <1>0, <1>1 DEF Same, Own, Paired, Final, Fresh, Waited, Settled, Answered
<1>2. ASSUME NEW u \in Tasks, Step(u) PROVE Own(t)'
  <2>1. CASE t = u
    BY <1>0, <1>2, <2>1, OwnStep
  <2>2. CASE t # u
    BY <1>1, <1>2, <2>2, OthersSame
  <2>. QED
    BY <2>1, <2>2
<1>3. CASE Abort
  BY <1>1, <1>3 DEF Abort, supervision, Same
<1>4. CASE UNCHANGED vars
  BY <1>1, <1>4 DEF vars, Same
<1>. QED
  BY <1>2, <1>3, <1>4 DEF Next, Step

\* The holders of every reachable state are settled properly.
LEMMA Invariant == Spec => [](Types /\ Settling)
<1>1. Init => Types /\ Settling
  <2>. SUFFICES ASSUME Init PROVE Types /\ Settling
    OBVIOUS
  <2>1. [status |-> "pending", shows |-> "nothing"] \in Result
    BY DEF Result, Status, Shown
  <2>2. Types
    BY <2>1, Literals DEF Init, Types
  <2>3. ASSUME NEW t \in Tasks PROVE Paired(t) /\ Final(t) /\ Fresh(t) /\ Waited(t)
    BY DEF Init, Paired, Final, Fresh, Waited, Settled, Answered, Terminal, NoAnswer
  <2>. QED
    BY <2>2, <2>3 DEF Settling
<1>2. Types /\ Settling /\ [Next]_vars => (Types /\ Settling)'
  BY TypesStep, SettlingStep
<1>. QED
  BY <1>1, <1>2, PTL DEF Spec

\* Whatever pool thread, coroutine, timeout and canceller do, and in whatever order, a call
\* returns the status that was settled first, with the payload of that status, and the holder
\* still says the same afterwards.
THEOREM AnswersAreTrue == Spec => []AnswerIsTrue
<1>1. Settling => AnswerIsTrue
  <2>. SUFFICES ASSUME Settling, NEW t \in Tasks, Answered(t)
                PROVE  /\ answer[t].status \in Terminal
                       /\ answer[t].shows = Payload(answer[t].status)
                       /\ answer[t] = holder[t]
    BY DEF AnswerIsTrue, Answered
  <2>. QED
    BY DEF Settling, Final, Paired, Settled
<1>. QED
  BY <1>1, Invariant, PTL

-----------------------------------------------------------------------------
(* The first terminal transition wins *)

\* A settled holder has no writer, and its task has been called.
LEMMA SettledIsQuiet ==
    ASSUME NEW u \in Tasks, Own(u), Settled(u)
    PROVE  writer[u] = Idle /\ tool[u] # "none"
BY DEF Own, Paired, Fresh, Settled, Terminal

\* A step leaves the holder of its task as it is once that is settled.
LEMMA SettledStep ==
    ASSUME NEW u \in Tasks, Own(u), Settled(u), Step(u)
    PROVE  UNCHANGED holder
<1>1. writer[u] = Idle /\ tool[u] # "none"
  BY SettledIsQuiet
<1>2. CASE Delegate(u) \/ Call(u)
  BY <1>1, <1>2 DEF Delegate, Call
<1>3. CASE GiveUp(u) \/ Interrupt(u) \/ InterruptAgain(u)
  BY <1>3 DEF GiveUp, Interrupt, InterruptAgain
<1>4. CASE Tool(u)
  BY <1>4 DEF Tool, Poll, Withdraw, Remove, Claim
<1>5. CASE Take(u) \/ Post(u) \/ SettleCall(u)
  BY <1>5 DEF Take, Post, SettleCall, Claim
<1>6. CASE StopWait(u) \/ TimeOut(u)
  BY <1>6 DEF StopWait, TimeOut, EndWait, Claim
<1>7. CASE Recall(u) \/ Joined(u) \/ Leave(u)
  BY <1>7 DEF Recall, Joined, Leave
<1>8. CASE Loop(u) \/ Notice(u) \/ Finish(u)
  BY <1>8 DEF Loop, Begin, Cancelled, Notice, Finish, Claim
<1>9. CASE Publish(u)
  BY <1>1, <1>9 DEF Publish
<1>. QED
  BY <1>2, <1>3, <1>4, <1>5, <1>6, <1>7, <1>8, <1>9 DEF Step, Thread

\* The first terminal transition of a holder wins: no later claim of the tool, of a pool thread or
\* of the coroutine changes its status or its payload (try_set_terminal).
THEOREM FirstTerminalWins ==
    Spec => [][\A t \in Tasks : Settled(t) => holder'[t] = holder[t]]_vars
<1>1. ASSUME Types, Settling, [Next]_vars
      PROVE  [\A t \in Tasks : Settled(t) => holder'[t] = holder[t]]_vars
  <2>. SUFFICES ASSUME NEW t \in Tasks, Settled(t) PROVE holder'[t] = holder[t]
    OBVIOUS
  <2>1. ASSUME NEW u \in Tasks, Step(u) PROVE holder'[t] = holder[t]
    <3>1. CASE u = t
      <4>1. Own(u) /\ Settled(u)
        BY <1>1, <3>1 DEF Settling, Own
      <4>. QED
        BY <2>1, <3>1, <4>1, SettledStep
    <3>2. CASE u # t
      BY <1>1, <2>1, <3>2, OthersSame DEF Same
    <3>. QED
      BY <3>1, <3>2
  <2>2. CASE Abort \/ UNCHANGED vars
    BY <2>2 DEF Abort, vars
  <2>. QED
    BY <1>1, <2>1, <2>2 DEF Next, Step
<1>. QED
  BY <1>1, Invariant, PTL DEF Spec
=============================================================================
