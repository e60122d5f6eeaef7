-------------------------- MODULE GoalContinuation --------------------------
(* The goal of a thread: one field of its checkpoint, which the goal        *)
(* endpoints, the compaction, the state endpoint, the agent's own           *)
(* checkpoints and the evaluator at the end of each turn all replace by     *)
(* reading the latest checkpoint and putting a changed copy.  The goal lock *)
(* serializes some of them.  A step is the code between two awaits.         *)
EXTENDS Naturals

CONSTANTS
    MaxGoals,           \* bound: goals ever set
    MaxContinuations,   \* max_continuations of every goal
    MaxStalls,          \* max_no_progress_continuations of every goal
    MaxUpdates,         \* bound: updates of the state
    Texts,              \* texts the assistant may show
    Talks               \* names of visible conversations, enough for those in memory

ASSUME GoalAssumption ==
    /\ {MaxGoals, MaxContinuations, MaxStalls, MaxUpdates} \subseteq Nat
    /\ 0 \notin Talks /\ \A t, u, v \in Talks \cup {0} : Talks \ {t, u, v} # {}
    /\ Texts # {} /\ 0 \notin Texts

VARIABLES
    head,       \* the latest checkpoint
    same,       \* its id is the one the evaluator read last
    holder,     \* who is inside goal_thread_lock
    copy,       \* the checkpoint the holder has read and will put back changed
    draft,      \* the one an update of the state will put back, if there is one
    pc,         \* where the run is, "idle" if there is none
    carried,    \* the checkpoint the graph has loaded
    goal,       \* locals of _prepare_goal_continuation_input
    talk, evidence, verdict, stalls,
    plan,       \* what the evaluator will make of the goal, and where it goes on
    goals,      \* goals set so far
    updates,    \* updates of the state so far
    buried,     \* history: goals ended while neither a turn nor an update carried them
    late,       \* history: the run's goal was buried after the last look at it
    edited,     \* history: the state was updated since the lock was taken
    tainted,    \* history: an update has put the first goal back from an outdated copy
    pushed      \* history: continuation turns of the first goal

evaluation == <<goal, talk, evidence, verdict, stalls, plan>>
looks == <<same, late>>
counters == <<goals, updates>>
history == <<buried, edited, tainted, pushed>>
vars == <<head, holder, copy, draft, pc, carried, evaluation, looks, counters, history>>

\* "blocked" stands for every blocker but goal_not_met_yet: the run stands down.
Verdicts == {"satisfied", "goal_not_met_yet", "blocked"}
NoKey == 0
NoGoal == [inst |-> 0, count |-> 0, stalls |-> 0, key |-> NoKey]
NoText == CHOOSE t \in Texts : TRUE
NoTalk == [goal |-> NoGoal, talk |-> 0, evidence |-> NoText, answered |-> FALSE]
None == NoTalk

\* A turn of the graph is going on.
Streams == pc \in {"first", "stream"}

Init ==
    /\ head = NoTalk
    /\ same = FALSE
    /\ holder = "nobody" /\ copy = None /\ draft = None
    /\ pc = "idle" /\ carried = None
    /\ goal = NoGoal /\ talk = 0 /\ evidence = NoText
    /\ verdict = "satisfied" /\ stalls = 0 /\ plan = "stop"
    /\ goals = 0 /\ updates = 0
    /\ buried = {} /\ late = FALSE /\ edited = FALSE /\ tainted = FALSE
    /\ pushed = 0

-----------------------------------------------------------------------------
(* Checkpoints *)

\* Something visible was added or replaced: a name that nobody else keeps in memory.
NewTalk(kept) == CHOOSE t \in Talks \ kept : TRUE

\* aput: the copy, with a new id, is the latest checkpoint.
Put(c) == head' = c /\ same' = FALSE

Free == holder = "nobody"
Release == holder' = "nobody" /\ copy' = None
Take(who) ==
    /\ Free
    /\ holder' = who /\ copy' = head
    /\ edited' = FALSE

\* Mutant: only that there is a goal is looked at.
MatchesAny(g) == g.inst # 0
\* _goal_instance_matches, against the goal the evaluation began with.
Matches(g) == g.inst # 0 /\ g.inst = goal.inst

\* The goal in the latest checkpoint ends.  Only a turn that has loaded it or an update
\* that has read it can bring it back.
Ended == buried \cup ({head.goal.inst} \ {0, draft.goal.inst, carried.goal.inst})
Bury ==
    /\ buried' = Ended
    /\ late' = (late \/ (pc \in {"recheckAgain", "again"} /\ Matches(head.goal)))

-----------------------------------------------------------------------------
(* The endpoints *)

\* set_thread_goal, clear_thread_goal: read under the lock ...
EndpointReads(who) ==
    /\ who \in {"set", "clear"}
    /\ who = "set" => goals < MaxGoals
    /\ Take(who)
    /\ UNCHANGED <<head, draft, pc, carried, evaluation, looks, counters, buried, tainted, pushed>>

\* ... and put the copy with a fresh goal (build_goal_state) or with none.
SetPuts ==
    /\ holder = "set"
    /\ goals' = goals + 1
    /\ Put([copy EXCEPT !.goal = [NoGoal EXCEPT !.inst = goals + 1]])
    /\ Bury /\ Release
    /\ UNCHANGED <<draft, pc, carried, evaluation, updates, edited, tainted, pushed>>

ClearPuts ==
    /\ holder = "clear"
    /\ Put([copy EXCEPT !.goal = NoGoal])
    /\ Bury /\ Release
    /\ UNCHANGED <<draft, pc, carried, evaluation, counters, edited, tainted, pushed>>

\* compact_thread: refused while a run is in flight; the summary is made by a model.
CompactReads ==
    /\ pc = "idle"
    /\ Take("compact")
    /\ UNCHANGED <<head, draft, pc, carried, evaluation, looks, counters, buried, tainted, pushed>>

CompactPuts ==
    /\ holder = "compact"
    /\ \/ Put([copy EXCEPT !.talk = NewTalk({draft.talk})])
       \/ UNCHANGED <<head, same>>
    /\ Release
    /\ UNCHANGED <<draft, pc, carried, evaluation, late, counters, history>>

\* update_thread_state takes no lock: it puts what it read with the values of the request.
UpdateReads ==
    /\ draft = None /\ head # None /\ updates < MaxUpdates
    /\ draft' = head /\ updates' = updates + 1
    /\ UNCHANGED <<head, holder, copy, pc, carried, evaluation, looks, goals, history>>

UpdatePuts ==
    /\ draft # None
    /\ \/ Put(draft)
       \/ Put([draft EXCEPT !.talk = NewTalk({copy.talk, carried.talk, talk}), !.answered = FALSE])
    /\ draft' = None
    /\ edited' = (holder = "compact")
    /\ tainted' = (tainted \/ (draft.goal.inst = 1 /\ draft.goal # head.goal))
    /\ UNCHANGED <<holder, copy, pc, carried, evaluation, late, counters, buried, pushed>>

-----------------------------------------------------------------------------
(* The run *)

Goto(l) == pc' = l

\* The evaluation is over and the run ends.
Stand(l) == pc' = l /\ goal' = NoGoal /\ talk' = 0 /\ evidence' = NoText
            /\ verdict' = "satisfied" /\ stalls' = 0 /\ plan' = "stop"
            /\ same' = FALSE /\ late' = FALSE
End == Stand("idle")

\* Mutant: start_run admits a run without the goal lock.
AdmitUnlocked == pc = "idle"
\* start_run admits a run under the goal lock.
MayAdmit == pc = "idle" /\ Free

BeginRun ==
    /\ MayAdmit
    /\ Goto("load")
    /\ UNCHANGED <<head, holder, copy, draft, carried, evaluation, looks, counters, history>>

\* The graph loads the latest checkpoint, for the first turn or for a continuation.
Load ==
    /\ \/ pc = "load" /\ Goto("first") /\ UNCHANGED pushed
       \/ /\ pc = "again" /\ Goto("stream")
          /\ pushed' = IF goal.inst # 1 \/ pushed > MaxContinuations THEN pushed ELSE pushed + 1
    /\ carried' = head
    /\ UNCHANGED <<head, holder, copy, draft, evaluation, looks, counters, buried, edited, tainted>>

\* A turn ends: what it puts is what it had loaded with its own messages.  It gives a visible
\* answer or none; the message that asks for a continuation is hidden.
Speak ==
    /\ Streams
    /\ \/ \E t \in Texts :
            Put([carried EXCEPT !.talk = NewTalk({copy.talk, draft.talk}),
                                !.evidence = t, !.answered = TRUE])
       \/ pc = "stream" /\ Put(carried)
       \/ Put([carried EXCEPT !.talk = NewTalk({copy.talk, draft.talk}), !.answered = FALSE])
    /\ carried' = None
    /\ Stand("goal")
    /\ UNCHANGED <<holder, copy, draft, counters, history>>

\* The run is aborted, or a call of the evaluation fails: the lock is given back.
Stop ==
    /\ pc # "idle"
    /\ End
    /\ carried' = None
    /\ IF holder = "worker" THEN Release ELSE UNCHANGED <<holder, copy>>
    /\ UNCHANGED <<head, draft, counters, history>>

-----------------------------------------------------------------------------
(* _prepare_goal_continuation_input, one read of the checkpoint after another *)

\* compute_goal_progress_key; only the turns that may be continued are told apart.
ProgressKey(v, e) == IF v = "goal_not_met_yet" THEN e ELSE NoKey

\* compute_no_progress_count, up to the bound that matters.
Stalls(g, key) ==
    IF key = NoKey \/ g.key # key THEN 0
    ELSE IF g.stalls < MaxStalls THEN g.stalls + 1 ELSE MaxStalls

ReadGoal ==
    /\ pc = "goal"
    /\ IF head.goal = NoGoal THEN End
       ELSE /\ goal' = head.goal /\ Goto("receipt")
            /\ UNCHANGED <<talk, evidence, verdict, stalls, plan, looks>>
    /\ UNCHANGED <<head, holder, copy, draft, carried, counters, history>>

Judged(v, e) ==
    /\ verdict' = v
    /\ stalls' = Stalls(goal, ProgressKey(v, e))

\* _has_durable_goal_turn_receipt: without an answer the model is not asked.
ReadReceipt ==
    /\ pc = "receipt"
    /\ same' = TRUE
    /\ talk' = head.talk /\ evidence' = head.evidence
    /\ IF head.answered THEN Goto("judge") /\ UNCHANGED <<verdict, stalls>>
       ELSE Goto("persist") /\ Judged("blocked", head.evidence)
    /\ UNCHANGED <<head, holder, copy, draft, carried, goal, plan, late, counters, history>>

Judge ==
    /\ pc = "judge"
    /\ \E v \in Verdicts : Judged(v, evidence)
    /\ Goto("reread")
    /\ UNCHANGED <<head, holder, copy, draft, carried, goal, talk, evidence, plan, looks, counters,
                   history>>

\* _reread_goal_and_checkpoint reads the goal, then the checkpoint.
Reread ==
    /\ pc \in {"reread", "rereadAgain"}
    /\ IF Matches(head.goal)
       THEN /\ Goto(IF pc = "reread" THEN "recheck" ELSE "recheckAgain")
            /\ UNCHANGED <<evaluation, looks>>
       ELSE End
    /\ UNCHANGED <<head, holder, copy, draft, carried, counters, history>>

\* _stand_down_reason, should_continue_goal.
StandsDown ==
    \/ verdict # "goal_not_met_yet"
    \/ goal.count >= MaxContinuations
    \/ stalls >= MaxStalls

Recheck ==
    /\ pc = "recheck"
    /\ plan' = IF ~same \/ head.talk # talk THEN "stop"
               ELSE IF verdict = "satisfied" THEN "clear"
               ELSE IF StandsDown THEN "stop"
               ELSE "continue"
    /\ Goto("persist")
    /\ UNCHANGED <<head, holder, copy, draft, carried, goal, talk, evidence, verdict, stalls, looks,
                   counters, history>>

\* The final guard only looks at the conversation.
RecheckAgain ==
    /\ pc = "recheckAgain"
    /\ IF head.talk = talk THEN Goto("again") /\ UNCHANGED plan
       ELSE Goto("persist") /\ plan' = "countAndStop"
    /\ UNCHANGED <<head, holder, copy, draft, carried, goal, talk, evidence, verdict, stalls, looks,
                   counters, history>>

\* _persist_goal_evaluation, and the clearing of a satisfied goal: under the lock the goal
\* must still be the one that was evaluated ...
PersistReads ==
    /\ pc = "persist"
    /\ Free
    /\ IF Matches(head.goal)
       THEN /\ Take("worker") /\ same' = TRUE
            /\ Goto("compare") /\ UNCHANGED <<evaluation, late>>
       ELSE End /\ UNCHANGED <<holder, copy, edited>>
    /\ UNCHANGED <<head, draft, carried, counters, buried, tainted, pushed>>

\* ... write_thread_goal reads again and compares the id ...
Compare ==
    /\ pc = "compare"
    /\ IF same THEN Goto("put") /\ UNCHANGED <<holder, copy, evaluation, looks>>
       ELSE End /\ Release
    /\ UNCHANGED <<head, draft, carried, counters, history>>

\* Mutants: the evaluation is not recorded, or its continuation is not counted.
AttachNothing(g) == g
AttachUncounted(g) == [g EXCEPT !.stalls = stalls, !.key = ProgressKey(verdict, evidence)]
\* attach_goal_evaluation
Attach(g) ==
    [g EXCEPT !.stalls = stalls, !.key = ProgressKey(verdict, evidence),
              !.count = IF plan \in {"continue", "countAndStop"} THEN goal.count + 1 ELSE @]

\* ... and puts.
PersistPuts ==
    /\ pc = "put"
    /\ IF plan = "clear"
       THEN Put([copy EXCEPT !.goal = NoGoal]) /\ buried' = Ended
       ELSE Put([copy EXCEPT !.goal = Attach(copy.goal)]) /\ UNCHANGED buried
    /\ IF plan = "continue" THEN Goto("rereadAgain") /\ UNCHANGED <<evaluation, late>> ELSE End
    /\ Release
    /\ UNCHANGED <<draft, carried, counters, edited, tainted, pushed>>

-----------------------------------------------------------------------------
Evaluate ==
    \/ ReadGoal \/ ReadReceipt \/ Judge \/ Reread \/ Recheck \/ RecheckAgain \/ Compare
    \/ PersistPuts

Endpoints == SetPuts \/ ClearPuts \/ CompactPuts

Next ==
    \/ \E who \in {"set", "clear"} : EndpointReads(who)
    \/ Endpoints \/ CompactReads \/ UpdateReads \/ UpdatePuts
    \/ BeginRun \/ Load \/ Speak \/ Stop \/ Evaluate \/ PersistReads

Spec == Init /\ [][Next]_vars

\* Coroutines that can run do, a turn ends, and asyncio.Lock is handed on in the order of
\* the requests.  Nobody has to use an endpoint.
FairSpec ==
    /\ Spec
    /\ WF_vars(Load) /\ WF_vars(Speak) /\ WF_vars(Evaluate) /\ WF_vars(Endpoints)
    /\ SF_vars(PersistReads)

-----------------------------------------------------------------------------
(* Properties *)

Goal == [inst : Nat, count : Nat, stalls : Nat, key : Texts \cup {NoKey}]
Checkpoint == [goal : Goal, talk : Talks \cup {0}, evidence : Texts, answered : BOOLEAN]

TypeOK ==
    /\ head \in Checkpoint /\ copy \in Checkpoint /\ draft \in Checkpoint
    /\ carried \in Checkpoint
    /\ holder \in {"nobody", "set", "clear", "compact", "worker"}
    /\ pc \in {"idle", "load", "first", "stream", "goal", "receipt", "judge", "reread", "recheck",
               "persist", "compare", "put", "rereadAgain", "recheckAgain", "again"}
    /\ goal \in Goal /\ talk \in Talks \cup {0} /\ evidence \in Texts
    /\ verdict \in Verdicts /\ stalls \in Nat
    /\ plan \in {"stop", "clear", "continue", "countAndStop"}
    /\ goals \in Nat /\ updates \in Nat /\ buried \subseteq Nat /\ pushed \in Nat
    /\ same \in BOOLEAN /\ late \in BOOLEAN /\ edited \in BOOLEAN /\ tainted \in BOOLEAN

\* "a user message or /goal clear racing the evaluation must win" (worker.py:821-824): a goal
\* that was cleared, replaced or satisfied does not come back, unless a turn or an update of
\* the state had read it before, and is not continued if it was gone at the last look.
EndedStaysEnded ==
    /\ head.goal.inst \notin buried
    /\ pc = "again" /\ goal.inst \in buried => late

\* However evaluations, edits and aborted runs follow each other, a goal causes at most
\* MaxContinuations hidden turns, unless an update of the state put an outdated count back.
ContinuationsBounded ==
    ~tainted => pushed <= MaxContinuations

\* The goal lock, the admission of runs and has_inflight together: while a compaction asks its
\* model, no run changes the checkpoint that the compaction will replace.
CompactionMissesNothing == holder = "compact" /\ ~edited => copy = head

\* A run with a goal ends, however the model judges, as long as goals are not set, and the
\* state is not updated, over and over.
RunEnds == pc # "idle" ~> pc = "idle"
=============================================================================
