----------------------------- MODULE TaskMemory -----------------------------
(* The short-term task memory of a StackPlanner thread: the stack of entries *)
(* (sp/memory/stack.py) as the middlewares restore, prune and summarize it   *)
(* around a run, as the handlers of one model turn change it side by side    *)
(* from the same snapshot, and as the reducer of the thread state joins the  *)
(* branches (agents/thread_state.py).  Contents are left out: a text budget, *)
(* a quality check or a reply that is found or not is a choice.              *)
EXTENDS Integers, Sequences, FiniteSets, SequencesExt, FiniteSetsExt

CONSTANTS
    Calls,          \* action types the model may emit
    MaxBatch,       \* bound: sibling calls of one model turn
    MaxTargets,     \* bound: entries a call names
    MaxId,          \* bound: entries ever created
    MaxRuns,        \* bound: runs of the thread
    MaxSize,        \* max_size: active entries kept by the stack
    MaxHistory,     \* max_history_size: entries of any status
    MaxActive,      \* max_active_entries: active entries a run starts with
    KeepRecent, SourceLimit,            \* default sources of SUMMARIZE
    AutoTrigger, AutoKeep, AutoLimit,   \* default sources of the automatic summary
    MinProgress     \* entries between two summaries of one run

\* ActionType, without PROCEED, which is no call.
CallTypes == {"THINK", "REPLAN", "DELEGATE", "RECALL_MEMORY", "REFLECT", "REVISE", "BACKTRACK",
              "SUMMARIZE", "ASK_HUMAN", "FINISH"}

ASSUME TaskMemoryAssumption ==
    /\ Calls \subseteq CallTypes
    /\ {MaxBatch, MaxTargets, MaxId, MaxRuns, MaxSize, MaxHistory, MaxActive,
        KeepRecent, SourceLimit, AutoTrigger, AutoKeep, AutoLimit, MinProgress} \subseteq Nat
    /\ MaxSize > 0 /\ MaxRuns > 0
    /\ MaxSize =< MaxHistory

VARIABLES
    memory,     \* sp_task_memory: the entries, oldest first
    question,   \* sp_pending_human_interaction is set
    phase,      \* "idle", or in a run: "model", "tools", "ending"
    branches,   \* the sibling calls of the turn, in the order the model emitted them
    reserved,   \* a sibling SUMMARIZE holds the turn's reservation
    run,        \* the run's number
    nextId      \* identifiers below it are taken

stackVars == <<memory, question, phase, branches, reserved, run, nextId>>

(* ------------------------------ the stack -------------------------------- *)

Actions == {"think", "replan", "delegate", "observe", "recall_memory", "error", "reflect",
            "revise", "backtrack", "summarize", "ask_human", "finish", "user_request", "feedback"}

\* SUMMARIZATION_PROGRESS_ACTIONS
ProgressActions == {"delegate", "observe", "recall_memory", "reflect", "revise", "backtrack",
                    "replan", "error"}

Statuses == {"active", "pinned", "pruned", "superseded"}

Entry == [id : 1..MaxId, action : Actions, status : Statuses, critical : BOOLEAN,
          run : 1..MaxRuns, parents : SUBSET (1..MaxId)]

Live(e) == e.status \in {"active", "pinned"}
Protected(e) == e.status = "pinned" \/ e.critical
Human(e) == e.action \in {"user_request", "feedback"}
Compactable(e) == e.status = "active" /\ ~e.critical

Ids(s) == {s[i].id : i \in DOMAIN s}
Entries(s) == {s[i] : i \in DOMAIN s}
Named(s, ids) == {e \in Entries(s) : e.id \in ids}
Count(s, statuses) == Cardinality({i \in DOMAIN s : s[i].status \in statuses})

\* The entries of s that are in the set kept, in their order.
Keep(s, kept) ==
    LET upTo[k \in 0..Len(s)] ==
            IF k = 0 THEN <<>>
            ELSE IF s[k] \in kept THEN Append(upTo[k - 1], s[k])
            ELSE upTo[k - 1]
    IN  upTo[Len(s)]

Pruned(e) == [e EXCEPT !.status = "pruned"]

\* The first n active entries of s are pruned.
PruneOldest(s, n) ==
    [i \in DOMAIN s |-> IF s[i].status = "active"
                           /\ Cardinality({j \in 1..i : s[j].status = "active"}) =< n
                        THEN Pruned(s[i]) ELSE s[i]]

\* The oldest active entries give way to max_size, whatever their priority; then the oldest
\* entries that are neither live nor critical give way to max_history_size.
Aged(s) ==
    LET old == Keep(s, {e \in Entries(s) : ~Live(e) /\ ~e.critical})
    IN  {old[i].id : i \in {k \in DOMAIN old : k =< Len(s) - MaxHistory}}

MaintainSize(s) ==
    LET kept == PruneOldest(s, Count(s, {"active", "pinned"}) - MaxSize)
        aged == Aged(kept)
    IN  Keep(kept, {e \in Entries(kept) : e.id \notin aged})

Push(s, e) == MaintainSize(Append(s, e))

New(id, action) == [id |-> id, action |-> action, status |-> "active", critical |-> FALSE,
                    run |-> run, parents |-> {}]

Feedback(id) == [New(id, "feedback") EXCEPT !.status = "pinned", !.critical = TRUE]

\* prune passes over the stack from the oldest entry until max_entries and max_chars hold: it
\* stops after the n-th active entry it prunes, the first n at which both do.
Prune(s, n) ==
    [i \in DOMAIN s |-> IF s[i].status # "pinned"
                           /\ Cardinality({j \in 1..(i - 1) : s[j].status = "active"}) < n
                        THEN Pruned(s[i]) ELSE s[i]]

Prunings(s) ==
    LET over == Count(s, {"active", "pinned"}) - MaxActive
        all == Count(s, {"active"}) + 1
    IN  {Prune(s, n) : n \in {m \in 0..all : m >= over \/ m = all}}

Lineage(s) == UNION {e.parents : e \in {f \in Entries(s) : f.action = "summarize"}}

\* Sources leave the stack, pinned and critical ones excepted; the summary names them and what
\* they had themselves condensed.
Condense(s, ids, id) ==
    LET stays == {e \in Entries(s) : e.id \notin ids \/ Protected(e)}
        sources == {e \in Named(s, ids) : e.action = "summarize"}
    IN  Push(Keep(s, stays),
             [New(id, "summarize") EXCEPT !.parents = ids \cup UNION {e.parents : e \in sources}])

\* Mutant: pinned entries are withdrawn too.
BacktrackAll(s, ids, id) ==
    Push([i \in DOMAIN s |-> IF s[i].id \in ids THEN Pruned(s[i]) ELSE s[i]],
         [New(id, "backtrack") EXCEPT !.parents = ids])

\* Pinned entries stay as they are.
MarkBacktracked(s, ids, id) ==
    Push([i \in DOMAIN s |-> IF s[i].id \in ids /\ s[i].status # "pinned"
                             THEN Pruned(s[i]) ELSE s[i]],
         [New(id, "backtrack") EXCEPT !.parents = ids])

\* None when this run has not summarized yet.
Progress(s) ==
    LET mine == {i \in DOMAIN s : s[i].action = "summarize" /\ s[i].run = run}
    IN  {i \in DOMAIN s : \A j \in mine : i > j}
            \cap {i \in DOMAIN s : Compactable(s[i]) /\ s[i].action \in ProgressActions}

CanSummarize(s) ==
    \/ \A e \in Entries(s) : ~(e.action = "summarize" /\ e.run = run)
    \/ Cardinality(Progress(s)) >= MinProgress

AutoSources(s) ==
    LET cand == Keep(s, {e \in Entries(s) : Compactable(e)})
    IN  IF Len(cand) < AutoTrigger THEN {}
        ELSE {cand[i].id : i \in {k \in DOMAIN cand : k =< Len(cand) - AutoKeep /\ k =< AutoLimit}}

DefaultSources(s) ==
    LET cand == Keep(s, {e \in Entries(s) : Compactable(e)})
        end == Len(cand) - KeepRecent
    IN  {cand[i].id : i \in {k \in DOMAIN cand : k =< end /\ k > end - SourceLimit}}

(* -------------------- what the handlers do to a snapshot ----------------- *)

Targets(s) == {ids \in SUBSET Ids(s) : ids # {} /\ Cardinality(ids) =< MaxTargets}

\* Each handler returns the stacks it can leave behind; a handler that raises leaves its
\* snapshot.  a and b are the identifiers of the entries it appends.
Noted(s, a, action) == {Push(s, New(a, action))}

Thought(s, a) == {Push(s, [New(a, "think") EXCEPT !.critical = c]) : c \in BOOLEAN}

Delegated(s, a, b) ==
    {Push(Push(s, New(a, "delegate")), New(b, r)) : r \in {"observe", "error"}}

Recalled(s, a, b) ==
    {Push(Push(s, New(a, "recall_memory")), [New(b, r) EXCEPT !.parents = {a}])
        : r \in {"recall_memory", "error"}}

Mutable(s, ids) == \A e \in Named(s, ids) : ~Protected(e) /\ ~Human(e)

ReflectOn(s, ids, a, b) ==
    LET reflected == Push(s, New(a, "reflect"))
        active == {e.id : e \in {f \in Named(s, ids) : f.status = "active"}}
    IN  IF ~Mutable(s, ids) THEN s
        ELSE IF active = {} THEN reflected
        ELSE MarkBacktracked(reflected, active, b)

Reflected(s, a, b) == {ReflectOn(s, ids, a, b) : ids \in Targets(s) \cup {{}}}

Revise(s, ids, a) ==
    IF Mutable(s, ids) /\ \A e \in Named(s, ids) : e.status = "active"
    THEN Push([i \in DOMAIN s |-> IF s[i].id \in ids
                                  THEN [s[i] EXCEPT !.status = "superseded"] ELSE s[i]],
              [New(a, "revise") EXCEPT !.parents = ids])
    ELSE s

Revised(s, a) == {Revise(s, ids, a) : ids \in Targets(s)}

\* The entries named, or those that are active after the last one of the target.
Backtracked(s, a) ==
    {MarkBacktracked(s, ids, a) :
        ids \in Targets(s)
                \cup {{s[j].id : j \in {k \in DOMAIN s : k > i /\ s[k].status = "active"}} :
                        i \in DOMAIN s}}

\* A summary that is too long, or whose sources are all protected or inactive, is refused;
\* one of a source that is not active raises.
Summary(s, ids, a) ==
    IF ids = {} THEN Push(s, New(a, "summarize"))
    ELSE IF (\E e \in Named(s, ids) : Compactable(e)) /\ (\A e \in Named(s, ids) : Live(e))
         THEN Condense(s, ids, a) ELSE s

Summarized(s, a) == {s} \cup {Summary(s, ids, a) : ids \in Targets(s) \cup {DefaultSources(s)}}

Results(type, s, a, b) ==
    CASE type = "THINK" -> Thought(s, a)
      [] type = "REPLAN" -> Noted(s, a, "replan")
      [] type = "DELEGATE" -> Delegated(s, a, b)
      [] type = "RECALL_MEMORY" -> Recalled(s, a, b)
      [] type = "REFLECT" -> Reflected(s, a, b)
      [] type = "REVISE" -> Revised(s, a)
      [] type = "BACKTRACK" -> Backtracked(s, a)
      [] type = "SUMMARIZE" -> Summarized(s, a)
      [] type = "ASK_HUMAN" -> Noted(s, a, "ask_human")
      [] type = "FINISH" -> Noted(s, a, "finish")

(* ------------------------------- the join -------------------------------- *)

\* Mutant: the last snapshot replaces the others.
Replaced(existing, new) == new

\* Mutant: the union without the tombstones.
Untombed(existing, new) ==
    existing \o Keep(new, {e \in Entries(new) : e.id \notin Ids(existing)})

\* merge_sp_task_memory: union by identifier, a later snapshot's copy of an entry replaces an
\* earlier one's; then what a summary condensed leaves again.
Merge(existing, new) ==
    LET added == Keep(new, {e \in Entries(new) : e.id \notin Ids(existing)})
        latest == [i \in DOMAIN existing |->
                    IF existing[i].id \in Ids(new)
                    THEN CHOOSE e \in Entries(new) : e.id = existing[i].id
                    ELSE existing[i]]
        union == latest \o added
    IN  Keep(union, {e \in Entries(union) : e.id \notin Lineage(union) \/ Protected(e)})

BranchStates == {"waiting", "reserved", "done", "silent"}

Waiting == [state |-> "waiting", asks |-> FALSE, memory |-> <<>>]
Done(s, asks) == [state |-> "done", asks |-> asks, memory |-> s]
Silent == [Waiting EXCEPT !.state = "silent"]

\* The reducer is applied to the branches in the order of the calls; a blocked SUMMARIZE
\* contributes no stack.
Joined ==
    LET upTo[k \in 0..Len(branches)] ==
            IF k = 0 THEN memory
            ELSE IF branches[k].state = "done" THEN Merge(upTo[k - 1], branches[k].memory)
            ELSE upTo[k - 1]
    IN  upTo[Len(branches)]

(* ------------------------------- the runs -------------------------------- *)

StackInit ==
    /\ memory = <<>>
    /\ question = FALSE
    /\ phase = "idle"
    /\ branches = <<>>
    /\ reserved = FALSE
    /\ run = 1
    /\ nextId = 1

Carried(e) == Protected(e) \/ (e.status = "active" /\ e.action \in {"summarize", "finish"})

\* before_agent of the task memory and, for a pending question, of the middleware that finds
\* the reply.  fresh is a new user turn after an abnormal run.
NewRun(fresh, answered) ==
    LET restored == MaintainSize(memory)
        base == IF fresh THEN Keep(restored, {e \in Entries(restored) : Carried(e)}) ELSE restored
        continuing == question /\ ~fresh
        asked == IF continuing THEN base ELSE Push(base, New(nextId, "user_request"))
    IN  /\ phase = "idle"
        /\ nextId =< MaxId
        /\ answered => continuing
        /\ \E s \in Prunings(asked) :
              memory' = IF answered THEN Push(s, Feedback(nextId)) ELSE s
        /\ question' = (continuing /\ ~answered)
        /\ nextId' = IF continuing /\ ~answered THEN nextId ELSE nextId + 1
        /\ phase' = "model"
        /\ UNCHANGED <<branches, reserved, run>>

\* The model emits n control calls: each tool call gets the same state.
Emit(n) ==
    /\ phase = "model"
    /\ nextId + 2 * n - 1 =< MaxId
    /\ phase' = "tools"
    /\ branches' = [i \in 1..n |-> Waiting]
    /\ UNCHANGED <<memory, question, reserved, run, nextId>>

First(i) == nextId + 2 * (i - 1)

\* _execute_control_tool on its own thread, for every action but SUMMARIZE.  The router may turn
\* the call away: a duplicate or a policy leaves the snapshot, a malformed call nothing.
Execute(i, type) ==
    LET s == MaintainSize(memory)
    IN  /\ phase = "tools"
        /\ branches[i].state = "waiting"
        /\ type # "SUMMARIZE"
        /\ \/ \E r \in Results(type, s, First(i), First(i) + 1) :
                 branches' = [branches EXCEPT ![i] = Done(r, type = "ASK_HUMAN")]
           \/ branches' = [branches EXCEPT ![i] = Done(s, FALSE)]
           \/ branches' = [branches EXCEPT ![i] = Silent]
        /\ UNCHANGED <<memory, question, phase, reserved, run, nextId>>

\* Mutant: the reservation is taken too late to stop a sibling.
ReserveUnlocked(i) ==
    /\ "SUMMARIZE" \in Calls
    /\ phase = "tools"
    /\ branches[i].state = "waiting"
    /\ branches' = [branches EXCEPT ![i] =
                        IF CanSummarize(MaintainSize(memory))
                        THEN [Waiting EXCEPT !.state = "reserved"] ELSE Silent]
    /\ UNCHANGED <<memory, question, phase, reserved, run, nextId>>

\* SUMMARIZE takes the turn's reservation under a lock; a sibling that finds it taken, or one
\* without progress since the last summary of the run, leaves the stack out.
Reserve(i) ==
    /\ "SUMMARIZE" \in Calls
    /\ phase = "tools"
    /\ branches[i].state = "waiting"
    /\ branches' = [branches EXCEPT ![i] =
                        IF reserved \/ ~CanSummarize(MaintainSize(memory)) THEN Silent
                        ELSE [Waiting EXCEPT !.state = "reserved"]]
    /\ reserved' = TRUE
    /\ UNCHANGED <<memory, question, phase, run, nextId>>

\* The holder summarizes, or fails and gives the reservation back.
ExecuteSummarize(i) ==
    /\ phase = "tools"
    /\ branches[i].state = "reserved"
    /\ LET s == MaintainSize(memory)
       IN  \E r \in Results("SUMMARIZE", s, First(i), First(i) + 1) :
              /\ branches' = [branches EXCEPT ![i] = Done(r, FALSE)]
              /\ reserved' = (r # s)
    /\ UNCHANGED <<memory, question, phase, run, nextId>>

\* The tool node's writes are applied together.
Join ==
    /\ phase = "tools"
    /\ \A i \in DOMAIN branches : branches[i].state \in {"done", "silent"}
    /\ memory' = Joined
    /\ question' = (question \/ \E i \in DOMAIN branches : branches[i].asks)
    /\ nextId' = 1 + Max({nextId - 1} \cup UNION {Ids(branches[i].memory) : i \in DOMAIN branches})
    /\ phase' = "model"
    /\ branches' = <<>>
    /\ reserved' = FALSE
    /\ UNCHANGED run

\* A free-form answer is recorded as an implicit THINK and ends the loop.
Answer ==
    /\ phase = "model"
    /\ nextId =< MaxId
    /\ memory' = Push(MaintainSize(memory), New(nextId, "think"))
    /\ nextId' = nextId + 1
    /\ phase' = "ending"
    /\ UNCHANGED <<question, branches, reserved, run>>

\* after_agent: the automatic summary, then pruning.
EndRun ==
    LET s == MaintainSize(memory)
        sources == AutoSources(s)
        auto == sources # {} /\ CanSummarize(s)
    IN  /\ phase \in {"model", "ending"}
        /\ run < MaxRuns
        /\ nextId =< MaxId
        /\ \E r \in Prunings(IF auto THEN Condense(s, sources, nextId) ELSE s) : memory' = r
        /\ nextId' = IF auto THEN nextId + 1 ELSE nextId
        /\ phase' = "idle"
        /\ run' = run + 1
        /\ UNCHANGED <<question, branches, reserved>>

\* The run is cancelled or its process ends: nothing of an unfinished turn is written.
Abandon ==
    /\ phase # "idle"
    /\ run < MaxRuns
    /\ phase' = "idle"
    /\ branches' = <<>>
    /\ reserved' = FALSE
    /\ run' = run + 1
    /\ UNCHANGED <<memory, question, nextId>>

StackNext ==
    \/ \E fresh, answered \in BOOLEAN : NewRun(fresh, answered)
    \/ \E n \in 1..MaxBatch : Emit(n)
    \/ \E i \in DOMAIN branches :
          \/ \E type \in Calls : Execute(i, type)
          \/ Reserve(i)
          \/ ExecuteSummarize(i)
    \/ Join
    \/ Answer
    \/ EndRun
    \/ Abandon

StackSpec == StackInit /\ [][StackNext]_stackVars

(* ------------------------------ properties ------------------------------- *)

\* Every entry is one the stack can hold, its identifier is its own, and a branch is a call of
\* the turn that has or has not run (StackMemoryEntry, _execute_control_tool).
StackTypeOK ==
    /\ memory \in Seq(Entry)
    /\ \A i, j \in DOMAIN memory : memory[i].id = memory[j].id => i = j
    /\ question \in BOOLEAN
    /\ phase \in {"idle", "model", "tools", "ending"}
    /\ (phase = "tools") = (branches # <<>>)
    /\ \A i \in DOMAIN branches :
          branches[i].state \in BranchStates /\ branches[i].memory \in Seq(Entry)
    /\ reserved \in BOOLEAN
    /\ run \in 1..MaxRuns
    /\ nextId \in Nat
    /\ \A e \in Entries(memory) : e.id < nextId

\* What a summary condensed is out of the working memory for good: neither a stale sibling
\* snapshot nor a restore brings it back (merge_sp_task_memory, the tombstones).
CondensedStaysOut ==
    \A e \in Entries(memory) : e.id \in Lineage(memory) => Protected(e)

\* Human feedback, once recorded, stays pinned in the memory through summaries, backtracks,
\* fresh turns, ageing and joins.
FeedbackKept ==
    [][\A e \in Entries(memory) : e.status = "pinned" => e \in Entries(memory')]_stackVars

\* No sibling loses the entry another one appended, and the last entry each appended is still in
\* view unless pinned feedback fills the stack.
ResultsSurvive ==
    [][phase = "tools" /\ phase' = "model" =>
        \A i \in DOMAIN branches :
            LET s == branches[i].memory
                own == {e \in Entries(s) : e.id >= nextId}
                pinned == Count(memory, {"pinned"})
            IN  /\ own \subseteq Entries(memory')
                /\ own # {} /\ pinned < MaxSize => Last(s).status = "active"]_stackVars

\* A turn commits at most one summary, whichever of its siblings reserved first.
OneSummaryPerTurn ==
    [][phase = "tools" =>
        LET summaries == {e \in Entries(memory') : e.action = "summarize"}
        IN  Cardinality({e \in summaries : e.id >= nextId}) =< 1]_stackVars

=============================================================================
