--------------------------- MODULE CentralActions ---------------------------
(* The control actions of a StackPlanner thread: what the action router      *)
(* decides about each call of a model turn, the ledger of idempotency keys,  *)
(* the action budget of a run, the last handler result and the question to   *)
(* the human.  The calls of a turn are routed on one snapshot of the thread  *)
(* state and joined by its reducers.  The contents of the task memory are    *)
(* left out: what a handler or a policy reads there is a choice.             *)
EXTENDS Integers, Sequences, FiniteSets, SequencesExt, FiniteSetsExt

CONSTANTS
    MaxActions,     \* sp_max_loop_iterations: control actions of one run
    MaxLedger,      \* MAX_IDEMPOTENCY_LEDGER_ENTRIES
    MaxBatch,       \* bound: sibling calls of one model turn
    MaxMinted,      \* bound: different calls the model ever makes
    MaxRuns,        \* bound: runs of the thread
    Reissues        \* types of calls the model may repeat under the same key

ASSUME CentralAssumption ==
    /\ {MaxActions, MaxLedger, MaxBatch, MaxMinted, MaxRuns} \subseteq Nat
    /\ MaxActions >= 2
    /\ MaxLedger > 0
    /\ Reissues \subseteq {"THINK", "REVISE", "DELEGATE", "REFLECT", "ASK_HUMAN", "FINISH"}

VARIABLES
    run,        \* sp_loop_run_id
    iteration,  \* sp_loop_iteration
    ledger,     \* sp_idempotency_ledger: records in the order of the dictionary
    last,       \* sp_last_handler_result
    lastKey,    \* sp_last_idempotency_key
    asked,      \* sp_pending_human_interaction is set
    stale,      \* a user correction has outdated conclusions of the task memory
    phase,      \* "idle", or in a run: "model", "tools"
    batch,      \* the control calls of the turn, in the order the model emitted them
    results,    \* what the router returned for the first of them
    minted,     \* the calls made so far; a call's key is its place
    turns,      \* history: turns of the run that recorded an action
    succeeded   \* history: keys whose handler ran without an error, that no sibling of the retry
                \* overwrote and that a full ledger did not push out since

bookkeeping == <<run, iteration, ledger, last, lastKey, asked, stale>>
history == <<turns, succeeded>>
vars == <<bookkeeping, history, phase, batch, results, minted>>

-----------------------------------------------------------------------------
(* Calls and results *)

\* REPLAN and BACKTRACK are routed as THINK; RECALL_MEMORY and SUMMARIZE, which can fail, as
\* REVISE.
Types == {"THINK", "REVISE", "DELEGATE", "REFLECT", "ASK_HUMAN", "FINISH"}
Agents == {"coder", "researcher"}
Forms == {"valid", "malformed", "ungrounded"}
Terminal == {"ASK_HUMAN", "FINISH"}

Call == {c \in [type : Types, agent : Agents \cup {"none"}, form : Forms] :
            /\ c.type = "DELEGATE" <=> c.agent # "none"
            /\ c.form = "ungrounded" => c.type = "DELEGATE"
            /\ c.form = "malformed" => c.type \in {"THINK", "FINISH"}}

Keys == [of : 0..MaxMinted, for : {"itself", "recovery", "correction"}]
Own(n) == [of |-> n, for |-> "itself"]

Steps == {"finish", "continue", "error_recoverable", "interrupt", "error_fatal"}

Result == [step : Steps \cup {"none"}, type : Types \cup {"BATCH"}, key : Keys,
           agent : Agents \cup {"none"}, lacking : BOOLEAN]

Record == [step : Steps, type : Types, key : Keys, iteration : Nat, run : 1..MaxRuns]

\* What the router returned for one call of the turn.
Outcome == [result : Result, shown : Result, recorded : BOOLEAN, ran : BOOLEAN, healed : BOOLEAN]

NoKey == Own(0)
NoResult == [step |-> "none", type |-> "THINK", key |-> NoKey, agent |-> "none", lacking |-> FALSE]

Recorded(key) == \E i \in DOMAIN ledger : ledger[i].key = key

\* What is known of a key: its record, or the last result if that was its own.
Previous(key) ==
    IF Recorded(key) THEN ledger[CHOOSE i \in DOMAIN ledger : ledger[i].key = key]
    ELSE IF lastKey = key THEN last ELSE NoResult

\* Mutant: an action is counted once for each key.
CountKeys == Cardinality({i \in DOMAIN ledger : ledger[i].run = run})

\* sp_action_count: the siblings of a batch carry the same iteration, so the records of the run
\* are counted from the lowest one.
Count ==
    LET mine == {i \in DOMAIN ledger : ledger[i].run = run}
        counted == Min({ledger[i].iteration : i \in mine}) + Cardinality(mine) - 1
    IN  IF mine # {} /\ counted \in Nat /\ counted > iteration THEN counted ELSE iteration

-----------------------------------------------------------------------------
(* The router *)

Plain(step, c, key) ==
    LET r == [step |-> step, type |-> c.type, key |-> key, agent |-> c.agent, lacking |-> FALSE]
    IN  [result |-> r, shown |-> r, recorded |-> TRUE, ran |-> FALSE, healed |-> FALSE]

Ran(step, c, key) == [Plain(step, c, key) EXCEPT !.ran = TRUE]

\* The result names what is still missing: a partial observation, an artifact for FINISH.
Lacking(o) == [o EXCEPT !.result.lacking = TRUE, !.shown.lacking = TRUE]

\* A policy refused the delegation: the ledger keeps it, the next turn sees a THINK.
Checkpoint(c, key) ==
    [Plain("continue", c, key) EXCEPT !.shown.type = "THINK", !.shown.agent = "none"]

Nonterminal == \E i \in DOMAIN batch : minted[batch[i]].type # "FINISH"

Finish(c, key) ==
    IF Nonterminal \/ asked THEN {Plain("error_recoverable", c, key)}
    ELSE {Ran("finish", c, key), Lacking(Plain("error_recoverable", c, key))}

Reflect(c, key) == {[Ran("continue", c, key) EXCEPT !.healed = h] : h \in {FALSE, stale}}

\* The handlers, by the next step they can return.
Handled(c, key) ==
    CASE c.type = "THINK" -> Reflect(c, key)
      [] c.type = "REFLECT" -> Reflect(c, key)
      [] c.type = "REVISE" -> Reflect(c, key) \cup {Plain("error_recoverable", c, key)}
      [] c.type = "DELEGATE" -> {Ran("continue", c, key), Lacking(Ran("continue", c, key)),
                                 Plain("error_recoverable", c, key)}
      [] c.type = "ASK_HUMAN" -> {Ran("interrupt", c, key)}
      [] c.type = "FINISH" -> Finish(c, key)

\* A known key is a repeated action, unless it failed in a way that allows a retry.
Repeats(c, key) ==
    /\ Previous(key).step \notin {"none", "error_recoverable"}
    /\ Previous(key).type = c.type

Collides(c, key) == Previous(key).step # "none" /\ Previous(key).type # c.type

\* An answered question is not asked again.
Repeated(c, key) ==
    LET step == Previous(key).step
    IN  Plain(IF c.type = "ASK_HUMAN" /\ ~asked THEN "continue" ELSE step, c, key)

\* The same specialist, right after it succeeded.
SameTarget(c) ==
    c.type = "DELEGATE" /\ last.type = "DELEGATE" /\ last.step = "continue"
    /\ last.agent = c.agent /\ ~last.lacking

NeedsCorrection(c) == stale /\ c.type \in {"DELEGATE", "REVISE", "FINISH"}

NeedsRecovery(c, key) ==
    /\ last.step = "error_recoverable"
    /\ c.type \notin {"REFLECT", "ASK_HUMAN", last.type}
    /\ ~(last.type = "FINISH" /\ c.type = "DELEGATE" /\ last.lacking)
    /\ key # last.key

\* A REFLECT the router puts in the place of the call, under a key of its own.
Forced(cause, n) ==
    LET c == [type |-> "REFLECT", agent |-> "none", form |-> "valid"]
        key == [of |-> n, for |-> cause]
    IN  IF Repeats(c, key) THEN {Repeated(c, key)}
        ELSE {[Ran("continue", c, key) EXCEPT !.healed = (cause = "correction")]}

\* The checks of ActionRouter.execute in their order.  The router's own limit is left out: the
\* budget admits no call beyond it.
Route(n) ==
    LET c == minted[n]
        key == Own(n)
    IN  IF c.form = "malformed"
        THEN {[Plain("error_recoverable", c, key) EXCEPT !.recorded = FALSE]}
        ELSE IF c.form = "ungrounded" \/ Collides(c, key)
        THEN {Plain("error_recoverable", c, key)}
        ELSE IF Repeats(c, key) THEN {Repeated(c, key)}
        ELSE IF SameTarget(c) THEN {Checkpoint(c, key)}
        ELSE (IF c.type = "DELEGATE" THEN {Checkpoint(c, key)} ELSE {})
             \cup (IF NeedsCorrection(c) THEN Forced("correction", n)
                   ELSE IF NeedsRecovery(c, key) THEN Forced("recovery", last.key.of)
                   ELSE Handled(c, key))

-----------------------------------------------------------------------------
(* The reducers *)

Newest(records) == SubSeq(records, Max({1, Len(records) - MaxLedger + 1}), Len(records))

\* A dictionary loses a key.
Popped(records, key) == RemoveFirstMatch(records, LAMBDA r : r.key = key)

\* _build_state_update on the snapshot: the key goes to the end of the dictionary.
Entered(o) ==
    LET record == [step |-> o.result.step, type |-> o.result.type, key |-> o.result.key,
                   iteration |-> Count + 1, run |-> run]
    IN  Newest(Append(Popped(ledger, o.result.key), record))

\* A dictionary takes a record: a known key keeps its place.
Put(records, r) ==
    IF \E i \in DOMAIN records : records[i].key = r.key
    THEN [i \in DOMAIN records |-> IF records[i].key = r.key THEN r ELSE records[i]]
    ELSE Append(records, r)

\* Mutant: the last branch replaces the ledger.
ReplaceLedger(existing, new) == new

\* merge_sp_idempotency_ledger: the union, in which the new records win, and its newest part.
MergeLedger(existing, new) ==
    LET put[k \in 0..Len(new)] == IF k = 0 THEN existing ELSE Put(put[k - 1], new[k])
    IN  Newest(put[Len(new)])

\* The updates of the turn are reduced in the order of the batch.
Reduced ==
    LET upTo[k \in 0..Len(results)] ==
            IF k = 0 THEN ledger
            ELSE IF results[k].recorded THEN MergeLedger(upTo[k - 1], Entered(results[k]))
            ELSE upTo[k - 1]
    IN  upTo[Len(results)]

Rank == [step \in Steps |-> CASE step = "finish" -> 0 [] step = "continue" -> 1
           [] step = "error_recoverable" -> 2 [] step = "interrupt" -> 3 [] OTHER -> 4]

\* merge_sp_handler_result: the results of one turn replace the older one; several are combined
\* into a batch that takes the step of the worst (of equals, either: action ids order them).
Combined(written) ==
    LET shown == {results[i].shown : i \in written}
        worst == {r \in shown : \A q \in shown : Rank[q.step] =< Rank[r.step]}
    IN  IF Cardinality(written) = 1 THEN shown
        ELSE {[r EXCEPT !.type = "BATCH"] : r \in worst}

-----------------------------------------------------------------------------
(* A run *)

Init ==
    /\ run = 0 /\ iteration = 0 /\ ledger = <<>> /\ last = NoResult /\ lastKey = NoKey
    /\ asked = FALSE /\ stale = FALSE
    /\ phase = "idle" /\ batch = <<>> /\ results = <<>> /\ minted = <<>>
    /\ turns = 0 /\ succeeded = {}

\* A new run of the thread: the counters start over, the ledger stays.  A question that waits is
\* resolved by what the user says, or dropped by a fresh turn.
Begin(fresh, replied) ==
    /\ phase = "idle" /\ run < MaxRuns
    /\ run' = run + 1
    /\ iteration' = 0
    /\ last' = NoResult /\ lastKey' = NoKey
    /\ asked' = (asked /\ ~fresh /\ ~replied)
    /\ stale' \in BOOLEAN
    /\ phase' = "model"
    /\ turns' = 0
    /\ UNCHANGED <<ledger, batch, results, minted, succeeded>>

\* The run ends without another call of the model once FINISH was accepted.
Stop ==
    /\ phase = "model" /\ last.step = "finish"
    /\ phase' = "idle"
    /\ UNCHANGED <<bookkeeping, history, batch, results, minted>>

Capped ==
    /\ phase = "model" /\ last.step # "finish" /\ Count >= MaxActions
    /\ last' = [NoResult EXCEPT !.step = "error_fatal"]
    /\ phase' = "idle"
    /\ UNCHANGED <<run, iteration, ledger, lastKey, asked, stale, history, batch, results, minted>>

\* Text without a call ends the run.
Answer ==
    /\ phase = "model" /\ last.step # "finish" /\ Count < MaxActions
    /\ iteration' = Count
    /\ phase' = "idle"
    /\ UNCHANGED <<run, ledger, last, lastKey, asked, stale, history, batch, results, minted>>

\* after_model admits what is left of the budget; the last action is offered to FINISH and
\* ASK_HUMAN only.
Admits(calls) ==
    /\ Len(calls) =< MaxActions - Count
    /\ Count >= MaxActions - 1 => \A i \in DOMAIN calls : calls[i].type \in Terminal

\* Turns of n new calls and some old ones, in any order.
Batches(n) ==
    LET fresh == (Len(minted) + 1)..(Len(minted) + n)
        old == {m \in DOMAIN minted : minted[m].type \in Reissues}
    IN  {calls \in UNION {[1..k -> fresh \cup old] : k \in 1..MaxBatch} :
            fresh \subseteq Range(calls) /\ IsInjective(calls)}

Emit(fresh, calls) ==
    /\ minted' = minted \o fresh
    /\ Admits([i \in DOMAIN calls |-> (minted \o fresh)[calls[i]]])
    /\ iteration' = Count
    /\ batch' = calls
    /\ phase' = "tools"
    /\ UNCHANGED <<run, ledger, last, lastKey, asked, stale, history, results>>

\* The model makes new calls and repeats old ones.
ModelTurn ==
    /\ phase = "model" /\ last.step # "finish" /\ Count < MaxActions
    /\ \E n \in 0..Min({MaxBatch, MaxMinted - Len(minted)}) :
           \E calls \in Batches(n), fresh \in [1..n -> Call] : Emit(fresh, calls)

\* The retry of an action that had failed ran beside a sibling that is joined after it: that one's
\* snapshot of the ledger holds the failure, and puts it back.
Overwritten(i) ==
    /\ Recorded(results[i].result.key)
    /\ \E j \in DOMAIN results : i < j /\ results[j].recorded

\* One call of the turn is routed and handled, on the snapshot all of them share.
Execute ==
    /\ phase = "tools" /\ Len(results) < Len(batch)
    /\ \E o \in Route(batch[Len(results) + 1]) : results' = Append(results, o)
    /\ UNCHANGED <<bookkeeping, history, phase, batch, minted>>

\* All calls have ended and their updates are reduced in the order of the batch.  A command that
\* goes to END need not end the run while a sibling goes back to the model; sp_ask_human always
\* returns directly.
Join ==
    LET outcomes == Range(results)
        written == {i \in DOMAIN results : results[i].recorded}
        direct == \A i \in DOMAIN batch : minted[batch[i]].type = "ASK_HUMAN"
        ran == {i \in DOMAIN results : results[i].ran /\ ~Overwritten(i)}
        ends == \E o \in outcomes : o.shown.step \in {"interrupt", "finish"}
    IN  /\ phase = "tools" /\ Len(results) = Len(batch)
        /\ ledger' = Reduced
        /\ IF written = {} THEN UNCHANGED <<iteration, last, lastKey>>
           ELSE /\ iteration' = Count + 1
                /\ last' \in Combined(written)
                /\ lastKey' = results[Max(written)].result.key
        /\ asked' = (asked \/ \E o \in outcomes : o.ran /\ o.result.type = "ASK_HUMAN")
        /\ stale' \in IF \E o \in outcomes : o.healed
                      THEN {FALSE} \cup {stale : o \in {p \in outcomes : ~p.healed}} ELSE {stale}
        /\ phase' \in IF direct THEN {"idle"} ELSE IF ends THEN {"idle", "model"} ELSE {"model"}
        /\ batch' = <<>> /\ results' = <<>>
        /\ turns' = IF written = {} THEN turns ELSE turns + 1
        /\ succeeded' = {key \in succeeded \cup {results[i].result.key : i \in ran} :
                            \/ Len(ledger') < MaxLedger
                            \/ \E i \in DOMAIN ledger' : ledger'[i].key = key}
        /\ UNCHANGED <<run, minted>>

\* A cancelled run ends where it is; what the branches of a turn wrote is dropped.
Abandon ==
    /\ phase # "idle"
    /\ phase' = "idle" /\ batch' = <<>> /\ results' = <<>>
    /\ UNCHANGED <<bookkeeping, history, minted>>

Ends == Stop \/ Capped \/ Answer

Next ==
    \/ \E fresh, replied \in BOOLEAN : Begin(fresh, replied)
    \/ Ends \/ ModelTurn \/ Execute \/ Join
    \/ Abandon

Spec == Init /\ [][Next]_vars

-----------------------------------------------------------------------------
(* Properties *)

TypeOK ==
    /\ run \in 0..MaxRuns /\ iteration \in 0..MaxActions
    /\ ledger \in Seq(Record) /\ Len(ledger) =< MaxLedger
    /\ last \in Result /\ lastKey \in Keys
    /\ {asked, stale} \subseteq BOOLEAN
    /\ phase \in {"idle", "model", "tools"}
    /\ minted \in Seq(Call)
    /\ batch \in Seq(DOMAIN minted) /\ results \in Seq(Outcome) /\ Len(results) =< Len(batch)
    /\ turns \in Nat /\ succeeded \subseteq Keys

\* The action count never falls behind the turns of the run that recorded an action, although
\* siblings share an iteration, retried keys overwrite their records and the ledger forgets: a run
\* has at most MaxActions such turns (sp_action_count, SPActionBudgetMiddleware).
TurnsCounted == phase # "idle" => turns =< Count

\* An action that succeeded is in the ledger with its success, whatever its siblings and later
\* actions record, unless a sibling of its retry overwrites it (Overwritten); only a full ledger
\* forgets, its oldest keys (_build_state_update, merge_sp_idempotency_ledger).
SuccessRemembered ==
    \A key \in succeeded : Recorded(key) /\ Previous(key).step # "error_recoverable"

=============================================================================
