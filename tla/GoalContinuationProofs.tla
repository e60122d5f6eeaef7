----------------------- MODULE GoalContinuationProofs -----------------------
(* What the goal lock, the compare of the checkpoint id and the counters of a *)
(* goal guarantee, for any number of goals, continuations and updates.        *)
EXTENDS GoalContinuation, TLAPS

\* A new conversation has a name.
LEMMA TalkIsNew ==
    ASSUME NEW t \in Talks \cup {0}, NEW u \in Talks \cup {0}, NEW v \in Talks \cup {0}
    PROVE  NewTalk({t, u, v}) \in Talks
<1>1. Talks \ {t, u, v} # {}
  BY GoalAssumption
<1>2. PICK w : w \in Talks \ {t, u, v}
  BY <1>1
<1>. QED
  BY <1>2 DEF NewTalk

\* The conversations that the actions name are new.
LEMMA Names ==
    ASSUME TypeOK
    PROVE  /\ NewTalk({draft.talk}) \in Talks
           /\ NewTalk({copy.talk, carried.talk, talk}) \in Talks
           /\ NewTalk({copy.talk, draft.talk}) \in Talks
<1>1. /\ copy.talk \in Talks \cup {0} /\ carried.talk \in Talks \cup {0}
      /\ draft.talk \in Talks \cup {0} /\ talk \in Talks \cup {0}
  BY DEF TypeOK, Checkpoint
<1>2. /\ {draft.talk} = {draft.talk, draft.talk, draft.talk}
      /\ {copy.talk, draft.talk} = {copy.talk, draft.talk, draft.talk}
  OBVIOUS
<1>. QED
  BY <1>1, <1>2, TalkIsNew

\* The bounds are numbers, the empty values are typed.
LEMMA Constants ==
    /\ MaxGoals \in Nat /\ MaxContinuations \in Nat /\ MaxStalls \in Nat /\ MaxUpdates \in Nat
    /\ NoGoal \in Goal /\ NoText \in Texts /\ NoTalk \in Checkpoint
BY GoalAssumption DEF NoGoal, Goal, NoText, NoTalk, Checkpoint, NoKey

-----------------------------------------------------------------------------
(* Types *)

\* The first state is well typed.
LEMMA InitTypes == Init => TypeOK
<1>. SUFFICES ASSUME Init PROVE TypeOK
  OBVIOUS
<1>1. head \in Checkpoint /\ copy \in Checkpoint /\ draft \in Checkpoint /\ carried \in Checkpoint
  BY Constants DEF Init, None
<1>2. goal \in Goal /\ evidence \in Texts
  BY Constants DEF Init
<1>3. goals \in Nat /\ updates \in Nat /\ buried \subseteq Nat
  BY Constants DEF Init
<1>. QED
  BY <1>1, <1>2, <1>3 DEF Init, TypeOK, Verdicts

\* What the two ways to leave an evaluation assign.
LEMMA StandTypes ==
    ASSUME TypeOK, NEW l, Stand(l)
    PROVE  /\ goal' \in Goal /\ talk' \in Talks \cup {0} /\ evidence' \in Texts
           /\ verdict' \in Verdicts /\ stalls' \in Nat /\ plan' = "stop"
           /\ same' \in BOOLEAN /\ late' \in BOOLEAN
           /\ goal' = NoGoal /\ pc' = l
BY Constants DEF Stand, Verdicts, TypeOK

\* A checkpoint with another goal, or with other messages, is a checkpoint.
LEMMA WithGoal ==
    ASSUME NEW c \in Checkpoint, NEW g \in Goal
    PROVE  [c EXCEPT !.goal = g] \in Checkpoint /\ [c EXCEPT !.goal = g].goal = g
BY DEF Checkpoint

\* The same for other messages ...
LEMMA WithTalk ==
    ASSUME NEW c \in Checkpoint, NEW t \in Talks
    PROVE  [c EXCEPT !.talk = t] \in Checkpoint /\ [c EXCEPT !.talk = t].goal = c.goal
BY DEF Checkpoint

\* ... that end with a question ...
LEMMA WithQuestion ==
    ASSUME NEW c \in Checkpoint, NEW t \in Talks
    PROVE  /\ [c EXCEPT !.talk = t, !.answered = FALSE] \in Checkpoint
           /\ [c EXCEPT !.talk = t, !.answered = FALSE].goal = c.goal
BY DEF Checkpoint

\* ... or with an answer.
LEMMA WithAnswer ==
    ASSUME NEW c \in Checkpoint, NEW t \in Talks, NEW e \in Texts
    PROVE  /\ [c EXCEPT !.talk = t, !.evidence = e, !.answered = TRUE] \in Checkpoint
           /\ [c EXCEPT !.talk = t, !.evidence = e, !.answered = TRUE].goal = c.goal
BY DEF Checkpoint

\* A fresh goal, and a goal with its evaluation attached.
LEMMA FreshGoal ==
    ASSUME NEW n \in Nat
    PROVE  [NoGoal EXCEPT !.inst = n] \in Goal /\ [NoGoal EXCEPT !.inst = n].inst = n
BY Constants DEF NoGoal, Goal

\* attach_goal_evaluation keeps the goal and counts a continuation.
LEMMA Attached ==
    ASSUME TypeOK, NEW g \in Goal
    PROVE  /\ Attach(g) \in Goal /\ Attach(g).inst = g.inst
           /\ Attach(g).count = IF plan \in {"continue", "countAndStop"} THEN goal.count + 1
                                ELSE g.count
<1>1. ProgressKey(verdict, evidence) \in Texts \cup {NoKey}
  BY DEF ProgressKey, TypeOK
<1>2. goal.count \in Nat /\ stalls \in Nat
  BY DEF TypeOK, Goal
<1>. DEFINE n == IF plan \in {"continue", "countAndStop"} THEN goal.count + 1 ELSE g.count
            k == ProgressKey(verdict, evidence)
<1>3. n \in Nat /\ Attach(g) = [g EXCEPT !.stalls = stalls, !.key = k, !.count = n]
  BY <1>2 DEF Attach, Goal
<1>. HIDE DEF n, k
<1>4. [g EXCEPT !.stalls = stalls, !.key = k, !.count = n] \in Goal
  BY <1>1, <1>2, <1>3 DEF Goal, k
<1>5. /\ [g EXCEPT !.stalls = stalls, !.key = k, !.count = n].inst = g.inst
      /\ [g EXCEPT !.stalls = stalls, !.key = k, !.count = n].count = n
  BY DEF Goal
<1>. QED
  BY <1>3, <1>4, <1>5 DEF n

\* Only goals are buried.
LEMMA BuriedTypes == ASSUME TypeOK PROVE Ended \subseteq Nat
BY DEF Ended, TypeOK, Checkpoint, Goal

\* The endpoints preserve the types ...
LEMMA EndpointTypes == TypeOK /\ (Endpoints \/ CompactReads) => TypeOK'
<1>. SUFFICES ASSUME TypeOK, Endpoints \/ CompactReads PROVE TypeOK'
  OBVIOUS
<1>. USE DEF counters, looks, evaluation, history, Release, None, Put
<1>1. CASE SetPuts
  <2>1. goals \in Nat /\ copy \in Checkpoint
    BY DEF TypeOK
  <2>2. [NoGoal EXCEPT !.inst = goals + 1] \in Goal
    BY <2>1, FreshGoal
  <2>3. head' \in Checkpoint
    BY <1>1, <2>1, <2>2, WithGoal DEF SetPuts
  <2>4. buried' \subseteq Nat
    BY <1>1, BuriedTypes DEF SetPuts, Bury
  <2>5. late' = (late \/ (pc \in {"recheckAgain", "again"} /\ Matches(head.goal)))
    BY <1>1 DEF SetPuts, Bury
  <2>6. late' \in BOOLEAN
    BY <2>5, Zenon
  <2>7. goals' \in Nat /\ copy' \in Checkpoint
    BY <1>1, <2>1, Constants DEF SetPuts
  <2>. QED
    BY <1>1, <2>3, <2>4, <2>6, <2>7 DEF SetPuts, TypeOK
<1>2. CASE ClearPuts
  <2>1. copy \in Checkpoint
    BY DEF TypeOK
  <2>3. head' \in Checkpoint
    BY <1>2, <2>1, Constants, WithGoal DEF ClearPuts
  <2>4. buried' \subseteq Nat
    BY <1>2, BuriedTypes DEF ClearPuts, Bury
  <2>5. late' = (late \/ (pc \in {"recheckAgain", "again"} /\ Matches(head.goal)))
    BY <1>2 DEF ClearPuts, Bury
  <2>6. late' \in BOOLEAN
    BY <2>5, Zenon
  <2>. QED
    BY <1>2, <2>3, <2>4, <2>6, Constants DEF ClearPuts, TypeOK
<1>3. CASE CompactPuts
  <2>1. copy \in Checkpoint /\ head \in Checkpoint
    BY DEF TypeOK
  <2>2. head' \in Checkpoint /\ same' \in BOOLEAN
    BY <1>3, <2>1, WithTalk, Names DEF CompactPuts, TypeOK
  <2>. QED
    BY <1>3, <2>2, Constants DEF CompactPuts, TypeOK
<1>4. CASE CompactReads
  BY <1>4 DEF CompactReads, Take, TypeOK
<1>. QED
  BY <1>1, <1>2, <1>3, <1>4 DEF Endpoints

\* ... and so do the requests ...
LEMMA RequestTypes ==
    TypeOK /\ (UpdateReads \/ UpdatePuts \/ BeginRun \/ \E who \in {"set", "clear"} : EndpointReads(who))
    => TypeOK'
<1>. SUFFICES ASSUME TypeOK,
                     \/ UpdateReads \/ UpdatePuts \/ BeginRun
                     \/ \E who \in {"set", "clear"} : EndpointReads(who)
              PROVE  TypeOK'
  OBVIOUS
<1>. USE DEF counters, looks, evaluation, history, None, Put
<1>1. CASE UpdateReads
  BY <1>1 DEF UpdateReads, TypeOK
<1>2. CASE UpdatePuts
  <2>1. draft \in Checkpoint
    BY DEF TypeOK
  <2>2. head' \in Checkpoint /\ same' \in BOOLEAN
    BY <1>2, <2>1, WithQuestion, Names DEF UpdatePuts
  <2>. QED
    BY <1>2, <2>2, Constants DEF UpdatePuts, TypeOK
<1>3. CASE BeginRun
  BY <1>3 DEF BeginRun, Goto, TypeOK
<1>4. CASE \E who \in {"set", "clear"} : EndpointReads(who)
  BY <1>4 DEF EndpointReads, Take, TypeOK
<1>. QED
  BY <1>1, <1>2, <1>3, <1>4

\* ... the turns ...
LEMMA TurnTypes == TypeOK /\ (Load \/ Speak \/ Stop) => TypeOK'
<1>. SUFFICES ASSUME TypeOK, Load \/ Speak \/ Stop PROVE TypeOK'
  OBVIOUS
<1>. USE DEF counters, looks, evaluation, history, None, Put
<1>1. CASE Load
  <2>1. pushed' \in Nat
    BY <1>1, Constants DEF Load, TypeOK
  <2>. QED
    BY <1>1, <2>1 DEF Load, Goto, TypeOK
<1>2. CASE Speak
  <2>1. carried \in Checkpoint
    BY DEF TypeOK
  <2>2. \/ \E t \in Texts : head' = [carried EXCEPT !.talk = NewTalk({copy.talk, draft.talk}),
                                               !.evidence = t, !.answered = TRUE]
        \/ head' = carried
        \/ head' = [carried EXCEPT !.talk = NewTalk({copy.talk, draft.talk}), !.answered = FALSE]
    BY <1>2 DEF Speak
  <2>3. NewTalk({copy.talk, draft.talk}) \in Talks
    BY Names
  <2>a. ASSUME NEW t \in Texts
        PROVE  [carried EXCEPT !.talk = NewTalk({copy.talk, draft.talk}),
                               !.evidence = t, !.answered = TRUE] \in Checkpoint
    BY <2>1, <2>3, WithAnswer
  <2>b. [carried EXCEPT !.talk = NewTalk({copy.talk, draft.talk}), !.answered = FALSE] \in Checkpoint
    BY <2>1, <2>3, WithQuestion
  <2>4. head' \in Checkpoint
    BY <2>1, <2>2, <2>a, <2>b, Zenon
  <2>5. carried' \in Checkpoint /\ Stand("goal") /\ UNCHANGED <<holder, copy, draft, counters, history>>
    BY <1>2, Constants DEF Speak
  <2>6. /\ goal' \in Goal /\ talk' \in Talks \cup {0} /\ evidence' \in Texts
        /\ verdict' \in Verdicts /\ stalls' \in Nat /\ plan' = "stop" /\ pc' = "goal"
        /\ same' \in BOOLEAN /\ late' \in BOOLEAN
    BY <2>5, StandTypes
  <2>. QED
    BY <2>4, <2>5, <2>6 DEF TypeOK
<1>3. CASE Stop
  BY <1>3, StandTypes, Constants DEF Stop, End, Release, TypeOK
<1>. QED
  BY <1>1, <1>2, <1>3

\* ... and the evaluation.
LEMMA EvaluationTypes == TypeOK /\ (Evaluate \/ PersistReads) => TypeOK'
<1>. SUFFICES ASSUME TypeOK, Evaluate \/ PersistReads PROVE TypeOK'
  OBVIOUS
<1>. USE DEF counters, looks, evaluation, history, None, Goto
<1>0. head \in Checkpoint /\ head.goal \in Goal /\ head.talk \in Talks \cup {0} /\ head.evidence \in Texts
  BY DEF TypeOK, Checkpoint
<1>1. CASE ReadGoal
  BY <1>0, <1>1, StandTypes DEF ReadGoal, End, TypeOK
<1>2. CASE ReadReceipt
  BY <1>0, <1>2, Constants DEF ReadReceipt, Judged, Stalls, Verdicts, TypeOK, Goal
<1>3. CASE Judge
  BY <1>3, Constants DEF Judge, Judged, Stalls, TypeOK, Goal
<1>4. CASE Reread
  BY <1>4, StandTypes DEF Reread, End, TypeOK
<1>5. CASE Recheck
  BY <1>5 DEF Recheck, TypeOK
<1>6. CASE RecheckAgain
  BY <1>6 DEF RecheckAgain, TypeOK
<1>7. CASE PersistReads
  BY <1>0, <1>7, StandTypes DEF PersistReads, Take, End, TypeOK
<1>8. CASE Compare
  BY <1>8, StandTypes, Constants DEF Compare, Release, End, TypeOK
<1>9. CASE PersistPuts
  <2>1. copy \in Checkpoint /\ Attach(copy.goal) \in Goal
    BY Attached DEF TypeOK, Checkpoint
  <2>2. head' \in Checkpoint
    BY <1>9, <2>1, WithGoal, Constants DEF PersistPuts, Put
  <2>3. buried' \subseteq Nat
    BY <1>9, BuriedTypes DEF PersistPuts, TypeOK
  <2>. QED
    BY <1>9, <2>2, <2>3, StandTypes, Constants DEF PersistPuts, Put, Release, End, TypeOK
<1>. QED
  BY <1>1, <1>2, <1>3, <1>4, <1>5, <1>6, <1>7, <1>8, <1>9 DEF Evaluate

\* Every step preserves the types.
LEMMA TypesStep == TypeOK /\ [Next]_vars => TypeOK'
<1>1. TypeOK /\ UNCHANGED vars => TypeOK'
  BY DEF TypeOK, vars, counters, looks, evaluation, history
<1>. QED
  BY <1>1, EndpointTypes, RequestTypes, TurnTypes, EvaluationTypes DEF Next

-----------------------------------------------------------------------------
(* The invariant *)

\* The run is between the persisting of a continuation and its turn.
Continues == pc \in {"rereadAgain", "recheckAgain", "again"}

\* Who holds what: a compaction excludes runs, and whoever persists holds the goal he judged.
Held ==
    /\ holder = "compact" => pc = "idle" /\ (~edited => copy = head)
    /\ pc \in {"compare", "put"} => holder = "worker" /\ Matches(copy.goal)
    /\ ~Streams => carried = None

\* Nobody knows a goal that was not set yet.
Numbered ==
    /\ head.goal.inst <= goals /\ copy.goal.inst <= goals /\ draft.goal.inst <= goals
    /\ carried.goal.inst <= goals /\ goal.inst <= goals
    /\ buried \subseteq 1 .. goals

\* Nobody who may put it back has a buried goal in memory.
Unburied ==
    /\ head.goal.inst \notin buried /\ copy.goal.inst \notin buried
    /\ draft.goal.inst \notin buried /\ carried.goal.inst \notin buried
    /\ pc \in {"recheckAgain", "again"} /\ goal.inst \in buried => late

\* A continuation is only planned below the bound.
Planned ==
    /\ pc = "goal" => plan = "stop"
    /\ plan = "continue" => goal.count < MaxContinuations
    /\ Continues => plan = "continue"

\* The turn that was persisted and has not begun is counted already.
Due == IF Continues /\ goal.inst = 1 THEN pushed + 1 ELSE pushed

\* Whatever copy of the first goal is put back counts all of its turns.
Counted ==
    /\ goals = 0 => pushed = 0
    /\ ~tainted =>
        /\ pushed <= MaxContinuations
        /\ head.goal.inst = 1 => head.goal.count >= Due
        /\ copy.goal.inst = 1 => copy.goal.count >= Due
        /\ carried.goal.inst = 1 => carried.goal.count >= Due
        /\ goal.inst = 1 /\ pc # "stream" => goal.count >= pushed

IInv == TypeOK /\ Held /\ Numbered /\ Unburied /\ Planned /\ Counted

-----------------------------------------------------------------------------
(* What the steps do to the goal *)

\* What the empty goal and the empty checkpoint hold.
LEMMA Nothing ==
    /\ NoGoal.inst = 0 /\ NoGoal.count = 0
    /\ None.goal.inst = 0 /\ None.goal.count = 0 /\ None.goal = NoGoal
BY DEF NoGoal, None, NoTalk

\* The numbers of a well typed state.
LEMMA Numbers ==
    ASSUME TypeOK
    PROVE  /\ head.goal.inst \in Nat /\ copy.goal.inst \in Nat /\ draft.goal.inst \in Nat
           /\ carried.goal.inst \in Nat /\ goal.inst \in Nat
           /\ head.goal.count \in Nat /\ copy.goal.count \in Nat /\ draft.goal.count \in Nat
           /\ carried.goal.count \in Nat /\ goal.count \in Nat
           /\ goals \in Nat /\ pushed \in Nat
BY DEF TypeOK, Checkpoint, Goal

\* Where the goal of a checkpoint that is put comes from.
LEMMA PutGoals ==
    ASSUME TypeOK
    PROVE  /\ SetPuts => head'.goal.inst = goals + 1 /\ head'.goal.count = 0
           /\ ClearPuts => head'.goal = NoGoal
           /\ CompactPuts => head'.goal \in {head.goal, copy.goal}
           /\ UpdatePuts => head'.goal = draft.goal
           /\ Speak => head'.goal = carried.goal
           /\ PersistPuts => head'.goal = IF plan = "clear" THEN NoGoal ELSE Attach(copy.goal)
<1>0. /\ copy \in Checkpoint /\ draft \in Checkpoint /\ carried \in Checkpoint /\ goals \in Nat
      /\ copy.goal \in Goal
  BY DEF TypeOK, Checkpoint
<1>1. ASSUME SetPuts PROVE head'.goal.inst = goals + 1 /\ head'.goal.count = 0
  <2>. DEFINE g == [NoGoal EXCEPT !.inst = goals + 1]
  <2>1. g \in Goal /\ g.inst = goals + 1 /\ g.count = 0
    BY <1>0, FreshGoal DEF NoGoal
  <2>2. head' = [copy EXCEPT !.goal = g]
    BY <1>1 DEF SetPuts, Put
  <2>. HIDE DEF g
  <2>. QED
    BY <1>0, <2>1, <2>2, WithGoal
<1>2. ASSUME ClearPuts PROVE head'.goal = NoGoal
  BY <1>0, <1>2, WithGoal, Constants DEF ClearPuts, Put
<1>3. ASSUME CompactPuts PROVE head'.goal \in {head.goal, copy.goal}
  <2>1. NewTalk({draft.talk}) \in Talks
    BY Names
  <2>2. head' = head \/ head' = [copy EXCEPT !.talk = NewTalk({draft.talk})]
    BY <1>3 DEF CompactPuts, Put
  <2>. QED
    BY <1>0, <2>1, <2>2, WithTalk
<1>4. ASSUME UpdatePuts PROVE head'.goal = draft.goal
  <2>. DEFINE t == NewTalk({copy.talk, carried.talk, talk})
  <2>1. t \in Talks
    BY Names
  <2>2. head' = draft \/ head' = [draft EXCEPT !.talk = t, !.answered = FALSE]
    BY <1>4 DEF UpdatePuts, Put
  <2>. HIDE DEF t
  <2>. QED
    BY <1>0, <2>1, <2>2, WithQuestion
<1>5. ASSUME Speak PROVE head'.goal = carried.goal
  <2>. DEFINE n == NewTalk({copy.talk, draft.talk})
  <2>1. n \in Talks
    BY Names
  <2>2. \/ \E t \in Texts : head' = [carried EXCEPT !.talk = n, !.evidence = t, !.answered = TRUE]
        \/ head' = carried
        \/ head' = [carried EXCEPT !.talk = n, !.answered = FALSE]
    BY <1>5 DEF Speak, Put
  <2>. HIDE DEF n
  <2>3. ASSUME NEW t \in Texts
        PROVE  [carried EXCEPT !.talk = n, !.evidence = t, !.answered = TRUE].goal = carried.goal
    BY <1>0, <2>1, WithAnswer
  <2>4. [carried EXCEPT !.talk = n, !.answered = FALSE].goal = carried.goal
    BY <1>0, <2>1, WithQuestion
  <2>. QED
    BY <2>2, <2>3, <2>4, Zenon
<1>6. ASSUME PersistPuts
      PROVE  head'.goal = IF plan = "clear" THEN NoGoal ELSE Attach(copy.goal)
  <2>1. Attach(copy.goal) \in Goal
    BY <1>0, Attached
  <2>2. head' = IF plan = "clear" THEN [copy EXCEPT !.goal = NoGoal]
                                  ELSE [copy EXCEPT !.goal = Attach(copy.goal)]
    BY <1>6 DEF PersistPuts, Put
  <2>. QED
    BY <1>0, <2>1, <2>2, WithGoal, Constants
<1>. QED
  BY <1>1, <1>2, <1>3, <1>4, <1>5, <1>6

-----------------------------------------------------------------------------
(* Who holds what *)

\* Every step preserves who holds what.
LEMMA HeldStep ==
    ASSUME TypeOK, Held, [Next]_vars
    PROVE  Held'
<1>. USE DEF counters, looks, evaluation, history
<1>1. CASE \E who \in {"set", "clear"} : EndpointReads(who)
  BY <1>1 DEF EndpointReads, Take, Free, Held, Streams, Matches
<1>2. CASE SetPuts
  BY <1>2 DEF SetPuts, Release, Held, Streams, Matches
<1>3. CASE ClearPuts
  BY <1>3 DEF ClearPuts, Release, Held, Streams, Matches
<1>4. CASE CompactPuts
  BY <1>4 DEF CompactPuts, Release, Held, Streams, Matches
<1>5. CASE CompactReads
  BY <1>5 DEF CompactReads, Take, Free, Held, Streams, Matches
<1>6. CASE UpdateReads
  BY <1>6 DEF UpdateReads, Held, Streams, Matches
<1>7. CASE UpdatePuts
  BY <1>7 DEF UpdatePuts, Held, Streams, Matches
<1>8. CASE BeginRun
  BY <1>8 DEF BeginRun, MayAdmit, Free, Goto, Held, Streams, Matches
<1>9. CASE Load
  BY <1>9 DEF Load, Goto, Held, Streams, Matches
<1>10. CASE Speak
  BY <1>10 DEF Speak, Stand, Held, Streams, Matches
<1>11. CASE Stop
  BY <1>11 DEF Stop, End, Stand, Release, Held, Streams, Matches
<1>12. CASE ReadGoal
  BY <1>12 DEF ReadGoal, Goto, End, Stand, Held, Streams, Matches
<1>13. CASE ReadReceipt
  BY <1>13 DEF ReadReceipt, Goto, Held, Streams, Matches
<1>14. CASE Judge
  BY <1>14 DEF Judge, Goto, Held, Streams, Matches
<1>15. CASE Reread
  BY <1>15 DEF Reread, Goto, End, Stand, Held, Streams, Matches
<1>16. CASE Recheck
  BY <1>16 DEF Recheck, Goto, Held, Streams, Matches
<1>17. CASE RecheckAgain
  BY <1>17 DEF RecheckAgain, Goto, Held, Streams, Matches
<1>18. CASE PersistReads
  BY <1>18 DEF PersistReads, Take, Free, Goto, End, Stand, Held, Streams, Matches
<1>19. CASE Compare
  BY <1>19 DEF Compare, Goto, End, Stand, Release, Held, Streams, Matches
<1>20. CASE PersistPuts
  BY <1>20 DEF PersistPuts, Goto, End, Stand, Release, Held, Streams, Matches
<1>21. CASE UNCHANGED vars
  BY <1>21 DEF vars, Held, Streams, Matches
<1>. QED
  BY <1>1, <1>2, <1>3, <1>4, <1>5, <1>6, <1>7, <1>8, <1>9, <1>10, <1>11, <1>12, <1>13, <1>14,
     <1>15, <1>16, <1>17, <1>18, <1>19, <1>20, <1>21 DEF Next, Evaluate, Endpoints

-----------------------------------------------------------------------------
(* Goals that were never set, and goals that are gone *)

\* Goals are numbered as they are set, so no step brings up an unknown one.
LEMMA NumberedStep ==
    ASSUME TypeOK, Numbered, [Next]_vars
    PROVE  Numbered'
<1>. USE DEF counters, looks, evaluation, history
<1>0. Ended \subseteq 1 .. goals
  <2>. SUFFICES ASSUME NEW i \in Ended PROVE i \in 1 .. goals
    OBVIOUS
  <2>1. i \in buried \/ (i = head.goal.inst /\ i # 0)
    BY DEF Ended
  <2>2. ASSUME i \in buried PROVE i \in 1 .. goals
    BY <2>2 DEF Numbered
  <2>3. ASSUME i = head.goal.inst, i # 0 PROVE i \in 1 .. goals
    <3>1. head.goal.inst \in Nat /\ goals \in Nat /\ head.goal.inst <= goals
      BY Numbers DEF Numbered
    <3>. QED
      BY <2>3, <3>1
  <2>. QED
    BY <2>1, <2>2, <2>3
<1>1. CASE \E who \in {"set", "clear"} : EndpointReads(who)
  BY <1>1, Numbers, PutGoals, Nothing DEF EndpointReads, Take, Free, Numbered
<1>2. CASE SetPuts
  BY <1>2, <1>0, Numbers, PutGoals, Nothing DEF SetPuts, Bury, Release, Numbered
<1>3. CASE ClearPuts
  BY <1>3, <1>0, Numbers, PutGoals, Nothing DEF ClearPuts, Bury, Release, Numbered
<1>4. CASE CompactPuts
  BY <1>4, Numbers, PutGoals, Nothing DEF CompactPuts, Release, Numbered
<1>5. CASE CompactReads
  BY <1>5, Numbers, PutGoals, Nothing DEF CompactReads, Take, Free, Numbered
<1>6. CASE UpdateReads
  BY <1>6, Numbers, PutGoals, Nothing DEF UpdateReads, Numbered
<1>7. CASE UpdatePuts
  BY <1>7, Numbers, PutGoals, Nothing DEF UpdatePuts, Numbered
<1>8. CASE BeginRun
  BY <1>8, Numbers, PutGoals, Nothing DEF BeginRun, Goto, Numbered
<1>9. CASE Load
  BY <1>9, Numbers, PutGoals, Nothing DEF Load, Goto, Numbered
<1>10. CASE Speak
  <2>1. /\ head'.goal = carried.goal /\ carried' = None /\ goal' = NoGoal /\ pc' = "goal"
        /\ UNCHANGED <<copy, draft, goals, buried>>
    BY <1>10, PutGoals DEF Speak, Stand
  <2>. QED
    BY <1>10, <2>1, Numbers, Nothing DEF Numbered
<1>11. CASE Stop
  BY <1>11, Numbers, PutGoals, Nothing DEF Stop, End, Stand, Release, Numbered
<1>12. CASE ReadGoal
  BY <1>12, Numbers, PutGoals, Nothing DEF ReadGoal, Goto, End, Stand, Numbered
<1>13. CASE ReadReceipt
  BY <1>13, Numbers, PutGoals, Nothing DEF ReadReceipt, Goto, Numbered
<1>14. CASE Judge
  BY <1>14, Numbers, PutGoals, Nothing DEF Judge, Goto, Numbered
<1>15. CASE Reread
  BY <1>15, Numbers, PutGoals, Nothing DEF Reread, Goto, End, Stand, Numbered
<1>16. CASE Recheck
  BY <1>16, Numbers, PutGoals, Nothing DEF Recheck, Goto, Numbered
<1>17. CASE RecheckAgain
  BY <1>17, Numbers, PutGoals, Nothing DEF RecheckAgain, Goto, Numbered
<1>18. CASE PersistReads
  BY <1>18, Numbers, PutGoals, Nothing DEF PersistReads, Take, Free, Goto, End, Stand, Numbered
<1>19. CASE Compare
  BY <1>19, Numbers, PutGoals, Nothing DEF Compare, Goto, End, Stand, Release, Numbered
<1>20. CASE PersistPuts
  <2>1. Attach(copy.goal).inst = copy.goal.inst
    BY Attached DEF TypeOK, Checkpoint
  <2>2. buried' = IF plan = "clear" THEN Ended ELSE buried
    BY <1>20 DEF PersistPuts
  <2>3. buried' \subseteq 1 .. goals
    BY <1>0, <2>2 DEF Numbered
  <2>4. /\ head'.goal.inst \in {0, copy.goal.inst} /\ goal' \in {goal, NoGoal}
        /\ copy' = None /\ UNCHANGED <<draft, carried, goals>>
    BY <1>20, <2>1, PutGoals, Nothing DEF PersistPuts, End, Stand, Release
  <2>. QED
    BY <2>3, <2>4, Numbers, Nothing DEF Numbered
<1>21. CASE UNCHANGED vars
  BY <1>21, Numbers, PutGoals, Nothing DEF vars, Numbered
<1>. QED
  BY <1>1, <1>2, <1>3, <1>4, <1>5, <1>6, <1>7, <1>8, <1>9, <1>10, <1>11, <1>12, <1>13, <1>14,
     <1>15, <1>16, <1>17, <1>18, <1>19, <1>20, <1>21 DEF Next, Evaluate, Endpoints

\* No step puts back, or hands to somebody who will, a goal that was buried.
LEMMA UnburiedStep ==
    ASSUME TypeOK, Held, Numbered, Unburied, [Next]_vars
    PROVE  Unburied'
<1>. USE DEF counters, looks, evaluation, history
<1>0. 0 \notin buried
  BY DEF Numbered
<1>1. CASE \E who \in {"set", "clear"} : EndpointReads(who)
  BY <1>1, <1>0, Numbers, PutGoals, Nothing DEF EndpointReads, Take, Free, Unburied
<1>2. CASE SetPuts
  <2>1. 0 \notin Ended /\ goals + 1 \notin Ended
    BY Numbers DEF Ended, Numbered
  <2>. QED
    BY <1>2, <2>1, Numbers, PutGoals, Nothing DEF SetPuts, Bury, Matches, Ended, Release, Unburied
<1>3. CASE ClearPuts
  <2>1. 0 \notin Ended
    BY Numbers DEF Ended, Numbered
  <2>. QED
    BY <1>3, <2>1, Numbers, PutGoals, Nothing DEF ClearPuts, Bury, Matches, Ended, Release, Unburied
<1>4. CASE CompactPuts
  BY <1>4, <1>0, Numbers, PutGoals, Nothing DEF CompactPuts, Release, Unburied
<1>5. CASE CompactReads
  BY <1>5, <1>0, Numbers, PutGoals, Nothing DEF CompactReads, Take, Free, Unburied
<1>6. CASE UpdateReads
  BY <1>6, <1>0, Numbers, PutGoals, Nothing DEF UpdateReads, Unburied
<1>7. CASE UpdatePuts
  BY <1>7, <1>0, Numbers, PutGoals, Nothing DEF UpdatePuts, Unburied
<1>8. CASE BeginRun
  BY <1>8, <1>0, Numbers, PutGoals, Nothing DEF BeginRun, Goto, Unburied
<1>9. CASE Load
  BY <1>9, <1>0, Numbers, PutGoals, Nothing DEF Load, Goto, Unburied
<1>10. CASE Speak
  <2>1. /\ head'.goal = carried.goal /\ carried' = None /\ goal' = NoGoal /\ pc' = "goal"
        /\ UNCHANGED <<copy, draft, goals, buried>>
    BY <1>10, PutGoals DEF Speak, Stand
  <2>. QED
    BY <1>10, <2>1, Numbers, Nothing DEF Numbered, Unburied
<1>11. CASE Stop
  BY <1>11, <1>0, Numbers, PutGoals, Nothing DEF Stop, End, Stand, Release, Unburied
<1>12. CASE ReadGoal
  BY <1>12, <1>0, Numbers, PutGoals, Nothing DEF ReadGoal, Goto, End, Stand, Unburied
<1>13. CASE ReadReceipt
  BY <1>13, <1>0, Numbers, PutGoals, Nothing DEF ReadReceipt, Goto, Unburied
<1>14. CASE Judge
  BY <1>14, <1>0, Numbers, PutGoals, Nothing DEF Judge, Goto, Unburied
<1>15. CASE Reread
  BY <1>15, <1>0, Numbers, PutGoals, Nothing DEF Reread, Goto, End, Stand, Matches, Unburied
<1>16. CASE Recheck
  BY <1>16, <1>0, Numbers, PutGoals, Nothing DEF Recheck, Goto, Unburied
<1>17. CASE RecheckAgain
  BY <1>17, <1>0, Numbers, PutGoals, Nothing DEF RecheckAgain, Goto, Unburied
<1>18. CASE PersistReads
  BY <1>18, <1>0, Numbers, PutGoals, Nothing DEF PersistReads, Take, Free, Goto, End, Stand, Unburied
<1>19. CASE Compare
  BY <1>19, <1>0, Numbers, PutGoals, Nothing DEF Compare, Goto, End, Stand, Release, Unburied
<1>20. CASE PersistPuts
  <2>1. Attach(copy.goal).inst = copy.goal.inst
    BY Attached DEF TypeOK, Checkpoint
  <2>2. 0 \notin buried
    BY DEF Numbered
  <2>3. buried' = IF plan = "clear" THEN Ended ELSE buried
    BY <1>20 DEF PersistPuts
  <2>. QED
    BY <1>20, <2>1, <2>2, <2>3, Numbers, PutGoals, Nothing
    DEF PersistPuts, Goto, End, Stand, Release, Held, Streams, Ended, Unburied
<1>21. CASE UNCHANGED vars
  BY <1>21, <1>0, Numbers, PutGoals, Nothing DEF vars, Unburied
<1>. QED
  BY <1>1, <1>2, <1>3, <1>4, <1>5, <1>6, <1>7, <1>8, <1>9, <1>10, <1>11, <1>12, <1>13, <1>14,
     <1>15, <1>16, <1>17, <1>18, <1>19, <1>20, <1>21 DEF Next, Evaluate, Endpoints

-----------------------------------------------------------------------------
(* The counting of continuations *)

\* Recheck is the only way to a continuation, and it looks at the bound.
LEMMA PlannedStep ==
    ASSUME TypeOK, Planned, [Next]_vars
    PROVE  Planned'
<1>. USE DEF counters, looks, evaluation, history, Continues
<1>1. CASE \E who \in {"set", "clear"} : EndpointReads(who)
  BY <1>1, Nothing DEF EndpointReads, Take, Free, Planned
<1>2. CASE SetPuts
  BY <1>2, Nothing DEF SetPuts, Release, Planned
<1>3. CASE ClearPuts
  BY <1>3, Nothing DEF ClearPuts, Release, Planned
<1>4. CASE CompactPuts
  BY <1>4, Nothing DEF CompactPuts, Release, Planned
<1>5. CASE CompactReads
  BY <1>5, Nothing DEF CompactReads, Take, Free, Planned
<1>6. CASE UpdateReads
  BY <1>6, Nothing DEF UpdateReads, Planned
<1>7. CASE UpdatePuts
  BY <1>7, Nothing DEF UpdatePuts, Planned
<1>8. CASE BeginRun
  BY <1>8, Nothing DEF BeginRun, Goto, Planned
<1>9. CASE Load
  BY <1>9, Nothing DEF Load, Goto, Planned
<1>10. CASE Speak
  BY <1>10, Nothing DEF Speak, Stand, Planned
<1>11. CASE Stop
  BY <1>11, Nothing DEF Stop, End, Stand, Release, Planned
<1>12. CASE ReadGoal
  BY <1>12, Nothing DEF ReadGoal, Goto, End, Stand, Planned
<1>13. CASE ReadReceipt
  BY <1>13, Nothing DEF ReadReceipt, Goto, Planned
<1>14. CASE Judge
  BY <1>14, Nothing DEF Judge, Goto, Planned
<1>15. CASE Reread
  BY <1>15, Nothing DEF Reread, Goto, End, Stand, Planned
<1>16. CASE Recheck
  <2>1. goal.count \in Nat /\ MaxContinuations \in Nat
    BY Numbers, Constants
  <2>2. plan' = "continue" => ~StandsDown
    BY <1>16 DEF Recheck
  <2>. QED
    BY <1>16, <2>1, <2>2 DEF Recheck, Goto, StandsDown, Planned
<1>17. CASE RecheckAgain
  BY <1>17, Nothing DEF RecheckAgain, Goto, Planned
<1>18. CASE PersistReads
  BY <1>18, Nothing DEF PersistReads, Take, Free, Goto, End, Stand, Planned
<1>19. CASE Compare
  BY <1>19, Nothing DEF Compare, Goto, End, Stand, Release, Planned
<1>20. CASE PersistPuts
  BY <1>20, Nothing DEF PersistPuts, Goto, End, Stand, Release, Planned
<1>21. CASE UNCHANGED vars
  BY <1>21, Nothing DEF vars, Planned
<1>. QED
  BY <1>1, <1>2, <1>3, <1>4, <1>5, <1>6, <1>7, <1>8, <1>9, <1>10, <1>11, <1>12, <1>13, <1>14,
     <1>15, <1>16, <1>17, <1>18, <1>19, <1>20, <1>21 DEF Next, Evaluate, Endpoints

\* No step puts back a copy of the first goal that counts fewer turns than it had.
LEMMA CountedStep ==
    ASSUME TypeOK, Held, Numbered, Planned, Counted, [Next]_vars
    PROVE  Counted'
<1>. USE Constants DEF counters, looks, evaluation, history, Continues, Due
<1>1. CASE \E who \in {"set", "clear"} : EndpointReads(who)
  BY <1>1, Numbers, PutGoals, Nothing DEF EndpointReads, Take, Free, Counted
<1>2. CASE SetPuts
  <2>1. /\ head'.goal.inst = goals + 1 /\ head'.goal.count = 0 /\ copy' = None
        /\ goals' = goals + 1 /\ UNCHANGED <<pc, carried, goal, pushed, tainted>>
    BY <1>2, PutGoals DEF SetPuts, Release
  <2>. QED
    BY <2>1, Numbers, Nothing DEF Numbered, Counted
<1>3. CASE ClearPuts
  BY <1>3, Numbers, PutGoals, Nothing DEF ClearPuts, Release, Counted
<1>4. CASE CompactPuts
  BY <1>4, Numbers, PutGoals, Nothing DEF CompactPuts, Release, Counted
<1>5. CASE CompactReads
  BY <1>5, Numbers, PutGoals, Nothing DEF CompactReads, Take, Free, Counted
<1>6. CASE UpdateReads
  BY <1>6, Numbers, PutGoals, Nothing DEF UpdateReads, Counted
<1>7. CASE UpdatePuts
  BY <1>7, Numbers, PutGoals, Nothing DEF UpdatePuts, Counted
<1>8. CASE BeginRun
  BY <1>8, Numbers, PutGoals, Nothing DEF BeginRun, Goto, MayAdmit, Counted
<1>9. CASE Load
  BY <1>9, Numbers, PutGoals, Nothing DEF Load, Goto, Held, Planned, Streams, Numbered, Counted
<1>10. CASE Speak
  <2>1. /\ head'.goal = carried.goal /\ carried' = None /\ goal' = NoGoal /\ pc' = "goal"
        /\ UNCHANGED <<copy, goals, pushed, tainted>>
    BY <1>10, PutGoals DEF Speak, Stand
  <2>2. ~Continues
    BY <1>10 DEF Speak, Streams
  <2>. QED
    BY <2>1, <2>2, Numbers, Nothing DEF Counted
<1>11. CASE Stop
  BY <1>11, Numbers, PutGoals, Nothing DEF Stop, End, Stand, Release, Counted
<1>12. CASE ReadGoal
  <2>1. /\ \/ goal' = head.goal /\ pc' = "receipt"
           \/ goal' = NoGoal /\ pc' = "idle"
        /\ pc = "goal" /\ UNCHANGED <<head, copy, carried, goals, pushed, tainted>>
    BY <1>12 DEF ReadGoal, Goto, End, Stand
  <2>. QED
    BY <2>1, Numbers, Nothing DEF Counted
<1>13. CASE ReadReceipt
  BY <1>13, Numbers, PutGoals, Nothing DEF ReadReceipt, Goto, Counted
<1>14. CASE Judge
  BY <1>14, Numbers, PutGoals, Nothing DEF Judge, Goto, Counted
<1>15. CASE Reread
  BY <1>15, Numbers, PutGoals, Nothing DEF Reread, Goto, End, Stand, Streams, Counted
<1>16. CASE Recheck
  BY <1>16, Numbers, PutGoals, Nothing DEF Recheck, Goto, Counted
<1>17. CASE RecheckAgain
  BY <1>17, Numbers, PutGoals, Nothing DEF RecheckAgain, Goto, Counted
<1>18. CASE PersistReads
  BY <1>18, Numbers, PutGoals, Nothing DEF PersistReads, Take, Free, Goto, End, Stand, Counted
<1>19. CASE Compare
  BY <1>19, Numbers, PutGoals, Nothing DEF Compare, Goto, End, Stand, Release, Counted
<1>20. CASE PersistPuts
  <2>1. /\ Attach(copy.goal).inst = copy.goal.inst
        /\ Attach(copy.goal).count = IF plan \in {"continue", "countAndStop"}
                                     THEN goal.count + 1 ELSE copy.goal.count
    BY Attached DEF TypeOK, Checkpoint
  <2>2. /\ head'.goal = NoGoal \/ head'.goal = Attach(copy.goal)
        /\ copy' = None /\ pc = "put" /\ UNCHANGED <<carried, goals, pushed, tainted>>
    BY <1>20, PutGoals DEF PersistPuts, Release
  <2>3. CASE plan = "continue"
    <3>1. head'.goal = Attach(copy.goal) /\ pc' = "rereadAgain" /\ goal' = goal
      BY <1>20, <2>3, PutGoals DEF PersistPuts, Goto
    <3>2. copy.goal.inst = goal.inst /\ carried = None
      BY <2>2 DEF Held, Matches, Streams
    <3>. QED
      BY <2>1, <2>2, <2>3, <3>1, <3>2, Numbers, Nothing DEF Counted
  <2>4. CASE plan # "continue"
    <3>1. goal' = NoGoal /\ pc' = "idle"
      BY <1>20, <2>4 DEF PersistPuts, End, Stand
    <3>2. copy.goal.inst = goal.inst /\ carried = None
      BY <2>2 DEF Held, Matches, Streams
    <3>. QED
      BY <2>1, <2>2, <3>1, <3>2, Numbers, Nothing DEF Counted
  <2>. QED
    BY <2>3, <2>4
<1>21. CASE UNCHANGED vars
  BY <1>21, Numbers, PutGoals, Nothing DEF vars, Counted
<1>. QED
  BY <1>1, <1>2, <1>3, <1>4, <1>5, <1>6, <1>7, <1>8, <1>9, <1>10, <1>11, <1>12, <1>13, <1>14,
     <1>15, <1>16, <1>17, <1>18, <1>19, <1>20, <1>21 DEF Next, Evaluate, Endpoints

-----------------------------------------------------------------------------
(* The theorems *)

\* The first state satisfies the invariant ...
LEMMA InitInvariant == Init => IInv
<1>. SUFFICES ASSUME Init PROVE IInv
  OBVIOUS
<1>1. TypeOK
  BY InitTypes
<1>. QED
  BY <1>1, Constants
  DEF Init, IInv, Held, Numbered, Unburied, Planned, Counted, Continues, Due, Streams, NoGoal,
      NoTalk, None

\* ... and every step preserves it.
LEMMA InvariantStep == IInv /\ [Next]_vars => IInv'
BY TypesStep, HeldStep, NumberedStep, UnburiedStep, PlannedStep, CountedStep DEF IInv

\* In every reachable state the invariant holds.
LEMMA Invariant == Spec => []IInv
BY InitInvariant, InvariantStep, PTL DEF Spec

\* compact_thread may take as long as its model likes: unless the state is updated through
\* the gateway, the checkpoint it replaces at last is the one it has read.
THEOREM CompactionIsAtomic == Spec => []CompactionMissesNothing
<1>1. IInv => CompactionMissesNothing
  BY DEF IInv, Held, CompactionMissesNothing
<1>. QED
  BY <1>1, Invariant, PTL

\* A goal that is cleared, replaced or satisfied while the evaluator, an endpoint or an
\* aborted run is under way stays gone, whoever puts his copy of the checkpoint next.
THEOREM ClearingWins == Spec => []EndedStaysEnded
<1>1. IInv => EndedStaysEnded
  BY DEF IInv, Unburied, EndedStaysEnded
<1>. QED
  BY <1>1, Invariant, PTL

\* The count that is persisted before each continuation bounds the hidden turns, whatever the
\* model answers and however the endpoints and the runs interleave.
THEOREM ContinuationsAreBounded == Spec => []ContinuationsBounded
<1>1. IInv => ContinuationsBounded
  BY DEF IInv, Counted, ContinuationsBounded
<1>. QED
  BY <1>1, Invariant, PTL
=============================================================================
