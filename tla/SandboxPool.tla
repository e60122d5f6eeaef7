----------------------------- MODULE SandboxPool -----------------------------
(* AioSandboxProvider on local containers: one container per conversation     *)
(* thread, under a name derived from the thread, active while a run uses it   *)
(* and parked in a warm pool between runs.  The maps are changed under one    *)
(* lock; the container runtime is asked and told outside of it, so a call of  *)
(* the runtime is a step of its own.  An acquire holds the lock of its        *)
(* thread; the idle checker and a shutdown do not.                            *)
EXTENDS Integers, Sequences, SequencesExt, FiniteSets

CONSTANTS
    Threads,        \* conversation threads, which are also their sandbox ids
    Replicas,       \* config: replicas
    MaxMade,        \* bound: SandboxInfo objects made
    MaxFaults,      \* bound: failures of the container runtime and cancelled starts
    MaxRestarts     \* bound: restarts of the process

ASSUME PoolAssumption ==
    /\ IsFiniteSet(Threads)
    /\ Replicas \in Nat \ {0}
    /\ MaxMade \in Nat /\ MaxFaults \in Nat /\ MaxRestarts \in Nat

VARIABLES
    container,  \* the container that runs under the thread's name, 0 for none
    active,     \* _sandboxes, _sandbox_infos and _thread_sandboxes
    warm,       \* _warm_pool, oldest first
    idle,       \* tracked sandboxes whose timestamp is older than idle_timeout
    acq,        \* the acquire that holds the lock of the thread
    keeper,     \* the idle checker and shutdown
    stray,      \* containers that a fault left running untracked
    made, faults, restarts

poolVars == <<container, active, warm, idle, acq, keeper, stray, made, faults, restarts>>
pool == <<active, warm, idle>>
runtime == <<container, stray, made, faults>>
rest == <<keeper, restarts>>

\* SandboxInfo: a created one knows the id of its container, a discovered one only the name.
Info == [id : Threads, n : 1..MaxMade, named : BOOLEAN]
NoInfo == [id |-> "nobody", n |-> 0, named |-> FALSE]
Free == [pc |-> "idle", at |-> "active", post |-> FALSE, info |-> NoInfo]
Resting == [pc |-> "rest", todo |-> {}, info |-> NoInfo, hand |-> <<>>]
Keepers == {"checker", "shutdown"}

Active == {t \in Threads : active[t] # NoInfo}
WarmInfos(t) == {i \in ToSet(warm) : i.id = t}
Warm == {i.id : i \in ToSet(warm)}
WarmInfo(t) == IF t \in Warm THEN CHOOSE i \in WarmInfos(t) : TRUE ELSE NoInfo

\* The entries of some threads, in their order.
Entries(infos, threads) ==
    LET upTo[k \in 0..Len(infos)] ==
            IF k = 0 THEN <<>>
            ELSE IF infos[k].id \in threads THEN Append(upTo[k - 1], infos[k])
            ELSE upTo[k - 1]
    IN  upTo[Len(infos)]

WithoutWarm(t) == Entries(warm, Threads \ {t})

PoolInit ==
    /\ container = [t \in Threads |-> 0]
    /\ active = [t \in Threads |-> NoInfo]
    /\ warm = <<>> /\ idle = {}
    /\ acq = [t \in Threads |-> Free]
    /\ keeper = [k \in Keepers |-> Resting]
    /\ stray = {}
    /\ made = 0 /\ faults = 0 /\ restarts = 0

-----------------------------------------------------------------------------
(* The container runtime *)

Fault == faults < MaxFaults /\ faults' = faults + 1
Made(t, named) == [id |-> t, n |-> made + 1, named |-> named]

\* docker stop takes the container id when the info has one, else the name.
Hits(i) == i # NoInfo /\ container[i.id] # 0 /\ (i.named \/ container[i.id] = i.n)

\* destroy and _stop_container: a failure is logged and swallowed, so nobody tries again.
Destroy(i) ==
    /\ UNCHANGED made
    /\ \/ /\ container' = IF Hits(i) THEN [container EXCEPT ![i.id] = 0] ELSE container
          /\ stray' = IF Hits(i) THEN stray \ {i.id} ELSE stray
          /\ UNCHANGED faults
       \/ /\ Hits(i) /\ Fault
          /\ stray' = IF active[i.id] = NoInfo THEN stray \cup {i.id} ELSE stray
          /\ UNCHANGED container

\* A container stops by itself; --rm removes it.
Die(t) ==
    /\ container[t] # 0 /\ Fault
    /\ container' = [container EXCEPT ![t] = 0]
    /\ stray' = stray \ {t}
    /\ UNCHANGED <<pool, acq, made, rest>>

-----------------------------------------------------------------------------
(* Acquire *)

At(t, pc) == acq[t].pc = pc
Go(t, pc, i) == acq' = [acq EXCEPT ![t].pc = pc, ![t].info = i]
Leave(t) == acq' = [acq EXCEPT ![t] = Free]

\* A lookup that found nothing goes on: the active map, the warm pool, both again under the file
\* lock, then the runtime.
Miss(t) ==
    acq' = [acq EXCEPT ![t] =
        IF @.at = "active" THEN [@ EXCEPT !.pc = "look", !.at = "warm", !.info = NoInfo]
        ELSE IF @.post THEN [@ EXCEPT !.pc = "discover", !.info = NoInfo]
        ELSE [@ EXCEPT !.pc = "look", !.at = "active", !.post = TRUE, !.info = NoInfo]]

Track(t, i) ==
    /\ active' = [active EXCEPT ![t] = i]
    /\ idle' = idle \ {t}
    /\ stray' = stray \ {t}
    /\ Leave(t)

Begin(t) ==
    /\ At(t, "idle")
    /\ acq' = [acq EXCEPT ![t].pc = "look"]
    /\ UNCHANGED <<runtime, pool, rest>>

\* The first lock of _reuse_in_process_sandbox and of _reclaim_warm_pool_sandbox.
Look(t) ==
    /\ At(t, "look")
    /\ LET i == IF acq[t].at = "active" THEN active[t] ELSE WarmInfo(t)
       IN IF i = NoInfo THEN Miss(t) ELSE Go(t, "ask", i)
    /\ UNCHANGED <<runtime, pool, rest>>

\* _check_tracked_sandbox_alive, by name; an answer that does not come counts as alive.
Ask(t) ==
    /\ At(t, "ask")
    /\ \/ /\ Go(t, IF container[t] # 0 THEN "keep" ELSE "drop", acq[t].info)
          /\ UNCHANGED faults
       \/ /\ Fault
          /\ acq' = [acq EXCEPT ![t].pc = "keep"]
    /\ UNCHANGED <<container, stray, made, pool, rest>>

\* Mutant: a reclaimed sandbox stays in the warm pool.
KeepBoth(t) ==
    /\ At(t, "keep")
    /\ IF acq[t].at = "active"
       THEN IF active[t] = NoInfo THEN Miss(t) /\ UNCHANGED <<pool, stray>>
            ELSE Track(t, active[t]) /\ UNCHANGED warm
       ELSE IF t \notin Warm THEN Miss(t) /\ UNCHANGED <<pool, stray>>
            ELSE Track(t, WarmInfo(t)) /\ UNCHANGED warm
    /\ UNCHANGED <<container, made, faults, rest>>

\* The second lock: the sandbox is used unless it is no longer tracked.
Keep(t) ==
    /\ At(t, "keep")
    /\ LET i == IF acq[t].at = "active" THEN active[t] ELSE WarmInfo(t)
       IN IF i = NoInfo THEN Miss(t) /\ UNCHANGED <<pool, stray>>
          ELSE /\ Track(t, i)
               /\ warm' = IF acq[t].at = "active" THEN warm ELSE WithoutWarm(t)
    /\ UNCHANGED <<container, made, faults, rest>>

\* _remove_tracked_sandbox, and the info it hands to the destroyer.
Untrack(t) ==
    /\ active' = [active EXCEPT ![t] = NoInfo]
    /\ warm' = WithoutWarm(t)
    /\ idle' = idle \ {t}
Tracked(t) == IF active[t] # NoInfo THEN active[t] ELSE WarmInfo(t)

\* _drop_unhealthy_sandbox: only the info that was asked about is removed.
Drop(t) ==
    /\ At(t, "drop")
    /\ IF acq[t].info \in {active[t], WarmInfo(t)}
       THEN Untrack(t) /\ Go(t, "stop", Tracked(t))
       ELSE Miss(t) /\ UNCHANGED pool
    /\ UNCHANGED <<runtime, rest>>

StopDead(t) ==
    /\ At(t, "stop")
    /\ Destroy(acq[t].info)
    /\ Miss(t)
    /\ UNCHANGED <<pool, rest>>

\* The backend looks for a container of that name; one it cannot verify is not adopted.
Discover(t) ==
    /\ At(t, "discover")
    /\ \/ /\ container[t] # 0 /\ made < MaxMade
          /\ Track(t, Made(t, TRUE))
          /\ made' = made + 1
          /\ UNCHANGED <<warm, faults>>
       \/ /\ IF container[t] = 0 THEN UNCHANGED faults ELSE Fault
          /\ Go(t, "count", NoInfo)
          /\ UNCHANGED <<pool, stray, made>>
    /\ UNCHANGED <<container, rest>>

\* _create_sandbox: replica_count, then _evict_oldest_warm under its own lock.
Count(t) ==
    /\ At(t, "count")
    /\ Go(t, IF Cardinality(Active) + Len(warm) >= Replicas THEN "full" ELSE "start", NoInfo)
    /\ UNCHANGED <<runtime, pool, rest>>

Evict(t) ==
    /\ At(t, "full")
    /\ IF warm = <<>> THEN Go(t, "start", NoInfo) /\ UNCHANGED pool
       ELSE /\ Go(t, "evict", Head(warm))
            /\ warm' = Tail(warm)
            /\ idle' = idle \ {Head(warm).id}
            /\ UNCHANGED active
    /\ UNCHANGED <<runtime, rest>>

StopEvicted(t) ==
    /\ At(t, "evict")
    /\ Destroy(acq[t].info)
    /\ Go(t, "start", NoInfo)
    /\ UNCHANGED <<pool, rest>>

\* backend.create; a name in use is adopted when it can be verified.
Start(t) ==
    /\ At(t, "start")
    /\ \/ /\ made < MaxMade /\ made' = made + 1
          /\ container' = [container EXCEPT ![t] = IF @ = 0 THEN made + 1 ELSE @]
          /\ acq' = [acq EXCEPT ![t].pc = "wait", ![t].info = Made(t, container[t] # 0)]
          /\ UNCHANGED faults
       \/ /\ Fault
          /\ Leave(t)
          /\ UNCHANGED <<container, made>>
    /\ UNCHANGED <<stray, pool, rest>>

\* wait_for_sandbox_ready.
Ready(t) ==
    /\ At(t, "wait") /\ container[t] # 0
    /\ Track(t, acq[t].info)
    /\ UNCHANGED <<warm, container, made, faults, rest>>

NotReady(t) ==
    /\ At(t, "wait")
    /\ Destroy(acq[t].info)
    /\ Leave(t)
    /\ UNCHANGED <<pool, rest>>

\* acquire_async is cancelled while it waits: the container goes on, and its info is gone.
Cancel(t) ==
    /\ At(t, "wait") /\ Fault
    /\ stray' = IF container[t] # 0 THEN stray \cup {t} ELSE stray
    /\ Leave(t)
    /\ UNCHANGED <<container, made, pool, rest>>

Acquire(t) ==
    \/ Begin(t) \/ Look(t) \/ Ask(t) \/ Keep(t) \/ Drop(t) \/ StopDead(t) \/ Discover(t)
    \/ Count(t) \/ Evict(t) \/ StopEvicted(t) \/ Start(t) \/ Ready(t) \/ NotReady(t) \/ Cancel(t)

-----------------------------------------------------------------------------
(* The run that uses a sandbox, and time *)

\* get: a tool call refreshes the timestamp.
Get(t) ==
    /\ t \in Active /\ t \in idle
    /\ idle' = idle \ {t}
    /\ UNCHANGED <<runtime, active, warm, acq, rest>>

\* Mutant: a sandbox with a dead client is forgotten instead of parked.
ReleaseForgets(t) ==
    /\ t \in Active
    /\ active' = [active EXCEPT ![t] = NoInfo]
    /\ idle' = idle \ {t}
    /\ UNCHANGED <<runtime, warm, acq, rest>>

\* release, at the end of a run or of a subagent that shares the sandbox.
Release(t) ==
    /\ t \in Active
    /\ active' = [active EXCEPT ![t] = NoInfo]
    /\ warm' = IF t \in Warm THEN warm ELSE Append(warm, active[t])
    /\ idle' = idle \ {t}
    /\ UNCHANGED <<runtime, acq, rest>>

\* The idle timeout of a sandbox passes.
Age(t) ==
    /\ t \in (Active \cup Warm) \ idle
    /\ idle' = idle \cup {t}
    /\ UNCHANGED <<runtime, active, warm, acq, rest>>

-----------------------------------------------------------------------------
(* The idle checker and shutdown *)

Set(k, field) == keeper' = [keeper EXCEPT ![k] = field]

\* _cleanup_idle_sandboxes: the snapshot of idle active sandboxes.
Sweep ==
    /\ keeper["checker"].pc = "rest" /\ keeper["shutdown"].pc = "rest"
    /\ (Active \cup Warm) \cap idle # {}
    /\ Set("checker", [Resting EXCEPT !.pc = "pick", !.todo = Active \cap idle])
    /\ UNCHANGED <<runtime, pool, acq, restarts>>

\* shutdown: both maps are read and the warm pool is emptied.
Shutdown ==
    /\ keeper["shutdown"].pc = "rest"
    /\ Set("shutdown", [Resting EXCEPT !.pc = "pick", !.todo = Active, !.hand = warm])
    /\ warm' = <<>>
    /\ idle' = idle \ Warm
    /\ UNCHANGED <<runtime, active, acq, restarts>>

\* The checker verifies each sandbox again before it destroys it; shutdown does not.
Pick(k, t) ==
    /\ keeper[k].pc = "pick" /\ t \in keeper[k].todo
    /\ IF k = "checker" /\ t \notin Active \cap idle
       THEN keeper' = [keeper EXCEPT ![k].todo = @ \ {t}]
       ELSE keeper' = [keeper EXCEPT ![k].todo = @ \ {t}, ![k].pc = "kill",
                                     ![k].info = [NoInfo EXCEPT !.id = t]]
    /\ UNCHANGED <<runtime, pool, acq, restarts>>

\* destroy(sandbox_id), the maps and then the container.
Kill(k) ==
    /\ keeper[k].pc = "kill"
    /\ LET t == keeper[k].info.id
       IN /\ Untrack(t)
          /\ keeper' = [keeper EXCEPT ![k].pc = "stop", ![k].info = Tracked(t)]
    /\ UNCHANGED <<runtime, acq, restarts>>

StopKilled(k) ==
    /\ keeper[k].pc = "stop"
    /\ Destroy(keeper[k].info)
    /\ keeper' = [keeper EXCEPT ![k].pc = "pick", ![k].info = NoInfo]
    /\ UNCHANGED <<pool, acq, restarts>>

\* _reap_expired_warm takes the expired entries out; shutdown has its items already.
Reap(k) ==
    /\ keeper[k].pc = "pick" /\ keeper[k].todo = {}
    /\ IF k = "checker"
       THEN /\ keeper' = [keeper EXCEPT ![k].pc = "empty",
                                        ![k].hand = Entries(warm, idle)]
            /\ warm' = Entries(warm, Threads \ idle)
            /\ idle' = idle \ Warm
       ELSE /\ keeper' = [keeper EXCEPT ![k].pc = "empty"]
            /\ UNCHANGED <<warm, idle>>
    /\ UNCHANGED <<runtime, active, acq, restarts>>

StopTaken(k) ==
    /\ keeper[k].pc = "empty" /\ keeper[k].hand # <<>>
    /\ Destroy(Head(keeper[k].hand))
    /\ keeper' = [keeper EXCEPT ![k].hand = Tail(@)]
    /\ UNCHANGED <<pool, acq, restarts>>

Finish(k) ==
    /\ keeper[k].pc = "empty" /\ keeper[k].hand = <<>>
    /\ Set(k, IF k = "checker" THEN Resting ELSE [Resting EXCEPT !.pc = "done"])
    /\ UNCHANGED <<runtime, pool, acq, restarts>>

\* The process ends, at any point or after a shutdown, and starts again: _reconcile_orphans adopts
\* every container that runs, unless they cannot be listed.
Restart ==
    LET running == {t \in Threads : container[t] # 0}
    IN  /\ restarts < MaxRestarts /\ restarts' = restarts + 1
        /\ active' = [t \in Threads |-> NoInfo]
        /\ idle' = {}
        /\ acq' = [t \in Threads |-> Free]
        /\ keeper' = [k \in Keepers |-> Resting]
        /\ \/ /\ made + Cardinality(running) <= MaxMade
              /\ made' = made + Cardinality(running)
              /\ LET order == SetToSeq(running)
                 IN warm' = [j \in DOMAIN order |-> [id |-> order[j], n |-> made + j, named |-> TRUE]]
              /\ stray' = {}
              /\ UNCHANGED faults
           \/ /\ Fault
              /\ warm' = <<>> /\ stray' = running
              /\ UNCHANGED made
        /\ UNCHANGED container

-----------------------------------------------------------------------------

PoolNext ==
    \/ \E t \in Threads : Acquire(t) \/ Get(t) \/ Release(t) \/ Age(t) \/ Die(t)
    \/ Sweep \/ Shutdown \/ Restart
    \/ \E k \in Keepers : \/ \E t \in Threads : Pick(k, t)
                          \/ Kill(k) \/ StopKilled(k) \/ Reap(k) \/ StopTaken(k) \/ Finish(k)

PoolSpec == PoolInit /\ [][PoolNext]_poolVars

-----------------------------------------------------------------------------
(* Properties *)

PoolTypes ==
    /\ container \in [Threads -> 0..MaxMade]
    /\ active \in [Threads -> Info \cup {NoInfo}]
    /\ warm \in Seq(Info)
    /\ idle \subseteq Threads /\ stray \subseteq Threads
    /\ made \in 0..MaxMade /\ faults \in 0..MaxFaults /\ restarts \in 0..MaxRestarts

\* Somebody has taken the info of the thread's container and is about to use or stop it.
InHand(t) ==
    \/ acq[t].pc = "wait"
    \/ \E u \in Threads : acq[u].pc \in {"stop", "evict"} /\ acq[u].info.id = t
    \/ \E k \in Keepers : \/ keeper[k].pc = "stop" /\ keeper[k].info.id = t
                          \/ \E i \in ToSet(keeper[k].hand) : i.id = t

\* No container runs on forgotten: the provider tracks it, an actor that took it out of a map is
\* about to stop it, or one of the three faults the code swallows lost it (a stop that failed, a
\* start that was cancelled, a listing that failed at startup).
NoneLost ==
    \A t \in Threads : container[t] # 0 => t \in Active \cup Warm \cup stray \/ InHand(t)

\* A sandbox is active or parked, never both, however acquires, releases of a shared sandbox, the
\* idle checker and a shutdown interleave: the checker would stop a parked one under its user.
NeverBoth == Active \cap Warm = {} /\ Cardinality(Warm) = Len(warm)

\* "Active sandboxes are in use by live threads and must not be forcibly stopped."
\* (aio_sandbox_provider.py:878): a container that an acquire has handed out is not stopped by
\* an eviction or the idle checker that took its earlier entry out of the pool.
ActiveNotStopped ==
    [][\A t \in Threads :
        active[t] # NoInfo /\ active'[t] = active[t] /\ container[t] # 0 /\ container'[t] = 0
            => faults' # faults \/ keeper["shutdown"].pc # "rest"]_poolVars
=============================================================================
