------------------------------ MODULE AdminProcess ------------------------------
(***************************************************************************)
(* A process of one of the two web commands: prepare, run and cleanup, the *)
(* pool of connections its threads share, the connection a thread keeps    *)
(* for a transaction, and the thread that refreshes the table statistics.  *)
(*                                                                         *)
(* A request is what it takes from the pool: a plain statement, a query of *)
(* the TAP service, a transaction, or an upload, whose transaction waits   *)
(* for two workers.  A connection that breaks and is replaced, and the     *)
(* growth of the pool on demand, are one step: a connection is established *)
(* when the pool likes.                                                    *)
(*                                                                         *)
(* The event loop of the web server looks up tokens and logs actions on    *)
(* the same pool.  What it takes is what a handler takes, one connection   *)
(* at a time and none while it waits: it is left to the handlers, and the  *)
(* two pools of the data API are one.                                      *)
(***************************************************************************)
EXTENDS Integers, FiniteSets

CONSTANTS Conns,       \* max_size connections
          Handlers,    \* threads of the web framework that run handlers
          Refreshers,  \* threads an executor of the cache may have started
          None

Sides == {"data", "rows"}
Workers == Handlers \X Sides
Threads == Handlers \cup Workers \cup Refreshers

\* The framework has 40 threads, the pool 50 connections.
ASSUME PoolIsLarger ==
    IsFiniteSet(Conns) /\ IsFiniteSet(Handlers) /\ Cardinality(Handlers) < Cardinality(Conns)
ASSUME ThreadsApart ==
    Handlers \cap Workers = {} /\ Refreshers \cap (Handlers \cup Workers) = {}
ASSUME NoneIsNoConn == None \notin Conns

VARIABLES command,     \* "adminapi" or "dataapi"
          stage,       \* where lib.commands.run is
          registered,  \* whether the storage knows the type of roles
          pool,        \* "none", "open" or "closed"
          idle,        \* connections in the pool
          knows,       \* connections configured when the type was registered
          readOnly,    \* connections set to read only
          held,        \* connections each thread has got from the pool
          local,       \* the thread's connection of with_tx
          pc, kind,    \* what each thread does, and for what
          loop,        \* BackgroundCache.run
          stopped      \* its stop event

vars == <<command, stage, registered, pool, idle, knows, readOnly, held, local, pc, kind,
          loop, stopped>>
main == <<command, stage, registered>>
cache == <<loop, stopped>>
threads == <<idle, readOnly, held, local, pc, kind>>

Kinds == [adminapi |-> {"plain", "tap", "patch", "upload"}, dataapi |-> {"plain", "tap"}]
Opened == idle \cup UNION {held[t] : t \in Threads}

Init ==
    /\ command \in {"adminapi", "dataapi"}
    /\ stage = "prepare"
    /\ registered = FALSE
    /\ pool = "none"
    /\ idle = {} /\ knows = {} /\ readOnly = {}
    /\ held = [t \in Threads |-> {}]
    /\ local = [t \in Threads |-> None]
    /\ pc = [t \in Threads |-> "idle"]
    /\ kind = [t \in Threads |-> "none"]
    /\ loop = "none"
    /\ stopped = FALSE

-------------------------------------------------------------------------------
(* prepare, run and cleanup *)

\* Mutant: the data API connects first, as the admin API does.
AnyOrder == TRUE

\* The admin API connects and then creates the authenticator, the data API registers
\* the type of roles before its pools are open.
ConnectsFirst == command = "adminapi"

Connect ==
    /\ stage = "prepare" /\ pool = "none"
    /\ ConnectsFirst \/ registered
    /\ pool' = "open"
    /\ UNCHANGED <<main, idle, knows, readOnly, held, local, pc, kind, cache>>

RegisterType ==
    /\ stage = "prepare" /\ ~registered
    /\ ConnectsFirst => pool = "open"
    /\ registered' = TRUE
    /\ UNCHANGED <<command, stage, pool, knows, threads, cache>>

\* A thread of the pool opens and configures a connection, with the types known by now.
Establish(c) ==
    /\ pool = "open"
    /\ c \notin Opened
    /\ idle' = idle \cup {c}
    /\ knows' = IF registered THEN knows \cup {c} ELSE knows \ {c}
    /\ UNCHANGED <<main, pool, readOnly, held, local, pc, kind, cache>>

\* The constructor of the cache refreshes once; the thread starts when that went well.
Filling == \E r \in Refreshers : kind[r] = "first"
HasCache == loop \notin {"none", "failed"} /\ ~Filling

FirstRefresh(r) ==
    /\ stage = "prepare" /\ command = "adminapi" /\ registered
    /\ loop = "none" /\ pc[r] = "idle"
    /\ loop' = "refreshing"
    /\ pc' = [pc EXCEPT ![r] = "format"]
    /\ kind' = [kind EXCEPT ![r] = "first"]
    /\ UNCHANGED <<main, pool, knows, idle, readOnly, held, local, stopped>>

Prepared ==
    /\ stage = "prepare" /\ registered /\ pool = "open"
    /\ command = "adminapi" => HasCache
    /\ stage' = "serve"
    /\ UNCHANGED <<command, registered, pool, knows, threads, cache>>

\* An exception in prepare, a first refresh that fails or is late among them.
PrepareFails ==
    /\ stage = "prepare"
    /\ ~Filling
    /\ stage' = "cleanup"
    /\ UNCHANGED <<command, registered, pool, knows, threads, cache>>

\* KeyboardInterrupt, or SystemExit as of a server that cannot start: run() catches
\* Exception only.
Interrupt ==
    /\ stage \in {"prepare", "serve"}
    /\ stage' = "died"
    /\ UNCHANGED <<command, registered, pool, knows, threads, cache>>

\* The server returns or fails when no handler runs any more.
ServerEnds ==
    /\ stage = "serve"
    /\ \A h \in Handlers : pc[h] = "idle"
    /\ stage' = "cleanup"
    /\ UNCHANGED <<command, registered, pool, knows, threads, cache>>

\* Mutant: the pool is closed and the refresher goes on.
ClosePool ==
    /\ stage = "cleanup"
    /\ stage' = "ended"
    /\ pool' = IF pool = "open" THEN "closed" ELSE pool
    /\ idle' = {}
    /\ readOnly' = readOnly \ idle
    /\ UNCHANGED <<command, registered, knows, held, local, pc, kind, cache>>

\* The refresher is told to stop, nobody waits for it, and the pool is closed.
Cleanup ==
    /\ stage = "cleanup"
    /\ stage' = "ended"
    /\ stopped' = HasCache
    /\ pool' = IF pool = "open" THEN "closed" ELSE pool
    /\ idle' = {}
    /\ readOnly' = readOnly \ idle
    /\ UNCHANGED <<command, registered, knows, held, local, pc, kind, loop>>

-------------------------------------------------------------------------------
(* Threads and the pool *)

\* A thread begins: a TAP query is a string, anything else is formatted for the log.
Arrive(h, k) ==
    /\ stage = "serve" /\ pc[h] = "idle"
    /\ k \in Kinds[command]
    /\ pc' = [pc EXCEPT ![h] = IF k = "plain" THEN "format" ELSE "ask"]
    /\ kind' = [kind EXCEPT ![h] = k]
    /\ UNCHANGED <<main, pool, knows, idle, readOnly, held, local, cache>>

\* Mutant: the statement keeps the connection that formatted its query.
FormatAndKeep(t) ==
    /\ pc[t] = "format" /\ pool = "open"
    /\ \E c \in idle : idle' = idle \ {c} /\ held' = [held EXCEPT ![t] = {c}]
    /\ pc' = [pc EXCEPT ![t] = "ask"]
    /\ UNCHANGED <<main, pool, knows, readOnly, local, kind, cache>>

\* query_str borrows a connection of its own and gives it back at once.
Format(t) ==
    /\ pc[t] = "format" /\ pool = "open"
    /\ idle # {}
    /\ pc' = [pc EXCEPT ![t] = "ask"]
    /\ UNCHANGED <<main, pool, knows, idle, readOnly, held, local, kind, cache>>

\* The thread gets a connection: for a statement, a read-only transaction, a
\* transaction of its own, or an upload, which starts its two workers.
Acquire(t, c) ==
    /\ pc[t] = "ask" /\ pool = "open"
    /\ c \in idle
    /\ idle' = idle \ {c}
    /\ held' = [held EXCEPT ![t] = held[t] \cup {c}]
    /\ readOnly' = IF kind[t] = "tap" THEN readOnly \cup {c} ELSE readOnly
    /\ local' = [local EXCEPT ![t] = IF kind[t] \in {"patch", "upload"} THEN c ELSE None]
    /\ IF kind[t] = "upload"
       THEN /\ pc' = [u \in Threads |-> IF u = t THEN "wait"
                                        ELSE IF u \in {t} \X Sides THEN "format" ELSE pc[u]]
            /\ kind' = [u \in Threads |-> IF u \in {t} \X Sides THEN "plain" ELSE kind[u]]
       ELSE pc' = [pc EXCEPT ![t] = "run"] /\ UNCHANGED kind
    /\ UNCHANGED <<main, pool, knows, cache>>

\* Mutant: a TAP query that fails leaves its connection read only.
ReadOnlyAfterEnd(t) == readOnly

\* previous_read_only is put back however the query ended.
ReadOnlyAfter(t) == IF kind[t] = "tap" THEN readOnly \ held[t] ELSE readOnly

\* Mutant: the thread keeps the connection of a transaction that it gives back.
LocalKept(t) == local

\* Mutant: the attribute of the thread is deleted.
LocalDeleted(t) == [u \in Threads \ {t} |-> local[u]]

\* with_tx clears the thread's connection however the transaction ended.
LocalAfter(t) == [local EXCEPT ![t] = None]

\* The connection goes back to the pool, which closes it when it is closed itself.
GiveBack(t) ==
    /\ held' = [held EXCEPT ![t] = {}]
    /\ local' = LocalAfter(t)
    /\ readOnly' = IF pool = "open" THEN ReadOnlyAfter(t) ELSE readOnly \ held[t]
    /\ idle' = IF pool = "open" THEN idle \cup held[t] ELSE idle
    /\ pc' = [pc EXCEPT ![t] = "idle"]
    /\ kind' = [kind EXCEPT ![t] = "none"]

Running(t) == pc[t] = "run"
WorkersDone(h) == pc[h] = "wait" /\ \A s \in Sides : pc[<<h, s>>] = "idle"

\* The statement, the transaction or the upload is through, well or with an error.
Finish(t) ==
    /\ t \notin Refreshers
    /\ Running(t) \/ WorkersDone(t)
    /\ GiveBack(t)
    /\ UNCHANGED <<main, pool, knows, cache>>

\* PoolTimeout after 30 seconds without a connection, PoolClosed after cleanup.
Starved(t) ==
    /\ pc[t] \in {"format", "ask"}
    /\ pool # "open" \/ idle = {}
AcquireFails(t) ==
    /\ t \notin Refreshers
    /\ Starved(t)
    /\ GiveBack(t)
    /\ UNCHANGED <<main, pool, knows, cache>>

-------------------------------------------------------------------------------
(* The statistics cache *)

\* A round of the loop: an executor of one thread runs the refresh.
StartRefresh(r) ==
    /\ loop = "due" /\ ~stopped
    /\ pc[r] = "idle"
    /\ loop' = "refreshing"
    /\ pc' = [pc EXCEPT ![r] = "format"]
    /\ kind' = [kind EXCEPT ![r] = "plain"]
    /\ UNCHANGED <<main, pool, knows, idle, readOnly, held, local, stopped>>

\* Mutant: the executor of a refresh that is late is not waited for.
ForgetRefresh ==
    /\ loop = "refreshing"
    /\ loop' = IF Filling THEN "failed" ELSE "paused"
    /\ UNCHANGED <<main, pool, knows, threads, stopped>>

\* The timeout passes; leaving its with block, the executor waits for the refresh.
RefreshTimesOut ==
    /\ loop = "refreshing"
    /\ loop' = "late"
    /\ UNCHANGED <<main, pool, knows, threads, stopped>>

\* After the refresh r: a failure of the first ends prepare, a later one leaves the old
\* snapshot in place; a round follows the first at once, the others after a pause.
AfterRefresh(r, ok) ==
    IF kind[r] # "first" THEN "paused"
    ELSE IF ok /\ loop = "refreshing" THEN "due" ELSE "failed"

RefreshReturns(r) ==
    /\ loop \in {"refreshing", "late"}
    /\ Running(r)
    /\ \E ok \in BOOLEAN : loop' = AfterRefresh(r, ok)
    /\ GiveBack(r)
    /\ UNCHANGED <<main, pool, knows, stopped>>

RefreshRaises(r) ==
    /\ loop \in {"refreshing", "late"}
    /\ Starved(r)
    /\ loop' = AfterRefresh(r, FALSE)
    /\ GiveBack(r)
    /\ UNCHANGED <<main, pool, knows, stopped>>

\* The interval has passed or the stop event is set.
Pause ==
    /\ loop = "paused"
    /\ loop' = "due"
    /\ UNCHANGED <<main, pool, knows, threads, stopped>>

\* run() looks at the event before every round.
EndLoop ==
    /\ loop = "due" /\ stopped
    /\ loop' = "over"
    /\ UNCHANGED <<main, pool, knows, threads, stopped>>

Next ==
    \/ Connect \/ RegisterType \/ Prepared \/ PrepareFails \/ Interrupt
    \/ ServerEnds \/ Cleanup
    \/ \E c \in Conns : Establish(c)
    \/ \E h \in Handlers, k \in Kinds[command] : Arrive(h, k)
    \/ \E t \in Threads :
          \/ Format(t) \/ Finish(t) \/ AcquireFails(t)
          \/ \E c \in Conns : Acquire(t, c)
    \/ \E r \in Refreshers :
          FirstRefresh(r) \/ StartRefresh(r) \/ RefreshReturns(r) \/ RefreshRaises(r)
    \/ RefreshTimesOut \/ Pause \/ EndLoop

\* The refresher is a thread of the process and the database answers it.
Fairness ==
    /\ \A r \in Refreshers :
          WF_vars(StartRefresh(r)) /\ WF_vars(RefreshReturns(r)) /\ WF_vars(RefreshRaises(r))
    /\ WF_vars(Pause) /\ WF_vars(EndLoop)

Spec == Init /\ [][Next]_vars
FairSpec == Spec /\ Fairness

-------------------------------------------------------------------------------
(* Properties *)

\* The shape of the state.
TypeOK ==
    /\ command \in {"adminapi", "dataapi"}
    /\ stage \in {"prepare", "serve", "cleanup", "ended", "died"}
    /\ registered \in BOOLEAN /\ stopped \in BOOLEAN
    /\ pool \in {"none", "open", "closed"}
    /\ idle \subseteq Conns /\ knows \subseteq Conns /\ readOnly \subseteq Conns
    /\ held \in [Threads -> SUBSET Conns]
    /\ local \in [Threads -> Conns \cup {None}]
    /\ pc \in [Threads -> {"idle", "format", "ask", "run", "wait"}]
    /\ kind \in [Threads -> {"none", "plain", "patch", "upload", "tap", "first"}]
    /\ loop \in {"none", "due", "refreshing", "late", "paused", "failed", "over"}

\* No two threads work on one connection: what the pool holds, what a thread got from it
\* and the connection with_tx left for the thread's statements never overlap.
ConnectionsApart ==
    /\ \A t \in Threads : held[t] \cap idle = {}
    /\ \A t, u \in Threads : t # u => held[t] \cap held[u] = {}
    /\ \A t \in Threads : local[t] # None => local[t] \in held[t]

\* A connection is read only while a TAP query has it: no later statement, of any
\* request, fails on what an earlier query left behind.
ReadOnlyReturned ==
    \A c \in readOnly : \E t \in Threads : c \in held[t] /\ kind[t] = "tap"

\* While a thread waits for the pool, the pool can open or hand out a connection, or one
\* of them is at work and comes back without the help of the waiting: uploads, which keep
\* a connection while their workers ask for others, never starve each other.
NoConvoy ==
    (pool = "open" /\ \E t \in Threads : pc[t] \in {"format", "ask"}) =>
        \E c \in Conns : \A t \in Threads : c \in held[t] => pc[t] = "run"

\* However late a refresh is, no other runs beside it.
OneRefreshAtATime ==
    \A r, s \in Refreshers : (pc[r] # "idle" /\ pc[s] # "idle") => r = s

\* The data API's connections all read roles as members of Role. The admin API's may
\* not: it registers the type when its pool is already opening connections.
RolesAreRead == command = "dataapi" => Opened \subseteq knows

\* The inductive invariant: a thread that does not work holds nothing, one that works
\* holds one connection; only handlers wait for workers, which rest otherwise; a refresh
\* runs only while the loop is in it; and no connection of the data API is established
\* before the type of roles is registered.
HeldFits ==
    \A t \in Threads :
        /\ pc[t] \in {"idle", "format", "ask"} => held[t] = {} /\ local[t] = None
        /\ pc[t] \in {"run", "wait"} =>
              \E c \in Conns : held[t] = {c} /\ local[t] \in {c, None}
KindFits ==
    \A t \in Threads :
        /\ kind[t] \in {"patch", "upload", "tap"} => t \in Handlers
        /\ pc[t] = "wait" => kind[t] = "upload"
        /\ kind[t] = "tap" => pc[t] # "idle"
WorkersRest == \A h \in Handlers, s \in Sides : pc[h] # "wait" => pc[<<h, s>>] = "idle"
RefreshInLoop == \A r \in Refreshers : pc[r] # "idle" => loop \in {"refreshing", "late"}
KnownInPool ==
    command = "dataapi" => /\ pool = "none" \/ registered
                           /\ idle \subseteq knows
                           /\ \A t \in Threads : held[t] \subseteq knows
IInv ==
    /\ TypeOK /\ HeldFits /\ KindFits /\ WorkersRest /\ ConnectionsApart
    /\ ReadOnlyReturned /\ RefreshInLoop /\ OneRefreshAtATime /\ KnownInPool

\* cleanup does not wait for the refresher, but the refresher ends: neither the closed
\* pool nor the refresh it fails under keeps its loop going.
RefresherEnds ==
    (stage = "ended") ~> (loop \in {"none", "failed", "over"}
                          /\ \A r \in Refreshers : pc[r] = "idle")
===============================================================================
