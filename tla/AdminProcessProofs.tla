--------------------------- MODULE AdminProcessProofs ---------------------------
(***************************************************************************)
(* The invariants of AdminProcess for every number of connections, of      *)
(* handlers and of refresh threads, as long as the pool is larger than the *)
(* set of handlers.                                                        *)
(***************************************************************************)
EXTENDS AdminProcess, FiniteSetTheorems, TLAPS

\* A thread's set of connections and its local connection when it gives back.
LEMMA RestAfterGiveBack ==
    ASSUME IInv, NEW t \in Threads, GiveBack(t)
    PROVE  /\ held' \in [Threads -> SUBSET Conns] /\ local' \in [Threads -> Conns \cup {None}]
           /\ pc' \in [Threads -> {"idle", "format", "ask", "run", "wait"}]
           /\ kind' \in [Threads -> {"none", "plain", "patch", "upload", "tap", "first"}]
           /\ held'[t] = {} /\ local'[t] = None /\ pc'[t] = "idle" /\ kind'[t] = "none"
           /\ \A u \in Threads \ {t} : /\ held'[u] = held[u] /\ local'[u] = local[u]
                                       /\ pc'[u] = pc[u] /\ kind'[u] = kind[u]
  BY DEF IInv, TypeOK, GiveBack, LocalAfter

\* Giving back keeps everything but what the caller does to its workers and the loop.
LEMMA GiveBackKeeps ==
    ASSUME IInv, NEW t \in Threads, GiveBack(t), UNCHANGED <<command, registered, pool, knows>>
    PROVE  /\ idle' \subseteq Conns /\ readOnly' \subseteq Conns
           /\ HeldFits' /\ KindFits' /\ ConnectionsApart' /\ ReadOnlyReturned'
           /\ OneRefreshAtATime' /\ KnownInPool'
  <1> USE RestAfterGiveBack DEF IInv
  <1>1. idle' \subseteq Conns /\ readOnly' \subseteq Conns
    BY DEF TypeOK, GiveBack, ReadOnlyAfter
  <1>2. HeldFits'
    BY DEF HeldFits
  <1>3. KindFits'
    BY DEF KindFits
  <1>4. ConnectionsApart'
    <2>1. \A u \in Threads : held'[u] \subseteq held[u]
      OBVIOUS
    <2>2. idle' \subseteq idle \cup held[t]
      BY DEF GiveBack
    <2>3. \A u \in Threads : held'[u] \cap idle' = {}
      BY <2>2 DEF ConnectionsApart
    <2>4. \A u, v \in Threads : u # v => held'[u] \cap held'[v] = {}
      BY <2>1 DEF ConnectionsApart
    <2>5. \A u \in Threads : local'[u] # None => local'[u] \in held'[u]
      BY DEF ConnectionsApart
    <2> QED BY <2>3, <2>4, <2>5 DEF ConnectionsApart
  <1>5. ReadOnlyReturned'
    <2> SUFFICES ASSUME NEW c \in readOnly'
                 PROVE  \E u \in Threads : c \in held'[u] /\ kind'[u] = "tap"
      BY DEF ReadOnlyReturned
    <2>1. c \in readOnly /\ (c \in held[t] => kind[t] # "tap")
      BY DEF GiveBack, ReadOnlyAfter
    <2>2. PICK u \in Threads : c \in held[u] /\ kind[u] = "tap"
      BY <2>1 DEF ReadOnlyReturned
    <2>3. u # t
      BY <2>1, <2>2
    <2> QED BY <2>2, <2>3
  <1>6. OneRefreshAtATime'
    BY DEF OneRefreshAtATime, Threads
  <1>7. KnownInPool'
    BY DEF KnownInPool, GiveBack
  <1> QED BY <1>1, <1>2, <1>3, <1>4, <1>5, <1>6, <1>7

\* What prepare and cleanup do keeps the threads.
LEMMA MainKeeps ==
    ASSUME IInv,
           \/ Connect \/ RegisterType \/ Prepared \/ PrepareFails \/ Interrupt \/ ServerEnds
           \/ Cleanup \/ RefreshTimesOut \/ Pause \/ EndLoop
    PROVE  IInv'
  <1> USE DEF IInv
  <1>1. UNCHANGED <<held, local, pc, kind, knows, command>> /\ idle' \subseteq idle
        /\ readOnly' \subseteq readOnly /\ (readOnly \ readOnly') \subseteq idle
    BY DEF Connect, RegisterType, Prepared, PrepareFails, Interrupt, ServerEnds, Cleanup,
           RefreshTimesOut, Pause, EndLoop, main, threads, cache
  <1>2. TypeOK'
    <2>1. pool' \in {"none", "open", "closed"}
      BY DEF TypeOK, Connect, RegisterType, Prepared, PrepareFails, Interrupt, ServerEnds,
             Cleanup, RefreshTimesOut, Pause, EndLoop
    <2>2. stage' \in {"prepare", "serve", "cleanup", "ended", "died"}
      BY DEF TypeOK, Connect, RegisterType, Prepared, PrepareFails, Interrupt, ServerEnds,
             Cleanup, RefreshTimesOut, Pause, EndLoop, main
    <2>3. registered' \in BOOLEAN
      BY DEF TypeOK, Connect, RegisterType, Prepared, PrepareFails, Interrupt, ServerEnds,
             Cleanup, RefreshTimesOut, Pause, EndLoop, main
    <2>4. HasCache \in BOOLEAN
      BY DEF HasCache
    <2>5. stopped' \in BOOLEAN
      <3>1. stopped' = stopped \/ stopped' = HasCache
        BY DEF Connect, RegisterType, Prepared, PrepareFails, Interrupt, ServerEnds,
               Cleanup, RefreshTimesOut, Pause, EndLoop, cache
      <3> QED BY <2>4, <3>1 DEF TypeOK
    <2>6. loop' \in {"none", "due", "refreshing", "late", "paused", "failed", "over"}
      BY DEF TypeOK, Connect, RegisterType, Prepared, PrepareFails, Interrupt, ServerEnds,
             Cleanup, RefreshTimesOut, Pause, EndLoop, cache
    <2> QED BY <1>1, <2>1, <2>2, <2>3, <2>5, <2>6 DEF TypeOK
  <1>3. HeldFits' /\ KindFits' /\ WorkersRest' /\ OneRefreshAtATime'
    BY <1>1 DEF HeldFits, KindFits, WorkersRest, OneRefreshAtATime
  <1>4. ConnectionsApart' /\ ReadOnlyReturned'
    BY <1>1 DEF ConnectionsApart, ReadOnlyReturned
  <1>5. RefreshInLoop'
    <2>1. \/ loop' = loop
          \/ loop' = "late"
          \/ loop \notin {"refreshing", "late"}
      BY DEF Connect, RegisterType, Prepared, PrepareFails, Interrupt, ServerEnds, Cleanup,
             RefreshTimesOut, Pause, EndLoop, main, threads, cache
    <2> QED BY <1>1, <2>1 DEF RefreshInLoop
  <1>6. KnownInPool'
    <2>1. command = "dataapi" => pool' = "none" \/ registered'
      BY <1>1 DEF KnownInPool, Connect, ConnectsFirst, RegisterType, Prepared, PrepareFails,
             Interrupt, ServerEnds, Cleanup, RefreshTimesOut, Pause, EndLoop, main, threads
    <2> QED BY <1>1, <2>1 DEF KnownInPool
  <1> QED BY <1>2, <1>3, <1>4, <1>5, <1>6

\* A new connection has the type of roles, if the process is the data API's.
LEMMA EstablishKeeps == ASSUME IInv, NEW c \in Conns, Establish(c) PROVE IInv'
  <1> USE DEF IInv
  <1>1. UNCHANGED <<held, local, pc, kind, command, registered, readOnly, loop, pool, stage,
                    stopped>> /\ idle' = idle \cup {c} /\ \A t \in Threads : c \notin held[t]
    BY DEF Establish, Opened, main, cache
  <1>2. TypeOK'
    BY <1>1 DEF TypeOK, Establish
  <1>3. HeldFits' /\ KindFits' /\ WorkersRest' /\ OneRefreshAtATime' /\ RefreshInLoop'
    BY <1>1 DEF HeldFits, KindFits, WorkersRest, OneRefreshAtATime, RefreshInLoop
  <1>4. ConnectionsApart' /\ ReadOnlyReturned'
    BY <1>1 DEF ConnectionsApart, ReadOnlyReturned
  <1>5. KnownInPool'
    BY <1>1 DEF KnownInPool, Establish
  <1> QED BY <1>2, <1>3, <1>4, <1>5

\* A thread that starts or goes on without a connection, the loop aside.
LEMMA AskKeeps ==
    ASSUME IInv, NEW t \in Threads, NEW step \in {"format", "ask"},
           NEW k \in {"none", "plain", "patch", "upload", "tap", "first"},
           pc[t] \in {"idle", "format"}, k \in {"patch", "upload", "tap"} => t \in Handlers,
           pc' = [pc EXCEPT ![t] = step], kind' = [kind EXCEPT ![t] = k],
           kind[t] = k \/ pc[t] = "idle",
           \/ t \in Handlers
           \/ t \in Workers /\ pc[t] # "idle"
           \/ t \in Refreshers /\ pc[t] # "idle" /\ loop' = loop
           \/ t \in Refreshers /\ loop \notin {"refreshing", "late"} /\ loop' = "refreshing",
           t \in Refreshers \/ loop' = loop,
           UNCHANGED <<main, pool, knows, idle, readOnly, held, local, stopped>>
    PROVE  IInv'
  <1> USE DEF IInv
  <1>1. TypeOK'
    <2>1. pc' \in [Threads -> {"idle", "format", "ask", "run", "wait"}]
      BY DEF TypeOK
    <2>2. kind' \in [Threads -> {"none", "plain", "patch", "upload", "tap", "first"}]
      BY DEF TypeOK
    <2>3. loop' \in {"none", "due", "refreshing", "late", "paused", "failed", "over"}
      BY ThreadsApart DEF TypeOK
    <2> QED BY <2>1, <2>2, <2>3 DEF TypeOK, main
  <1>2. \A u \in Threads : /\ pc'[u] = IF u = t THEN step ELSE pc[u]
                           /\ kind'[u] = IF u = t THEN k ELSE kind[u]
    BY DEF TypeOK
  <1>3. HeldFits'
    BY <1>2 DEF HeldFits
  <1>4. KindFits'
    BY <1>2 DEF KindFits
  <1>5. WorkersRest'
    <2>1. ASSUME NEW h \in Handlers, NEW s \in Sides, pc'[h] # "wait"
          PROVE  pc'[<<h, s>>] = "idle"
      <3>1. <<h, s>> \in Workers /\ <<h, s>> \in Threads /\ h \in Threads
        BY DEF Workers, Threads
      <3>2. pc[h] # "wait" => pc[<<h, s>>] = "idle"
        BY DEF WorkersRest
      <3>3. pc[h] # "wait"
        BY <2>1, <3>1, <1>2
      <3>4. <<h, s>> # t
        BY <3>1, <3>2, <3>3, ThreadsApart
      <3> QED BY <3>1, <3>2, <3>3, <3>4, <1>2
    <2> QED BY <2>1 DEF WorkersRest
  <1>6. ConnectionsApart'
    BY DEF ConnectionsApart
  <1>7. ReadOnlyReturned'
    BY <1>2 DEF ReadOnlyReturned, HeldFits
  <1>8. RefreshInLoop' /\ OneRefreshAtATime'
    <2>1. \A r \in Refreshers : r \in Threads
      BY DEF Threads
    <2>2. CASE t \notin Refreshers
      BY <2>1, <2>2, <1>2 DEF RefreshInLoop, OneRefreshAtATime
    <2>3. CASE t \in Refreshers /\ pc[t] # "idle" /\ loop' = loop
      BY <2>1, <2>3, <1>2 DEF RefreshInLoop, OneRefreshAtATime
    <2>4. CASE t \in Refreshers /\ loop \notin {"refreshing", "late"} /\ loop' = "refreshing"
      BY <2>1, <2>4, <1>2 DEF RefreshInLoop, OneRefreshAtATime
    <2> QED BY <2>2, <2>3, <2>4, ThreadsApart
  <1>9. KnownInPool'
    BY DEF KnownInPool, main
  <1> QED BY <1>1, <1>3, <1>4, <1>5, <1>6, <1>7, <1>8, <1>9

LEMMA ArriveKeeps ==
    ASSUME IInv, NEW h \in Handlers, NEW k \in Kinds[command], Arrive(h, k) PROVE IInv'
  <1>1. h \in Threads /\ k \in {"none", "plain", "patch", "upload", "tap", "first"}
    BY DEF Threads, IInv, TypeOK, Kinds
  <1>2. pc[h] = "idle" /\ kind' = [kind EXCEPT ![h] = k] /\ loop' = loop
        /\ UNCHANGED <<main, pool, knows, idle, readOnly, held, local, stopped>>
    BY DEF Arrive, cache
  <1>3. CASE pc' = [pc EXCEPT ![h] = "format"]
    BY <1>1, <1>2, <1>3, AskKeeps
  <1>4. CASE pc' = [pc EXCEPT ![h] = "ask"]
    BY <1>1, <1>2, <1>4, AskKeeps
  <1> QED BY <1>3, <1>4 DEF Arrive

LEMMA FormatKeeps == ASSUME IInv, NEW t \in Threads, Format(t) PROVE IInv'
  <1>1. /\ kind[t] \in {"none", "plain", "patch", "upload", "tap", "first"}
        /\ kind[t] \in {"patch", "upload", "tap"} => t \in Handlers
        /\ kind' = [kind EXCEPT ![t] = kind[t]]
    BY DEF IInv, TypeOK, KindFits, Format
  <1>2. pc[t] = "format" /\ pc' = [pc EXCEPT ![t] = "ask"] /\ loop' = loop
        /\ UNCHANGED <<main, pool, knows, idle, readOnly, held, local, stopped>>
    BY DEF Format, cache
  <1>3. t \in Handlers \/ t \in Workers \/ t \in Refreshers
    BY DEF Threads
  <1> QED BY <1>1, <1>2, <1>3, AskKeeps

LEMMA RefreshStartKeeps ==
    ASSUME IInv, NEW r \in Refreshers, FirstRefresh(r) \/ StartRefresh(r) PROVE IInv'
  <1>1. r \in Threads /\ pc[r] = "idle" /\ pc' = [pc EXCEPT ![r] = "format"]
        /\ loop \notin {"refreshing", "late"} /\ loop' = "refreshing"
        /\ UNCHANGED <<main, pool, knows, idle, readOnly, held, local, stopped>>
    BY DEF FirstRefresh, StartRefresh, Threads
  <1>2. kind' = [kind EXCEPT ![r] = "first"] \/ kind' = [kind EXCEPT ![r] = "plain"]
    BY DEF FirstRefresh, StartRefresh
  <1> QED BY <1>1, <1>2, AskKeeps

\* A thread gets a connection, an upload its workers.
LEMMA AcquireKeeps ==
    ASSUME IInv, NEW t \in Threads, NEW c \in Conns, Acquire(t, c) PROVE IInv'
  <1> USE DEF IInv
  <1>1. /\ pc[t] = "ask" /\ c \in idle /\ held[t] = {}
        /\ UNCHANGED <<main, pool, knows, cache>>
    BY DEF Acquire, HeldFits
  <1>2. /\ held' \in [Threads -> SUBSET Conns] /\ local' \in [Threads -> Conns \cup {None}]
        /\ held'[t] = {c} /\ local'[t] \in {c, None}
        /\ \A u \in Threads \ {t} : held'[u] = held[u] /\ local'[u] = local[u]
    BY <1>1 DEF Acquire, TypeOK
  <1>3. \A u \in {t} \X Sides : t \in Handlers => u \in Workers /\ u # t
    BY ThreadsApart DEF Workers
  <1>4. kind[t] = "upload" => t \in Handlers
    BY DEF KindFits
  <1>5. /\ pc' \in [Threads -> {"idle", "format", "ask", "run", "wait"}]
        /\ kind' \in [Threads -> {"none", "plain", "patch", "upload", "tap", "first"}]
        /\ kind'[t] = kind[t]
        /\ pc'[t] = IF kind[t] = "upload" THEN "wait" ELSE "run"
    <2>1. CASE kind[t] = "upload"
      BY <2>1, <1>3, <1>4 DEF Acquire, TypeOK
    <2>2. CASE kind[t] # "upload"
      BY <2>2 DEF Acquire, TypeOK
    <2> QED BY <2>1, <2>2
  <1>6. \A u \in Threads \ {t} :
           \/ pc'[u] = pc[u] /\ kind'[u] = kind[u]
           \/ /\ kind[t] = "upload" /\ u \in {t} \X Sides
              /\ pc'[u] = "format" /\ kind'[u] = "plain" /\ pc[u] = "idle"
    <2> SUFFICES ASSUME NEW u \in Threads \ {t}
                 PROVE  \/ pc'[u] = pc[u] /\ kind'[u] = kind[u]
                        \/ /\ kind[t] = "upload" /\ u \in {t} \X Sides
                           /\ pc'[u] = "format" /\ kind'[u] = "plain" /\ pc[u] = "idle"
      OBVIOUS
    <2>1. CASE kind[t] # "upload"
      BY <2>1 DEF Acquire, TypeOK
    <2>2. CASE kind[t] = "upload" /\ u \notin {t} \X Sides
      BY <2>2 DEF Acquire
    <2>3. CASE kind[t] = "upload" /\ u \in {t} \X Sides
      <3>1. PICK s \in Sides : u = <<t, s>>
        BY <2>3
      <3>2. pc[u] = "idle"
        BY <1>1, <1>4, <2>3, <3>1 DEF WorkersRest
      <3> QED BY <2>3, <3>2 DEF Acquire
    <2> QED BY <2>1, <2>2, <2>3
  <1>7. TypeOK'
    <2>1. idle' \subseteq Conns /\ readOnly' \subseteq Conns
      BY DEF Acquire, TypeOK
    <2> QED BY <1>1, <1>2, <1>5, <2>1 DEF TypeOK, main, cache
  <1>8. HeldFits'
    <2> SUFFICES ASSUME NEW u \in Threads
                 PROVE  /\ pc'[u] \in {"idle", "format", "ask"} => held'[u] = {} /\ local'[u] = None
                        /\ pc'[u] \in {"run", "wait"} =>
                              \E d \in Conns : held'[u] = {d} /\ local'[u] \in {d, None}
      BY DEF HeldFits
    <2>1. CASE u = t
      BY <2>1, <1>2, <1>5
    <2>2. CASE u # t
      BY <2>2, <1>2, <1>6 DEF HeldFits
    <2> QED BY <2>1, <2>2
  <1>9. KindFits'
    <2> SUFFICES ASSUME NEW u \in Threads
                 PROVE  /\ kind'[u] \in {"patch", "upload", "tap"} => u \in Handlers
                        /\ pc'[u] = "wait" => kind'[u] = "upload"
                        /\ kind'[u] = "tap" => pc'[u] # "idle"
      BY DEF KindFits
    <2>1. CASE u = t
      BY <2>1, <1>5 DEF KindFits
    <2>2. CASE u # t
      BY <2>2, <1>6 DEF KindFits
    <2> QED BY <2>1, <2>2
  <1>10. WorkersRest'
    <2> SUFFICES ASSUME NEW h \in Handlers, NEW s \in Sides, pc'[h] # "wait"
                 PROVE  pc'[<<h, s>>] = "idle"
      BY DEF WorkersRest
    <2>1. h \in Threads /\ <<h, s>> \in Threads /\ <<h, s>> \in Workers
      BY DEF Threads, Workers
    <2>2. pc[h] # "wait"
      BY <2>1, <1>1, <1>6
    <2>3. pc[<<h, s>>] = "idle"
      BY <2>2 DEF WorkersRest
    <2>4. <<h, s>> # t
      BY <2>3, <1>1
    <2>5. ~(kind[t] = "upload" /\ <<h, s>> \in {t} \X Sides)
      <3> SUFFICES ASSUME kind[t] = "upload", h = t PROVE FALSE
        OBVIOUS
      <3> QED BY <1>5
    <2> QED BY <2>1, <2>3, <2>4, <2>5, <1>6
  <1>11. ConnectionsApart'
    <2>1. idle' = idle \ {c}
      BY DEF Acquire
    <2>2. \A u \in Threads : held'[u] \cap idle' = {}
      BY <1>2, <2>1 DEF ConnectionsApart
    <2>3. \A u, v \in Threads : u # v => held'[u] \cap held'[v] = {}
      BY <1>1, <1>2 DEF ConnectionsApart
    <2>4. \A u \in Threads : local'[u] # None => local'[u] \in held'[u]
      BY <1>2 DEF ConnectionsApart
    <2> QED BY <2>2, <2>3, <2>4 DEF ConnectionsApart
  <1>12. ReadOnlyReturned'
    <2> SUFFICES ASSUME NEW d \in readOnly'
                 PROVE  \E u \in Threads : d \in held'[u] /\ kind'[u] = "tap"
      BY DEF ReadOnlyReturned
    <2>1. CASE d \in readOnly
      <3>1. PICK u \in Threads : d \in held[u] /\ kind[u] = "tap"
        BY <2>1 DEF ReadOnlyReturned
      <3>2. u # t /\ pc[u] # "idle"
        BY <3>1, <1>1 DEF KindFits
      <3> QED BY <3>1, <3>2, <1>2, <1>6
    <2>2. CASE d \notin readOnly
      <3>1. d = c /\ kind[t] = "tap"
        BY <2>2 DEF Acquire
      <3> QED BY <3>1, <1>2, <1>5
    <2> QED BY <2>1, <2>2
  <1>13. \A r \in Refreshers : (pc'[r] # "idle") => pc[r] # "idle"
    <2>1. \A r \in Refreshers : r \in Threads /\ (r \notin {t} \X Sides \/ kind[t] # "upload")
      BY <1>3, <1>4, ThreadsApart DEF Threads
    <2> QED BY <2>1, <1>1, <1>6 DEF Threads
  <1>14. RefreshInLoop' /\ OneRefreshAtATime'
    BY <1>1, <1>13 DEF RefreshInLoop, OneRefreshAtATime, cache
  <1>15. KnownInPool'
    BY <1>1, <1>2 DEF KnownInPool, main, Acquire
  <1> QED BY <1>7, <1>8, <1>9, <1>10, <1>11, <1>12, <1>14, <1>15

\* A request or a worker ends, or gets no connection.
LEMMA EndKeeps ==
    ASSUME IInv, NEW t \in Threads, Finish(t) \/ AcquireFails(t) PROVE IInv'
  <1> USE DEF IInv
  <1>1. GiveBack(t) /\ UNCHANGED <<main, pool, knows, cache>> /\ t \notin Refreshers
        /\ (pc[t] \in {"format", "ask", "run"} \/ WorkersDone(t))
    BY DEF Finish, AcquireFails, Running, Starved
  <1>2. /\ idle' \subseteq Conns /\ readOnly' \subseteq Conns
        /\ HeldFits' /\ KindFits' /\ ConnectionsApart' /\ ReadOnlyReturned'
        /\ OneRefreshAtATime' /\ KnownInPool'
    BY <1>1, GiveBackKeeps DEF main
  <1>3. TypeOK'
    BY <1>1, <1>2, RestAfterGiveBack DEF TypeOK, main, cache
  <1>4. WorkersRest'
    <2> SUFFICES ASSUME NEW h \in Handlers, NEW s \in Sides, pc'[h] # "wait"
                 PROVE  pc'[<<h, s>>] = "idle"
      BY DEF WorkersRest
    <2>1. h \in Threads /\ <<h, s>> \in Threads
      BY DEF Threads, Workers
    <2>2. pc[<<h, s>>] = "idle"
      BY <1>1, <2>1, RestAfterGiveBack DEF WorkersRest, WorkersDone
    <2> QED BY <1>1, <2>1, <2>2, RestAfterGiveBack
  <1>5. RefreshInLoop'
    BY <1>1, RestAfterGiveBack DEF RefreshInLoop, Threads, cache
  <1> QED BY <1>2, <1>3, <1>4, <1>5

LEMMA RefreshEndKeeps ==
    ASSUME IInv, NEW r \in Refreshers, RefreshReturns(r) \/ RefreshRaises(r) PROVE IInv'
  <1> USE DEF IInv
  <1>1. r \in Threads /\ GiveBack(r) /\ UNCHANGED <<main, pool, knows, stopped>> /\ pc[r] # "idle"
        /\ pc[r] # "wait" /\ loop' \in {"paused", "due", "failed"}
    BY DEF RefreshReturns, RefreshRaises, AfterRefresh, Threads, Running, Starved
  <1>2. /\ idle' \subseteq Conns /\ readOnly' \subseteq Conns
        /\ HeldFits' /\ KindFits' /\ ConnectionsApart' /\ ReadOnlyReturned'
        /\ OneRefreshAtATime' /\ KnownInPool'
    BY <1>1, GiveBackKeeps DEF main
  <1>3. TypeOK'
    BY <1>1, <1>2, RestAfterGiveBack DEF TypeOK, main
  <1>4. WorkersRest'
    <2> SUFFICES ASSUME NEW h \in Handlers, NEW s \in Sides, pc'[h] # "wait"
                 PROVE  pc'[<<h, s>>] = "idle"
      BY DEF WorkersRest
    <2>1. h \in Threads /\ <<h, s>> \in Threads /\ h # r
      BY ThreadsApart DEF Threads, Workers
    <2>2. pc[<<h, s>>] = "idle"
      BY <1>1, <2>1, RestAfterGiveBack DEF WorkersRest
    <2> QED BY <1>1, <2>1, <2>2, RestAfterGiveBack
  <1>5. RefreshInLoop'
    <2>1. \A s \in Refreshers : s # r => pc[s] = "idle"
      BY <1>1 DEF OneRefreshAtATime
    <2> QED BY <1>1, <2>1, RestAfterGiveBack DEF RefreshInLoop, Threads
  <1> QED BY <1>2, <1>3, <1>4, <1>5

-------------------------------------------------------------------------------
(* Theorems *)

\* A thread that does not work holds nothing, one that works holds one connection, only
\* handlers wait and only for workers, a refresh runs only while the loop is in it.
THEOREM InductiveInvariant == Spec => []IInv
  <1>1. Init => IInv
    <2> SUFFICES ASSUME Init PROVE IInv
      OBVIOUS
    <2>1. TypeOK
      BY DEF Init, TypeOK
    <2>2. \A t \in Threads : held[t] = {} /\ local[t] = None /\ pc[t] = "idle" /\ kind[t] = "none"
      BY DEF Init
    <2>3. HeldFits /\ KindFits /\ ConnectionsApart /\ KnownInPool
      BY <2>2 DEF Init, HeldFits, KindFits, ConnectionsApart, KnownInPool
    <2>4. WorkersRest /\ RefreshInLoop /\ OneRefreshAtATime
      BY <2>2 DEF WorkersRest, RefreshInLoop, OneRefreshAtATime, Threads, Workers
    <2>5. ReadOnlyReturned
      BY DEF Init, ReadOnlyReturned
    <2> QED BY <2>1, <2>3, <2>4, <2>5 DEF IInv
  <1>2. IInv /\ [Next]_vars => IInv'
    <2> SUFFICES ASSUME IInv, [Next]_vars PROVE IInv'
      OBVIOUS
    <2>1. CASE \/ Connect \/ RegisterType \/ Prepared \/ PrepareFails \/ Interrupt
               \/ ServerEnds \/ Cleanup \/ RefreshTimesOut \/ Pause \/ EndLoop
      BY <2>1, MainKeeps
    <2>2. CASE \E c \in Conns : Establish(c)
      BY <2>2, EstablishKeeps
    <2>3. CASE \E h \in Handlers, k \in Kinds[command] : Arrive(h, k)
      BY <2>3, ArriveKeeps
    <2>4. CASE \E t \in Threads : Format(t)
      BY <2>4, FormatKeeps
    <2>5. CASE \E t \in Threads : Finish(t) \/ AcquireFails(t)
      BY <2>5, EndKeeps
    <2>6. CASE \E t \in Threads, c \in Conns : Acquire(t, c)
      BY <2>6, AcquireKeeps
    <2>7. CASE \E r \in Refreshers : FirstRefresh(r) \/ StartRefresh(r)
      BY <2>7, RefreshStartKeeps
    <2>8. CASE \E r \in Refreshers : RefreshReturns(r) \/ RefreshRaises(r)
      BY <2>8, RefreshEndKeeps
    <2>9. CASE UNCHANGED vars
      BY <2>9 DEF vars, IInv, TypeOK, HeldFits, KindFits, WorkersRest, ConnectionsApart,
                  ReadOnlyReturned, RefreshInLoop, OneRefreshAtATime, KnownInPool
    <2> QED BY <2>1, <2>2, <2>3, <2>4, <2>5, <2>6, <2>7, <2>8, <2>9 DEF Next
  <1> QED BY <1>1, <1>2, PTL DEF Spec

\* Between them the handlers that wait for their workers hold fewer connections than the
\* pool has: one is left to be opened, handed out or given back.
LEMMA SomeConnectionWorks ==
    ASSUME IInv
    PROVE  \E c \in Conns : \A t \in Threads : c \in held[t] => pc[t] = "run"
  <1> SUFFICES ASSUME \A c \in Conns : \E t \in Threads : c \in held[t] /\ pc[t] # "run"
               PROVE  FALSE
    OBVIOUS
  <1>1. \A c \in Conns : \E h \in Handlers : held[h] = {c}
    <2> SUFFICES ASSUME NEW c \in Conns PROVE \E h \in Handlers : held[h] = {c}
      OBVIOUS
    <2>1. PICK t \in Threads : c \in held[t] /\ pc[t] # "run"
      OBVIOUS
    <2>2. pc[t] = "wait"
      BY <2>1 DEF IInv, TypeOK, HeldFits
    <2>3. t \in Handlers
      BY <2>2 DEF IInv, KindFits
    <2>4. held[t] = {c}
      BY <2>1, <2>2 DEF IInv, HeldFits
    <2> QED BY <2>3, <2>4
  <1> DEFINE f == [c \in Conns |-> CHOOSE h \in Handlers : held[h] = {c}]
  <1>2. \A c \in Conns : f[c] \in Handlers /\ held[f[c]] = {c}
    BY <1>1
  <1>3. f \in [Conns -> Handlers]
    BY <1>2
  <1>4. f \in Injection(Conns, Handlers)
    <2>1. \A c, d \in Conns : f[c] = f[d] => c = d
      BY <1>2
    <2> QED BY <1>3, <2>1 DEF Injection, IsInjective
  <1> HIDE DEF f
  <1>5. Cardinality(Conns) <= Cardinality(Handlers)
    BY <1>4, FS_Injection, PoolIsLarger
  <1> QED BY <1>5, PoolIsLarger, FS_CardinalityType

\* No thread works on a connection another one has, or on one it has given back.
THEOREM ConnectionsStayApart == Spec => []ConnectionsApart
  BY InductiveInvariant, PTL DEF IInv

\* A connection goes back to the pool able to write.
THEOREM ReadOnlyIsReturned == Spec => []ReadOnlyReturned
  BY InductiveInvariant, PTL DEF IInv

\* Uploads never starve each other, whatever the number of handlers.
THEOREM NoConvoyForms == Spec => []NoConvoy
  <1>1. IInv => NoConvoy
    BY SomeConnectionWorks DEF NoConvoy
  <1> QED BY <1>1, InductiveInvariant, PTL

\* Refreshes follow each other, however late.
THEOREM RefreshesFollow == Spec => []OneRefreshAtATime
  BY InductiveInvariant, PTL DEF IInv

\* Every connection of the data API reads roles as members of Role.
THEOREM DataApiReadsRoles == Spec => []RolesAreRead
  <1>1. IInv => RolesAreRead
    BY DEF IInv, KnownInPool, RolesAreRead, Opened
  <1> QED BY <1>1, InductiveInvariant, PTL

\* The shape of the state.
THEOREM TypeCorrect == Spec => []TypeOK
  BY InductiveInvariant, PTL DEF IInv
===============================================================================
