-------------------------------- MODULE App --------------------------------
(***************************************************************************)
(* The life of the process: main and the generated initApp of cmd/app, the *)
(* resources they open, the deferred functions that close them, the        *)
(* goroutines that use them meanwhile, and the readiness probe.            *)
(*                                                                         *)
(* The kratos application (Run, graceful stop) is external: it waits for   *)
(* the handlers, and when it stops waiting it may or may not report an     *)
(* error, so that both are allowed.                                        *)
(***************************************************************************)
EXTENDS Naturals, Sequences

CONSTANTS
    Handlers,    \* goroutines that serve HTTP requests
    MaxJobs,     \* bound on the AsyncDel goroutines at a time
    StopTimeout  \* whether the server's stop may give up waiting for handlers

ASSUME AppAssumption == MaxJobs \in Nat /\ StopTimeout \in BOOLEAN

VARIABLES
    conf,    \* the parts that the configuration has
    pc,      \* where main is
    defers,  \* main's deferred functions, last one first
    exit,    \* how the process ended: ok, fatal, panic, crash
    config, tracer, db, redis, \* what main has opened
    spans,   \* spans wait in the batcher to be exported
    lost,    \* whose spans were lost: the exporter's, those of late handlers or jobs
    forced,  \* the server stopped without waiting for its handlers
    up,      \* the backends that can be reached
    handler, \* what each handler does
    jobs     \* AsyncDel goroutines

resources == <<config, tracer, db, redis>>
vars == <<conf, pc, defers, exit, config, tracer, db, redis, spans, lost, forced, up, handler, jobs>>

Parts == {"data", "database", "redis", "server", "http", "jwt", "tracing"}
Backends == {"database", "redis"}

\* "seen" is a history variable: the backends that were up at some time since
\* the probe began.
Idle == [at |-> "idle", seen |-> {}]
Working == {"busy", "pingdb", "pingredis"}

-----------------------------------------------------------------------------
\* How main goes on, and how it ends.

Goto(p) == pc' = p /\ UNCHANGED exit

\* The process is gone, and its goroutines with it.
Die(how) ==
    /\ pc' = "exited"
    /\ exit' = how
    /\ handler' = [h \in Handlers |-> Idle]
    /\ jobs' = 0

\* Fatalf ends the process without running what was deferred.
Fatalf == Die("fatal") /\ UNCHANGED <<defers, resources>>

\* A panic in main runs what was deferred so far.
Panic == pc' = "panicking" /\ UNCHANGED <<exit, defers, resources, handler, jobs>>

Boot == UNCHANGED <<conf, spans, lost, forced, up>>

\* c.Load and c.Scan: main has deferred c.Close before it.
LoadConfig ==
    /\ pc = "load"
    /\ \/ Goto("tracing") /\ UNCHANGED <<defers, resources, handler, jobs>>
       \/ Fatalf
    /\ Boot

\* Mutation: main does not defer the shutdown.
InitTracingNoDefer ==
    /\ pc = "tracing"
    /\ \/ /\ Goto("database")
          /\ tracer' = IF "tracing" \in conf THEN "up" ELSE "none"
          /\ UNCHANGED <<defers, config, db, redis, handler, jobs>>
       \/ "tracing" \in conf /\ Fatalf
    /\ Boot

\* tracing.Init: without configuration the shutdown function does nothing.
InitTracing ==
    /\ pc = "tracing"
    /\ \/ /\ Goto("database")
          /\ tracer' = IF "tracing" \in conf THEN "up" ELSE "none"
          /\ defers' = <<"tracer">> \o defers
          /\ UNCHANGED <<config, db, redis, handler, jobs>>
       \/ "tracing" \in conf /\ Fatalf
    /\ Boot

\* initApp: b.Data is dereferenced without a check; a nil database is fine.
NewDatabase ==
    /\ pc = "database"
    /\ \/ "data" \notin conf /\ Panic
       \/ /\ "data" \in conf /\ ("database" \in conf => "database" \in up)
          /\ Goto("redis")
          /\ db' = IF "database" \in conf THEN "open" ELSE "none"
          /\ UNCHANGED <<defers, config, tracer, redis, handler, jobs>>
       \/ "database" \in conf /\ Fatalf
    /\ Boot

\* A span of who ends.  It may not be sampled; it waits in the batcher, unless
\* the provider has been shut down and drops it.
EndSpan(who) ==
    \/ UNCHANGED spans /\ UNCHANGED lost
    \/ tracer = "up" /\ spans' = TRUE /\ UNCHANGED lost
    \/ tracer = "down" /\ lost' = lost \union {who} /\ UNCHANGED spans

\* initApp: a Redis that does not answer the ping is used all the same.  The
\* ping is traced.
NewRedis ==
    /\ pc = "redis"
    /\ Goto("server")
    /\ redis' = IF "redis" \in conf THEN "open" ELSE "none"
    /\ EndSpan("main")
    /\ UNCHANGED <<conf, defers, config, tracer, db, forced, up, handler, jobs>>

\* Mutation: main forgets the defer and cleans up at once.
NewAppAtOnce ==
    /\ pc = "server"
    /\ {"jwt", "server", "http"} \subseteq conf
    /\ Goto("run")
    /\ db' = IF db = "open" THEN "closed" ELSE db
    /\ UNCHANGED <<defers, config, tracer, redis, handler, jobs>>
    /\ Boot

\* initApp: NewHTTPServer needs the JWT and the HTTP configuration (c.HTTP is
\* checked, and dereferenced without a check at the end); then the rest of
\* initApp, which cannot fail, the deferred cleanup, and the routes.
NewApp ==
    /\ pc = "server"
    /\ \/ ~({"jwt", "server", "http"} \subseteq conf) /\ Panic
       \/ /\ {"jwt", "server", "http"} \subseteq conf
          /\ Goto("run")
          /\ defers' = <<"cleanup">> \o defers
          /\ UNCHANGED <<resources, handler, jobs>>
    /\ Boot

\* app.Run: the server listens, or Run returns the error.
Run ==
    /\ pc = "run"
    /\ \/ Goto("serving") /\ UNCHANGED <<defers, resources, handler, jobs>>
       \/ Fatalf
    /\ Boot

\* A signal stops the server: it accepts no more requests and waits.
Signal ==
    /\ pc = "serving"
    /\ Goto("stopping")
    /\ UNCHANGED <<conf, defers, resources, spans, lost, forced, up, handler, jobs>>

Drained ==
    /\ pc = "stopping"
    /\ \A h \in Handlers : handler[h].at \notin Working
    /\ Goto("returning")
    /\ UNCHANGED <<conf, defers, resources, spans, lost, forced, up, handler, jobs>>

\* The stop gives up: Run returns nil, or an error that is fatal in main.
ForceStop ==
    /\ pc = "stopping" /\ StopTimeout
    /\ \E h \in Handlers : handler[h].at \in Working
    /\ \/ Goto("returning") /\ UNCHANGED <<defers, resources, handler, jobs>>
       \/ Fatalf
    /\ forced' = TRUE
    /\ UNCHANGED <<conf, spans, lost, up>>

-----------------------------------------------------------------------------
\* The deferred functions, last one first.

\* Mutation: the connection is left to the garbage collector.
cleanupStopOnly == UNCHANGED <<db, redis>>

\* Mutation: cleanup closes Redis too.
cleanupRedis ==
    /\ db' = IF db = "open" THEN "closed" ELSE db
    /\ redis' = IF redis = "open" THEN "closed" ELSE redis

\* Mutation: cleanup waits for statLoop, which nobody cancels.
cleanupWaits ==
    /\ redis # "open"
    /\ db' = IF db = "open" THEN "closed" ELSE db
    /\ UNCHANGED redis

\* cleanup2 stops the application, which has stopped; cleanup closes the
\* database.  Nobody calls Redis.Close.
cleanup ==
    /\ db' = IF db = "open" THEN "closed" ELSE db
    /\ UNCHANGED redis

\* provider.Shutdown exports what is left, or runs into its five seconds.
traceShutdown ==
    /\ tracer' = IF tracer = "up" THEN "down" ELSE tracer
    /\ \/ spans' = FALSE /\ UNCHANGED lost
       \/ spans /\ lost' = lost \union {"exporter"} /\ UNCHANGED spans

Deferred ==
    /\ pc \in {"returning", "panicking"}
    /\ defers # <<>>
    /\ defers' = Tail(defers)
    /\ \/ Head(defers) = "cleanup" /\ cleanup /\ UNCHANGED <<config, tracer, spans, lost>>
       \/ Head(defers) = "tracer" /\ traceShutdown /\ UNCHANGED <<config, db, redis>>
       \/ Head(defers) = "config" /\ config' = "closed" /\ UNCHANGED <<tracer, db, redis, spans, lost>>
    /\ UNCHANGED <<conf, pc, exit, forced, up, handler, jobs>>

Exit ==
    /\ pc \in {"returning", "panicking"}
    /\ defers = <<>>
    /\ Die(IF pc = "returning" THEN "ok" ELSE "panic")
    /\ UNCHANGED <<conf, defers, resources, spans, lost, forced, up>>

Main ==
    \/ LoadConfig \/ InitTracing \/ NewDatabase \/ NewRedis \/ NewApp \/ Run
    \/ Drained \/ Deferred \/ Exit

-----------------------------------------------------------------------------
\* The goroutines of the server.

\* A request of the API, or of /health and /readyz.
Arrive(h) ==
    /\ pc = "serving"
    /\ handler[h].at \notin Working
    /\ \/ handler' = [handler EXCEPT ![h] = [at |-> "busy", seen |-> {}]]
       \/ handler' = [handler EXCEPT ![h] = [at |-> "pingdb", seen |-> up]]
    /\ UNCHANGED <<conf, pc, defers, exit, resources, spans, lost, forced, up, jobs>>

\* A handler of the API ends, with a span, and may leave an AsyncDel behind
\* (Exec could not delete its keys).
Work(h) ==
    /\ handler[h].at = "busy"
    /\ handler' = [handler EXCEPT ![h] = Idle]
    /\ \/ UNCHANGED jobs
       \/ redis = "open" /\ jobs < MaxJobs /\ jobs' = jobs + 1
    /\ EndSpan("handler")
    /\ UNCHANGED <<conf, pc, defers, exit, resources, forced, up>>

\* Without a Redis configuration the locker has a nil client: Register locks in
\* a goroutine of redsync, whose panic nobody recovers.
LockPanics(h) ==
    /\ handler[h].at = "busy" /\ redis = "none"
    /\ Die("crash")
    /\ UNCHANGED <<conf, defers, resources, spans, lost, forced, up>>

Answer(h, at) == handler' = [handler EXCEPT ![h].at = at]

\* Mutation: the result of the database's ping is not looked at.
PingDBIgnored(h) == handler[h].at = "pingdb" /\ Answer(h, "pingredis")

\* Both pings share two seconds, and may fail when the backend is up.
PingDB(h) ==
    /\ handler[h].at = "pingdb"
    /\ \/ db = "none" /\ Answer(h, "pingredis")
       \/ db = "open" /\ "database" \in up /\ Answer(h, "pingredis")
       \/ db # "none" /\ Answer(h, "unavailable")

PingRedis(h) ==
    /\ handler[h].at = "pingredis"
    /\ \/ redis = "none" /\ Answer(h, "ready")
       \/ redis = "open" /\ "redis" \in up /\ Answer(h, "ready")
       \/ redis # "none" /\ Answer(h, "unavailable")

\* newHealthHandler.
Probe(h) ==
    /\ PingDB(h) \/ PingRedis(h)
    /\ UNCHANGED <<conf, pc, defers, exit, resources, spans, lost, forced, up, jobs>>

Handle(h) == Work(h) \/ LockPanics(h) \/ Probe(h)

\* An AsyncDel ends: it has deleted the keys, or has no more retries.  The hook
\* of the Redis client may have traced the DEL.
AsyncDel ==
    /\ jobs > 0 /\ jobs' = jobs - 1
    /\ EndSpan("job")
    /\ UNCHANGED <<conf, pc, defers, exit, resources, forced, up, handler>>

\* The batcher exports what waits, and drops it when the exporter fails.
Export ==
    /\ spans /\ tracer = "up" /\ pc # "exited"
    /\ spans' = FALSE
    /\ lost' \in {lost, lost \union {"exporter"}}
    /\ UNCHANGED <<conf, pc, defers, exit, resources, forced, up, handler, jobs>>

\* A backend fails or comes back; the probes that run may notice.
Flip(b) ==
    /\ pc # "exited"
    /\ up' = IF b \in up THEN up \ {b} ELSE up \union {b}
    /\ handler' = [h \in Handlers |->
          IF handler[h].at \in {"pingdb", "pingredis"}
          THEN [handler[h] EXCEPT !.seen = @ \union up']
          ELSE handler[h]]
    /\ UNCHANGED <<conf, pc, defers, exit, resources, spans, lost, forced, jobs>>

-----------------------------------------------------------------------------
\* Any part of the configuration may be missing from the file.
Init ==
    /\ conf \in {c \in SUBSET Parts :
          /\ c \intersect {"database", "redis"} # {} => "data" \in c
          /\ "http" \in c => "server" \in c}
    /\ up \in SUBSET Backends
    /\ pc = "load" /\ exit = "none" /\ defers = <<"config">>
    /\ config = "open" /\ tracer = "none" /\ db = "none" /\ redis = "none"
    /\ spans = FALSE /\ lost = {} /\ forced = FALSE
    /\ handler = [h \in Handlers |-> Idle] /\ jobs = 0

Next ==
    \/ Main \/ Signal \/ ForceStop
    \/ \E h \in Handlers : Arrive(h) \/ Handle(h)
    \/ AsyncDel \/ Export
    \/ \E b \in Backends : Flip(b)

\* main goes on (every call of its shutdown has a time limit), and so does a
\* handler: its context ends after the ten seconds of server.http.timeout, that
\* of a probe after two.
Spec ==
    /\ Init /\ [][Next]_vars
    /\ WF_vars(Main)
    /\ \A h \in Handlers : WF_vars(Handle(h))

-----------------------------------------------------------------------------
\* Everything main has stays within its values; what is deferred is what main
\* has got to, in the order of its defer statements.
TypeOK ==
    /\ conf \subseteq Parts /\ up \subseteq Backends
    /\ pc \in {"load", "tracing", "database", "redis", "server", "run", "serving",
              "stopping", "returning", "panicking", "exited"}
    /\ exit \in {"none", "ok", "fatal", "panic", "crash"}
    /\ defers \in {<<>>, <<"config">>, <<"tracer", "config">>, <<"cleanup", "tracer", "config">>}
    /\ config \in {"open", "closed"} /\ tracer \in {"none", "up", "down"}
    /\ db \in {"none", "open", "closed"} /\ redis \in {"none", "open", "closed"}
    /\ spans \in BOOLEAN /\ lost \subseteq {"exporter", "handler", "job"} /\ forced \in BOOLEAN
    /\ handler \in [Handlers -> [at : Working \union {"idle", "ready", "unavailable"},
                               seen : SUBSET Backends]]
    /\ jobs \in 0..MaxJobs

\* Nobody uses what cleanup has closed: a handler that still works after the
\* database was closed has been given up by a forced stop, and the AsyncDel
\* goroutines, which nobody waits for, always have an open Redis.
NoUseAfterClose ==
    /\ db = "closed" /\ (\E h \in Handlers : handler[h].at \in Working) => forced
    /\ jobs > 0 => redis = "open"

\* How main ends decides what is closed.  A return closes the database, the
\* tracer and the configuration; a panic in initApp closes the last two and
\* leaves the database open; Fatalf and the panic of another goroutine close
\* nothing.  Where main's deferred functions run, a span that waits is left
\* unexported only when the exporter failed, and a handler's span comes too
\* late for the shutdown only when the server's stop gave the handler up.  The
\* process dies of another goroutine's panic only without Redis.
ExitsCleanUp ==
    /\ exit \in {"ok", "panic"} /\ spans => "exporter" \in lost
    /\ "handler" \in lost => forced
    /\ exit = "ok" => db # "open" /\ tracer # "up" /\ config = "closed"
    /\ exit = "panic" => tracer # "up" /\ config = "closed"
                        /\ ~({"data", "jwt", "server", "http"} \subseteq conf)
    /\ exit = "fatal" => config = "open" /\ tracer # "down"
    /\ exit = "crash" => "redis" \notin conf

\* A probe answers 200 only when every configured backend was reachable at some
\* time while it ran, though maybe not at the same time.
ReadyMeansUp ==
    \A h \in Handlers :
        handler[h].at = "ready" => conf \intersect Backends \subseteq handler[h].seen

\* After the signal the process ends, whatever its handlers were doing and
\* whatever the backends do.
SignalEnds == pc = "stopping" ~> pc = "exited"
=============================================================================
