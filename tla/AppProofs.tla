----------------------------- MODULE AppProofs -----------------------------
(***************************************************************************)
(* Proofs about App, for any number of handlers and of AsyncDel goroutines *)
(* and whether or not the server's stop may be forced.                     *)
(***************************************************************************)
EXTENDS App, SequenceTheorems, TLAPS

Ending  == {"returning", "panicking"}
Pinging == {"pingdb", "pingredis"}

Full == <<"cleanup", "tracer", "config">>

\* Where main is, what it has opened and what it has deferred.
Stages ==
    /\ exit # "none" <=> pc = "exited"
    /\ pc \in {"load", "tracing"} => defers = <<"config">> /\ tracer = "none"
    /\ pc \in {"database", "redis", "server"} => defers = <<"tracer", "config">>
    /\ pc \in {"run", "serving", "stopping"} => defers = Full
    /\ pc \notin Ending \union {"exited"} => config = "open" /\ tracer # "down" /\ db # "closed"
    /\ pc \in {"load", "tracing", "database"} => db = "none"
    /\ pc = "panicking" => defers # Full /\ ~({"data", "jwt", "server", "http"} \subseteq conf)
    /\ redis # "closed"

\* What is configured is there once main has got past it.
Configured ==
    /\ pc \in {"redis", "server", "run", "serving", "stopping", "returning"} =>
          (db = "none" => "database" \notin conf)
    /\ pc \in {"server", "run", "serving", "stopping", "returning"} =>
          (redis = "none" => "redis" \notin conf)

\* What the deferred functions have done so far.
Unwound ==
    /\ pc = "returning" /\ defers # Full => db # "open"
    /\ pc \in Ending /\ defers \in {<<"config">>, <<>>} => tracer # "up" /\ (spans => "exporter" \in lost)
    /\ pc \in Ending /\ defers = <<>> => config = "closed"
    /\ db = "closed" => pc \in {"returning", "exited"}

\* When there are goroutines beside main.
Company ==
    /\ pc \notin {"serving", "stopping", "returning"} =>
          jobs = 0 /\ \A h \in Handlers : handler[h].at \notin Working
    /\ pc = "returning" /\ ~forced => \A h \in Handlers : handler[h].at \notin Working
    /\ jobs > 0 => redis = "open"

\* What a probe has found out.
Probes ==
    \A h \in Handlers :
        /\ handler[h].at \in Pinging => up \subseteq handler[h].seen
        /\ handler[h].at = "pingredis" => conf \intersect {"database"} \subseteq handler[h].seen
        /\ handler[h].at = "ready" => conf \intersect Backends \subseteq handler[h].seen

Inv == TypeOK /\ Stages /\ Configured /\ Unwound /\ Company /\ Probes /\ ExitsCleanUp

Names == {"cleanup", "tracer", "config"}

\* What <<x>> \o s is: x, then s.
LEMMA Prepend ==
    ASSUME NEW S, NEW x \in S, NEW s \in Seq(S), NEW d \in Seq(S),
           Len(d) = Len(s) + 1, d[1] = x, \A i \in 1..Len(s) : d[i+1] = s[i]
    PROVE  <<x>> \o s = d
<1> DEFINE a == <<x>>
<1>1. a \in Seq(S) /\ Len(a) = 1 /\ a[1] = x
  OBVIOUS
<1> HIDE DEF a
<1>2. /\ a \o s \in Seq(S)
      /\ Len(a \o s) = Len(a) + Len(s)
      /\ \A i \in 1..Len(a) + Len(s) :
            (a \o s)[i] = IF i <= Len(a) THEN a[i] ELSE s[i - Len(a)]
  BY <1>1, ConcatProperties
<1>3. ASSUME NEW i \in 1..Len(a \o s) PROVE (a \o s)[i] = d[i]
  <2>1. CASE i = 1
    BY <2>1, <1>1, <1>2
  <2>2. CASE i > 1
    <3>1. i - 1 \in 1..Len(s) /\ (i - 1) + 1 = i
      BY <2>2, <1>1, <1>2
    <3>2. (a \o s)[i] = s[i-1]
      BY <2>2, <3>1, <1>1, <1>2
    <3> QED BY <3>1, <3>2
  <2> QED BY <2>1, <2>2
<1>4. Len(a \o s) = Len(d)
  BY <1>1, <1>2
<1>5. a \o s = d
  BY <1>2, <1>3, <1>4, SeqEqual
<1> QED BY <1>5 DEF a

\* main defers the tracer's shutdown after c.Close ...
LEMMA DeferTracer == <<"tracer">> \o <<"config">> = <<"tracer", "config">>
<1> DEFINE s == <<"config">>
           d == <<"tracer", "config">>
<1>1. s \in Seq(Names) /\ d \in Seq(Names) /\ "tracer" \in Names
  BY DEF Names
<1>2. Len(d) = Len(s) + 1 /\ d[1] = "tracer" /\ \A i \in 1..Len(s) : d[i+1] = s[i]
  OBVIOUS
<1> HIDE DEF s, d
<1>3. <<"tracer">> \o s = d
  BY <1>1, <1>2, Prepend
<1> QED BY <1>3 DEF s, d

\* ... and the cleanup of initApp after both.
LEMMA DeferCleanup == <<"cleanup">> \o <<"tracer", "config">> = Full
<1> DEFINE s == <<"tracer", "config">>
           d == <<"cleanup", "tracer", "config">>
<1>1. s \in Seq(Names) /\ d \in Seq(Names) /\ "cleanup" \in Names
  BY DEF Names
<1>2. Len(d) = Len(s) + 1 /\ d[1] = "cleanup" /\ \A i \in 1..Len(s) : d[i+1] = s[i]
  OBVIOUS
<1> HIDE DEF s, d
<1>3. <<"cleanup">> \o s = d
  BY <1>1, <1>2, Prepend
<1> QED BY <1>3 DEF s, d, Full

\* What running a deferred function leaves of the list.
LEMMA RunDeferred ==
    /\ Tail(Full) = <<"tracer", "config">> /\ Head(Full) = "cleanup"
    /\ Tail(<<"tracer", "config">>) = <<"config">> /\ Head(<<"tracer", "config">>) = "tracer"
    /\ Tail(<<"config">>) = <<>> /\ Head(<<"config">>) = "config"
BY DEF Full

\* The four lists of deferred functions are different.
LEMMA DeferListsDiffer ==
    /\ Full # <<"tracer", "config">> /\ Full # <<"config">> /\ Full # <<>>
    /\ <<"tracer", "config">> # <<"config">> /\ <<"tracer", "config">> # <<>>
    /\ <<"config">> # <<>>
BY DEF Full

\* The batcher gets spans only while the tracer is up, and spans are dropped
\* only when it is down.
LEMMA EndSpanAdds ==
    ASSUME spans \in BOOLEAN, NEW who, EndSpan(who)
    PROVE  /\ spans' \in BOOLEAN /\ (tracer # "up" => (spans' => spans))
           /\ lost' = lost \/ (tracer = "down" /\ lost' = lost \union {who})
<1>1. spans' \in BOOLEAN
  BY Zenon DEF EndSpan
<1>2. tracer # "up" => (spans' => spans)
  BY Zenon DEF EndSpan
<1>3. lost' = lost \/ (tracer = "down" /\ lost' = lost \union {who})
  BY DEF EndSpan
<1> QED BY <1>1, <1>2, <1>3

\* Loading the configuration, or failing to, changes main's place only.
LEMMA LoadConfigOK == ASSUME Inv, LoadConfig PROVE Inv'
BY AppAssumption
   DEF LoadConfig, Boot, Goto, Fatalf, Die, Idle, Inv, TypeOK, Stages, Configured,
       Unwound, Company, Probes, ExitsCleanUp, Ending, Pinging, Full, resources, Working

\* main opens the tracer and defers its shutdown in one step.
LEMMA InitTracingOK == ASSUME Inv, InitTracing PROVE Inv'
<1>1. TypeOK'
  <2>1. defers = <<"config">>
    BY DEF InitTracing, Inv, Stages
  <2> QED BY <2>1, DeferTracer, AppAssumption
      DEF InitTracing, Boot, Goto, Fatalf, Die, Idle, resources, Inv, TypeOK, Working
<1>2. Stages'
  <2>1. defers = <<"config">>
    BY DEF InitTracing, Inv, Stages
  <2> QED BY <2>1, DeferTracer
      DEF InitTracing, Boot, Goto, Fatalf, Die, resources, Inv, TypeOK, Stages, Ending
<1>3. Configured'
  BY AppAssumption
     DEF InitTracing, Boot, Goto, Fatalf, Die, Idle, Inv, TypeOK, Stages, Configured,
         Ending, Pinging, Full, resources, Working
<1>4. Unwound'
  BY AppAssumption
     DEF InitTracing, Boot, Goto, Fatalf, Die, Idle, Inv, TypeOK, Stages, Unwound,
         Ending, Pinging, Full, resources, Working
<1>5. Company'
  BY AppAssumption
     DEF InitTracing, Boot, Goto, Fatalf, Die, Idle, Inv, TypeOK, Stages, Company,
         Ending, Pinging, Full, resources, Working
<1>6. Probes'
  BY AppAssumption
     DEF InitTracing, Boot, Goto, Fatalf, Die, Idle, Inv, TypeOK, Stages, Probes,
         Company, Configured, Ending, Pinging, Full, resources, Working
<1>7. ExitsCleanUp'
  BY AppAssumption
     DEF InitTracing, Boot, Goto, Fatalf, Die, Idle, Inv, TypeOK, Stages, ExitsCleanUp,
         Unwound, Ending, Pinging, Full, resources, Working
<1> QED BY <1>1, <1>2, <1>3, <1>4, <1>5, <1>6, <1>7 DEF Inv

\* A configured database is open when initApp goes on, and a panic here is for want of data.
LEMMA NewDatabaseOK == ASSUME Inv, NewDatabase PROVE Inv'
BY AppAssumption
   DEF NewDatabase, Boot, Goto, Fatalf, Die, Idle, Panic, Inv, TypeOK, Stages,
       Configured, Unwound, Company, Probes, ExitsCleanUp, Ending, Pinging, Full,
       resources, Working

\* A configured Redis is there once initApp goes on, whether or not it answers.
LEMMA NewRedisOK == ASSUME Inv, NewRedis PROVE Inv'
<1>1. TypeOK'
  <2>1. spans' \in BOOLEAN /\ lost' = lost
    BY EndSpanAdds DEF NewRedis, Inv, TypeOK, Stages, Ending
  <2> QED BY <2>1 DEF NewRedis, Goto, Inv, TypeOK, Working
<1>2. Stages'
  BY AppAssumption
     DEF NewRedis, Goto, EndSpan, Inv, TypeOK, Stages, Ending, Pinging, Full, resources,
         Working
<1>3. Configured'
  BY AppAssumption
     DEF NewRedis, Goto, EndSpan, Inv, TypeOK, Stages, Configured, Ending, Pinging,
         Full, resources, Working
<1>4. Unwound'
  BY AppAssumption
     DEF NewRedis, Goto, EndSpan, Inv, TypeOK, Stages, Unwound, Ending, Pinging, Full,
         resources, Working
<1>5. Company'
  BY AppAssumption
     DEF NewRedis, Goto, EndSpan, Inv, TypeOK, Stages, Company, Ending, Pinging, Full,
         resources, Working
<1>6. Probes'
  BY AppAssumption
     DEF NewRedis, Goto, EndSpan, Inv, TypeOK, Stages, Probes, Company, Configured,
         Ending, Pinging, Full, resources, Working
<1>7. ExitsCleanUp'
  BY AppAssumption
     DEF NewRedis, Goto, EndSpan, Inv, TypeOK, Stages, ExitsCleanUp, Unwound, Ending,
         Pinging, Full, resources, Working
<1> QED BY <1>1, <1>2, <1>3, <1>4, <1>5, <1>6, <1>7 DEF Inv

\* initApp has everything its cleanup needs when main defers it.
LEMMA NewAppOK == ASSUME Inv, NewApp PROVE Inv'
<1>1. TypeOK'
  <2>1. defers = <<"tracer", "config">>
    BY DEF NewApp, Inv, Stages
  <2> QED BY <2>1, DeferCleanup
      DEF NewApp, Boot, Goto, Panic, resources, Inv, TypeOK, Working, Full
<1>2. Stages'
  <2>1. defers = <<"tracer", "config">>
    BY DEF NewApp, Inv, Stages
  <2>2. defers # Full
    BY <2>1, DeferListsDiffer
  <2> QED BY <2>1, <2>2, DeferCleanup
      DEF NewApp, Boot, Goto, Panic, resources, Inv, TypeOK, Stages, Ending
<1>3. Configured'
  BY AppAssumption
     DEF NewApp, Boot, Goto, Panic, Inv, TypeOK, Stages, Configured, Ending, Pinging,
         Full, resources, Working
<1>4. Unwound'
  BY AppAssumption
     DEF NewApp, Boot, Goto, Panic, Inv, TypeOK, Stages, Unwound, Ending, Pinging, Full,
         resources, Working
<1>5. Company'
  BY AppAssumption
     DEF NewApp, Boot, Goto, Panic, Inv, TypeOK, Stages, Company, Ending, Pinging, Full,
         resources, Working
<1>6. Probes'
  BY AppAssumption
     DEF NewApp, Boot, Goto, Panic, Inv, TypeOK, Stages, Probes, Company, Configured,
         Ending, Pinging, Full, resources, Working
<1>7. ExitsCleanUp'
  BY AppAssumption
     DEF NewApp, Boot, Goto, Panic, Inv, TypeOK, Stages, ExitsCleanUp, Unwound, Ending,
         Pinging, Full, resources, Working
<1> QED BY <1>1, <1>2, <1>3, <1>4, <1>5, <1>6, <1>7 DEF Inv

\* Run fails before there are goroutines, or serves.
LEMMA RunOK == ASSUME Inv, Run PROVE Inv'
BY AppAssumption
   DEF Run, Boot, Goto, Fatalf, Die, Idle, Inv, TypeOK, Stages, Configured, Unwound,
       Company, Probes, ExitsCleanUp, Ending, Pinging, Full, resources, Working

\* A signal takes nothing away.
LEMMA SignalOK == ASSUME Inv, Signal PROVE Inv'
BY AppAssumption
   DEF Signal, Goto, Inv, TypeOK, Stages, Configured, Unwound, Company, Probes,
       ExitsCleanUp, Ending, Pinging, Full, resources, Working

\* Run returns when no handler works.
LEMMA DrainedOK == ASSUME Inv, Drained PROVE Inv'
BY AppAssumption
   DEF Drained, Goto, Inv, TypeOK, Stages, Configured, Unwound, Company, Probes,
       ExitsCleanUp, Ending, Pinging, Full, resources, Working

\* Run returns while handlers work, and that is remembered.
LEMMA ForceStopOK == ASSUME Inv, ForceStop PROVE Inv'
<1>1. TypeOK'
  BY AppAssumption
     DEF ForceStop, Goto, Fatalf, Die, Idle, Inv, TypeOK, Ending, Pinging, Full,
         resources, Working
<1>2. Stages'
  BY AppAssumption
     DEF ForceStop, Goto, Fatalf, Die, Idle, Inv, TypeOK, Stages, Ending, Pinging, Full,
         resources, Working
<1>3. Configured'
  BY AppAssumption
     DEF ForceStop, Goto, Fatalf, Die, Idle, Inv, TypeOK, Stages, Configured, Ending,
         Pinging, Full, resources, Working
<1>4. Unwound'
  BY AppAssumption
     DEF ForceStop, Goto, Fatalf, Die, Idle, Inv, TypeOK, Stages, Unwound, Ending,
         Pinging, Full, resources, Working
<1>5. Company'
  BY AppAssumption
     DEF ForceStop, Goto, Fatalf, Die, Idle, Inv, TypeOK, Stages, Company, Ending,
         Pinging, Full, resources, Working
<1>6. Probes'
  BY AppAssumption
     DEF ForceStop, Goto, Fatalf, Die, Idle, Inv, TypeOK, Stages, Probes, Company,
         Configured, Ending, Pinging, Full, resources, Working
<1>7. ExitsCleanUp'
  BY AppAssumption
     DEF ForceStop, Goto, Fatalf, Die, Idle, Inv, TypeOK, Stages, ExitsCleanUp, Unwound,
         Ending, Pinging, Full, resources, Working
<1> QED BY <1>1, <1>2, <1>3, <1>4, <1>5, <1>6, <1>7 DEF Inv

\* Each deferred function closes what it is for, last one first.
LEMMA DeferredOK == ASSUME Inv, Deferred PROVE Inv'
<1>1. TypeOK'
  <2>1. defers' \in {<<>>, <<"config">>, <<"tracer", "config">>}
    BY RunDeferred DEF Deferred, Inv, TypeOK, Full
  <2>2. spans' \in BOOLEAN
    BY Zenon DEF Deferred, traceShutdown, Inv, TypeOK
  <2>3. lost' \subseteq {"exporter", "handler", "job"}
    BY DEF Deferred, traceShutdown, Inv, TypeOK
  <2> QED BY <2>1, <2>2, <2>3 DEF Deferred, cleanup, traceShutdown, Inv, TypeOK, Working
<1>2. Stages'
  <2>1. defers' \in {<<>>, <<"config">>, <<"tracer", "config">>}
    BY RunDeferred DEF Deferred, Inv, TypeOK, Full
  <2>2. defers' # Full
    BY <2>1, DeferListsDiffer
  <2> QED BY <2>2 DEF Deferred, cleanup, traceShutdown, Inv, TypeOK, Stages, Ending
<1>3. Configured'
  BY AppAssumption
     DEF Deferred, cleanup, traceShutdown, Inv, TypeOK, Stages, Configured, Ending,
         Pinging, Full, resources, Working
<1>4. Unwound'
  <2>1. CASE defers = Full
    BY <2>1, RunDeferred, DeferListsDiffer
       DEF Deferred, cleanup, Inv, TypeOK, Stages, Unwound, Ending
  <2>2. CASE defers = <<"tracer", "config">>
    BY <2>2, RunDeferred, DeferListsDiffer
       DEF Deferred, traceShutdown, Inv, TypeOK, Stages, Unwound, Ending
  <2>3. CASE defers = <<"config">>
    BY <2>3, RunDeferred, DeferListsDiffer
       DEF Deferred, Inv, TypeOK, Stages, Unwound, Ending
  <2> QED BY <2>1, <2>2, <2>3 DEF Deferred, Inv, TypeOK, Full
<1>5. Company'
  BY AppAssumption
     DEF Deferred, cleanup, traceShutdown, Inv, TypeOK, Stages, Company, Ending,
         Pinging, Full, resources, Working
<1>6. Probes'
  BY AppAssumption
     DEF Deferred, cleanup, traceShutdown, Inv, TypeOK, Stages, Probes, Company,
         Configured, Ending, Pinging, Full, resources, Working
<1>7. ExitsCleanUp'
  BY AppAssumption
     DEF Deferred, cleanup, traceShutdown, Inv, TypeOK, Stages, ExitsCleanUp, Unwound,
         Ending, Pinging, Full, resources, Working
<1> QED BY <1>1, <1>2, <1>3, <1>4, <1>5, <1>6, <1>7 DEF Inv

\* By the end of its list main has closed what it could.
LEMMA ExitOK == ASSUME Inv, Exit PROVE Inv'
BY AppAssumption
   DEF Exit, Die, Idle, Inv, TypeOK, Stages, Configured, Unwound, Company, Probes,
       ExitsCleanUp, Ending, Pinging, Full, resources, Working

\* An AsyncDel that ends leaves Redis as it is, and a span, late or not.
LEMMA AsyncDelOK == ASSUME Inv, AsyncDel PROVE Inv'
<1>0. /\ spans' \in BOOLEAN /\ (tracer # "up" => (spans' => spans))
      /\ lost' = lost \/ lost' = lost \union {"job"}
  BY EndSpanAdds DEF AsyncDel, Inv, TypeOK
<1>1. TypeOK'
  <2>1. lost' \subseteq {"exporter", "handler", "job"}
    BY <1>0 DEF Inv, TypeOK
  <2> QED BY <1>0, <2>1, AppAssumption DEF AsyncDel, resources, Inv, TypeOK, Working
<1>2. Stages' /\ Configured' /\ Company' /\ Probes'
  BY AppAssumption
     DEF AsyncDel, Inv, TypeOK, Stages, Configured, Company, Probes, Ending, Pinging, Full,
         resources, Working
<1>3. Unwound'
  BY <1>0 DEF AsyncDel, Inv, TypeOK, Unwound, resources
<1>4. jobs > 0 => exit = "none"
  BY DEF Inv, Company, Stages
<1>5. ExitsCleanUp'
  BY <1>0, <1>4 DEF AsyncDel, Inv, TypeOK, ExitsCleanUp, resources
<1> QED BY <1>1, <1>2, <1>3, <1>5 DEF Inv

\* An export empties the batcher.
LEMMA ExportOK == ASSUME Inv, Export PROVE Inv'
<1>1. TypeOK'
  <2>1. spans' \in BOOLEAN
    BY Zenon DEF Export, Inv, TypeOK
  <2> QED BY <2>1, AppAssumption DEF Export, resources, Inv, TypeOK, Working
<1>2. Stages'
  BY AppAssumption
     DEF Export, Inv, TypeOK, Stages, Ending, Pinging, Full, resources, Working
<1>3. Configured'
  BY AppAssumption
     DEF Export, Inv, TypeOK, Stages, Configured, Ending, Pinging, Full, resources,
         Working
<1>4. Unwound'
  BY AppAssumption
     DEF Export, Inv, TypeOK, Stages, Unwound, Ending, Pinging, Full, resources, Working
<1>5. Company'
  BY AppAssumption
     DEF Export, Inv, TypeOK, Stages, Company, Ending, Pinging, Full, resources, Working
<1>6. Probes'
  BY AppAssumption
     DEF Export, Inv, TypeOK, Stages, Probes, Company, Configured, Ending, Pinging,
         Full, resources, Working
<1>7. ExitsCleanUp'
  BY AppAssumption
     DEF Export, Inv, TypeOK, Stages, ExitsCleanUp, Unwound, Ending, Pinging, Full,
         resources, Working
<1> QED BY <1>1, <1>2, <1>3, <1>4, <1>5, <1>6, <1>7 DEF Inv

\* Requests arrive only while the process serves; a probe begins with what is up.
LEMMA ArriveOK == ASSUME Inv, NEW h \in Handlers, Arrive(h) PROVE Inv'
BY AppAssumption
   DEF Arrive, Inv, TypeOK, Stages, Configured, Unwound, Company, Probes, ExitsCleanUp,
       Ending, Pinging, Full, resources, Working

\* A handler that ends leaves an AsyncDel only with Redis, and a span only with a tracer.
LEMMA WorkOK == ASSUME Inv, NEW h \in Handlers, Work(h) PROVE Inv'
<1>1. TypeOK'
  <2>1. spans' \in BOOLEAN /\ (lost' = lost \/ lost' = lost \union {"handler"})
    BY EndSpanAdds DEF Work, Inv, TypeOK
  <2>2. lost' \subseteq {"exporter", "handler", "job"}
    BY <2>1 DEF Inv, TypeOK
  <2> QED BY <2>1, <2>2, AppAssumption DEF Work, Idle, resources, Inv, TypeOK, Working
<1>2. Stages'
  BY AppAssumption
     DEF Work, EndSpan, Idle, Inv, TypeOK, Stages, Ending, Pinging, Full, resources,
         Working
<1>3. Configured'
  BY AppAssumption
     DEF Work, EndSpan, Idle, Inv, TypeOK, Stages, Configured, Ending, Pinging, Full,
         resources, Working
<1>4. Unwound'
  BY AppAssumption
     DEF Work, EndSpan, Idle, Inv, TypeOK, Stages, Unwound, Ending, Pinging, Full,
         resources, Working
<1>5. Company'
  BY AppAssumption
     DEF Work, EndSpan, Idle, Inv, TypeOK, Stages, Company, Ending, Pinging, Full,
         resources, Working
<1>6. Probes'
  BY AppAssumption
     DEF Work, EndSpan, Idle, Inv, TypeOK, Stages, Probes, Company, Configured, Ending,
         Pinging, Full, resources, Working
<1>7. ExitsCleanUp'
  <2>1. tracer = "down" => forced
    BY DEF Work, Inv, Stages, Company, Ending, Working
  <2>2. /\ tracer # "up" => (spans' => spans)
        /\ lost' = lost \/ (tracer = "down" /\ lost' = lost \union {"handler"})
    BY EndSpanAdds DEF Work, Inv, TypeOK
  <2>3. exit = "none"
    BY DEF Work, Inv, Stages, Company, Working
  <2> QED BY <2>1, <2>2, <2>3 DEF Work, Inv, ExitsCleanUp, resources
<1> QED BY <1>1, <1>2, <1>3, <1>4, <1>5, <1>6, <1>7 DEF Inv

\* The locker panics only without Redis, which is when none is configured.
LEMMA LockPanicsOK == ASSUME Inv, NEW h \in Handlers, LockPanics(h) PROVE Inv'
BY AppAssumption
   DEF LockPanics, Die, Idle, Inv, TypeOK, Stages, Configured, Unwound, Company, Probes,
       ExitsCleanUp, Ending, Pinging, Full, resources, Working

\* A probe goes past a backend only when it is not configured or is up.
LEMMA ProbeOK == ASSUME Inv, NEW h \in Handlers, Probe(h) PROVE Inv'
<1>1. TypeOK'
  BY AppAssumption
     DEF Probe, PingDB, PingRedis, Answer, Inv, TypeOK, Ending, Pinging, Full,
         resources, Working
<1>2. Stages'
  BY AppAssumption
     DEF Probe, PingDB, PingRedis, Answer, Inv, TypeOK, Stages, Ending, Pinging, Full,
         resources, Working
<1>3. Configured'
  BY AppAssumption
     DEF Probe, PingDB, PingRedis, Answer, Inv, TypeOK, Stages, Configured, Ending,
         Pinging, Full, resources, Working
<1>4. Unwound'
  BY AppAssumption
     DEF Probe, PingDB, PingRedis, Answer, Inv, TypeOK, Stages, Unwound, Ending,
         Pinging, Full, resources, Working
<1>5. Company'
  BY AppAssumption
     DEF Probe, PingDB, PingRedis, Answer, Inv, TypeOK, Stages, Company, Ending,
         Pinging, Full, resources, Working
<1>6. Probes'
  <2>1. CASE PingDB(h)
    BY <2>1
       DEF Probe, PingDB, Answer, Inv, TypeOK, Stages, Company, Configured, Probes,
           Pinging, Backends, Working, resources
  <2>2. CASE PingRedis(h)
    BY <2>2
       DEF Probe, PingRedis, Answer, Inv, TypeOK, Stages, Company, Configured, Probes,
           Pinging, Backends, Working, resources
  <2> QED BY <2>1, <2>2 DEF Probe
<1>7. ExitsCleanUp'
  BY AppAssumption
     DEF Probe, PingDB, PingRedis, Answer, Inv, TypeOK, Stages, ExitsCleanUp, Unwound,
         Ending, Pinging, Full, resources, Working
<1> QED BY <1>1, <1>2, <1>3, <1>4, <1>5, <1>6, <1>7 DEF Inv

\* A probe that runs takes note of a backend that comes back.
LEMMA FlipOK == ASSUME Inv, NEW b \in Backends, Flip(b) PROVE Inv'
BY AppAssumption
   DEF Flip, Backends, Inv, TypeOK, Stages, Configured, Unwound, Company, Probes,
       ExitsCleanUp, Ending, Pinging, Full, resources, Working

-----------------------------------------------------------------------------
\* main starts with nothing but its configuration source.
LEMMA InitOK == ASSUME Init PROVE Inv
<1>1. spans \in BOOLEAN /\ lost = {} /\ forced \in BOOLEAN
  BY Zenon DEF Init
<1>2. TypeOK
  BY <1>1, AppAssumption DEF Init, Idle, TypeOK, Working
<1>3. Stages /\ Configured /\ Unwound /\ ExitsCleanUp
  BY DEF Init, Stages, Configured, Unwound, ExitsCleanUp, Ending
<1>4. Company /\ Probes
  BY DEF Init, Idle, Company, Probes, Pinging, Working
<1> QED BY <1>2, <1>3, <1>4 DEF Inv

\* Every step of the process, and none, keeps the invariant.
LEMMA NextOK == ASSUME Inv, [Next]_vars PROVE Inv'
<1>1. CASE Main
  BY <1>1, LoadConfigOK, InitTracingOK, NewDatabaseOK, NewRedisOK, NewAppOK, RunOK,
     DrainedOK, DeferredOK, ExitOK DEF Main
<1>2. CASE Signal \/ ForceStop \/ AsyncDel \/ Export
  BY <1>2, SignalOK, ForceStopOK, AsyncDelOK, ExportOK
<1>3. ASSUME NEW h \in Handlers, Arrive(h) \/ Handle(h) PROVE Inv'
  BY <1>3, ArriveOK, WorkOK, LockPanicsOK, ProbeOK DEF Handle
<1>4. ASSUME NEW b \in Backends, Flip(b) PROVE Inv'
  BY <1>4, FlipOK
<1>5. CASE UNCHANGED vars
  BY <1>5 DEF vars, Inv, TypeOK, Stages, Configured, Unwound, Company, Probes, ExitsCleanUp
<1> QED BY <1>1, <1>2, <1>3, <1>4, <1>5 DEF Next

\* The inductive invariant holds throughout.
LEMMA Invariant == Spec => []Inv
<1>1. Init => Inv
  BY InitOK
<1>2. Inv /\ [Next]_vars => Inv'
  BY NextOK
<1> QED BY <1>1, <1>2, PTL DEF Spec

\* Everything main has keeps its type, and what is deferred is always what main
\* has got to, in the order of its defer statements.
THEOREM TypeCorrect == Spec => []TypeOK
<1>1. Inv => TypeOK
  BY DEF Inv
<1> QED BY <1>1, Invariant, PTL

\* Nobody uses what cleanup has closed, but for handlers that a forced stop gave
\* up, for any number of handlers and of AsyncDel goroutines.
THEOREM NoUseAfterCloseAlways == Spec => []NoUseAfterClose
<1>1. Inv => NoUseAfterClose
  BY DEF Inv, Unwound, Company, NoUseAfterClose
<1> QED BY <1>1, Invariant, PTL

\* What is closed, exported and configured when the process ends follows from
\* how it ended.
THEOREM ExitsCleanUpAlways == Spec => []ExitsCleanUp
<1>1. Inv => ExitsCleanUp
  BY DEF Inv
<1> QED BY <1>1, Invariant, PTL

\* A probe answers 200 only when every configured backend was up at some time
\* while it ran, for any number of probes and however the backends come and go.
THEOREM ReadyMeansUpAlways == Spec => []ReadyMeansUp
<1>1. Inv => ReadyMeansUp
  BY DEF Inv, Probes, ReadyMeansUp
<1> QED BY <1>1, Invariant, PTL
=============================================================================
