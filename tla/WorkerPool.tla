----------------------------- MODULE WorkerPool -----------------------------
(***************************************************************************)
(* The supervisor of the database worker processes,                        *)
(* crates/database-router/src/lib.rs (ProcessWorkerExecutor), and the      *)
(* frame loop of a worker, apps/database-worker/src/lib.rs (serve_frames). *)
(*                                                                         *)
(* A call takes a queue permit, finds or spawns the process of its route,  *)
(* waits for the process's mutex and exchanges one frame over its pipes.   *)
(* A process lives as long as the worker map or a call refers to it.  A    *)
(* call whose deadline passes drops the mutex wherever it is: the frame it *)
(* wrote and the frame it was reading, whole or in part, stay in the pipes.*)
(***************************************************************************)
EXTENDS Naturals, Sequences, FiniteSets

CONSTANTS
  Requests,       \* the calls of execute, each made once
  Route,          \* the route each of them carries: a database and a generation
  Processes,      \* bound on the processes ever spawned
  MaxWorkers,     \* max_workers
  QueueCapacity,  \* queue_capacity
  Deadlines,      \* whether deadlines may pass
  Torn            \* what is left of a frame whose call gave up in the middle of it

Routes == {Route[r] : r \in Requests}

ASSUME PoolAssumption ==
  /\ \A r \in Requests : Route[r] \in [database: {Route[q].database : q \in Requests},
                                       generation: Nat]
  /\ MaxWorkers \in Nat \ {0} /\ QueueCapacity \in Nat \ {0}
  /\ Deadlines \in BOOLEAN
  /\ Torn \notin Requests

VARIABLES
  call,      \* every call: where it is, its process, its outcome, and whether its
             \* deadline passed while it had the process (DeadlineExceeded)
  workers,   \* the worker map: the process of a route, or None
  process,   \* every process: its state and what is in its two pipes
  holder,    \* the call that holds the mutex of a process, or None
  unused     \* the processes whose entry was not used for WORKER_IDLE_TTL

poolVars == <<call, workers, process, holder, unused>>

None == [kind |-> "none"]
Some(x) == [kind |-> "some", it |-> x]
Option(S) == {None} \cup {Some(x) : x \in S}

Phase == {"new", "admitted", "waiting", "writing", "reading", "evicting", "answered", "failed"}
Call == [phase: Phase, process: Option(Processes), answer: Option(Requests \cup {Torn}),
         late: {0, 1}]
Process == [state: {"free", "running", "dead"}, route: Option(Routes),
            stdin: Seq(Requests \cup {Torn}),
            stdout: Seq([request: Requests \cup {Torn}, ok: BOOLEAN])]

-----------------------------------------------------------------------------
(* Permits, references and the map *)

InFlight == {r \in Requests : call[r].phase \notin {"new", "answered", "failed"}}

\* The calls that keep their reference to a process: from worker_for to the
\* end of execute, the eviction included.
Holders(calls, p) ==
  {r \in Requests : /\ calls[r].process = Some(p)
                    /\ calls[r].phase \in {"waiting", "writing", "reading", "evicting"}}

\* The processes the map refers to.  An entry's last_used goes with the entry.
Mapped(map) == {p \in Processes : \E route \in Routes : map[route] = Some(p)}

\* A dead process reads no more; what it has written can still be read.
Dead(worker) == [worker EXCEPT !.state = "dead", !.stdin = <<>>]

\* kill_on_drop: a process nobody refers to any more is killed.
Reaped(processes, calls, map) ==
  [p \in Processes |->
     IF /\ processes[p].state = "running"
        /\ Holders(calls, p) = {} /\ p \notin Mapped(map)
     THEN Dead(processes[p])
     ELSE processes[p]]

Resident == {p \in Processes : process[p].state = "running"}

-----------------------------------------------------------------------------
(* execute *)

PoolInit ==
  /\ call = [r \in Requests |-> [phase |-> "new", process |-> None, answer |-> None,
                             late |-> 0]]
  /\ workers = [route \in Routes |-> None]
  /\ process = [p \in Processes |-> [state |-> "free", route |-> None,
                                     stdin |-> <<>>, stdout |-> <<>>]]
  /\ holder = [p \in Processes |-> None]
  /\ unused = {}

\* try_acquire_owned: a call that finds no permit fails with QueueFull.
AcquirePermit(r) ==
  /\ call[r].phase = "new"
  /\ call' = [call EXCEPT ![r].phase =
                IF Cardinality(InFlight) < QueueCapacity THEN "admitted" ELSE "failed"]
  /\ UNCHANGED <<workers, process, holder, unused>>

\* The map after the idle processes left it.
Retained ==
  [route \in Routes |->
     IF \E p \in unused : workers[route] = Some(p) /\ Holders(call, p) = {}
     THEN None ELSE workers[route]]

\* The map after the other generations of a database left it as well.
Retired(database) ==
  [route \in Routes |-> IF route.database = database THEN None ELSE Retained[route]]

Registered(map) == {route \in Routes : map[route] # None}

\* A deadline that passed while the map was locked ends the call before it
\* waits, and evicts nothing.
AfterRouting == {"waiting"} \cup IF Deadlines THEN {"failed"} ELSE {}

\* worker_for, the map locked: the process of the route if it has one.
UseWorker(r) ==
  /\ call[r].phase = "admitted"
  /\ Retained[Route[r]] # None
  /\ \E phase \in AfterRouting :
       call' = [call EXCEPT ![r].phase = phase, ![r].process = Retained[Route[r]]]
  /\ workers' = Retained
  /\ unused' = {p \in unused \cap Mapped(workers') : Retained[Route[r]] # Some(p)}
  /\ process' = Reaped(process, call', workers')
  /\ UNCHANGED holder

\* Otherwise a new one, unless the map is full.
SpawnWorker(r) ==
  /\ call[r].phase = "admitted"
  /\ Retained[Route[r]] = None
  /\ Cardinality(Registered(Retired(Route[r].database))) < MaxWorkers
  /\ \E p \in Processes, phase \in AfterRouting :
       /\ process[p].state = "free"
       /\ call' = [call EXCEPT ![r].phase = phase, ![r].process = Some(p)]
       /\ workers' = [Retired(Route[r].database) EXCEPT ![Route[r]] = Some(p)]
       /\ process' = [Reaped(process, call', workers') EXCEPT
                        ![p].state = "running", ![p].route = Some(Route[r])]
  /\ unused' = unused \cap Mapped(workers')
  /\ UNCHANGED holder

\* A full map, or a process that cannot be spawned: the retired generations
\* are gone all the same.
RefuseWorker(r) ==
  /\ call[r].phase = "admitted"
  /\ Retained[Route[r]] = None
  /\ call' = [call EXCEPT ![r].phase = "failed"]
  /\ workers' = Retired(Route[r].database)
  /\ process' = Reaped(process, call', workers')
  /\ unused' = unused \cap Mapped(workers')
  /\ UNCHANGED holder

\* Mutant: the exchange starts without the mutex.
Lock_none(r) ==
  \E p \in Processes :
    /\ call[r].phase = "waiting" /\ call[r].process = Some(p)
    /\ call' = [call EXCEPT ![r].phase = "writing"]
    /\ holder' = [holder EXCEPT ![p] = Some(r)]
    /\ UNCHANGED <<workers, process, unused>>

Lock(r) ==
  \E p \in Processes :
    /\ call[r].phase = "waiting" /\ call[r].process = Some(p)
    /\ holder[p] = None
    /\ call' = [call EXCEPT ![r].phase = "writing"]
    /\ holder' = [holder EXCEPT ![p] = Some(r)]
    /\ UNCHANGED <<workers, process, unused>>

Write(r) ==
  \E p \in Processes :
    /\ call[r].phase = "writing" /\ call[r].process = Some(p)
    /\ process[p].state = "running"
    /\ call' = [call EXCEPT ![r].phase = "reading"]
    /\ process' = [process EXCEPT ![p].stdin = Append(@, r)]
    /\ UNCHANGED <<workers, holder, unused>>

\* Mutant: the frame that was read stays in the pipe.
Read_peeks(r) ==
  \E p \in Processes :
    /\ call[r].phase = "reading" /\ call[r].process = Some(p)
    /\ process[p].stdout # <<>>
    /\ LET frame == Head(process[p].stdout) IN
         call' = [call EXCEPT ![r].phase = IF frame.ok THEN "answered" ELSE "evicting",
                              ![r].answer = Some(frame.request)]
    /\ holder' = [holder EXCEPT ![p] = None]
    /\ process' = Reaped(process, call', workers)
    /\ UNCHANGED <<workers, unused>>

\* The call reads whatever frame comes next; an error evicts the worker.  The
\* rest of a torn frame is one: its bytes are no length, or no response, and
\* the next call may find more of them.
Read(r) ==
  \E p \in Processes :
    /\ call[r].phase = "reading" /\ call[r].process = Some(p)
    /\ process[p].stdout # <<>>
    /\ LET frame == Head(process[p].stdout) IN
         /\ call' = [call EXCEPT ![r].phase = IF frame.ok THEN "answered" ELSE "evicting",
                                 ![r].answer = Some(frame.request)]
         /\ \E left \in {Tail(process[p].stdout)} \cup
                         IF frame.request = Torn THEN {process[p].stdout} ELSE {} :
              process' = Reaped([process EXCEPT ![p].stdout = left], call', workers)
    /\ holder' = [holder EXCEPT ![p] = None]
    /\ UNCHANGED <<workers, unused>>

\* Mutant: the mutex outlives a call whose pipe broke.
PipeBreaks_keeps_mutex(r) ==
  \E p \in Processes :
    /\ call[r].phase \in {"writing", "reading"} /\ call[r].process = Some(p)
    /\ process[p].state = "dead"
    /\ call[r].phase = "writing" \/ process[p].stdout = <<>>
    /\ call' = [call EXCEPT ![r].phase = "evicting"]
    /\ UNCHANGED <<workers, process, holder, unused>>

\* A frame larger than MAX_WORKER_FRAME_BYTES is not written.
Oversized(r) ==
  \E p \in Processes :
    /\ call[r].phase = "writing" /\ call[r].process = Some(p)
    /\ call' = [call EXCEPT ![r].phase = "evicting"]
    /\ holder' = [holder EXCEPT ![p] = None]
    /\ UNCHANGED <<workers, process, unused>>

\* The other end of the pipe is gone.
PipeBreaks(r) ==
  \E p \in Processes :
    /\ call[r].phase \in {"writing", "reading"} /\ call[r].process = Some(p)
    /\ process[p].state = "dead"
    /\ call[r].phase = "writing" \/ process[p].stdout = <<>>
    /\ call' = [call EXCEPT ![r].phase = "evicting"]
    /\ holder' = [holder EXCEPT ![p] = None]
    /\ UNCHANGED <<workers, process, unused>>

\* The timeout drops the exchange: the mutex is free, a frame that was being
\* written or read is torn, one that was written will still be answered.
DeadlinePasses(r) ==
  /\ Deadlines
  /\ \E p \in Processes :
       /\ call[r].phase \in {"waiting", "writing", "reading"} /\ call[r].process = Some(p)
       /\ call' = [call EXCEPT ![r].phase = "evicting", ![r].late = 1]
       /\ holder' = [holder EXCEPT ![p] = IF @ = Some(r) THEN None ELSE @]
       /\ \/ process' = process
          \/ /\ call[r].phase = "writing"
             /\ process' = [process EXCEPT ![p].stdin = Append(@, Torn)]
          \/ /\ call[r].phase = "reading" /\ process[p].stdout # <<>>
             /\ process' = [process EXCEPT
                              ![p].stdout[1] = [request |-> Torn, ok |-> FALSE]]
  /\ UNCHANGED <<workers, unused>>

\* Mutant: the route itself leaves the map.
Evict_drops_key(r) ==
  /\ call[r].phase = "evicting"
  /\ call' = [call EXCEPT ![r].phase = "failed"]
  /\ workers' = [route \in Routes \ {Route[r]} |-> workers[route]]
  /\ process' = process
  /\ unused' = unused
  /\ UNCHANGED holder

\* evict, by route: it removes the process the map has by now.
Evict(r) ==
  /\ call[r].phase = "evicting"
  /\ call' = [call EXCEPT ![r].phase = "failed"]
  /\ workers' = [workers EXCEPT ![Route[r]] = None]
  /\ process' = Reaped(process, call', workers')
  /\ unused' = unused \cap Mapped(workers')
  /\ UNCHANGED holder

-----------------------------------------------------------------------------
(* serve_frames *)

\* A worker answers its frames one after another, in order.
Serve(p) ==
  /\ process[p].state = "running"
  /\ process[p].stdin # <<>> /\ Head(process[p].stdin) # Torn
  /\ \E ok \in BOOLEAN :
       process' = [process EXCEPT ![p].stdin = Tail(@),
                                  ![p].stdout = Append(@, [request |-> Head(process[p].stdin),
                                                           ok |-> ok])]
  /\ UNCHANGED <<call, workers, holder, unused>>

\* What follows a torn frame is read as the rest of it and cannot be decoded:
\* serve_frames returns and the worker exits.
Misread(p) ==
  /\ process[p].state = "running"
  /\ Len(process[p].stdin) > 1 /\ Head(process[p].stdin) = Torn
  /\ process' = [process EXCEPT ![p] = Dead(@)]
  /\ UNCHANGED <<call, workers, holder, unused>>

Die(p) ==
  /\ process[p].state = "running"
  /\ process' = [process EXCEPT ![p] = Dead(@)]
  /\ UNCHANGED <<call, workers, holder, unused>>

\* WORKER_IDLE_TTL passes since the last call that used the process.
IdleTtlPasses(p) ==
  /\ p \in Mapped(workers) \ unused
  /\ unused' = unused \cup {p}
  /\ UNCHANGED <<call, workers, process, holder>>

CallNext(r) ==
  \/ AcquirePermit(r) \/ UseWorker(r) \/ SpawnWorker(r) \/ RefuseWorker(r)
  \/ Lock(r) \/ Write(r) \/ Oversized(r) \/ Read(r) \/ PipeBreaks(r) \/ Evict(r)

PoolNext ==
  \/ \E r \in Requests : CallNext(r) \/ DeadlinePasses(r)
  \/ \E p \in Processes : Serve(p) \/ Misread(p) \/ Die(p) \/ IdleTtlPasses(p)

PoolSpec == PoolInit /\ [][PoolNext]_poolVars

\* The runtime polls every ready call, tokio's mutex is granted in the order
\* of its queue and a running worker works through its pipe; nothing promises
\* that a deadline passes or a worker dies.
FairPoolSpec ==
  /\ PoolSpec
  /\ \A r \in Requests : WF_poolVars(CallNext(r)) /\ SF_poolVars(Lock(r))
  /\ \A p \in Processes : WF_poolVars(Serve(p))

-----------------------------------------------------------------------------
(* Properties *)

\* The state of the calls, the map and the processes has its declared shape.
PoolTypeOK ==
  /\ call \in [Requests -> Call]
  /\ workers \in [Routes -> Option(Processes)]
  /\ DOMAIN process = Processes
  /\ \A p \in Processes : /\ process[p].state \in {"free", "running", "dead"}
                          /\ process[p].route \in Option(Routes)
  /\ holder \in [Processes -> Option(Requests)]
  /\ unused \subseteq Processes

\* execute returns what the worker answered to this request, never the answer
\* to another one (exchange reads the next frame of the shared pipe and does
\* not compare request ids).
AnswersMatch ==
  \A r \in Requests : call[r].phase = "answered" => call[r].answer = Some(r)

\* No answer is returned by two calls, however calls, deadlines, crashes and
\* evictions interleave (read_exact consumes the frame it returns).
AnswersDistinct ==
  \A r, q \in Requests :
    /\ r # q /\ call[r].phase = "answered" /\ call[q].phase = "answered"
    => call[r].answer # call[q].answer

\* A call gets the answer to another request only after some call gave up on
\* the same process, and no answer is returned twice, whatever deadlines pass,
\* frames are torn, workers die and are evicted (exchange reads the next frame
\* of the shared pipe and compares no request id).
AnswersSound ==
  /\ PoolTypeOK
  /\ \A r \in Requests : call[r].phase = "answered" /\ call[r].answer # Some(r) =>
       \E q \in Requests \ {r} : call[q].late = 1 /\ call[q].process = call[r].process
  /\ AnswersDistinct

\* A database generation has one worker process (the worker map is keyed by
\* it, but a process that left the map lives on with the calls that hold it).
OneProcess ==
  \A p, q \in Resident : process[p].route = process[q].route => p = q

\* At most max_workers worker processes are resident.
ResidentBounded == Cardinality(Resident) <= MaxWorkers

\* Every call of execute comes back without the help of its deadline: no
\* mutex, permit or pipe is waited for in vain, whatever dies or is evicted
\* meanwhile.
CallsReturn ==
  \A r \in Requests : call[r].phase = "admitted" ~> call[r].phase \in {"answered", "failed"}
=============================================================================
