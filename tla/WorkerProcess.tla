---------------------------- MODULE WorkerProcess ----------------------------
(***************************************************************************)
(* The process around a BrokerWorker: who builds the manager, calls run()  *)
(* and stop(), and drives the event loop.  A host is                       *)
(*   "console"   the worker command of the command line,                   *)
(*   "setup"     FastAPI with setup_aiotasks(),                            *)
(*   "lifespan"  FastAPI with aiotasks_lifespan(),                         *)
(*   "program"   a program of its own, with a manager or with AioTasks.    *)
(*                                                                         *)
(* stop() wants a loop that does not run, but over Redis, and over AMQP    *)
(* once connected, it begins with create_task(), which wants one that      *)
(* does: it always raises there, before it has done anything, or at its    *)
(* end.  The manager is assumed to be built on the loop that serves it.    *)
(***************************************************************************)
EXTENDS BrokerWorker

CONSTANTS Hosts, Pools

VARIABLES
  host,
  proc,      \* where the process is
  executor,  \* the pool of threads or processes
  links,     \* connections or sockets are open
  stopped    \* how stop() ended: "raised", "returned" or "never"

processVars == <<host, proc, executor, links, stopped>>

allVars == <<vars, processVars>>

Procs == {"fresh", "built", "serving", "left", "over", "ended"}

ProcessTypeOK ==
  /\ TypeOK
  /\ host \in {"console", "setup", "lifespan", "program"}
  /\ proc \in Procs
  /\ executor \in {"none", "up", "down"}
  /\ links \in BOOLEAN
  /\ stopped \in {"never", "raised", "returned"}

(* A manager class of one's own needs a program of one's own. *)
ProcessInit ==
  /\ Init
  /\ host \in Hosts
  /\ ~mixed => host = "program"
  /\ proc = "fresh"
  /\ executor = "none"
  /\ links = FALSE
  /\ stopped = "never"

-----------------------------------------------------------------------------
(* _create_executor() *)
NewExecutor(pool) == IF pool \in {"thread", "process"} THEN "up" ELSE "none"

(* The two halves of ZMQBackend bind the same address when the DSN names a *)
(* port, and the second bind raises.                                       *)
Binds(port) == ~(backend = "zmq" /\ port)

(* A backend initialises its two halves one after the other; only the      *)
(* delayed half makes a pool, and only ZeroMQ opens anything.              *)
Construct(pool) ==
  /\ proc' = "built"
  /\ executor' = NewExecutor(pool)
  /\ links' = (backend = "zmq")

GivesUp == proc' = "ended" /\ UNCHANGED <<executor, links>>

(* build_manager(): a scheme it does not know raises; a pool that it does  *)
(* not know is "async".                                                    *)
BuildManager(known, port, pool) ==
  /\ proc = "fresh"
  /\ IF known /\ Binds(port) THEN Construct(pool) ELSE GivesUp
  /\ UNCHANGED <<vars, host, stopped>>

(* AioTasks.__init__: a manager of build_manager()'s and a result backend, *)
(* whose scheme may be one that build_result_backend() does not know.      *)
ApplicationBuilds(known, port, pool, stores) ==
  /\ host = "program"
  /\ mixed
  /\ IF stores THEN BuildManager(known, port, pool)
               ELSE proc = "fresh" /\ GivesUp /\ UNCHANGED <<vars, host, stopped>>

Moves(p) == proc' = p /\ UNCHANGED <<host, executor, links, stopped>>

(* find_manager(): the first public name of the module that is a manager,  *)
(* which an AioTasks application is not.                                   *)
FindManager(name) == name = "manager"

(* launch_aiotasks_worker_in_console(): run() before the loop runs, then   *)
(* blocking_wait() ...                                                     *)
ConsoleStarts(name) ==
  /\ host = "console"
  /\ proc = "built"
  /\ IF FindManager(name) THEN Run /\ Moves("serving")
                          ELSE UNCHANGED vars /\ Moves("over")

(* ... until Ctrl-C, or until the broker fails under it.  The worker       *)
(* command takes what stop() raises for a failed start.                    *)
ConsoleIsLeft ==
  /\ host = "console"
  /\ proc = "serving"
  /\ Moves("left")
  /\ UNCHANGED vars

(* setup_aiotasks(): run() at startup, unless auto_start is off. *)
SetupStarts ==
  /\ host = "setup"
  /\ proc = "built"
  /\ Run \/ UNCHANGED vars
  /\ Moves("serving")

(* aiotasks_lifespan() *)
LifespanStarts == host = "lifespan" /\ proc = "built" /\ Run /\ Moves("serving")

(* A program may call run() at any time, after stop() too, and enter and   *)
(* leave the loop.  AioTasks.run() is the manager's.                       *)
ProgramRuns ==
  /\ host = "program"
  /\ proc \in {"built", "serving", "left"}
  /\ Run
  /\ UNCHANGED processVars

ProgramEnters ==
  host = "program" /\ proc \in {"built", "left"} /\ Moves("serving") /\ UNCHANGED vars

ProgramLeaves == host = "program" /\ proc = "serving" /\ Moves("left") /\ UNCHANGED vars

-----------------------------------------------------------------------------
ShutDown == executor' = IF executor = "up" THEN "down" ELSE executor

(* FastAPI and the console end with stop(); a program is out of the loop   *)
(* and may go on.                                                          *)
AfterStop == IF host = "program" THEN "left" ELSE "over"

(* stop() in a coroutine: FastAPI's shutdown, which suppresses what it     *)
(* raises, or a program's.  All tasks are cancelled, the caller's and      *)
(* those just created to close the connections too; run_until_complete()   *)
(* raises, but the task that stops the loop has been created.              *)
StopInside ==
  /\ proc = "serving"
  /\ host # "console"
  /\ StopDelayers
  /\ ShutDown
  /\ links' = (links /\ backend # "zmq")
  /\ stopped' = "raised"
  /\ proc' = AfterStop
  /\ UNCHANGED host

(* create_task() without a running loop. *)
RaisesAtOnce == backend = "redis" \/ (AMQP /\ links)

(* stop() after the loop was left: the console's `finally`, or a program:  *)
(* nothing at all is done ...                                              *)
StopRaises ==
  /\ proc = "left"
  /\ RaisesAtOnce
  /\ stopped' = "raised"
  /\ proc' = AfterStop
  /\ UNCHANGED <<vars, host, executor, links>>

(* ... or all of it.                                                       *)
StopReturns ==
  /\ proc = "left"
  /\ ~RaisesAtOnce
  /\ StopDelayers
  /\ ShutDown
  /\ links' = FALSE
  /\ stopped' = "returned"
  /\ proc' = AfterStop
  /\ UNCHANGED host

(* The process ends, or dies at any time.  The stop() that the backends    *)
(* register with atexit does nothing that would outlive the process.       *)
Exit ==
  /\ proc # "ended"
  /\ proc' = "ended"
  /\ executor' = "none"
  /\ links' = FALSE
  /\ UNCHANGED <<vars, host, stopped>>

StartAgain ==
  /\ proc = "ended"
  /\ Restart
  /\ proc' = "fresh"
  /\ stopped' = "never"
  /\ UNCHANGED <<host, executor, links>>

-----------------------------------------------------------------------------
(* The first that needs a connection opens it: the generator, or           *)
(* listen_topics, which run() starts together with listen_tasks.  The      *)
(* sockets of ZeroMQ were opened with the manager, and are not opened      *)
(* again.                                                                  *)
Connects ==
  /\ links' = \/ links
              \/ /\ backend # "zmq"
                 /\ reader' \notin {"off", "dialing", "gone"} \/ listener' = "dead"
  /\ UNCHANGED <<host, proc, executor, stopped>>

(* An executor that was shut down takes no function: each attempt raises,  *)
(* and the runner ends with a nack.                                        *)
Refuses == executor = "down" => ended' \subseteq ended \cup (Tasks \X {"failed"})

(* The PUSH socket of ZeroMQ is the manager's own. *)
Reached == backend = "zmq" => links

Alive == proc \in {"serving", "left"}

ProcessNext ==
  \/ \E known, port, stores \in BOOLEAN, pool \in Pools :
       \/ BuildManager(known, port, pool)
       \/ ApplicationBuilds(known, port, pool, stores)
  \/ \E name \in {"manager", "AioTasks", "_private"} : ConsoleStarts(name)
  \/ ConsoleIsLeft \/ SetupStarts \/ LifespanStarts
  \/ ProgramRuns \/ ProgramEnters \/ ProgramLeaves
  \/ StopInside \/ StopRaises \/ StopReturns \/ Exit \/ StartAgain
  \/ /\ proc = "serving"
     /\ LoopStep
     /\ Connects
     /\ Refuses
  \/ /\ Alive
     /\ \E t \in Tasks : Transport(t)
     /\ UNCHANGED processVars
  \/ /\ Reached
     /\ \E t \in Tasks : Send(t)
     /\ UNCHANGED processVars

ProcessSpec == ProcessInit /\ [][ProcessNext]_allVars

=============================================================================
