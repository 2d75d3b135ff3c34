-------------------------------- MODULE Daemon --------------------------------
(***************************************************************************)
(* The life of smsd: start, the accept loop, reload on SIGHUP, shutdown on *)
(* SIGINT, and the serve tasks with the client descriptors they own.       *)
(*                                                                         *)
(* The main thread tests the two flags, blocks in socketAccept and tests   *)
(* them again.  The signal handlers are installed with SA_RESTART and      *)
(* socketAccept retries on EINTR, so a signal by itself does not end the   *)
(* accept: smsSignal raises its flag and connects to the daemon's own port *)
(* to wake the main thread up.  The handler interrupts the main thread, or *)
(* runs in any other, between any two steps.                               *)
(***************************************************************************)
EXTENDS Naturals, FiniteSets

CONSTANTS Task,        \* the tasks the scheduler may hold at a time
          Fd,          \* the descriptors of client connections
          None,        \* -1, no descriptor
          Port,        \* the ports a configuration may name
          MaxBacklog   \* connections waiting on the listening socket

ASSUME DaemonAssumption ==
  None \notin Fd /\ MaxBacklog \in Nat \ {0} /\ Port # {}

VARIABLES
  main,      \* label of the main thread
  after,     \* the label reloadConfig returns to
  required,  \* the raised flags: SIGINT for shutdownRequired, SIGHUP for reloadRequired
  handling,  \* the signals whose handler has raised its flag and not yet connected
  lost,      \* the signals whose last wake-up did not reach the listening socket
  bound,     \* the port bfd is bound to
  port,      \* currentConfig->port
  newport,   \* config->port of the configuration being loaded
  backlog,   \* number of connections waiting to be accepted
  open,      \* the open descriptors
  cfd,       \* the descriptor just accepted
  task,      \* [Task -> label of the serve task]
  csp        \* [Task -> csp->cfd]

vars == <<main, after, required, handling, lost, bound, port, newport, backlog,
          open, cfd, task, csp>>
config == <<bound, port, newport>>
tasks == <<task, csp>>

Signals == {"SIGINT", "SIGHUP"}
MainLabels == {"init", "top", "top_reload", "accept", "accepted", "accepted_reload",
               "reload_free", "reload_assign", "dispatch", "shutdown", "stopped"}

TypeOK ==
  /\ main \in MainLabels
  /\ after \in {"accept", "dispatch"}
  /\ required \subseteq Signals
  /\ handling \subseteq Signals
  /\ lost \subseteq Signals
  /\ bound \in Port /\ port \in Port /\ newport \in Port
  /\ backlog \in 0..MaxBacklog
  /\ open \subseteq Fd
  /\ cfd \in Fd \cup {None}
  /\ task \in [Task -> {"none", "read", "verb", "closing", "end"}]
  /\ csp \in [Task -> Fd \cup {None}]

\* The socket is bound and the handlers are installed before the fork.
Init ==
  /\ main = "init" /\ after = "accept"
  /\ required = {} /\ handling = {} /\ lost = {}
  /\ bound \in Port /\ port = bound /\ newport = bound
  /\ backlog = 0 /\ open = {} /\ cfd = None
  /\ task = [t \in Task |-> "none"]
  /\ csp = [t \in Task |-> None]

-----------------------------------------------------------------------------
(***************************************************************************)
(* Clients and signals.                                                    *)
(***************************************************************************)
clientConnects ==
  /\ main # "stopped"
  /\ backlog < MaxBacklog
  /\ backlog' = backlog + 1
  /\ UNCHANGED <<main, after, required, handling, lost, config, open, cfd, tasks>>

\* smsSignal, first half: the flag.  A signal is blocked while its handler runs.
smsSignal(sig) ==
  /\ main # "stopped"
  /\ sig \notin handling
  /\ required' = required \cup {sig}
  /\ handling' = handling \cup {sig}
  /\ lost' = lost \ {sig}
  /\ UNCHANGED <<main, after, config, backlog, open, cfd, tasks>>

\* What the handler can read in currentConfig->port: anything, if it runs between
\* deleteConfig and the assignment that follows it.
PortRead == IF main = "reload_assign" THEN Port ELSE {port}

\* Mutant: the wake-up is dropped silently although the port is the right one.
Mut_wakeUp(sig) ==
  /\ main # "stopped"
  /\ sig \in handling
  /\ handling' = handling \ {sig}
  /\ UNCHANGED <<main, after, required, lost, config, backlog, open, cfd, tasks>>

\* smsSignal, second half: socketConnect("127.0.0.1", currentConfig->port).
\* Without a listener on that port it fails and the handler returns.  A full
\* backlog delays it.
wakeUp(sig) ==
  /\ main # "stopped"
  /\ sig \in handling
  /\ handling' = handling \ {sig}
  /\ \E p \in PortRead :
       \/ p = bound /\ backlog < MaxBacklog /\ backlog' = backlog + 1 /\ lost' = lost
       \/ p # bound /\ backlog' = backlog /\ lost' = lost \cup {sig}
  /\ UNCHANGED <<main, after, required, config, open, cfd, tasks>>

-----------------------------------------------------------------------------
(***************************************************************************)
(* The main thread.                                                        *)
(***************************************************************************)
MainOnly(next) ==
  /\ main' = next
  /\ UNCHANGED <<after, required, handling, lost, config, backlog, open, cfd, tasks>>

\* InitDBSqlCtx, resetBdFlag and the start of the periodic tasks: exit(-1) if
\* one of them fails.
startup == main = "init" /\ (MainOnly("top") \/ MainOnly("stopped"))

testShutdown ==
  \/ main = "top" /\ MainOnly(IF "SIGINT" \in required THEN "shutdown" ELSE "top_reload")
  \/ main = "accepted" /\ MainOnly(IF "SIGINT" \in required THEN "shutdown" ELSE "accepted_reload")

\* reloadConfig: the flag is cleared, then createConfig reads the file; if it
\* fails the daemon exits.  main parses a port in the bind address, reloadConfig
\* does not: the port of the new configuration may be any.
reloadConfig(next) ==
  /\ required' = required \ {"SIGHUP"}
  /\ after' = next
  /\ \/ main' = "stopped" /\ UNCHANGED newport
     \/ main' = "reload_free" /\ newport' \in Port
  /\ UNCHANGED <<handling, lost, bound, port, backlog, open, cfd, tasks>>

reloadIfRequired(next) ==
  IF "SIGHUP" \in required THEN reloadConfig(next) ELSE MainOnly(next)

testReload ==
  \/ main = "top_reload" /\ reloadIfRequired("accept")
  \/ main = "accepted_reload" /\ reloadIfRequired("dispatch")

deleteConfig == main = "reload_free" /\ MainOnly("reload_assign")

\* currentConfig = config; the listening socket stays where it is.
assignConfig ==
  /\ main = "reload_assign"
  /\ main' = after
  /\ port' = newport
  /\ UNCHANGED <<after, required, handling, lost, bound, newport, backlog, open, cfd, tasks>>

\* Mutant: the accept does not wait for a connection.
Mut_socketAccept ==
  /\ main = "accept"
  /\ main' = "accepted"
  /\ backlog' = backlog - 1
  /\ cfd' \in Fd \ open
  /\ open' = open \cup {cfd'}
  /\ UNCHANGED <<after, required, handling, lost, config, tasks>>

\* socketAccept.  It fails at once when there is no descriptor left.
socketAccept ==
  /\ main = "accept"
  /\ main' = "accepted"
  /\ \/ open = Fd /\ cfd' = None /\ UNCHANGED <<backlog, open>>
     \/ /\ backlog > 0
        /\ backlog' = backlog - 1
        /\ cfd' \in Fd \ open
        /\ open' = open \cup {cfd'}
  /\ UNCHANGED <<after, required, handling, lost, config, tasks>>

\* A serve task takes the descriptor over.  malloc or gpul_sched_new_prio_task may
\* fail, and the connection is closed; after a failed accept there is nothing to do.
dispatch ==
  /\ main = "dispatch"
  /\ main' = "top"
  /\ cfd' = None
  /\ \/ open' = open \ {cfd} /\ UNCHANGED tasks
     \/ \E t \in Task :
          /\ cfd # None /\ task[t] = "none"
          /\ task' = [task EXCEPT ![t] = "read"]
          /\ csp' = [csp EXCEPT ![t] = cfd]
          /\ UNCHANGED open
  /\ UNCHANGED <<after, required, handling, lost, config, backlog>>

\* gpul_sched_shutdown returns when no task runs any more; then main frees
\* everything and exits.
shutdown ==
  /\ main = "shutdown"
  /\ \A t \in Task : task[t] = "none"
  /\ MainOnly("stopped")

-----------------------------------------------------------------------------
(***************************************************************************)
(* serve.  The process that exits takes its tasks with it.                 *)
(***************************************************************************)
Quiet == UNCHANGED <<main, after, required, handling, lost, config, backlog, cfd>>

\* socketReadLine: a line, or an error, the end of the connection, the timeout.
serve(t) ==
  /\ main # "stopped" /\ task[t] = "read"
  /\ \E next \in {"verb", "end"} : task' = [task EXCEPT ![t] = next]
  /\ Quiet /\ UNCHANGED <<open, csp>>

\* An asynchronous verb closes the connection before its work is over: first
\* socketClose (a second call, on -1, changes nothing) ...
sms_close_user_socket(t) ==
  /\ main # "stopped" /\ task[t] = "verb" /\ csp[t] # None
  /\ open' = open \ {csp[t]}
  /\ task' = [task EXCEPT ![t] = "closing"]
  /\ Quiet /\ UNCHANGED csp

\* Mutant: the descriptor is not reset.
Mut_resetCfd(t) ==
  /\ main # "stopped" /\ task[t] = "closing"
  /\ task' = [task EXCEPT ![t] = "verb"]
  /\ Quiet /\ UNCHANGED <<open, csp>>

\* ... then csp->cfd = -1.  In between the number may be given to a new connection.
resetCfd(t) ==
  /\ main # "stopped" /\ task[t] = "closing"
  /\ csp' = [csp EXCEPT ![t] = None]
  /\ task' = [task EXCEPT ![t] = "verb"]
  /\ Quiet /\ UNCHANGED open

CheckVerb(t) ==
  /\ main # "stopped" /\ task[t] = "verb"
  /\ task' = [task EXCEPT ![t] = "end"]
  /\ Quiet /\ UNCHANGED <<open, csp>>

\* The end of serve: if csp->cfd is not -1 close it; free(csp).
serveEnds(t) ==
  /\ main # "stopped" /\ task[t] = "end"
  /\ open' = open \ {csp[t]}
  /\ csp' = [csp EXCEPT ![t] = None]
  /\ task' = [task EXCEPT ![t] = "none"]
  /\ Quiet

MainStep == startup \/ testShutdown \/ testReload \/ deleteConfig \/ assignConfig
            \/ socketAccept \/ dispatch \/ shutdown

TaskStep(t) == serve(t) \/ resetCfd(t) \/ CheckVerb(t) \/ serveEnds(t)

Next ==
  \/ clientConnects
  \/ MainStep
  \/ \E sig \in Signals : smsSignal(sig) \/ wakeUp(sig)
  \/ \E t \in Task : TaskStep(t) \/ sms_close_user_socket(t)

Spec == Init /\ [][Next]_vars

\* The main thread, the handlers and the tasks go on when they can.
FairSpec == /\ Spec
            /\ WF_vars(MainStep)
            /\ \A sig \in Signals : WF_vars(wakeUp(sig))
            /\ \A t \in Task : WF_vars(TaskStep(t))

-----------------------------------------------------------------------------
\* The test of the flags and the accept that follows it leave no gap: the main
\* thread never sleeps in socketAccept on a raised flag, unless the handler of
\* that signal is still on its way or its connection went to another port.
NoMissedSignal ==
  main = "accept" /\ backlog = 0 => required \subseteq handling \cup lost

\* A task has a connection; one that has just closed its own has not.
Owns(t, f) == f # None /\ csp[t] = f /\ task[t] # "closing"

\* Descriptors have one owner.  The descriptor of a task is open and no other
\* task's, nor the one the main thread has just accepted; an open descriptor
\* has an owner that will close it.  So a task never answers, reads or closes
\* somebody else's connection although the system reuses the numbers.
DescriptorsOwned ==
  /\ \A t \in Task, f \in Fd : Owns(t, f) => f \in open /\ f # cfd
  /\ \A t, u \in Task, f \in Fd : Owns(t, f) /\ Owns(u, f) => t = u
  /\ \A f \in open : f = cfd \/ \E t \in Task : Owns(t, f)

\* A shutdown whose wake-up was not lost comes to its end, whatever reloads and
\* clients come in between.
WokenShutdownCompletes ==
  ("SIGINT" \in required /\ "SIGINT" \notin lost)
    ~> (main = "stopped" \/ "SIGINT" \in lost)

\* What smsSignal's comment says of the wake-up: it makes the daemon leave
\* socketAccept and handle the signal, here of the signals none of which comes
\* while reloadConfig is replacing the configuration.
ShutdownHandled ==
  [](main \in {"reload_free", "reload_assign"} => handling = {})
    => ("SIGINT" \in required ~> main = "stopped")
=============================================================================
