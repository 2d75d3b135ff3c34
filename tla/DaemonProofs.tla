----------------------------- MODULE DaemonProofs -----------------------------
(***************************************************************************)
(* Proofs about Daemon, for every number of tasks, descriptors and ports.  *)
(***************************************************************************)
EXTENDS Daemon, TLAPS

\* Where the main thread is about to test the flag of a signal, or is past caring.
Ahead(sig) == {"accepted", "shutdown", "stopped"}
              \cup (IF sig = "SIGHUP" THEN {"accepted_reload"} ELSE {})

\* The strengthening of NoMissedSignal: a raised flag that is nobody's business
\* any more has a connection in the backlog, or a test ahead of the next accept.
SignalCore ==
  \A sig \in required :
    sig \in handling \cup lost \/ backlog > 0 \/ main \in Ahead(sig)

\* The strengthening of DescriptorsOwned: the main thread holds no descriptor
\* when it calls socketAccept, and a task that is not there holds none.
FdCore ==
  /\ DescriptorsOwned
  /\ cfd # None => cfd \in open
  /\ main \in {"init", "top", "top_reload", "accept"} => cfd = None
  /\ main \in {"reload_free", "reload_assign"} /\ after = "accept" => cfd = None
  /\ \A t \in Task : task[t] = "none" => csp[t] = None

-----------------------------------------------------------------------------
\* The initial states are well typed.
LEMMA InitType == Init => TypeOK
<1> SUFFICES ASSUME Init PROVE TypeOK
  OBVIOUS
<1>1. /\ task \in [Task -> {"none", "read", "verb", "closing", "end"}]
      /\ csp \in [Task -> Fd \cup {None}]
  BY DEF Init
<1>2. backlog \in 0..MaxBacklog
  BY DaemonAssumption DEF Init
<1> QED
  BY <1>1, <1>2 DEF Init, TypeOK, MainLabels

\* Every step of the daemon keeps the types.
LEMMA TypeStep == ASSUME TypeOK, [Next]_vars PROVE TypeOK'
<1> USE DaemonAssumption DEF TypeOK, MainLabels, Signals
<1>1. CASE UNCHANGED vars
  BY <1>1 DEF vars, config, tasks
<1>2. CASE clientConnects
  BY <1>2 DEF clientConnects, config, tasks
<1>3. CASE startup
  BY <1>3 DEF startup, MainOnly, config, tasks
<1>4. CASE testShutdown
  BY <1>4 DEF testShutdown, MainOnly, config, tasks
<1>5. CASE testReload
  BY <1>5 DEF testReload, reloadIfRequired, MainOnly, reloadConfig, config,
     tasks
<1>6. CASE deleteConfig
  BY <1>6 DEF deleteConfig, MainOnly, config, tasks
<1>7. CASE assignConfig
  BY <1>7 DEF assignConfig, config, tasks
<1>8. CASE socketAccept
  BY <1>8 DEF socketAccept, config, tasks
<1>9. CASE dispatch
  BY <1>9 DEF dispatch, config, tasks
<1>10. CASE shutdown
  BY <1>10 DEF shutdown, MainOnly, config, tasks
<1>11. ASSUME NEW sig \in Signals, smsSignal(sig) PROVE TypeOK'
  BY <1>11 DEF smsSignal, config, tasks
<1>12. ASSUME NEW sig \in Signals, wakeUp(sig) PROVE TypeOK'
  <2>1. \/ backlog < MaxBacklog /\ backlog' = backlog + 1 /\ lost' = lost
        \/ backlog' = backlog /\ lost' = lost \cup {sig}
    BY <1>12 DEF wakeUp
  <2>2. backlog' \in 0..MaxBacklog
    BY <2>1
  <2>3. lost' \subseteq Signals
    <3>1. CASE lost' = lost
      BY <3>1
    <3>2. CASE lost' = lost \cup {sig}
      BY <3>2
    <3> QED
      BY <2>1, <3>1, <3>2
  <2> QED
    BY <1>12, <2>2, <2>3 DEF wakeUp, config, tasks
<1>13. ASSUME NEW t \in Task, serve(t) PROVE TypeOK'
  BY <1>13 DEF serve, Quiet, config, tasks
<1>14. ASSUME NEW t \in Task, sms_close_user_socket(t) PROVE TypeOK'
  BY <1>14 DEF sms_close_user_socket, Quiet, config, tasks
<1>15. ASSUME NEW t \in Task, CheckVerb(t) PROVE TypeOK'
  BY <1>15 DEF CheckVerb, Quiet, config, tasks
<1>16. ASSUME NEW t \in Task, serveEnds(t) PROVE TypeOK'
  BY <1>16 DEF serveEnds, Quiet, config, tasks
<1>17. ASSUME NEW t \in Task, resetCfd(t) PROVE TypeOK'
  BY <1>17 DEF resetCfd, Quiet, config, tasks
<1> HIDE DEF TypeOK, MainLabels, Signals
<1> QED
  BY <1>1, <1>2, <1>3, <1>4, <1>5, <1>6, <1>7, <1>8, <1>9, <1>10, <1>11,
     <1>12, <1>13, <1>14, <1>15, <1>16, <1>17 DEF Next, MainStep, TaskStep

\* Every step keeps SignalCore.
LEMMA SignalStep == ASSUME TypeOK, SignalCore, [Next]_vars PROVE SignalCore'
<1> USE DaemonAssumption DEF TypeOK, SignalCore, Ahead, Signals
<1>1. CASE UNCHANGED vars
  BY <1>1 DEF vars, config, tasks
<1>2. CASE clientConnects
  BY <1>2 DEF clientConnects, config, tasks
<1>3. CASE startup
  BY <1>3 DEF startup, MainOnly, config, tasks
<1>4. CASE testShutdown
  BY <1>4 DEF testShutdown, MainOnly, config, tasks
<1>5. CASE testReload
  <2>1. CASE "SIGHUP" \in required
    <3>1. required' = required \ {"SIGHUP"} /\ main' \in {"stopped", "reload_free"}
      BY <1>5, <2>1 DEF testReload, reloadIfRequired, reloadConfig
    <3>2. UNCHANGED <<handling, lost, backlog>> /\ main \in {"top_reload", "accepted_reload"}
      BY <1>5, <2>1 DEF testReload, reloadIfRequired, reloadConfig
    <3> QED
      BY <3>1, <3>2
  <2>2. CASE "SIGHUP" \notin required
    <3>1. main \in {"top_reload", "accepted_reload"}
          /\ UNCHANGED <<required, handling, lost, backlog>>
      BY <1>5, <2>2 DEF testReload, reloadIfRequired, MainOnly
    <3> QED
      BY <2>2, <3>1
  <2> QED
    BY <2>1, <2>2
<1>6. CASE deleteConfig
  BY <1>6 DEF deleteConfig, MainOnly, config, tasks
<1>7. CASE assignConfig
  BY <1>7 DEF assignConfig, config, tasks
<1>8. CASE socketAccept
  BY <1>8 DEF socketAccept, config, tasks
<1>9. CASE dispatch
  BY <1>9 DEF dispatch, config, tasks
<1>10. CASE shutdown
  BY <1>10 DEF shutdown, MainOnly, config, tasks
<1>11. ASSUME NEW sig \in Signals, smsSignal(sig) PROVE SignalCore'
  BY <1>11 DEF smsSignal, config, tasks
<1>12. ASSUME NEW sig \in Signals, wakeUp(sig) PROVE SignalCore'
  BY <1>12 DEF wakeUp, PortRead, config, tasks
<1>13. ASSUME NEW t \in Task, serve(t) PROVE SignalCore'
  BY <1>13 DEF serve, Quiet, config, tasks
<1>14. ASSUME NEW t \in Task, sms_close_user_socket(t) PROVE SignalCore'
  BY <1>14 DEF sms_close_user_socket, Quiet, config, tasks
<1>15. ASSUME NEW t \in Task, CheckVerb(t) PROVE SignalCore'
  BY <1>15 DEF CheckVerb, Quiet, config, tasks
<1>16. ASSUME NEW t \in Task, serveEnds(t) PROVE SignalCore'
  BY <1>16 DEF serveEnds, Quiet, config, tasks
<1>17. ASSUME NEW t \in Task, resetCfd(t) PROVE SignalCore'
  BY <1>17 DEF resetCfd, Quiet, config, tasks
<1> HIDE DEF TypeOK, SignalCore, Ahead, Signals
<1> QED
  BY <1>1, <1>2, <1>3, <1>4, <1>5, <1>6, <1>7, <1>8, <1>9, <1>10, <1>11,
     <1>12, <1>13, <1>14, <1>15, <1>16, <1>17 DEF Next, MainStep, TaskStep

\* Every step keeps FdCore.
LEMMA FdStep == ASSUME TypeOK, FdCore, [Next]_vars PROVE FdCore'
<1> USE DaemonAssumption DEF TypeOK, FdCore, DescriptorsOwned, Owns
<1>1. CASE UNCHANGED vars
  BY <1>1 DEF vars, config, tasks
<1>2. CASE clientConnects
  BY <1>2 DEF clientConnects, config, tasks
<1>3. CASE startup
  BY <1>3 DEF startup, MainOnly, config, tasks
<1>4. CASE testShutdown
  BY <1>4 DEF testShutdown, MainOnly, config, tasks
<1>5. CASE testReload
  BY <1>5 DEF testReload, reloadIfRequired, MainOnly, reloadConfig, config,
     tasks
<1>6. CASE deleteConfig
  BY <1>6 DEF deleteConfig, MainOnly, config, tasks
<1>7. CASE assignConfig
  BY <1>7 DEF assignConfig, config, tasks
<1>8. CASE socketAccept
  BY <1>8 DEF socketAccept, config, tasks
<1>9. CASE dispatch
  BY <1>9 DEF dispatch, config, tasks
<1>10. CASE shutdown
  BY <1>10 DEF shutdown, MainOnly, config, tasks
<1>11. ASSUME NEW sig \in Signals, smsSignal(sig) PROVE FdCore'
  BY <1>11 DEF smsSignal, config, tasks
<1>12. ASSUME NEW sig \in Signals, wakeUp(sig) PROVE FdCore'
  BY <1>12 DEF wakeUp, PortRead, config, tasks
<1>13. ASSUME NEW t \in Task, serve(t) PROVE FdCore'
  BY <1>13 DEF serve, Quiet, config, tasks
<1>14. ASSUME NEW t \in Task, sms_close_user_socket(t) PROVE FdCore'
  BY <1>14 DEF sms_close_user_socket, Quiet, config, tasks
<1>15. ASSUME NEW t \in Task, CheckVerb(t) PROVE FdCore'
  BY <1>15 DEF CheckVerb, Quiet, config, tasks
<1>16. ASSUME NEW t \in Task, serveEnds(t) PROVE FdCore'
  BY <1>16 DEF serveEnds, Quiet, config, tasks
<1>17. ASSUME NEW t \in Task, resetCfd(t) PROVE FdCore'
  BY <1>17 DEF resetCfd, Quiet, config, tasks
<1> HIDE DEF TypeOK, FdCore, DescriptorsOwned, Owns
<1> QED
  BY <1>1, <1>2, <1>3, <1>4, <1>5, <1>6, <1>7, <1>8, <1>9, <1>10, <1>11,
     <1>12, <1>13, <1>14, <1>15, <1>16, <1>17 DEF Next, MainStep, TaskStep

-----------------------------------------------------------------------------
\* The labels, flags, ports and descriptors of smsd keep their types; in
\* particular the backlog stays within its bound.
THEOREM TypeCorrect == Spec => []TypeOK
<1>1. TypeOK /\ [Next]_vars => TypeOK'
  BY TypeStep
<1> QED
  BY InitType, <1>1, PTL DEF Spec

\* Testing the flags, sleeping in socketAccept and being woken by a connection
\* from smsSignal misses no signal: whatever the interleaving of handlers,
\* clients and reloads, only a wake-up sent to another port can be lost.
THEOREM SignalsAreNotMissed == Spec => []NoMissedSignal
<1>1. Init => TypeOK /\ SignalCore
  BY InitType DEF Init, SignalCore
<1>2. TypeOK /\ SignalCore /\ [Next]_vars => (TypeOK /\ SignalCore)'
  BY TypeStep, SignalStep
<1>3. TypeOK /\ SignalCore => NoMissedSignal
  BY DEF TypeOK, SignalCore, NoMissedSignal, Ahead, Signals
<1> QED
  BY <1>1, <1>2, <1>3, PTL DEF Spec

\* The accept loop, serve and sms_close_user_socket hand every descriptor from
\* one owner to the next and close it once.
THEOREM DescriptorsHaveOneOwner == Spec => []DescriptorsOwned
<1>1. Init => TypeOK /\ FdCore
  <2> SUFFICES ASSUME Init PROVE FdCore
    BY InitType
  <2> QED
    BY DEF Init, FdCore, DescriptorsOwned, Owns
<1>2. TypeOK /\ FdCore /\ [Next]_vars => (TypeOK /\ FdCore)'
  BY TypeStep, FdStep
<1>3. FdCore => DescriptorsOwned
  BY DEF FdCore
<1> QED
  BY <1>1, <1>2, <1>3, PTL DEF Spec
=============================================================================
