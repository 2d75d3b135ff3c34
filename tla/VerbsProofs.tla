----------------------------- MODULE VerbsProofs -----------------------------
(***************************************************************************)
(* Proofs about the statistics of Verbs, for any number of threads and     *)
(* requests.  A counter is exact because two increments of it never        *)
(* overlap: CounterInv says that the one in progress holds the mutex of    *)
(* its handler and has read the current value.                             *)
(***************************************************************************)
EXTENDS Verbs, TLAPS

\* The statistics of a handler are those it was given.
LEMMA StatOfVerb ==
  /\ \A op, answ, st : Verb(op, answ, st).stat = st
  /\ \A op, answ, st, name : Name(Verb(op, answ, st), name).stat = st
  BY DEF Verb, Name

\* Handlers that only log, and handlers that send without counting, have none.
LEMMA StatOfConstructors ==
  /\ \A op : Logs(op).stat = NoStat
  /\ \A op, name : Name(Logs(op), name).stat = NoStat
  /\ \A op, name : Name([Logs(op) EXCEPT !.hasParams = FALSE], name).stat = NoStat
  /\ \A op : Sends(op).stat = NoStat
  /\ SendsWithoutParams.stat = NoStat
<1>1. \A op : Logs(op).stat = NoStat
  BY StatOfVerb DEF Logs
<1>2. \A op, name : Name(Logs(op), name).stat = NoStat
  BY StatOfVerb DEF Logs
<1>3. \A op, name : Name([Logs(op) EXCEPT !.hasParams = FALSE], name).stat = NoStat
  BY DEF Logs, Verb, Name
<1>4. \A op : Sends(op).stat = NoStat
  BY StatOfVerb DEF Sends
<1>5. SendsWithoutParams.stat = NoStat
  BY DEF SendsWithoutParams, Sends, Verb
<1> QED
  BY <1>1, <1>2, <1>3, <1>4, <1>5

\* Every entry of verbTab keeps one of the statistics above, or none.
LEMMA StatsOfVerbTab == \A v \in verbTab : v.stat \in Stats
<1>1. \A v \in CountedVerbs : v.stat \in Stats
  <2>1. doGetReport.stat = StatGetReport
    BY StatOfVerb DEF SendsAndCounts, doGetReport
  <2>2. doGetVPNReport.stat = StatGetVPNReport
    BY StatOfVerb DEF SendsAndCounts, doGetVPNReport
  <2>3. doGetRouterIp.stat = StatGetRouterIp
    BY StatOfVerb DEF SendsAndCounts, doGetRouterIp
  <2>4. doIpDown.stat = StatIpDown
    BY StatOfVerb DEF SendsAndCounts, doIpDown
  <2>5. doPppIpUp.stat = StatPppIpUp
    BY StatOfVerb DEF doPppIpUp
  <2>6. doSdIpUp.stat = StatPppIpUp
    BY StatOfVerb DEF doSdIpUp
  <2> QED
    BY <2>1, <2>2, <2>3, <2>4, <2>5, <2>6 DEF CountedVerbs, Stats
<1>2. \A v \in {
       doCustCmd, doProvisioning, doCheckProvisioning, doPing, doPushConfig,
       doStaging, doStagingMap, doRestoreConf, doGenTemplate, doBackupConf,
       doGetRunningConf, doGetConfig, doGetActivityReport, doUnarchiveConf,
       doGetArchiveConf, doCallCommand, doCheckSerial, do_SnmpGet, do_SnmpGetNext} : v.stat = NoStat
  BY StatOfConstructors
  DEF  doCustCmd, doProvisioning, doCheckProvisioning, doPing, doPushConfig,
       doStaging, doStagingMap, doRestoreConf, doGenTemplate, doBackupConf,
       doGetRunningConf, doGetConfig, doGetActivityReport, doUnarchiveConf,
       doGetArchiveConf, doCallCommand, doCheckSerial, do_SnmpGet, do_SnmpGetNext
<1>3. \A wrapper : doCmd(wrapper).stat = NoStat
  BY StatOfConstructors DEF doCmd
<1>4. \A v \in {
       doIsAlive, doStat, doPS, doListVerb, doReinitLogs, doGetSDConf,
       doCheckUpdate, doCheckAllUpdate, doCheckCmd, doCheckUpdateLicense,
       doCheckUpdateFirmware, doCheckBackup, doCheckSendDataFiles, doCheckRestore,
       doUnlockUpdate, doLockProvisioning, doUnLockProvisioning, doGetAsset,
       doForceAsset, doSetConfigMode, doSetLogLevel} : v.stat = NoStat
  BY StatOfConstructors DEF doIsAlive, doStat, doPS, doListVerb, doReinitLogs, doGetSDConf,
       doCheckUpdate, doCheckAllUpdate, doCheckCmd, doCheckUpdateLicense,
       doCheckUpdateFirmware, doCheckBackup, doCheckSendDataFiles, doCheckRestore,
       doUnlockUpdate, doLockProvisioning, doUnLockProvisioning, doGetAsset,
       doForceAsset, doSetConfigMode, doSetLogLevel
<1>5. \A v \in {
       doImmediateSaveConf, doJsSmsexec, doJsSmsexecn, doJsSmsAddonExec,
       js_exec_script, doUpdateConfig, doResolveTemplate, doResolve,
       doUpdateLicense, doUpdateFirmware, doHaSwap, doSendDataFiles} : v.stat = NoStat
  BY StatOfConstructors, StatOfVerb
  DEF  doImmediateSaveConf, doJsSmsexec, doJsSmsexecn, doJsSmsAddonExec,
       js_exec_script, doUpdateConfig, doResolveTemplate, doResolve,
       doUpdateLicense, doUpdateFirmware, doHaSwap, doSendDataFiles
<1>6. doSnmpTest.stat = NoStat
  BY DEF doSnmpTest, Logs, Verb
<1>7. NoStat \in Stats
  BY DEF Stats
<1> QED
  BY <1>1, <1>2, <1>3, <1>4, <1>5, <1>6, <1>7 DEF verbTab

-----------------------------------------------------------------------------
Counting == Stats \ {NoStat}
Shared == "totalerrorgetreport"

\* What is known of the statistics of two handlers: they have their own mutex
\* and counters, and a counter they share, but for totalerrorgetreport, is
\* protected by one mutex.
LEMMA StatFacts ==
  /\ \A s \in Counting : s.lock \in Locks /\ s.total \in Counters /\ s.error \in Counters
  /\ \A s \in Counting : s.total # Shared
  /\ \A s, t \in Counting : s.total = t.total => s.lock = t.lock
  /\ \A s, t \in Counting : s.error = t.error /\ s.error # Shared => s.lock = t.lock
  /\ \A s, t \in Counting : s.total # t.error
  /\ NoStat.errors = {}
<1>1. \A s \in Counting : s.lock \in Locks /\ s.total \in Counters /\ s.error \in Counters
  BY DEF Counting, Locks, Counters
<1> DEFINE StatSet == {StatGetReport, StatGetVPNReport, StatPppIpUp, StatIpDown, StatGetRouterIp}
<1>2. Counting \subseteq StatSet
  BY DEF Counting, Stats
<1>3. \A s \in StatSet : s.total # Shared
  BY DEF Shared, Counted, StatGetReport, StatGetVPNReport, StatPppIpUp, StatIpDown, StatGetRouterIp
<1>4. \A s, t \in StatSet : s.total = t.total => s.lock = t.lock
  BY DEF Counted, StatGetReport, StatGetVPNReport, StatPppIpUp, StatIpDown, StatGetRouterIp
<1>5. \A s, t \in StatSet : s.error = t.error /\ s.error # Shared => s.lock = t.lock
  BY DEF Shared, Counted, StatGetReport, StatGetVPNReport, StatPppIpUp, StatIpDown, StatGetRouterIp
<1>6. \A s, t \in StatSet : s.total # t.error
  BY DEF Counted, StatGetReport, StatGetVPNReport, StatPppIpUp, StatIpDown, StatGetRouterIp
<1>7. NoStat.errors = {}
  BY DEF NoStat, Counted
<1> HIDE DEF StatSet
<1> QED
  BY <1>1, <1>2, <1>3, <1>4, <1>5, <1>6, <1>7

StatTypes ==
  /\ pc \in [Worker -> Labels]
  /\ va \in [Worker -> verbTab \cup {NULL}]
  /\ mutex \in [Locks -> Worker \cup {NULL}]
  /\ read \in [Worker -> Nat]
  /\ currentStat \in [Counters -> Nat]
  /\ counted \in [Counters -> Nat]

\* A thread about to run its operation knows its handler; one that counts has a
\* handler that keeps statistics.
StatKnown ==
  \A w \in Worker :
    /\ pc[w] = "run" => va[w].stat \in Stats
    /\ pc[w] \in {"total", "total_store", "error", "error_store"} => va[w].stat \in Counting

\* An increment in progress holds the mutex and has read the current value.
IncrementExclusive ==
  \A w \in Worker :
    /\ pc[w] \in {"total_store", "error_store"} => mutex[va[w].stat.lock] = w
    /\ pc[w] = "total_store" => read[w] = currentStat[va[w].stat.total]
    /\ pc[w] = "error_store" /\ va[w].stat.error # Shared =>
         read[w] = currentStat[va[w].stat.error]

CounterInv == StatTypes /\ StatKnown /\ IncrementExclusive /\ CountersExact

\* A step that leaves the statistics alone and moves only w, to a label where it
\* does not store a counter, keeps CounterInv.
LEMMA OtherStepKeeps ==
  ASSUME CounterInv, NEW w \in Worker, NEW next \in Labels \ {"total_store", "error_store"},
         Goto(w, next), UNCHANGED stats,
         \/ UNCHANGED va
         \/ \E v \in verbTab \cup {NULL} : va' = [va EXCEPT ![w] = v],
         next = "run" => va'[w].stat \in Stats,
         next \in {"total", "error"} => va'[w].stat \in Counting
  PROVE  CounterInv'
<1> USE DEF CounterInv, Goto, stats
<1>1. StatTypes'
  BY DEF StatTypes
<1>2. /\ pc'[w] = next
      /\ \A u \in Worker \ {w} : pc'[u] = pc[u] /\ va'[u] = va[u]
  BY DEF StatTypes
<1>3. StatKnown'
  BY <1>2 DEF StatKnown
<1>4. IncrementExclusive'
  BY <1>2 DEF IncrementExclusive
<1>5. CountersExact'
  BY DEF CountersExact
<1> QED
  BY <1>1, <1>3, <1>4, <1>5

\* Locking the mutex and reading a counter keeps CounterInv.
LEMMA ReadKeeps ==
  ASSUME CounterInv, NEW w \in Worker,
         \/ pc[w] = "total" /\ Goto(w, "total_store") /\ ReadCounter(w, va[w].stat.total)
         \/ pc[w] = "error" /\ Goto(w, "error_store") /\ ReadCounter(w, va[w].stat.error)
  PROVE  CounterInv'
<1> USE DEF CounterInv, Goto, ReadCounter, client
<1> DEFINE l == va[w].stat.lock
<1>1. va[w].stat \in Counting /\ l \in Locks
  BY StatFacts DEF StatKnown
<1>2. /\ va' = va /\ currentStat' = currentStat /\ counted' = counted
      /\ mutex[l] = NULL /\ mutex'[l] = w
      /\ \A k \in Locks \ {l} : mutex'[k] = mutex[k]
      /\ \A u \in Worker \ {w} : pc'[u] = pc[u] /\ read'[u] = read[u]
  BY <1>1 DEF StatTypes
<1>3. \/ pc'[w] = "total_store" /\ read'[w] = currentStat[va[w].stat.total]
      \/ pc'[w] = "error_store" /\ read'[w] = currentStat[va[w].stat.error]
  BY DEF StatTypes
<1>4. StatTypes'
  <2>1. read' \in [Worker -> Nat]
    BY <1>1, StatFacts DEF StatTypes
  <2>2. mutex' \in [Locks -> Worker \cup {NULL}]
    BY <1>1 DEF StatTypes
  <2>3. pc' \in [Worker -> Labels]
    BY DEF StatTypes, Labels
  <2> QED
    BY <1>2, <2>1, <2>2, <2>3 DEF StatTypes
<1>5. StatKnown'
  BY <1>1, <1>2, <1>3 DEF StatKnown
<1>6. IncrementExclusive'
  <2> SUFFICES ASSUME NEW u \in Worker
               PROVE  /\ pc'[u] \in {"total_store", "error_store"} => mutex'[va[u].stat.lock] = u
                      /\ pc'[u] = "total_store" => read'[u] = currentStat[va[u].stat.total]
                      /\ pc'[u] = "error_store" /\ va[u].stat.error # Shared =>
                           read'[u] = currentStat[va[u].stat.error]
    BY <1>2 DEF IncrementExclusive
  <2>1. CASE u = w
    BY <2>1, <1>2, <1>3
  <2>2. CASE u # w
    <3>1. pc[u] \in {"total_store", "error_store"} =>
            /\ mutex[va[u].stat.lock] = u /\ va[u].stat.lock \in Locks /\ u # NULL
      BY StatFacts, VerbsAssumption DEF IncrementExclusive, StatKnown
    <3> QED
      BY <2>2, <3>1, <1>2 DEF IncrementExclusive
  <2> QED
    BY <2>1, <2>2
<1>7. CountersExact'
  BY <1>2 DEF CountersExact
<1> QED
  BY <1>4, <1>5, <1>6, <1>7

\* Writing the counter and unlocking the mutex keeps CounterInv: no other
\* increment of the same counter is in progress, for it would hold the mutex.
LEMMA WriteKeeps ==
  ASSUME CounterInv, NEW w \in Worker,
         \/ pc[w] = "total_store" /\ Goto(w, "run") /\ WriteCounter(w, va[w].stat.total)
         \/ pc[w] = "error_store" /\ Goto(w, "reply") /\ WriteCounter(w, va[w].stat.error)
  PROVE  CounterInv'
<1> USE DEF CounterInv, Goto, WriteCounter, client
<1> DEFINE l == va[w].stat.lock
<1>1. va[w].stat \in Counting /\ l \in Locks /\ mutex[l] = w
  BY StatFacts DEF StatKnown, IncrementExclusive
<1>2. PICK c \in Counters :
        /\ \/ pc[w] = "total_store" /\ pc' = [pc EXCEPT ![w] = "run"] /\ c = va[w].stat.total
           \/ pc[w] = "error_store" /\ pc' = [pc EXCEPT ![w] = "reply"] /\ c = va[w].stat.error
        /\ WriteCounter(w, c)
  BY <1>1, StatFacts
<1>3. /\ va' = va
      /\ \A k \in Locks \ {l} : mutex'[k] = mutex[k]
      /\ \A u \in Worker \ {w} : pc'[u] = pc[u] /\ read'[u] = read[u]
      /\ \A d \in Counters \ {c} : currentStat'[d] = currentStat[d] /\ counted'[d] = counted[d]
      /\ currentStat'[c] = read[w] + 1 /\ counted'[c] = counted[c] + 1
      /\ pc'[w] \in {"run", "reply"}
  BY <1>1, <1>2 DEF StatTypes
<1>4. StatTypes'
  <2>1. read' \in [Worker -> Nat]
    BY <1>2 DEF StatTypes
  <2>2. mutex' \in [Locks -> Worker \cup {NULL}]
    BY <1>1, <1>2 DEF StatTypes
  <2>3. pc' \in [Worker -> Labels]
    BY <1>2 DEF StatTypes, Labels
  <2>4. currentStat' \in [Counters -> Nat]
    BY <1>2 DEF StatTypes
  <2>5. counted' \in [Counters -> Nat]
    BY <1>2 DEF StatTypes
  <2> QED
    BY <1>3, <2>1, <2>2, <2>3, <2>4, <2>5 DEF StatTypes
<1>5. StatKnown'
  BY <1>1, <1>3 DEF StatKnown, Counting
<1>6. IncrementExclusive'
  <2> SUFFICES ASSUME NEW u \in Worker, u # w
               PROVE  /\ pc[u] \in {"total_store", "error_store"} => mutex'[va[u].stat.lock] = u
                      /\ pc[u] = "total_store" => read[u] = currentStat'[va[u].stat.total]
                      /\ pc[u] = "error_store" /\ va[u].stat.error # Shared =>
                           read[u] = currentStat'[va[u].stat.error]
    BY <1>3 DEF IncrementExclusive
  <2> SUFFICES ASSUME pc[u] \in {"total_store", "error_store"}
               PROVE  /\ mutex'[va[u].stat.lock] = u
                      /\ pc[u] = "total_store" => read[u] = currentStat'[va[u].stat.total]
                      /\ pc[u] = "error_store" /\ va[u].stat.error # Shared =>
                           read[u] = currentStat'[va[u].stat.error]
    OBVIOUS
  <2>1. va[u].stat \in Counting /\ va[u].stat.lock \in Locks /\ va[u].stat.lock # l
    BY <1>1, StatFacts DEF StatKnown, IncrementExclusive
  <2>2. va[u].stat.total # c
    BY <2>1, <1>1, <1>2, StatFacts
  <2>3. va[u].stat.error # Shared => va[u].stat.error # c
    BY <2>1, <1>1, <1>2, StatFacts
  <2>4. va[u].stat.total \in Counters /\ va[u].stat.error \in Counters
    BY <2>1, StatFacts
  <2> QED
    BY <1>3, <2>1, <2>2, <2>3, <2>4 DEF IncrementExclusive
<1>7. CountersExact'
  <2>1. c # Shared => read[w] = currentStat[c]
    BY <1>2 DEF IncrementExclusive
  <2>2. ASSUME NEW d \in Counters, d # Shared PROVE currentStat'[d] = counted'[d]
    BY <2>1, <2>2, <1>3 DEF CountersExact, Shared
  <2> QED
    BY <2>2 DEF CountersExact, Shared
<1> QED
  BY <1>4, <1>5, <1>6, <1>7

\* The inductive invariant.
LEMMA CounterInvKept == CounterInv /\ [Next]_vars => CounterInv'
<1> SUFFICES ASSUME CounterInv, [Next]_vars PROVE CounterInv'
  OBVIOUS
<1>1. CASE UNCHANGED vars
  BY <1>1 DEF CounterInv, StatTypes, StatKnown, IncrementExclusive, CountersExact, vars
<1>2. ASSUME NEW w \in Worker, serve(w) PROVE CounterInv'
  BY <1>2, OtherStepKeeps DEF serve, Labels
<1>3. ASSUME NEW w \in Worker, CheckVerb(w) PROVE CounterInv'
  <2>1. CASE Goto(w, "close") /\ UNCHANGED va
    BY <1>3, <2>1, OtherStepKeeps DEF CheckVerb, Labels
  <2>2. ASSUME NEW v \in verbTab, va' = [va EXCEPT ![w] = v],
               Goto(w, "close") \/ Goto(w, IF v.stat = NoStat THEN "run" ELSE "total")
        PROVE  CounterInv'
    <3>1. va'[w] = v /\ v.stat \in Stats
      BY <2>2, StatsOfVerbTab DEF CounterInv, StatTypes
    <3>2. UNCHANGED stats
      BY <1>3 DEF CheckVerb
    <3>3. CASE Goto(w, "close")
      BY <2>2, <3>2, <3>3, OtherStepKeeps DEF Labels
    <3>4. CASE v.stat = NoStat /\ Goto(w, "run")
      BY <2>2, <3>1, <3>2, <3>4, OtherStepKeeps DEF Labels
    <3>5. CASE v.stat # NoStat /\ Goto(w, "total")
      BY <2>2, <3>1, <3>2, <3>5, OtherStepKeeps DEF Labels, Counting
    <3> QED
      BY <2>2, <3>3, <3>4, <3>5
  <2> QED
    BY <1>3, <2>1, <2>2 DEF CheckVerb
<1>4. ASSUME NEW w \in Worker, countTotal(w) PROVE CounterInv'
  BY <1>4, ReadKeeps, WriteKeeps DEF countTotal
<1>5. ASSUME NEW w \in Worker, run(w) PROVE CounterInv'
  <2>1. PICK o : Goto(w, IF o \in va[w].stat.errors THEN "error" ELSE "reply")
    BY <1>5 DEF run
  <2>2. va[w].stat \in Stats /\ UNCHANGED va /\ UNCHANGED stats
    BY <1>5 DEF run, CounterInv, StatKnown
  <2>3. CASE o \in va[w].stat.errors
    <3>1. va[w].stat \in Counting
      BY <2>2, <2>3, StatFacts DEF Counting
    <3> QED
      BY <2>1, <2>2, <2>3, <3>1, OtherStepKeeps DEF Labels
  <2>4. CASE o \notin va[w].stat.errors
    BY <2>1, <2>2, <2>4, OtherStepKeeps DEF Labels
  <2> QED
    BY <2>3, <2>4
<1>6. ASSUME NEW w \in Worker, countError(w) PROVE CounterInv'
  BY <1>6, ReadKeeps, WriteKeeps DEF countError
<1>7. ASSUME NEW w \in Worker, reply(w) PROVE CounterInv'
  BY <1>7, OtherStepKeeps DEF reply, Labels
<1>8. ASSUME NEW w \in Worker, endServe(w) PROVE CounterInv'
  BY <1>8, OtherStepKeeps DEF endServe, Labels
<1>9. ASSUME NEW w \in Worker, crash(w) PROVE CounterInv'
  BY <1>9 DEF crash, CounterInv, StatTypes, StatKnown, IncrementExclusive, CountersExact, Labels
<1> QED
  BY <1>1, <1>2, <1>3, <1>4, <1>5, <1>6, <1>7, <1>8, <1>9 DEF Next, Step

\* Every counter of the statistics but totalerrorgetreport holds exactly the
\* increments made, however many threads serve requests.
THEOREM StatisticsExact == Spec => []CountersExact
<1>1. Init => CounterInv
  BY DEF Init, CounterInv, StatTypes, StatKnown, IncrementExclusive, CountersExact, Labels
<1>2. CounterInv => CountersExact
  BY DEF CounterInv
<1> QED
  BY <1>1, <1>2, CounterInvKept, PTL DEF Spec
=============================================================================
