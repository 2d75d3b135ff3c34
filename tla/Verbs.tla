-------------------------------- MODULE Verbs --------------------------------
(***************************************************************************)
(* The verbs: who answers the client, and how the requests are counted.    *)
(*                                                                         *)
(* A request goes through up to three C functions: the handler of verb.c   *)
(* (doStaging), an operation of update.c, router.c or report.c (staging),  *)
(* and a wrapper of generic_router.c that runs the script                  *)
(* (genericStaging).  Each of them answers some outcomes and leaves the    *)
(* others to its caller or to the script:                                  *)
(*                                                                         *)
(*   ok       the request was carried out                                  *)
(*   bad      ERR_VERB_BAD_PARAM                                           *)
(*   nosd     getSDinfo failed                                             *)
(*   failed   the script or a later step failed                            *)
(*   changed  IPCHANGED                                                    *)
(*   crash    a NULL pointer is dereferenced and smsd stops                *)
(*                                                                         *)
(* A function is modelled by the set of outcomes it answers itself; a      *)
(* crash is answered by nobody.  The locks and unlocks of the wrappers are *)
(* in SDLock, the database contexts in DbContext, the sockets in Daemon.   *)
(***************************************************************************)
EXTENDS Integers, FiniteSets

CONSTANTS Worker,      \* the threads that run serve
          NULL,
          MaxRequests  \* bound on the requests accepted (TLC only)

ASSUME VerbsAssumption == MaxRequests \in Nat /\ NULL \notin Worker

Outcomes == {"ok", "bad", "nosd", "failed", "changed"}

\* What ends a request and the daemon with it.
Crash == {"crash"}

-----------------------------------------------------------------------------
(***************************************************************************)
(* The wrappers of generic_router.c.                                       *)
(***************************************************************************)
\* Mutant: the failure of the script is only logged.
Mut_genericStaging == {}

genericStaging == {"failed"}
genericStagingMap == {"failed"}
genericInitialProvisioning == {"failed"}
genericCheckProvisioning == {"failed"}
genericSnmpTest == {"bad", "failed"}
genericGetConfiguration == {}
genericGetRunningConf == {"failed"}
genericGetConfig == {"failed"}
genericGetActivityReport == {"failed"}
genericRestoreConf == {"failed"}
genericBackupConf == {"failed"}
genericPushConfig == {"failed"}
genericUpdateConf == {"failed"}
genericSmsexecCmd == {"failed"}
genericSmsAddonExecCmd == {"failed"}
genericUnarchiveConfiguration == {}
genericGetArchiveConfiguration == {}
genericUpdateLicense == {}
genericUpdateFirmware == {}
genericExecScript == {}
genericGetReport == {}
genericHaSwap == {}
genericCheckSerialNumber == {}
genericCallCommand == {}
genericSendDataFiles == {}
generic_sms_cmd == {"failed"}
generic_smsd_cmd == {"failed"}
generic_sms_cust_cmd == {"failed"}
generic_gen_template == {"failed"}

-----------------------------------------------------------------------------
(***************************************************************************)
(* The operations: whether a script answers the success, the ways to fail, *)
(* the outcomes the operation answers, and its wrapper.                    *)
(***************************************************************************)
Operation(script, fails, answers, wrapper) ==
  [script |-> script, fails |-> fails, operation |-> answers, wrapper |-> wrapper]

\* No script, or one that has no client: the caller answers.
Quiet(fails, wrapper) == Operation(FALSE, fails, {}, wrapper)

\* An operation that answers everything, its success included, after its script.
Answering(wrapper) ==
  Operation(FALSE, {"bad", "nosd", "failed"}, {"ok", "bad", "nosd", "failed"}, wrapper)

getReport == Quiet({"nosd", "failed"}, genericGetReport)
getVPNReport == Quiet({"nosd", "failed"}, genericGetReport)
getRouterFullConfiguration == Quiet({"nosd", "failed"}, genericGetConfiguration)
updateIP == Quiet({"nosd", "failed"}, genericCheckSerialNumber)
updateRouterIP == Quiet({"nosd", "failed", "changed"}, genericCheckSerialNumber)
checkUpdate == Quiet({"failed"}, {})
checkAllUpdate == Quiet({"failed"}, {})
getUpdateStatus == Quiet({"failed"}, {})
getRouterIp == Quiet({"nosd", "failed"}, {})
unlockUpdate == Quiet({"failed"}, {})
lockProvisioning == Quiet({"failed"}, {})
unlockProvisioning == Quiet({"failed"}, {})
sdGetAsset == Quiet({"failed"}, {})
sdForceAsset == Quiet({"failed"}, {})
sdSetConfigMode == Quiet({"failed"}, {})
save_all_conf == Quiet({}, {})

smsexec ==
  Operation(TRUE, {"bad", "nosd", "failed"}, {"bad", "nosd", "failed"}, genericSmsexecCmd)
\* commands stays NULL when no command follows the verb.
smsexecn(wrapper) == Operation(TRUE, {"nosd", "failed"} \cup Crash, {"nosd", "failed"}, wrapper)
exec_script == Operation(TRUE, {"bad", "nosd", "failed"}, {"bad", "nosd"}, genericExecScript)
push_config == Operation(TRUE, {"bad", "nosd", "failed"}, {"bad", "nosd"}, genericPushConfig)
provisioning == Operation(TRUE, {"nosd", "failed"}, {"nosd"}, genericInitialProvisioning)
checkProvisioning == Operation(TRUE, {"nosd", "failed"}, {"nosd"}, genericCheckProvisioning)
backupRouterFullConfiguration ==
  Operation(TRUE, {"bad", "nosd", "failed"}, {"bad", "nosd"}, genericBackupConf)
restoreConf == Operation(TRUE, {"bad", "nosd", "failed"}, {"bad", "nosd"}, genericRestoreConf)
updateConfig == Operation(TRUE, {"failed"}, {}, genericUpdateConf)
staging(wrapper) == Operation(TRUE, {"nosd", "failed"}, {"nosd"}, wrapper)
updateLicense == Operation(TRUE, {"nosd", "failed"}, {}, genericUpdateLicense)
updateFirmware == Operation(TRUE, {"bad", "nosd", "failed"}, {"bad"}, genericUpdateFirmware)
ha_swap == Operation(TRUE, {"nosd", "failed"}, {"nosd"}, genericHaSwap)
getPingStatus == Operation(TRUE, {"failed"}, {"failed"}, {})
smsCmd(wrapper) == Operation(TRUE, {"bad", "nosd", "failed"}, {"bad", "nosd"}, wrapper)
smsCustCmd == Operation(TRUE, {"bad", "nosd", "failed"}, {"bad", "nosd"}, generic_sms_cust_cmd)
genTemplate == Operation(TRUE, {"bad", "nosd", "failed"}, {"bad", "nosd"}, generic_gen_template)
getRunningConf == Operation(TRUE, {"nosd", "failed"}, {"nosd"}, genericGetRunningConf)
getConfig == Operation(TRUE, {"nosd", "failed"}, {"nosd"}, genericGetConfig)
getActivityReport == Operation(TRUE, {"nosd", "failed"}, {"nosd"}, genericGetActivityReport)
send_data_files ==
  Operation(TRUE, {"bad", "nosd", "failed"}, {"bad", "nosd"}, genericSendDataFiles)
unarchive_conf == Answering(genericUnarchiveConfiguration)
get_archive_conf == Answering(genericGetArchiveConfiguration)
call_command == Answering(genericCallCommand)
check_serial == Answering(genericCheckSerialNumber)
resolve_template == Operation(TRUE, {"nosd", "failed"}, {}, {})
resolve_template_buffer == Operation(TRUE, {"nosd", "failed"}, {}, {})
\* Prebuilt, like its walking variant: it gets the descriptor and answers on it.
doSnmpGet == Operation(FALSE, {"failed"}, {"ok", "failed"}, {})

-----------------------------------------------------------------------------
(***************************************************************************)
(* The statistics a handler keeps: a mutex, the counter of its requests,   *)
(* the counter of its errors and the outcomes it takes for errors.         *)
(***************************************************************************)
Counted(lock, total, error, errors) ==
  [lock |-> lock, total |-> total, error |-> error, errors |-> errors]

NoStat == Counted("none", "none", "none", {})
StatGetReport ==
  Counted("STATGETREPORT", "totalgetreport", "totalerrorgetreport", {"nosd", "failed"})
StatGetVPNReport ==
  Counted("STATGETVPNREPORT", "totalgetvpnreport", "totalerrorgetreport", {"nosd", "failed"})
StatPppIpUp ==
  Counted("STATPPPIPUP", "totalpppipup", "totalerrorpppipup", {"nosd", "failed", "changed"})
StatIpDown == Counted("STATIPDOWN", "totalipdown", "totalerroripdown", {"nosd", "failed"})
StatGetRouterIp ==
  Counted("STATGETROUTERIP", "totalgetrouterip", "totalerrorgetrouterip", {"nosd", "failed"})

Stats == {NoStat, StatGetReport, StatGetVPNReport, StatPppIpUp, StatIpDown, StatGetRouterIp}
Counters == UNION {{st.total, st.error} : st \in Stats \ {NoStat}}
Locks == {st.lock : st \in Stats \ {NoStat}}

-----------------------------------------------------------------------------
(***************************************************************************)
(* The handlers of verb.c.                                                 *)
(***************************************************************************)
Verb(op, answers, stat) ==
  [script |-> op.script, fails |-> op.fails, wrapper |-> op.wrapper,
   operation |-> op.operation, handler |-> answers, stat |-> stat, hasParams |-> TRUE,
   verb |-> "other"]

\* The names of the verbs that a property tells apart.
Name(v, verb) == [v EXCEPT !.verb = verb]

\* A handler that answers nothing and at most logs how its operation ended.
Logs(op) == Verb(op, {}, NoStat)

\* A handler that calls send_ok or send_error.
Sends(op) == Verb(op, {"ok", "bad", "nosd", "failed"}, NoStat)
SendsWithoutParams == [Sends(Quiet({}, {})) EXCEPT !.hasParams = FALSE]
SendsAndCounts(op, stat) == Verb(op, {"ok", "nosd", "failed"}, stat)

doGetReport == SendsAndCounts(getReport, StatGetReport)
doGetVPNReport == SendsAndCounts(getVPNReport, StatGetVPNReport)
doGetRouterIp == SendsAndCounts(getRouterIp, StatGetRouterIp)
doIpDown == SendsAndCounts(Quiet({"nosd", "failed"}, {}), StatIpDown)
doPppIpUp == Name(Verb(updateRouterIP, {}, StatPppIpUp), "PPPIPUP")
doSdIpUp ==
  Name(Verb([updateIP EXCEPT !.fails = @ \cup {"bad"}], {}, StatPppIpUp),
       "SDIPUP")

doGetSDConf == Sends(getRouterFullConfiguration)
doCheckUpdate == Sends(checkUpdate)
doCheckAllUpdate == Sends(checkAllUpdate)
doCheckCmd == Sends([getUpdateStatus EXCEPT !.fails = @ \cup {"bad"}])
doCheckUpdateLicense == Sends(getUpdateStatus)
doCheckUpdateFirmware == Sends(getUpdateStatus)
doCheckBackup == Sends(getUpdateStatus)
doCheckSendDataFiles == Sends(getUpdateStatus)
doCheckRestore == Sends(getUpdateStatus)
doUnlockUpdate == Sends(unlockUpdate)
doLockProvisioning == Sends(lockProvisioning)
doUnLockProvisioning == Sends(unlockProvisioning)
doGetAsset == Sends(sdGetAsset)
doForceAsset == Sends(sdForceAsset)
doSetConfigMode == Sends(sdSetConfigMode)
doSetLogLevel == Sends(Quiet({}, {}))
doIsAlive == SendsWithoutParams
\* The figures in its answer are read one by one, without the mutexes; reading
\* them changes nothing here.
doStat == SendsWithoutParams
doPS == SendsWithoutParams
doListVerb == SendsWithoutParams
doReinitLogs == SendsWithoutParams
doImmediateSaveConf ==
  Name([Logs(save_all_conf) EXCEPT !.hasParams = FALSE],
       "IMMEDIATESAVECONF")

doJsSmsexec == Name(Logs(smsexec), "JSSMSEXEC")
doJsSmsexecn == Name(Logs(smsexecn(genericSmsexecCmd)), "JSSMSEXECN")
doJsSmsAddonExec ==
  Name(Verb([smsexecn(genericSmsAddonExecCmd) EXCEPT !.fails = @ \cup {"bad"}], {"bad"}, NoStat),
       "JSSMSADDONEXEC")
doCmd(wrapper) == Logs(smsCmd(wrapper))
doCustCmd == Logs(smsCustCmd)
js_exec_script == Name(Logs(exec_script), "JSEXECSCRIPT")
doProvisioning == Logs(provisioning)
doCheckProvisioning == Logs(checkProvisioning)
doPing == Logs(getPingStatus)
doPushConfig == Logs(push_config)
doStaging == Logs(staging(genericStaging))
doStagingMap == Logs(staging(genericStagingMap))
doUpdateConfig == Verb([updateConfig EXCEPT !.fails = @ \cup {"nosd"}], {"nosd"}, NoStat)
doRestoreConf == Logs(restoreConf)
doGenTemplate == Logs(genTemplate)
doBackupConf == Logs(backupRouterFullConfiguration)
doGetRunningConf == Logs(getRunningConf)
doGetConfig == Logs(getConfig)
doGetActivityReport == Logs(getActivityReport)
doSnmpTest == Logs(Operation(TRUE, {"bad", "failed"}, {}, genericSnmpTest))
doResolveTemplate == Verb(resolve_template, {"nosd", "failed"}, NoStat)
\* strlen(configuration) comes before the test of configuration == NULL.
doResolve ==
  Verb([resolve_template_buffer EXCEPT !.fails = @ \cup Crash], {"bad", "nosd", "failed"}, NoStat)
doUnarchiveConf == Logs(unarchive_conf)
doGetArchiveConf == Logs(get_archive_conf)
doUpdateLicense == Name(Logs(updateLicense), "JSAUPDATELICENSE")
doUpdateFirmware == Name(Logs(updateFirmware), "JSAUPDATEFIRMWARE")
doHaSwap == Name(Logs(ha_swap), "JSHASWAP")
doCallCommand == Logs(call_command)
doSendDataFiles == Name(Logs(send_data_files), "JSSENDDATAFILES")
doCheckSerial == Logs(check_serial)
do_SnmpGet == Logs(doSnmpGet)
do_SnmpGetNext == Logs(doSnmpGet)

CountedVerbs ==
  {doGetReport, doGetVPNReport, doGetRouterIp, doIpDown, doPppIpUp, doSdIpUp}

verbTab ==
  CountedVerbs \cup {doCmd(generic_sms_cmd), doCmd(generic_smsd_cmd)} \cup
  {doIsAlive, doStat, doPS, doListVerb, doReinitLogs, doImmediateSaveConf, doGetSDConf,
   doCheckUpdate, doCheckAllUpdate, doCheckCmd, doCheckUpdateLicense,
   doCheckUpdateFirmware, doCheckBackup, doCheckSendDataFiles, doCheckRestore,
   doUnlockUpdate, doLockProvisioning, doUnLockProvisioning, doGetAsset, doForceAsset,
   doSetConfigMode, doSetLogLevel, doJsSmsexec, doJsSmsexecn, doJsSmsAddonExec,
   doCustCmd, js_exec_script, doProvisioning, doCheckProvisioning, doPing, doPushConfig,
   doStaging, doStagingMap, doUpdateConfig, doRestoreConf, doGenTemplate, doBackupConf,
   doGetRunningConf, doGetConfig, doGetActivityReport, doSnmpTest, doResolveTemplate,
   doResolve, doUnarchiveConf, doGetArchiveConf, doUpdateLicense, doUpdateFirmware,
   doHaSwap, doCallCommand, doSendDataFiles, doCheckSerial, do_SnmpGet, do_SnmpGetNext}

-----------------------------------------------------------------------------
(***************************************************************************)
(* A request, from serve to the end of its connection.                     *)
(***************************************************************************)
VARIABLES
  requests,     \* requests accepted so far
  pc,           \* [Worker -> Labels]
  va,           \* [Worker -> the entry of verbTab, or NULL]
  out,          \* [Worker -> the outcome]
  open,         \* the workers whose csp->cfd is not -1
  answers,      \* [Worker -> answers written to the client]
  mutex,        \* [Locks -> its owner or NULL]
  read,         \* [Worker -> value read by the increment in progress]
  currentStat,  \* [Counters -> its value]
  counted       \* [Counters -> increments made]

client == <<va, out, open, answers>>
stats == <<mutex, read, currentStat, counted>>
vars == <<requests, pc, va, out, open, answers, mutex, read, currentStat, counted>>

Labels == {"idle", "CheckVerb", "total", "total_store", "run", "error", "error_store",
           "reply", "close"}
Endings == Outcomes \cup {"none", "unknown", "short", "WAKE_UP_SMS"}

TypeOK ==
  /\ requests \in 0..MaxRequests
  /\ pc \in [Worker -> Labels]
  /\ va \in [Worker -> verbTab \cup {NULL}]
  /\ out \in [Worker -> Endings]
  /\ open \subseteq Worker
  /\ answers \in [Worker -> Nat]
  /\ mutex \in [Locks -> Worker \cup {NULL}]
  /\ read \in [Worker -> Nat]
  /\ currentStat \in [Counters -> Nat]
  /\ counted \in [Counters -> Nat]

Init ==
  /\ requests = 0
  /\ pc = [w \in Worker |-> "idle"]
  /\ va = [w \in Worker |-> NULL]
  /\ out = [w \in Worker |-> "none"]
  /\ open = {}
  /\ answers = [w \in Worker |-> 0]
  /\ mutex = [l \in Locks |-> NULL]
  /\ read = [w \in Worker |-> 0]
  /\ currentStat = [c \in Counters |-> 0]
  /\ counted = [c \in Counters |-> 0]

Goto(w, next) == pc' = [pc EXCEPT ![w] = next]
Send(w, n) == answers' = [answers EXCEPT ![w] = @ + n]

\* serve: a line is read, or the timeout passes.
serve(w) ==
  /\ pc[w] = "idle" /\ requests < MaxRequests
  /\ requests' = requests + 1
  /\ open' = open \cup {w}
  /\ Goto(w, "CheckVerb") \/ Goto(w, "close")
  /\ UNCHANGED <<va, out, answers, stats>>

\* An unknown verb is answered, except WAKE_UP_SMS; a parameter that is too
\* short is not.  The wait for a database context is in DbContext.
CheckVerb(w) ==
  /\ pc[w] = "CheckVerb"
  /\ \/ /\ out' = [out EXCEPT ![w] = "unknown"]
        /\ Send(w, 1)
        /\ Goto(w, "close") /\ UNCHANGED va
     \/ /\ out' = [out EXCEPT ![w] = "WAKE_UP_SMS"]
        /\ Goto(w, "close") /\ UNCHANGED <<va, answers>>
     \/ \E v \in verbTab :
          /\ va' = [va EXCEPT ![w] = v]
          /\ \/ /\ v.hasParams
                /\ out' = [out EXCEPT ![w] = "short"]
                /\ Goto(w, "close")
             \/ /\ Goto(w, IF v.stat = NoStat THEN "run" ELSE "total")
                /\ UNCHANGED out
          /\ UNCHANGED answers
  /\ UNCHANGED <<requests, open, stats>>

\* Mutant: the mutex is not locked.
Mut_ReadCounter(w, c) ==
  /\ read' = [read EXCEPT ![w] = currentStat[c]]
  /\ UNCHANGED <<requests, client, mutex, currentStat, counted>>

\* A counter is incremented under the mutex of its handler: lock and read,
\* write and unlock.
ReadCounter(w, c) ==
  /\ mutex[va[w].stat.lock] = NULL
  /\ mutex' = [mutex EXCEPT ![va[w].stat.lock] = w]
  /\ read' = [read EXCEPT ![w] = currentStat[c]]
  /\ UNCHANGED <<requests, client, currentStat, counted>>

\* Mutant: the counter is decremented.
Mut_WriteCounter(w, c) ==
  /\ currentStat' = [currentStat EXCEPT ![c] = read[w] - 1]
  /\ counted' = [counted EXCEPT ![c] = @ + 1]
  /\ mutex' = [mutex EXCEPT ![va[w].stat.lock] = NULL]
  /\ read' = [read EXCEPT ![w] = 0]
  /\ UNCHANGED <<requests, client>>

WriteCounter(w, c) ==
  /\ currentStat' = [currentStat EXCEPT ![c] = read[w] + 1]
  /\ counted' = [counted EXCEPT ![c] = @ + 1]
  /\ mutex' = [mutex EXCEPT ![va[w].stat.lock] = NULL]
  /\ read' = [read EXCEPT ![w] = 0]
  /\ UNCHANGED <<requests, client>>

\* Mutant: a request is counted only when it fails.
Mut_countTotal(w) ==
  /\ pc[w] = "total" /\ Goto(w, "run")
  /\ UNCHANGED <<requests, client, stats>>

countTotal(w) ==
  \/ pc[w] = "total" /\ Goto(w, "total_store") /\ ReadCounter(w, va[w].stat.total)
  \/ pc[w] = "total_store" /\ Goto(w, "run") /\ WriteCounter(w, va[w].stat.total)

countError(w) ==
  \/ pc[w] = "error" /\ Goto(w, "error_store") /\ ReadCounter(w, va[w].stat.error)
  \/ pc[w] = "error_store" /\ Goto(w, "reply") /\ WriteCounter(w, va[w].stat.error)

\* The operation.  A script that succeeds has answered, and closed the socket if
\* its work is asynchronous; one that fails has not answered, unless it had
\* closed the socket before.  doSdIpUp closes the socket itself.
run(w) ==
  /\ pc[w] = "run"
  /\ \E o \in (va[w].fails \ Crash) \cup {"ok"} :
       /\ out' = [out EXCEPT ![w] = o]
       /\ Goto(w, IF o \in va[w].stat.errors THEN "error" ELSE "reply")
       /\ \/ /\ va[w].script => o # "ok"
             /\ open' = IF va[w].verb = "SDIPUP" THEN open \ {w} ELSE open
             /\ UNCHANGED answers
          \/ /\ va[w].script /\ o = "ok"
             /\ Send(w, 1) /\ UNCHANGED open
          \/ /\ va[w].script /\ o \in {"ok", "failed"}
             /\ Send(w, 1) /\ open' = open \ {w}
  /\ UNCHANGED <<requests, va, stats>>

\* The wrapper, the operation and the handler answer, each one what it answers.
\* Nothing is written once cfd is -1.
reply(w) ==
  /\ pc[w] = "reply"
  /\ Send(w, IF w \in open
             THEN Cardinality({f \in {"wrapper", "operation", "handler"} : out[w] \in va[w][f]})
             ELSE 0)
  /\ Goto(w, "close")
  /\ UNCHANGED <<requests, va, out, open, stats>>

endServe(w) ==
  /\ pc[w] = "close"
  /\ open' = open \ {w}
  /\ va' = [va EXCEPT ![w] = NULL]
  /\ out' = [out EXCEPT ![w] = "none"]
  /\ answers' = [answers EXCEPT ![w] = 0]
  /\ Goto(w, "idle")
  /\ UNCHANGED <<requests, stats>>

\* smsd stops in the middle of an operation and is started again: every connection
\* is closed, whatever its thread was doing, and the statistics start from 0.
crash(w) ==
  /\ pc[w] = "run" /\ Crash \subseteq va[w].fails
  /\ pc' = [u \in Worker |-> "idle"]
  /\ va' = [u \in Worker |-> NULL]
  /\ out' = [u \in Worker |-> "none"]
  /\ open' = {}
  /\ answers' = [u \in Worker |-> 0]
  /\ mutex' = [l \in Locks |-> NULL]
  /\ read' = [u \in Worker |-> 0]
  /\ currentStat' = [c \in Counters |-> 0]
  /\ counted' = [c \in Counters |-> 0]
  /\ UNCHANGED requests

Step(w) == CheckVerb(w) \/ countTotal(w) \/ run(w) \/ countError(w) \/ reply(w) \/ endServe(w)

Next == \E w \in Worker : serve(w) \/ Step(w) \/ crash(w)

Spec == Init /\ [][Next]_vars

-----------------------------------------------------------------------------
\* The requests that end without an answer.
Unanswered(v, o) ==
  \/ o \in {"none", "short", "WAKE_UP_SMS"}
  \/ /\ o \in Outcomes
     /\ \/ v.verb \in {"PPPIPUP", "SDIPUP", "IMMEDIATESAVECONF"}
        \/ v.verb \in {"JSAUPDATELICENSE", "JSAUPDATEFIRMWARE"} /\ o \in {"nosd", "failed"}
        \/ v.verb \in {"JSHASWAP", "JSSENDDATAFILES", "JSEXECSCRIPT"} /\ o = "failed"

\* The requests that are answered by the wrapper and by the operation.
AnsweredTwice(v, o) ==
  v.verb \in {"JSSMSEXEC", "JSSMSEXECN", "JSSMSADDONEXEC"} /\ o = "failed"

\* When serve closes the connection the client has got exactly one answer, from
\* the script, the wrapper, the operation or the handler, except for the requests
\* above: those without an answer, and the commands of JSSMSEXEC, JSSMSEXECN and
\* JSSMSADDONEXEC whose script failed, which are answered twice.  A script that
\* had closed the socket has always answered before.  A request that stops smsd
\* (JSRESOLVE without configuration, JSSMSEXECN and JSSMSADDONEXEC without
\* commands) never gets there, nor do those served beside it.
AnsweredOnce ==
  \A w \in Worker : pc[w] = "close" =>
    \/ answers[w] = 1
    \/ answers[w] = 0 /\ Unanswered(va[w], out[w])
    \/ answers[w] = 2 /\ AnsweredTwice(va[w], out[w])

\* What exec_script says when it calls genericExecScript, "From now the response
\* to the user is done by genericExecScript()": a JSEXECSCRIPT or JSAEXECSCRIPT
\* that was carried out or failed has been answered when its connection is closed.
ExecScriptAnswered ==
  \A w \in Worker :
    pc[w] = "close" /\ va[w] = js_exec_script /\ out[w] \in Outcomes => answers[w] > 0

\* The statistics: every increment is in the counter, whatever requests are
\* served at the same time.  totalerrorgetreport is the exception: GETREPORT
\* and GETVPNREPORT increment it under two different mutexes.
CountersExact ==
  \A c \in Counters \ {"totalerrorgetreport"} : currentStat[c] = counted[c]

\* The counters never hold more errors than requests.  totalerrorgetreport, which
\* GETREPORT and GETVPNREPORT both increment, stays within the requests of the
\* two, although increments of it may be lost and it may even go back.  This is
\* said of the counters in memory: the answer to STAT is made of values doStat
\* reads at different moments.
ErrorsWithinTotals ==
  /\ \A st \in {StatPppIpUp, StatIpDown, StatGetRouterIp} :
       currentStat[st.error] <= currentStat[st.total]
  /\ currentStat["totalerrorgetreport"] <=
       currentStat["totalgetreport"] + currentStat["totalgetvpnreport"]
=============================================================================
