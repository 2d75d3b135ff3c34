------------------------- MODULE VerbsAnswersProofs -------------------------
(***************************************************************************)
(* Proofs about the answers and the error counters of Verbs, for any       *)
(* number of threads and requests.  The table of verbs comes first: Fits   *)
(* says of an entry that its wrapper, its operation and its handler        *)
(* between them answer each outcome as often as AnsweredOnce allows.       *)
(***************************************************************************)
EXTENDS VerbsProofs, FiniteSetTheorems

\* How many of the three functions answer outcome o.
Number(v, o) ==
  (IF o \in v.wrapper THEN 1 ELSE 0) + (IF o \in v.operation THEN 1 ELSE 0)
    + (IF o \in v.handler THEN 1 ELSE 0)

\* Number is what reply counts.
LEMMA NumberIsCardinality ==
  ASSUME NEW v, NEW o
  PROVE  Cardinality({f \in {"wrapper", "operation", "handler"} : o \in v[f]}) = Number(v, o)
<1> DEFINE W == IF o \in v.wrapper THEN {"wrapper"} ELSE {}
           O == IF o \in v.operation THEN W \cup {"operation"} ELSE W
           H == IF o \in v.handler THEN O \cup {"handler"} ELSE O
<1>1. {f \in {"wrapper", "operation", "handler"} : o \in v[f]} = H
  OBVIOUS
<1>2. IsFiniteSet(W) /\ Cardinality(W) = IF o \in v.wrapper THEN 1 ELSE 0
  BY FS_EmptySet, FS_Singleton
<1>3. /\ IsFiniteSet(O)
      /\ Cardinality(O) = Cardinality(W) + (IF o \in v.operation THEN 1 ELSE 0)
  <2>1. "operation" \notin W
    OBVIOUS
  <2> HIDE DEF W
  <2> QED
    BY <1>2, <2>1, FS_AddElement
<1>4. Cardinality(H) = Cardinality(O) + (IF o \in v.handler THEN 1 ELSE 0)
  <2>1. "handler" \notin O
    OBVIOUS
  <2> HIDE DEF W, O
  <2>2. Cardinality(O \cup {"handler"}) = Cardinality(O) + 1
    BY <1>3, <2>1, FS_AddElement
  <2>3. Cardinality(O) \in Nat
    BY <1>3, FS_CardinalityType
  <2> QED
    BY <2>2, <2>3
<1> HIDE DEF W, O, H
<1> QED
  BY <1>1, <1>2, <1>3, <1>4 DEF Number

-----------------------------------------------------------------------------
\* A script that succeeds has answered itself, and nobody adds to it; every other
\* outcome, a crash excepted, is answered once, or is one of the exceptions.
Fits(v) ==
  /\ v.script \in BOOLEAN
  /\ v.verb = "SDIPUP" => ~v.script
  /\ v.fails \subseteq Outcomes \cup Crash
  /\ \A o \in (v.fails \ Crash) \cup {"ok"} :
       IF v.script /\ o = "ok"
       THEN Number(v, o) = 0
       ELSE \/ Number(v, o) = 1
            \/ Number(v, o) = 0 /\ Unanswered(v, o)
            \/ Number(v, o) = 2 /\ AnsweredTwice(v, o)

\* A handler that sends everything, over an operation that answers nothing.
LEMMA SendersFit ==
  \A fails \in SUBSET {"bad", "nosd", "failed"} : Fits(Sends(Quiet(fails, {})))
  BY DEF Fits, Number, Sends, Verb, Quiet, Operation, Outcomes, Crash

\* A handler that only logs, over a script whose failures are shared out between
\* the operation and the wrapper.
LEMMA ScriptsFit ==
  \A fails \in SUBSET {"bad", "nosd", "failed"} :
  \A answ \in SUBSET {"bad", "nosd", "failed"}, wrapper \in SUBSET {"bad", "nosd", "failed"} :
    fails \subseteq answ \cup wrapper /\ fails \cap answ \cap wrapper = {}
      => Fits(Logs(Operation(TRUE, fails, answ, wrapper)))
  BY DEF Fits, Number, Logs, Verb, Operation, Outcomes, Crash

\* Every entry of verbTab.
LEMMA VerbTabFits == \A v \in verbTab : Fits(v)
<1>1. Fits(doGetSDConf)
  BY SendersFit DEF doGetSDConf, getRouterFullConfiguration, genericGetConfiguration
<1>2. Fits(doCheckUpdate)
  BY SendersFit DEF doCheckUpdate, checkUpdate
<1>3. Fits(doCheckAllUpdate)
  BY SendersFit DEF doCheckAllUpdate, checkAllUpdate
<1>4. Fits(doCheckCmd)
  BY SendersFit DEF doCheckCmd, getUpdateStatus, Quiet, Operation
<1>5. Fits(doCheckUpdateLicense)
  BY SendersFit DEF doCheckUpdateLicense, getUpdateStatus
<1>6. Fits(doCheckUpdateFirmware)
  BY SendersFit DEF doCheckUpdateFirmware, getUpdateStatus
<1>7. Fits(doCheckBackup)
  BY SendersFit DEF doCheckBackup, getUpdateStatus
<1>8. Fits(doCheckSendDataFiles)
  BY SendersFit DEF doCheckSendDataFiles, getUpdateStatus
<1>9. Fits(doCheckRestore)
  BY SendersFit DEF doCheckRestore, getUpdateStatus
<1>10. Fits(doUnlockUpdate)
  BY SendersFit DEF doUnlockUpdate, unlockUpdate
<1>11. Fits(doLockProvisioning)
  BY SendersFit DEF doLockProvisioning, lockProvisioning
<1>12. Fits(doUnLockProvisioning)
  BY SendersFit DEF doUnLockProvisioning, unlockProvisioning
<1>13. Fits(doGetAsset)
  BY SendersFit DEF doGetAsset, sdGetAsset
<1>14. Fits(doForceAsset)
  BY SendersFit DEF doForceAsset, sdForceAsset
<1>15. Fits(doSetConfigMode)
  BY SendersFit DEF doSetConfigMode, sdSetConfigMode
<1>16. Fits(doSetLogLevel)
  BY SendersFit DEF doSetLogLevel
<1>17. Fits(doIsAlive) /\ Fits(doStat) /\ Fits(doPS) /\ Fits(doListVerb) /\ Fits(doReinitLogs)
  BY DEF doIsAlive, doStat, doPS, doListVerb, doReinitLogs, SendsWithoutParams, Sends,
     Verb, Quiet, Operation, Fits, Number, Outcomes, Crash
<1>18. Fits(doGetReport)
  BY DEF doGetReport, SendsAndCounts, Verb, getReport, Quiet, Operation,
     genericGetReport, Fits, Number, Outcomes, Crash
<1>19. Fits(doGetVPNReport)
  BY DEF doGetVPNReport, SendsAndCounts, Verb, getVPNReport, Quiet, Operation,
     genericGetReport, Fits, Number, Outcomes, Crash
<1>20. Fits(doGetRouterIp)
  BY DEF doGetRouterIp, SendsAndCounts, Verb, getRouterIp, Quiet, Operation, Fits,
     Number, Outcomes, Crash
<1>21. Fits(doIpDown)
  BY DEF doIpDown, SendsAndCounts, Verb, Quiet, Operation, Fits, Number, Outcomes, Crash
<1>22. Fits(doCmd(generic_sms_cmd)) /\ Fits(doCmd(generic_smsd_cmd))
  BY ScriptsFit DEF doCmd, smsCmd, generic_sms_cmd, generic_smsd_cmd
<1>23. Fits(doCustCmd)
  BY ScriptsFit DEF doCustCmd, smsCustCmd, generic_sms_cust_cmd
<1>24. Fits(doProvisioning)
  BY ScriptsFit DEF doProvisioning, provisioning, genericInitialProvisioning
<1>25. Fits(doCheckProvisioning)
  BY ScriptsFit DEF doCheckProvisioning, checkProvisioning, genericCheckProvisioning
<1>26. Fits(doPing)
  BY ScriptsFit DEF doPing, getPingStatus
<1>27. Fits(doPushConfig)
  BY ScriptsFit DEF doPushConfig, push_config, genericPushConfig
<1>28. Fits(doStaging)
  BY ScriptsFit DEF doStaging, staging, genericStaging
<1>29. Fits(doStagingMap)
  BY ScriptsFit DEF doStagingMap, staging, genericStagingMap
<1>30. Fits(doRestoreConf)
  BY ScriptsFit DEF doRestoreConf, restoreConf, genericRestoreConf
<1>31. Fits(doGenTemplate)
  BY ScriptsFit DEF doGenTemplate, genTemplate, generic_gen_template
<1>32. Fits(doBackupConf)
  BY ScriptsFit DEF doBackupConf, backupRouterFullConfiguration, genericBackupConf
<1>33. Fits(doGetRunningConf)
  BY ScriptsFit DEF doGetRunningConf, getRunningConf, genericGetRunningConf
<1>34. Fits(doGetConfig)
  BY ScriptsFit DEF doGetConfig, getConfig, genericGetConfig
<1>35. Fits(doGetActivityReport)
  BY ScriptsFit DEF doGetActivityReport, getActivityReport, genericGetActivityReport
<1>36. Fits(doSnmpTest)
  BY ScriptsFit DEF doSnmpTest, genericSnmpTest
<1>37. Fits(doPppIpUp)
  BY DEF doPppIpUp, Name, Verb, updateRouterIP, Quiet, Operation,
     genericCheckSerialNumber, Fits, Number, Outcomes, Crash, Unanswered, AnsweredTwice
<1>38. Fits(doSdIpUp)
  BY DEF doSdIpUp, Name, Verb, updateIP, Quiet, Operation, genericCheckSerialNumber,
     Fits, Number, Outcomes, Crash, Unanswered, AnsweredTwice
<1>39. Fits(doImmediateSaveConf)
  BY DEF doImmediateSaveConf, Name, Logs, Verb, save_all_conf, Quiet, Operation, Fits,
     Number, Outcomes, Crash, Unanswered, AnsweredTwice
<1>40. Fits(doJsSmsexec)
  BY DEF doJsSmsexec, Name, Logs, Verb, smsexec, Operation, genericSmsexecCmd, Fits,
     Number, Outcomes, Crash, Unanswered, AnsweredTwice
<1>41. Fits(doJsSmsexecn)
  BY DEF doJsSmsexecn, Name, Logs, Verb, smsexecn, Operation, genericSmsexecCmd, Fits,
     Number, Outcomes, Crash, Unanswered, AnsweredTwice
<1>42. Fits(doJsSmsAddonExec)
  BY DEF doJsSmsAddonExec, Name, Verb, smsexecn, Operation, genericSmsAddonExecCmd,
     Fits, Number, Outcomes, Crash, Unanswered, AnsweredTwice
<1>43. Fits(js_exec_script)
  BY DEF js_exec_script, Name, Logs, Verb, exec_script, Operation, genericExecScript,
     Fits, Number, Outcomes, Crash, Unanswered, AnsweredTwice
<1>44. Fits(doUpdateLicense)
  BY DEF doUpdateLicense, Name, Logs, Verb, updateLicense, Operation,
     genericUpdateLicense, Fits, Number, Outcomes, Crash, Unanswered, AnsweredTwice
<1>45. Fits(doUpdateFirmware)
  BY DEF doUpdateFirmware, Name, Logs, Verb, updateFirmware, Operation,
     genericUpdateFirmware, Fits, Number, Outcomes, Crash, Unanswered, AnsweredTwice
<1>46. Fits(doHaSwap)
  BY DEF doHaSwap, Name, Logs, Verb, ha_swap, Operation, genericHaSwap, Fits, Number,
     Outcomes, Crash, Unanswered, AnsweredTwice
<1>47. Fits(doSendDataFiles)
  BY DEF doSendDataFiles, Name, Logs, Verb, send_data_files, Operation,
     genericSendDataFiles, Fits, Number, Outcomes, Crash, Unanswered, AnsweredTwice
<1>48. Fits(doUpdateConfig)
  BY DEF doUpdateConfig, Verb, updateConfig, Operation, genericUpdateConf, Fits, Number,
     Outcomes, Crash, Unanswered, AnsweredTwice
<1>49. Fits(doResolveTemplate)
  BY DEF doResolveTemplate, Verb, resolve_template, Operation, Fits, Number, Outcomes, Crash,
     Unanswered, AnsweredTwice
<1>50. Fits(doResolve)
  BY DEF doResolve, Verb, resolve_template_buffer, Operation, Fits, Number, Outcomes, Crash,
     Unanswered, AnsweredTwice
<1>51. Fits(doUnarchiveConf)
  BY DEF doUnarchiveConf, Logs, Verb, unarchive_conf, Answering, Operation,
     genericUnarchiveConfiguration, Fits, Number, Outcomes, Crash, Unanswered, AnsweredTwice
<1>52. Fits(doGetArchiveConf)
  BY DEF doGetArchiveConf, Logs, Verb, get_archive_conf, Answering, Operation,
     genericGetArchiveConfiguration, Fits, Number, Outcomes, Crash, Unanswered, AnsweredTwice
<1>53. Fits(doCallCommand)
  BY DEF doCallCommand, Logs, Verb, call_command, Answering, Operation,
     genericCallCommand, Fits, Number, Outcomes, Crash, Unanswered, AnsweredTwice
<1>54. Fits(doCheckSerial)
  BY DEF doCheckSerial, Logs, Verb, check_serial, Answering, Operation,
     genericCheckSerialNumber, Fits, Number, Outcomes, Crash, Unanswered, AnsweredTwice
<1>55. Fits(Logs(doSnmpGet))
  BY DEF Logs, Verb, doSnmpGet, Operation, Fits, Number, Outcomes, Crash, Unanswered,
     AnsweredTwice
<1>56. Fits(do_SnmpGet) /\ Fits(do_SnmpGetNext)
  BY <1>55 DEF do_SnmpGet, do_SnmpGetNext
<1> QED
  BY <1>1, <1>2, <1>3, <1>4, <1>5, <1>6, <1>7, <1>8, <1>9, <1>10, <1>11, <1>12, <1>13,
     <1>14, <1>15, <1>16, <1>17, <1>18, <1>19, <1>20, <1>21, <1>22, <1>23, <1>24, <1>25,
     <1>26, <1>27, <1>28, <1>29, <1>30, <1>31, <1>32, <1>33, <1>34, <1>35, <1>36, <1>37,
     <1>38, <1>39, <1>40, <1>41, <1>42, <1>43, <1>44, <1>45, <1>46, <1>47, <1>48, <1>49,
     <1>50, <1>51, <1>52, <1>53, <1>54, <1>56 DEF verbTab, CountedVerbs

-----------------------------------------------------------------------------
(***************************************************************************)
(* The answers.  AnswerCore says, for each place a request can be at, how   *)
(* many answers its client has got and whether the socket is still open.    *)
(***************************************************************************)
ClientTypes ==
  /\ requests \in 0..MaxRequests
  /\ out \in [Worker -> Endings]
  /\ open \subseteq Worker
  /\ answers \in [Worker -> Nat]

\* The operation is over and the functions that answer have not been called: a
\* script that succeeded has answered, and so has one that closed the socket;
\* doSdIpUp has closed it without answering; nothing else has been written.
Ran(w) ==
  /\ va[w] \in verbTab
  /\ out[w] \in (va[w].fails \ Crash) \cup {"ok"}
  /\ \/ va[w].script /\ out[w] = "ok" /\ answers[w] = 1
     \/ ~(va[w].script /\ out[w] = "ok") /\ w \in open /\ answers[w] = 0
     \/ w \notin open /\ answers[w] = 1
     \/ w \notin open /\ answers[w] = 0 /\ va[w].verb = "SDIPUP"

\* The connection is about to be closed: the clause of AnsweredOnce.
Closing(w) ==
  \/ answers[w] = 1
  \/ answers[w] = 0 /\ Unanswered(va[w], out[w])
  \/ answers[w] = 2 /\ AnsweredTwice(va[w], out[w])

AnswerCore ==
  \A w \in Worker :
    /\ pc[w] \in {"idle", "CheckVerb"} => out[w] = "none" /\ answers[w] = 0
    /\ pc[w] \in {"CheckVerb", "total", "total_store", "run"} => w \in open /\ answers[w] = 0
    /\ pc[w] \in {"total", "total_store", "run"} => va[w] \in verbTab
    /\ pc[w] \in {"error", "error_store", "reply"} => Ran(w)
    /\ pc[w] = "close" => Closing(w)

\* What a step of w says of AnswerCore: the others keep their state, w is where
\* AnswerCore says.
LEMMA OneMoves ==
  ASSUME StatTypes, ClientTypes, AnswerCore, NEW w \in Worker, NEW next \in Labels, Goto(w, next),
         \A u \in Worker \ {w} :
           /\ va'[u] = va[u] /\ out'[u] = out[u] /\ answers'[u] = answers[u]
           /\ u \in open' <=> u \in open,
         next \in {"idle", "CheckVerb"} => out'[w] = "none" /\ answers'[w] = 0,
         next \in {"CheckVerb", "total", "total_store", "run"} => w \in open' /\ answers'[w] = 0,
         next \in {"total", "total_store", "run"} => va'[w] \in verbTab,
         next \in {"error", "error_store", "reply"} => Ran(w)',
         next = "close" => Closing(w)'
  PROVE  AnswerCore'
<1>1. pc'[w] = next /\ \A u \in Worker \ {w} : pc'[u] = pc[u]
  BY DEF Goto, StatTypes
<1>2. \A u \in Worker \ {w} : (Ran(u) => Ran(u)') /\ (Closing(u) => Closing(u)')
  BY DEF Ran, Closing
<1> QED
  BY <1>1, <1>2 DEF AnswerCore

\* A step that only counts: the client's side is left alone.
LEMMA CountingKeepsAnswers ==
  ASSUME StatTypes, ClientTypes, AnswerCore, NEW w \in Worker,
         UNCHANGED <<requests, client>>,
         \/ pc[w] = "total" /\ Goto(w, "total_store")
         \/ pc[w] = "total_store" /\ Goto(w, "run")
         \/ pc[w] = "error" /\ Goto(w, "error_store")
         \/ pc[w] = "error_store" /\ Goto(w, "reply")
  PROVE  ClientTypes' /\ AnswerCore'
<1>1. va' = va /\ out' = out /\ open' = open /\ answers' = answers /\ requests' = requests
  BY DEF client
<1>2. ClientTypes'
  BY <1>1 DEF ClientTypes
<1>3. Ran(w) => Ran(w)'
  BY <1>1 DEF Ran
<1>4. \A u \in Worker \ {w} :
        /\ va'[u] = va[u] /\ out'[u] = out[u] /\ answers'[u] = answers[u]
        /\ u \in open' <=> u \in open
  BY <1>1
<1>5. /\ pc[w] \in {"total", "total_store"} =>
           w \in open' /\ answers'[w] = 0 /\ va'[w] \in verbTab
      /\ pc[w] \in {"error", "error_store"} => Ran(w)'
  BY <1>1, <1>3 DEF AnswerCore
<1>6. CASE pc[w] = "total" /\ Goto(w, "total_store")
  BY <1>2, <1>4, <1>5, <1>6, OneMoves DEF Labels
<1>7. CASE pc[w] = "total_store" /\ Goto(w, "run")
  BY <1>2, <1>4, <1>5, <1>7, OneMoves DEF Labels
<1>8. CASE pc[w] = "error" /\ Goto(w, "error_store")
  BY <1>2, <1>4, <1>5, <1>8, OneMoves DEF Labels
<1>9. CASE pc[w] = "error_store" /\ Goto(w, "reply")
  BY <1>2, <1>4, <1>5, <1>9, OneMoves DEF Labels
<1> QED
  BY <1>2, <1>6, <1>7, <1>8, <1>9

\* The operation leaves the request as Ran says.
LEMMA RunAnswers ==
  ASSUME StatTypes, ClientTypes, AnswerCore, NEW w \in Worker, run(w)
  PROVE  ClientTypes' /\ AnswerCore'
<1>1. /\ pc[w] = "run" /\ va' = va /\ requests' = requests
      /\ w \in open /\ answers[w] = 0 /\ va[w] \in verbTab
  BY DEF run, AnswerCore
<1>2. PICK o \in (va[w].fails \ Crash) \cup {"ok"} :
        /\ out' = [out EXCEPT ![w] = o]
        /\ Goto(w, IF o \in va[w].stat.errors THEN "error" ELSE "reply")
        /\ \/ /\ va[w].script => o # "ok"
              /\ open' = IF va[w].verb = "SDIPUP" THEN open \ {w} ELSE open
              /\ UNCHANGED answers
           \/ /\ va[w].script /\ o = "ok"
              /\ Send(w, 1) /\ UNCHANGED open
           \/ /\ va[w].script /\ o \in {"ok", "failed"}
              /\ Send(w, 1) /\ open' = open \ {w}
  BY DEF run
<1>3. Fits(va[w]) /\ o \in Outcomes
  BY <1>1, <1>2, VerbTabFits DEF Fits, Outcomes
<1>4. ClientTypes'
  BY <1>1, <1>2, <1>3 DEF ClientTypes, Send, Endings
<1>5. out'[w] = o
  BY <1>2 DEF ClientTypes
<1>6. Ran(w)'
  <2>1. CASE /\ va[w].script => o # "ok"
             /\ open' = IF va[w].verb = "SDIPUP" THEN open \ {w} ELSE open
             /\ UNCHANGED answers
    BY <2>1, <1>1, <1>2, <1>5 DEF Ran
  <2>2. CASE va[w].script /\ o = "ok" /\ Send(w, 1)
    BY <2>2, <1>1, <1>2, <1>5 DEF Ran, Send, ClientTypes
  <2>3. CASE Send(w, 1) /\ open' = open \ {w}
    BY <2>3, <1>1, <1>2, <1>5 DEF Ran, Send, ClientTypes
  <2> QED
    BY <1>2, <2>1, <2>2, <2>3
<1>7. \A u \in Worker \ {w} :
        /\ va'[u] = va[u] /\ out'[u] = out[u] /\ answers'[u] = answers[u]
        /\ u \in open' <=> u \in open
  BY <1>1, <1>2 DEF ClientTypes, Send
<1>8. CASE o \in va[w].stat.errors
  BY <1>2, <1>4, <1>6, <1>7, <1>8, OneMoves DEF Labels
<1>9. CASE o \notin va[w].stat.errors
  BY <1>2, <1>4, <1>6, <1>7, <1>9, OneMoves DEF Labels
<1> QED
  BY <1>4, <1>8, <1>9

\* The answers that follow bring the client to the number AnsweredOnce states.
LEMMA ReplyAnswers ==
  ASSUME StatTypes, ClientTypes, AnswerCore, NEW w \in Worker, reply(w)
  PROVE  ClientTypes' /\ AnswerCore'
<1> DEFINE n == IF w \in open THEN Number(va[w], out[w]) ELSE 0
<1>1. /\ pc[w] = "reply" /\ va' = va /\ out' = out /\ open' = open /\ requests' = requests
      /\ Send(w, n) /\ Goto(w, "close")
  BY NumberIsCardinality DEF reply
<1>2. Ran(w) /\ Fits(va[w])
  BY <1>1, VerbTabFits DEF AnswerCore, Ran
<1>3. n \in Nat
  BY DEF Number
<1>4. ClientTypes'
  BY <1>1, <1>3 DEF ClientTypes, Send
<1>5. answers'[w] = answers[w] + n
  BY <1>1 DEF ClientTypes, Send
<1>6. Closing(w)'
  <2>1. CASE va[w].script /\ out[w] = "ok" /\ answers[w] = 1
    BY <2>1, <1>1, <1>2, <1>5 DEF Closing, Fits
  <2>2. CASE ~(va[w].script /\ out[w] = "ok") /\ w \in open /\ answers[w] = 0
    BY <2>2, <1>1, <1>2, <1>5 DEF Closing, Fits, Ran
  <2>3. CASE w \notin open /\ answers[w] = 1
    BY <2>3, <1>1, <1>5 DEF Closing
  <2>4. CASE w \notin open /\ answers[w] = 0 /\ va[w].verb = "SDIPUP"
    BY <2>4, <1>1, <1>2, <1>5 DEF Closing, Unanswered, Ran, Fits, Outcomes
  <2> QED
    BY <1>2, <2>1, <2>2, <2>3, <2>4 DEF Ran
<1>7. \A u \in Worker \ {w} : answers'[u] = answers[u]
  BY <1>1 DEF ClientTypes, Send
<1> QED
  BY <1>1, <1>4, <1>6, <1>7, OneMoves DEF Labels

AnswerInv == CounterInv /\ ClientTypes /\ AnswerCore

\* The inductive invariant.
LEMMA AnswerInvKept == AnswerInv /\ [Next]_vars => AnswerInv'
<1> SUFFICES ASSUME AnswerInv, [Next]_vars PROVE ClientTypes' /\ AnswerCore'
  BY CounterInvKept DEF AnswerInv
<1>0. StatTypes /\ ClientTypes /\ AnswerCore
  BY DEF AnswerInv, CounterInv
<1>1. CASE UNCHANGED vars
  BY <1>0, <1>1 DEF ClientTypes, AnswerCore, Ran, Closing, vars
<1>2. ASSUME NEW w \in Worker, serve(w) PROVE ClientTypes' /\ AnswerCore'
  <2>1. /\ pc[w] = "idle" /\ requests < MaxRequests /\ requests' = requests + 1
        /\ open' = open \cup {w} /\ va' = va /\ out' = out /\ answers' = answers
    BY <1>2 DEF serve
  <2>2. ClientTypes'
    BY <1>0, <2>1, VerbsAssumption DEF ClientTypes
  <2>3. out'[w] = "none" /\ answers'[w] = 0
    BY <1>0, <2>1 DEF AnswerCore
  <2>4. Closing(w)'
    BY <2>3 DEF Closing, Unanswered
  <2>5. /\ w \in open'
        /\ \A u \in Worker \ {w} :
             /\ va'[u] = va[u] /\ out'[u] = out[u] /\ answers'[u] = answers[u]
             /\ u \in open' <=> u \in open
    BY <2>1
  <2>6. CASE Goto(w, "CheckVerb")
    BY <1>0, <2>2, <2>3, <2>5, <2>6, OneMoves DEF Labels
  <2>7. CASE Goto(w, "close")
    BY <1>0, <2>2, <2>4, <2>5, <2>7, OneMoves DEF Labels
  <2> QED
    BY <1>2, <2>2, <2>6, <2>7 DEF serve
<1>3. ASSUME NEW w \in Worker, CheckVerb(w) PROVE ClientTypes' /\ AnswerCore'
  <2>1. /\ w \in open /\ answers[w] = 0 /\ out[w] = "none"
        /\ requests' = requests /\ open' = open
    BY <1>0, <1>3 DEF CheckVerb, AnswerCore
  <2>2. CASE out' = [out EXCEPT ![w] = "unknown"] /\ Send(w, 1) /\ Goto(w, "close") /\ UNCHANGED va
    <3>1. ClientTypes'
      BY <1>0, <2>1, <2>2 DEF ClientTypes, Send, Endings
    <3>2. Closing(w)' /\ \A u \in Worker \ {w} : out'[u] = out[u] /\ answers'[u] = answers[u]
      BY <1>0, <2>1, <2>2 DEF ClientTypes, Send, Closing
    <3> QED
      BY <1>0, <2>1, <2>2, <3>1, <3>2, OneMoves DEF Labels
  <2>3. CASE /\ out' = [out EXCEPT ![w] = "WAKE_UP_SMS"]
             /\ Goto(w, "close") /\ UNCHANGED <<va, answers>>
    <3>1. ClientTypes'
      BY <1>0, <2>1, <2>3 DEF ClientTypes, Endings
    <3>2. Closing(w)' /\ \A u \in Worker \ {w} : out'[u] = out[u]
      BY <1>0, <2>1, <2>3 DEF ClientTypes, Closing, Unanswered
    <3> QED
      BY <1>0, <2>1, <2>3, <3>1, <3>2, OneMoves DEF Labels
  <2>4. ASSUME NEW v \in verbTab, va' = [va EXCEPT ![w] = v], UNCHANGED answers,
               \/ out' = [out EXCEPT ![w] = "short"] /\ Goto(w, "close")
               \/ Goto(w, IF v.stat = NoStat THEN "run" ELSE "total") /\ UNCHANGED out
        PROVE  ClientTypes' /\ AnswerCore'
    <3>1. va'[w] = v /\ \A u \in Worker \ {w} : va'[u] = va[u]
      BY <1>0, <2>4 DEF StatTypes
    <3>2. ClientTypes'
      BY <1>0, <2>1, <2>4 DEF ClientTypes, Endings
    <3>3. CASE out' = [out EXCEPT ![w] = "short"] /\ Goto(w, "close")
      <4>1. Closing(w)' /\ \A u \in Worker \ {w} : out'[u] = out[u]
        BY <1>0, <2>1, <2>4, <3>3 DEF ClientTypes, Closing, Unanswered
      <4> QED
        BY <1>0, <2>1, <2>4, <3>1, <3>2, <3>3, <4>1, OneMoves DEF Labels
    <3>4. CASE Goto(w, "run") /\ UNCHANGED out
      BY <1>0, <2>1, <2>4, <3>1, <3>2, <3>4, OneMoves DEF Labels
    <3>5. CASE Goto(w, "total") /\ UNCHANGED out
      BY <1>0, <2>1, <2>4, <3>1, <3>2, <3>5, OneMoves DEF Labels
    <3> QED
      BY <2>4, <3>3, <3>4, <3>5
  <2> QED
    BY <1>3, <2>2, <2>3, <2>4 DEF CheckVerb
<1>4. ASSUME NEW w \in Worker, countTotal(w) PROVE ClientTypes' /\ AnswerCore'
  BY <1>0, <1>4, CountingKeepsAnswers DEF countTotal, ReadCounter, WriteCounter
<1>5. ASSUME NEW w \in Worker, run(w) PROVE ClientTypes' /\ AnswerCore'
  BY <1>0, <1>5, RunAnswers
<1>6. ASSUME NEW w \in Worker, countError(w) PROVE ClientTypes' /\ AnswerCore'
  BY <1>0, <1>6, CountingKeepsAnswers DEF countError, ReadCounter, WriteCounter
<1>7. ASSUME NEW w \in Worker, reply(w) PROVE ClientTypes' /\ AnswerCore'
  BY <1>0, <1>7, ReplyAnswers
<1>8. ASSUME NEW w \in Worker, endServe(w) PROVE ClientTypes' /\ AnswerCore'
  <2>1. /\ open' = open \ {w} /\ requests' = requests /\ Goto(w, "idle")
        /\ va' = [va EXCEPT ![w] = NULL] /\ out' = [out EXCEPT ![w] = "none"]
        /\ answers' = [answers EXCEPT ![w] = 0]
    BY <1>8 DEF endServe
  <2>2. ClientTypes'
    BY <1>0, <2>1 DEF ClientTypes, Endings
  <2>3. /\ out'[w] = "none" /\ answers'[w] = 0
        /\ \A u \in Worker \ {w} :
             /\ va'[u] = va[u] /\ out'[u] = out[u] /\ answers'[u] = answers[u]
             /\ u \in open' <=> u \in open
    BY <1>0, <2>1 DEF ClientTypes, StatTypes
  <2> QED
    BY <1>0, <2>1, <2>2, <2>3, OneMoves DEF Labels
<1>9. ASSUME NEW w \in Worker, crash(w) PROVE ClientTypes' /\ AnswerCore'
  BY <1>0, <1>9 DEF crash, ClientTypes, AnswerCore, Endings
<1> QED
  BY <1>1, <1>2, <1>3, <1>4, <1>5, <1>6, <1>7, <1>8, <1>9 DEF Next, Step

LEMMA AnswerInvInit == Init => AnswerInv
<1> SUFFICES ASSUME Init PROVE AnswerInv
  OBVIOUS
<1>1. CounterInv
  BY DEF Init, CounterInv, StatTypes, StatKnown, IncrementExclusive, CountersExact, Labels
<1>2. ClientTypes /\ AnswerCore
  BY VerbsAssumption DEF Init, ClientTypes, AnswerCore, Endings
<1> QED
  BY <1>1, <1>2 DEF AnswerInv

\* The state of the requests and of the statistics keeps its type.
THEOREM VerbsTypeCorrect == Spec => []TypeOK
<1>1. AnswerInv => TypeOK
  BY DEF AnswerInv, CounterInv, StatTypes, ClientTypes, TypeOK
<1> QED
  BY <1>1, AnswerInvInit, AnswerInvKept, PTL DEF Spec

\* When serve closes a connection its client has got exactly one answer, but for
\* the requests Unanswered and AnsweredTwice list, for every verb of verbTab and
\* however many threads serve requests.
THEOREM ClientsAnsweredOnce == Spec => []AnsweredOnce
<1>1. AnswerInv => AnsweredOnce
  BY DEF AnswerInv, AnswerCore, Closing, AnsweredOnce
<1> QED
  BY <1>1, AnswerInvInit, AnswerInvKept, PTL DEF Spec

-----------------------------------------------------------------------------
(***************************************************************************)
(* The error counters.  Every error counted was counted as a request       *)
(* before: a request that is counted and whose outcome is not settled yet   *)
(* is a unit between the two counters.                                      *)
(***************************************************************************)
OwnStats == {StatPppIpUp, StatIpDown, StatGetRouterIp}

\* The threads whose request is in total and may still be counted in error.
Pending(st) == {u \in Worker : pc[u] \in {"run", "error", "error_store"} /\ va[u].stat = st}

ErrorCore ==
  \A st \in OwnStats :
    /\ IsFiniteSet(Pending(st))
    /\ currentStat[st.error] + Cardinality(Pending(st)) <= currentStat[st.total]

\* These statistics share no counter with those of another handler.
LEMMA OwnStatFacts ==
  \A st \in OwnStats :
    /\ st # NoStat /\ st.total \in Counters /\ st.error \in Counters
    /\ st.error # st.total /\ st.error # Shared
    /\ \A s \in Counting :
         /\ s.total # st.error /\ s.error # st.total
         /\ s # st => s.total # st.total /\ s.error # st.error
<1> DEFINE StatSet == {StatGetReport, StatGetVPNReport, StatPppIpUp, StatIpDown, StatGetRouterIp}
<1>1. Counting \subseteq StatSet
  BY DEF Counting, Stats
<1>2. \A st \in OwnStats : st # NoStat
  BY DEF OwnStats, NoStat, Counted, StatPppIpUp, StatIpDown, StatGetRouterIp
<1>3. OwnStats \subseteq Counting
  BY <1>2 DEF OwnStats, Counting, Stats
<1>4. \A st \in OwnStats : st.error # Shared
  BY DEF OwnStats, Shared, Counted, StatPppIpUp, StatIpDown, StatGetRouterIp
<1>5. \A st \in OwnStats, s \in StatSet : s # st => s.total # st.total /\ s.error # st.error
  BY DEF OwnStats, Counted, StatGetReport, StatGetVPNReport, StatPppIpUp, StatIpDown,
         StatGetRouterIp
<1> HIDE DEF StatSet
<1> QED
  BY <1>1, <1>2, <1>3, <1>4, <1>5, StatFacts

\* A step that leaves the counters alone and adds no thread to Pending.
LEMMA UncountedStepKeeps ==
  ASSUME CounterInv, ErrorCore, NEW w \in Worker, NEW next \in Labels, Goto(w, next),
         UNCHANGED currentStat,
         \A u \in Worker \ {w} : va'[u] = va[u],
         next \in {"run", "error", "error_store"} =>
           \/ va'[w].stat = NoStat
           \/ pc[w] \in {"run", "error", "error_store"} /\ va'[w] = va[w]
  PROVE  ErrorCore'
<1> SUFFICES ASSUME NEW st \in OwnStats
             PROVE  /\ IsFiniteSet(Pending(st)')
                    /\ currentStat[st.error] + Cardinality(Pending(st)') <= currentStat[st.total]
  BY DEF ErrorCore
<1>1. pc'[w] = next /\ \A u \in Worker \ {w} : pc'[u] = pc[u]
  BY DEF Goto, CounterInv, StatTypes
<1>2. /\ IsFiniteSet(Pending(st))
      /\ currentStat[st.error] + Cardinality(Pending(st)) <= currentStat[st.total]
  BY DEF ErrorCore
<1>3. st # NoStat /\ currentStat[st.error] \in Nat /\ currentStat[st.total] \in Nat
  BY OwnStatFacts DEF CounterInv, StatTypes
<1>4. Pending(st)' \subseteq Pending(st)
  BY <1>1, <1>3 DEF Pending
<1>5. /\ IsFiniteSet(Pending(st)') /\ Cardinality(Pending(st)') <= Cardinality(Pending(st))
      /\ Cardinality(Pending(st)') \in Nat /\ Cardinality(Pending(st)) \in Nat
  BY <1>2, <1>4, FS_Subset, FS_CardinalityType
<1> QED
  BY <1>2, <1>3, <1>5

\* A request counted in total joins Pending.
LEMMA TotalKeeps ==
  ASSUME CounterInv, ErrorCore, NEW w \in Worker,
         pc[w] = "total_store", Goto(w, "run"), WriteCounter(w, va[w].stat.total)
  PROVE  ErrorCore'
<1> DEFINE s == va[w].stat
<1> SUFFICES ASSUME NEW st \in OwnStats
             PROVE  /\ IsFiniteSet(Pending(st)')
                    /\ currentStat'[st.error] + Cardinality(Pending(st)') <= currentStat'[st.total]
  BY DEF ErrorCore
<1>1. /\ s \in Counting /\ s.total \in Counters
      /\ read[w] = currentStat[s.total]
  BY StatFacts DEF CounterInv, StatKnown, IncrementExclusive
<1>2. /\ va' = va
      /\ pc'[w] = "run" /\ \A u \in Worker \ {w} : pc'[u] = pc[u]
      /\ currentStat' = [currentStat EXCEPT ![s.total] = @ + 1]
  BY <1>1 DEF Goto, WriteCounter, client, CounterInv, StatTypes
<1>3. /\ IsFiniteSet(Pending(st)) /\ Cardinality(Pending(st)) \in Nat
      /\ currentStat[st.error] + Cardinality(Pending(st)) <= currentStat[st.total]
  BY FS_CardinalityType DEF ErrorCore
<1>4. /\ st.total \in Counters /\ st.error \in Counters /\ s.total # st.error
      /\ currentStat \in [Counters -> Nat]
  BY <1>1, OwnStatFacts DEF CounterInv, StatTypes
<1>5. CASE s = st
  <2>1. Pending(st)' = Pending(st) \cup {w} /\ w \notin Pending(st)
    BY <1>2, <1>5 DEF Pending
  <2>2. IsFiniteSet(Pending(st)') /\ Cardinality(Pending(st)') = Cardinality(Pending(st)) + 1
    BY <1>3, <2>1, FS_AddElement
  <2>3. /\ currentStat'[st.error] = currentStat[st.error]
        /\ currentStat'[st.total] = currentStat[st.total] + 1
    BY <1>2, <1>4, <1>5
  <2>4. currentStat[st.error] \in Nat /\ currentStat[st.total] \in Nat
    BY <1>4
  <2> QED
    BY <1>3, <2>2, <2>3, <2>4
<1>6. CASE s # st
  <2>1. Pending(st)' = Pending(st)
    BY <1>2, <1>6 DEF Pending
  <2>2. s.total # st.total
    BY <1>1, <1>6, OwnStatFacts
  <2>3. /\ currentStat'[st.error] = currentStat[st.error]
        /\ currentStat'[st.total] = currentStat[st.total]
    BY <1>2, <1>4, <2>2
  <2> QED
    BY <1>3, <2>1, <2>3
<1> QED
  BY <1>5, <1>6

\* A request counted in error leaves Pending.
LEMMA ErrorKeeps ==
  ASSUME CounterInv, ErrorCore, NEW w \in Worker,
         pc[w] = "error_store", Goto(w, "reply"), WriteCounter(w, va[w].stat.error)
  PROVE  ErrorCore'
<1> DEFINE s == va[w].stat
<1> SUFFICES ASSUME NEW st \in OwnStats
             PROVE  /\ IsFiniteSet(Pending(st)')
                    /\ currentStat'[st.error] + Cardinality(Pending(st)') <= currentStat'[st.total]
  BY DEF ErrorCore
<1>1. /\ s \in Counting /\ s.error \in Counters
      /\ s.error # Shared => read[w] = currentStat[s.error]
  BY StatFacts DEF CounterInv, StatKnown, IncrementExclusive
<1>2. /\ va' = va
      /\ pc'[w] = "reply" /\ \A u \in Worker \ {w} : pc'[u] = pc[u]
      /\ currentStat' = [currentStat EXCEPT ![s.error] = read[w] + 1]
  BY DEF Goto, WriteCounter, client, CounterInv, StatTypes
<1>3. /\ IsFiniteSet(Pending(st)) /\ Cardinality(Pending(st)) \in Nat
      /\ currentStat[st.error] + Cardinality(Pending(st)) <= currentStat[st.total]
  BY FS_CardinalityType DEF ErrorCore
<1>4. /\ st.total \in Counters /\ st.error \in Counters /\ s.error # st.total
      /\ currentStat \in [Counters -> Nat] /\ st.error # Shared
  BY <1>1, OwnStatFacts DEF CounterInv, StatTypes
<1>5. CASE s = st
  <2>1. Pending(st)' = Pending(st) \ {w} /\ w \in Pending(st)
    BY <1>2, <1>5 DEF Pending
  <2>2. IsFiniteSet(Pending(st)') /\ Cardinality(Pending(st)') = Cardinality(Pending(st)) - 1
    BY <1>3, <2>1, FS_RemoveElement
  <2>3. /\ currentStat'[st.error] = currentStat[st.error] + 1
        /\ currentStat'[st.total] = currentStat[st.total]
    BY <1>1, <1>2, <1>4, <1>5
  <2>4. currentStat[st.error] \in Nat /\ currentStat[st.total] \in Nat
    BY <1>4
  <2> QED
    BY <1>3, <2>2, <2>3, <2>4
<1>6. CASE s # st
  <2>1. Pending(st)' = Pending(st)
    BY <1>2, <1>6 DEF Pending
  <2>2. s.error # st.error
    BY <1>1, <1>6, OwnStatFacts
  <2>3. /\ currentStat'[st.error] = currentStat[st.error]
        /\ currentStat'[st.total] = currentStat[st.total]
    BY <1>2, <1>4, <2>2
  <2> QED
    BY <1>3, <2>1, <2>3
<1> QED
  BY <1>5, <1>6

\* The inductive invariant, together with CounterInv.
LEMMA ErrorCoreKept == CounterInv /\ ErrorCore /\ [Next]_vars => ErrorCore'
<1> SUFFICES ASSUME CounterInv, ErrorCore, [Next]_vars PROVE ErrorCore'
  OBVIOUS
<1>0. va \in [Worker -> verbTab \cup {NULL}]
  BY DEF CounterInv, StatTypes
<1>1. CASE UNCHANGED vars
  BY <1>1 DEF ErrorCore, Pending, vars
<1>2. ASSUME NEW w \in Worker, serve(w) PROVE ErrorCore'
  BY <1>2, UncountedStepKeeps DEF serve, stats, Labels
<1>3. ASSUME NEW w \in Worker, CheckVerb(w) PROVE ErrorCore'
  <2>1. UNCHANGED currentStat
    BY <1>3 DEF CheckVerb, stats
  <2>2. CASE Goto(w, "close") /\ UNCHANGED va
    BY <2>1, <2>2, UncountedStepKeeps DEF Labels
  <2>3. ASSUME NEW v \in verbTab, va' = [va EXCEPT ![w] = v],
               Goto(w, "close") \/ Goto(w, IF v.stat = NoStat THEN "run" ELSE "total")
        PROVE  ErrorCore'
    <3>1. va'[w] = v /\ \A u \in Worker \ {w} : va'[u] = va[u]
      BY <1>0, <2>3
    <3>2. PICK next \in {"close", "run", "total"} :
            Goto(w, next) /\ (next = "run" => v.stat = NoStat)
      BY <2>3
    <3> QED
      BY <2>1, <3>1, <3>2, UncountedStepKeeps DEF Labels
  <2> QED
    BY <1>3, <2>2, <2>3 DEF CheckVerb
<1>4. ASSUME NEW w \in Worker, countTotal(w) PROVE ErrorCore'
  <2>1. CASE pc[w] = "total" /\ Goto(w, "total_store") /\ ReadCounter(w, va[w].stat.total)
    BY <2>1, UncountedStepKeeps DEF ReadCounter, client, Labels
  <2> QED
    BY <1>4, <2>1, TotalKeeps DEF countTotal
<1>5. ASSUME NEW w \in Worker, run(w) PROVE ErrorCore'
  <2>1. pc[w] = "run" /\ va' = va /\ UNCHANGED currentStat
    BY <1>5 DEF run, stats
  <2>2. PICK next \in {"error", "reply"} : Goto(w, next)
    BY <1>5 DEF run
  <2> QED
    BY <2>1, <2>2, UncountedStepKeeps DEF Labels
<1>6. ASSUME NEW w \in Worker, countError(w) PROVE ErrorCore'
  <2>1. CASE pc[w] = "error" /\ Goto(w, "error_store") /\ ReadCounter(w, va[w].stat.error)
    BY <2>1, UncountedStepKeeps DEF ReadCounter, client, Labels
  <2> QED
    BY <1>6, <2>1, ErrorKeeps DEF countError
<1>7. ASSUME NEW w \in Worker, reply(w) PROVE ErrorCore'
  BY <1>7, UncountedStepKeeps DEF reply, stats, Labels
<1>8. ASSUME NEW w \in Worker, endServe(w) PROVE ErrorCore'
  BY <1>0, <1>8, UncountedStepKeeps DEF endServe, stats, Labels
<1>9. ASSUME NEW w \in Worker, crash(w) PROVE ErrorCore'
  <2>1. \A st \in OwnStats : Pending(st)' = {}
    BY <1>9 DEF crash, Pending
  <2>2. \A st \in OwnStats : currentStat'[st.error] = 0 /\ currentStat'[st.total] = 0
    BY <1>9, OwnStatFacts DEF crash
  <2> QED
    BY <2>1, <2>2, FS_EmptySet DEF ErrorCore
<1> QED
  BY <1>1, <1>2, <1>3, <1>4, <1>5, <1>6, <1>7, <1>8, <1>9 DEF Next, Step

-----------------------------------------------------------------------------
(***************************************************************************)
(* The counter that GETREPORT and GETVPNREPORT share.  Its increments can   *)
(* be lost, so the argument is about the increments made: the counter, and  *)
(* every value read of it, is at most their number.                         *)
(***************************************************************************)
Reports == {StatGetReport, StatGetVPNReport}

PendingReports ==
  {u \in Worker : pc[u] \in {"run", "error", "error_store"} /\ va[u].stat \in Reports}

SharedCore ==
  /\ IsFiniteSet(PendingReports)
  /\ counted[Shared] + Cardinality(PendingReports) <=
       counted["totalgetreport"] + counted["totalgetvpnreport"]
  /\ currentStat[Shared] <= counted[Shared]
  /\ \A u \in Worker :
       pc[u] = "error_store" /\ va[u].stat.error = Shared => read[u] <= counted[Shared]

\* The counters of the two handlers.
LEMMA ReportFacts ==
  /\ {Shared, "totalgetreport", "totalgetvpnreport"} \subseteq Counters
  /\ NoStat \notin Reports
  /\ \A s \in Counting :
       /\ s.error = Shared <=> s \in Reports
       /\ s.total \in {"totalgetreport", "totalgetvpnreport"} <=> s \in Reports
       /\ s.total # Shared
       /\ s.error \notin {"totalgetreport", "totalgetvpnreport"}
<1> DEFINE StatSet == {StatGetReport, StatGetVPNReport, StatPppIpUp, StatIpDown, StatGetRouterIp}
<1>1. Counting \subseteq StatSet
  BY DEF Counting, Stats
<1>2. NoStat \notin Reports
  BY DEF Reports, NoStat, Counted, StatGetReport, StatGetVPNReport
<1>3. Reports \subseteq Counting
  BY <1>2 DEF Reports, Counting, Stats
<1>4. {Shared, "totalgetreport", "totalgetvpnreport"} \subseteq Counters
  <2>1. /\ StatGetReport.error = Shared /\ StatGetReport.total = "totalgetreport"
        /\ StatGetVPNReport.total = "totalgetvpnreport"
    BY DEF Shared, Counted, StatGetReport, StatGetVPNReport
  <2> QED
    BY <1>3, <2>1, StatFacts DEF Reports
<1>5. \A s \in StatSet : s.error = Shared <=> s \in Reports
  BY DEF Reports, Shared, Counted, StatGetReport, StatGetVPNReport, StatPppIpUp, StatIpDown,
         StatGetRouterIp
<1>6. \A s \in StatSet : s.total \in {"totalgetreport", "totalgetvpnreport"} <=> s \in Reports
  BY DEF Reports, Counted, StatGetReport, StatGetVPNReport, StatPppIpUp, StatIpDown,
         StatGetRouterIp
<1>7. \A s \in StatSet :
        s.total # Shared /\ s.error \notin {"totalgetreport", "totalgetvpnreport"}
  BY DEF Shared, Counted, StatGetReport, StatGetVPNReport, StatPppIpUp, StatIpDown,
         StatGetRouterIp
<1> HIDE DEF StatSet
<1> QED
  BY <1>1, <1>2, <1>4, <1>5, <1>6, <1>7

\* A step that leaves the counters alone and adds no thread to PendingReports.
LEMMA UncountedKeepsShared ==
  ASSUME CounterInv, SharedCore, NEW w \in Worker, NEW next \in Labels, Goto(w, next),
         UNCHANGED <<currentStat, counted>>,
         \A u \in Worker \ {w} : va'[u] = va[u] /\ read'[u] = read[u],
         next \in {"run", "error", "error_store"} =>
           \/ va'[w].stat = NoStat
           \/ pc[w] \in {"run", "error", "error_store"} /\ va'[w] = va[w],
         next = "error_store" =>
           (va'[w].stat.error = Shared => read'[w] <= counted[Shared])
  PROVE  SharedCore'
<1>1. pc'[w] = next /\ \A u \in Worker \ {w} : pc'[u] = pc[u]
  BY DEF Goto, CounterInv, StatTypes
<1>2. /\ counted[Shared] \in Nat
      /\ counted["totalgetreport"] + counted["totalgetvpnreport"] \in Nat
  BY ReportFacts DEF CounterInv, StatTypes
<1>3. PendingReports' \subseteq PendingReports
  BY <1>1, ReportFacts DEF PendingReports
<1>4. /\ IsFiniteSet(PendingReports')
      /\ Cardinality(PendingReports') <= Cardinality(PendingReports)
      /\ Cardinality(PendingReports') \in Nat /\ Cardinality(PendingReports) \in Nat
  BY <1>3, FS_Subset, FS_CardinalityType DEF SharedCore
<1>5. counted[Shared] + Cardinality(PendingReports') <=
        counted["totalgetreport"] + counted["totalgetvpnreport"]
  BY <1>2, <1>4 DEF SharedCore
<1>6. \A u \in Worker :
        pc'[u] = "error_store" /\ va'[u].stat.error = Shared => read'[u] <= counted[Shared]
  BY <1>1 DEF SharedCore
<1> QED
  BY <1>4, <1>5, <1>6 DEF SharedCore

\* A report counted in its total joins PendingReports; other totals are not
\* concerned.
LEMMA TotalKeepsShared ==
  ASSUME CounterInv, SharedCore, NEW w \in Worker,
         pc[w] = "total_store", Goto(w, "run"), WriteCounter(w, va[w].stat.total)
  PROVE  SharedCore'
<1> DEFINE s == va[w].stat
           total == counted["totalgetreport"] + counted["totalgetvpnreport"]
<1>1. s \in Counting /\ s.total \in Counters /\ s.total # Shared
  BY StatFacts DEF CounterInv, StatKnown
<1>2. /\ va' = va
      /\ pc'[w] = "run" /\ \A u \in Worker \ {w} : pc'[u] = pc[u] /\ read'[u] = read[u]
      /\ currentStat'[Shared] = currentStat[Shared]
      /\ counted' = [counted EXCEPT ![s.total] = @ + 1]
  BY <1>1, ReportFacts DEF Goto, WriteCounter, client, CounterInv, StatTypes
<1>3. /\ counted \in [Counters -> Nat] /\ counted'[Shared] = counted[Shared]
      /\ counted[Shared] \in Nat /\ total \in Nat
  BY <1>1, <1>2, ReportFacts DEF CounterInv, StatTypes
<1>4. /\ IsFiniteSet(PendingReports) /\ Cardinality(PendingReports) \in Nat
      /\ counted[Shared] + Cardinality(PendingReports) <= total
  BY FS_CardinalityType DEF SharedCore
<1>5. /\ IsFiniteSet(PendingReports')
      /\ counted[Shared] + Cardinality(PendingReports') <= total'
  <2>1. CASE s \in Reports
    <3>1. PendingReports' = PendingReports \cup {w} /\ w \notin PendingReports
      BY <1>2, <2>1 DEF PendingReports
    <3>2. /\ IsFiniteSet(PendingReports')
          /\ Cardinality(PendingReports') = Cardinality(PendingReports) + 1
      BY <1>4, <3>1, FS_AddElement
    <3>3. s.total = "totalgetreport" \/ s.total = "totalgetvpnreport"
      BY <1>1, <2>1, ReportFacts
    <3>4. total' = total + 1
      BY <1>2, <1>3, <3>3, ReportFacts
    <3> QED
      BY <1>3, <1>4, <3>2, <3>4
  <2>2. CASE s \notin Reports
    <3>1. PendingReports' = PendingReports
      BY <1>2, <2>2 DEF PendingReports
    <3>2. s.total # "totalgetreport" /\ s.total # "totalgetvpnreport"
      BY <1>1, <2>2, ReportFacts
    <3>3. total' = total
      BY <1>2, <1>3, <3>2, ReportFacts
    <3> QED
      BY <1>4, <3>1, <3>3
  <2> QED
    BY <2>1, <2>2
<1>6. \A u \in Worker :
        pc'[u] = "error_store" /\ va'[u].stat.error = Shared => read'[u] <= counted'[Shared]
  BY <1>2, <1>3 DEF SharedCore
<1> QED
  BY <1>2, <1>3, <1>5, <1>6 DEF SharedCore

\* A report counted as an error leaves PendingReports, and the value written is
\* at most the number of increments, even if it was read long before.
LEMMA ErrorKeepsShared ==
  ASSUME CounterInv, SharedCore, NEW w \in Worker,
         pc[w] = "error_store", Goto(w, "reply"), WriteCounter(w, va[w].stat.error)
  PROVE  SharedCore'
<1> DEFINE s == va[w].stat
           total == counted["totalgetreport"] + counted["totalgetvpnreport"]
<1>1. /\ s \in Counting /\ s.error \in Counters
      /\ s.error # "totalgetreport" /\ s.error # "totalgetvpnreport"
  BY StatFacts, ReportFacts DEF CounterInv, StatKnown
<1>2. /\ va' = va
      /\ pc'[w] = "reply" /\ \A u \in Worker \ {w} : pc'[u] = pc[u] /\ read'[u] = read[u]
      /\ currentStat' = [currentStat EXCEPT ![s.error] = read[w] + 1]
      /\ counted' = [counted EXCEPT ![s.error] = @ + 1]
  BY DEF Goto, WriteCounter, client, CounterInv, StatTypes
<1>3. /\ counted \in [Counters -> Nat] /\ currentStat \in [Counters -> Nat]
      /\ counted[Shared] \in Nat /\ currentStat[Shared] \in Nat /\ total \in Nat
      /\ \A u \in Worker : read[u] \in Nat
  BY ReportFacts DEF CounterInv, StatTypes
<1>4. /\ IsFiniteSet(PendingReports) /\ Cardinality(PendingReports) \in Nat
      /\ counted[Shared] + Cardinality(PendingReports) <= total
  BY FS_CardinalityType DEF SharedCore
<1>5. total' = total
  BY <1>1, <1>2, <1>3, ReportFacts
<1>6. CASE s \in Reports
  <2>1. s.error = Shared
    BY <1>1, <1>6, ReportFacts
  <2>2. counted'[Shared] = counted[Shared] + 1 /\ currentStat'[Shared] = read[w] + 1
    BY <1>2, <1>3, <2>1, ReportFacts
  <2>3. PendingReports' = PendingReports \ {w} /\ w \in PendingReports
    BY <1>2, <1>6 DEF PendingReports
  <2>4. /\ IsFiniteSet(PendingReports')
        /\ Cardinality(PendingReports') = Cardinality(PendingReports) - 1
    BY <1>4, <2>3, FS_RemoveElement
  <2>5. counted'[Shared] + Cardinality(PendingReports') <= total'
    BY <1>3, <1>4, <1>5, <2>2, <2>4
  <2>6. currentStat'[Shared] <= counted'[Shared]
    BY <1>3, <2>1, <2>2 DEF SharedCore
  <2>7. \A u \in Worker :
          pc'[u] = "error_store" /\ va'[u].stat.error = Shared => read'[u] <= counted'[Shared]
    BY <1>2, <1>3, <2>2 DEF SharedCore
  <2> QED
    BY <2>4, <2>5, <2>6, <2>7 DEF SharedCore
<1>7. CASE s \notin Reports
  <2>1. s.error # Shared
    BY <1>1, <1>7, ReportFacts
  <2>2. counted'[Shared] = counted[Shared] /\ currentStat'[Shared] = currentStat[Shared]
    BY <1>2, <1>3, <2>1, ReportFacts
  <2>3. PendingReports' = PendingReports
    BY <1>2, <1>7 DEF PendingReports
  <2>4. \A u \in Worker :
          pc'[u] = "error_store" /\ va'[u].stat.error = Shared => read'[u] <= counted'[Shared]
    BY <1>2, <2>2 DEF SharedCore
  <2> QED
    BY <1>4, <1>5, <2>2, <2>3, <2>4 DEF SharedCore
<1> QED
  BY <1>6, <1>7

\* The inductive invariant, together with CounterInv.
LEMMA SharedCoreKept == CounterInv /\ SharedCore /\ [Next]_vars => SharedCore'
<1> SUFFICES ASSUME CounterInv, SharedCore, [Next]_vars PROVE SharedCore'
  OBVIOUS
<1>0. va \in [Worker -> verbTab \cup {NULL}] /\ read \in [Worker -> Nat]
  BY DEF CounterInv, StatTypes
<1>1. CASE UNCHANGED vars
  BY <1>1 DEF SharedCore, PendingReports, vars
<1>2. ASSUME NEW w \in Worker, serve(w) PROVE SharedCore'
  BY <1>2, UncountedKeepsShared DEF serve, stats, Labels
<1>3. ASSUME NEW w \in Worker, CheckVerb(w) PROVE SharedCore'
  <2>1. UNCHANGED <<currentStat, counted, read>>
    BY <1>3 DEF CheckVerb, stats
  <2>2. CASE Goto(w, "close") /\ UNCHANGED va
    BY <2>1, <2>2, UncountedKeepsShared DEF Labels
  <2>3. ASSUME NEW v \in verbTab, va' = [va EXCEPT ![w] = v],
               Goto(w, "close") \/ Goto(w, IF v.stat = NoStat THEN "run" ELSE "total")
        PROVE  SharedCore'
    <3>1. va'[w] = v /\ \A u \in Worker \ {w} : va'[u] = va[u]
      BY <1>0, <2>3
    <3>2. PICK next \in {"close", "run", "total"} :
            Goto(w, next) /\ (next = "run" => v.stat = NoStat)
      BY <2>3
    <3> QED
      BY <2>1, <3>1, <3>2, UncountedKeepsShared DEF Labels
  <2> QED
    BY <1>3, <2>2, <2>3 DEF CheckVerb
<1>4. ASSUME NEW w \in Worker, countTotal(w) PROVE SharedCore'
  <2>1. CASE pc[w] = "total" /\ Goto(w, "total_store") /\ ReadCounter(w, va[w].stat.total)
    BY <1>0, <2>1, UncountedKeepsShared DEF ReadCounter, client, Labels
  <2> QED
    BY <1>4, <2>1, TotalKeepsShared DEF countTotal
<1>5. ASSUME NEW w \in Worker, run(w) PROVE SharedCore'
  <2>1. pc[w] = "run" /\ va' = va /\ UNCHANGED <<currentStat, counted, read>>
    BY <1>5 DEF run, stats
  <2>2. PICK next \in {"error", "reply"} : Goto(w, next)
    BY <1>5 DEF run
  <2> QED
    BY <2>1, <2>2, UncountedKeepsShared DEF Labels
<1>6. ASSUME NEW w \in Worker, countError(w) PROVE SharedCore'
  <2>1. CASE pc[w] = "error" /\ Goto(w, "error_store") /\ ReadCounter(w, va[w].stat.error)
    <3>1. /\ va' = va /\ UNCHANGED <<currentStat, counted>>
          /\ read'[w] = currentStat[va[w].stat.error]
          /\ \A u \in Worker \ {w} : read'[u] = read[u]
      BY <1>0, <2>1 DEF ReadCounter, client
    <3>2. va'[w].stat.error = Shared => read'[w] <= counted[Shared]
      BY <3>1 DEF SharedCore
    <3> QED
      BY <2>1, <3>1, <3>2, UncountedKeepsShared DEF Labels
  <2> QED
    BY <1>6, <2>1, ErrorKeepsShared DEF countError
<1>7. ASSUME NEW w \in Worker, reply(w) PROVE SharedCore'
  BY <1>7, UncountedKeepsShared DEF reply, stats, Labels
<1>8. ASSUME NEW w \in Worker, endServe(w) PROVE SharedCore'
  BY <1>0, <1>8, UncountedKeepsShared DEF endServe, stats, Labels
<1>9. ASSUME NEW w \in Worker, crash(w) PROVE SharedCore'
  <2>1. PendingReports' = {}
    BY <1>9 DEF crash, PendingReports
  <2>2. /\ counted'[Shared] = 0 /\ currentStat'[Shared] = 0
        /\ counted'["totalgetreport"] = 0 /\ counted'["totalgetvpnreport"] = 0
        /\ \A u \in Worker : pc'[u] = "idle"
    BY <1>9, ReportFacts DEF crash
  <2> QED
    BY <2>1, <2>2, FS_EmptySet DEF SharedCore
<1> QED
  BY <1>1, <1>2, <1>3, <1>4, <1>5, <1>6, <1>7, <1>8, <1>9 DEF Next, Step

\* The counters never hold more errors than requests: for PPPIPUP and SDIPUP, for
\* IPDOWN, for GETROUTERIP, and for GETREPORT and GETVPNREPORT together, whose
\* error counter has no mutex of its own, however many threads serve requests.
THEOREM ErrorsNeverExceedTotals == Spec => []ErrorsWithinTotals
<1>1. Init => CounterInv /\ ErrorCore /\ SharedCore
  <2> SUFFICES ASSUME Init PROVE ErrorCore /\ SharedCore
    BY AnswerInvInit DEF AnswerInv
  <2>1. PendingReports = {} /\ \A st \in OwnStats : Pending(st) = {}
    BY DEF Init, Pending, PendingReports
  <2>2. \A st \in OwnStats : currentStat[st.error] = 0 /\ currentStat[st.total] = 0
    BY OwnStatFacts DEF Init
  <2>3. ErrorCore
    BY <2>1, <2>2, FS_EmptySet DEF ErrorCore
  <2>4. SharedCore
    BY <2>1, ReportFacts, FS_EmptySet DEF Init, SharedCore
  <2> QED
    BY <2>3, <2>4
<1>2. CounterInv /\ ErrorCore /\ SharedCore => ErrorsWithinTotals
  <2> SUFFICES ASSUME CounterInv, ErrorCore, SharedCore PROVE ErrorsWithinTotals
    OBVIOUS
  <2>1. ASSUME NEW st \in OwnStats PROVE currentStat[st.error] <= currentStat[st.total]
    <3>1. currentStat[st.error] \in Nat /\ currentStat[st.total] \in Nat
      BY OwnStatFacts DEF CounterInv, StatTypes
    <3>2. /\ Cardinality(Pending(st)) \in Nat
          /\ currentStat[st.error] + Cardinality(Pending(st)) <= currentStat[st.total]
      BY FS_CardinalityType DEF ErrorCore
    <3> QED
      BY <3>1, <3>2
  <2>2. currentStat[Shared] <= currentStat["totalgetreport"] + currentStat["totalgetvpnreport"]
    <3>1. /\ currentStat["totalgetreport"] = counted["totalgetreport"]
          /\ currentStat["totalgetvpnreport"] = counted["totalgetvpnreport"]
      BY ReportFacts DEF CounterInv, CountersExact
    <3>2. /\ counted[Shared] \in Nat /\ currentStat[Shared] \in Nat
          /\ counted["totalgetreport"] \in Nat /\ counted["totalgetvpnreport"] \in Nat
      BY ReportFacts DEF CounterInv, StatTypes
    <3>3. Cardinality(PendingReports) \in Nat
      BY FS_CardinalityType DEF SharedCore
    <3> QED
      BY <3>1, <3>2, <3>3 DEF SharedCore
  <2> QED
    BY <2>1, <2>2 DEF ErrorsWithinTotals, OwnStats, Shared
<1>3. CounterInv /\ ErrorCore /\ SharedCore /\ [Next]_vars
        => CounterInv' /\ ErrorCore' /\ SharedCore'
  BY CounterInvKept, ErrorCoreKept, SharedCoreKept
<1> QED
  BY <1>1, <1>2, <1>3, PTL DEF Spec
=============================================================================
