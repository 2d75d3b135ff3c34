----------------------------- MODULE UpdateScan -----------------------------
(***************************************************************************)
(* Pending updates.  The portal asks for the update of a device by setting *)
(* its column sd_updated.  Once a minute scan_updated reads the devices    *)
(* that have it and starts one update_task for each; the task runs the     *)
(* update script, which locks the SD, clears the column (status WORKING)   *)
(* and works.  Operators start the same script with the verb UPDATECONFIG. *)
(*                                                                         *)
(* Nothing tells a scan that the task of an earlier one still waits, so    *)
(* tasks of the same device pile up and run one after the other or at the  *)
(* same time.  The queue of tasks is lost when smsd stops; the columns are *)
(* not.                                                                    *)
(***************************************************************************)
EXTENDS Naturals, Sequences, FiniteSets

CONSTANTS SD,         \* the devices of this node
          Hosted,     \* those whose sd_type starts with 'H'
          Named,      \* those that operators name in a verb; the others are provisioned
          Worker,     \* the threads of gpul_sched
          NULL,
          MaxQueued,  \* bound on the tasks waiting for a thread (TLC only)
          MaxFaults   \* bound on faults: errors of the database, stops (TLC only)

ASSUME ScanAssumption ==
  /\ Hosted \subseteq SD /\ Named \subseteq SD /\ NULL \notin SD
  /\ MaxQueued \in Nat \ {0} /\ MaxFaults \in Nat

VARIABLES
  sd_updated,  \* the SDs whose sd_updated column is set
  sd_locked,   \* the SDs locked at low level
  sd_prov_lock,\* the SDs whose sd_prov_lock is not 0: provisioning not done
  up,          \* smsd runs
  scan,        \* label of scan_updated
  row,         \* the row it has just read, or NULL
  rows,        \* the rows of its statement it has not read yet
  queue,       \* the update tasks that wait for a thread, oldest first
  pc,          \* [Worker -> Labels]
  sd,          \* [Worker -> SD or NULL], the device of the task
  verb,        \* the workers that run a verb, and no update_task
  faults,      \* faults so far
  owed         \* SDs with a request that was neither served nor reported

db == <<sd_updated, sd_locked, sd_prov_lock>>
scanner == <<scan, row, rows>>
vars == <<sd_updated, sd_locked, sd_prov_lock, up, scan, row, rows, queue, pc, sd, verb,
          faults, owed>>

Labels == {"idle", "getSDinfo", "lock", "flag", "WORKING", "work",
           "unlock", "unlockSD", "unlockSD_refused", "FAILED", "NOT_SUPPORTED"}

TypeOK ==
  /\ sd_updated \subseteq SD
  /\ sd_locked \subseteq SD
  /\ sd_prov_lock \subseteq SD
  /\ up \in BOOLEAN
  /\ scan \in {"idle", "first", "task", "next"}
  /\ row \in SD \cup {NULL} /\ (scan = "task" => row \in SD)
  /\ rows \subseteq SD
  /\ queue \in Seq(SD)
  /\ pc \in [Worker -> Labels]
  /\ sd \in [Worker -> SD \cup {NULL}]
  /\ \A w \in Worker : pc[w] # "idle" => sd[w] \in SD
  /\ verb \subseteq Worker
  /\ faults \in 0..MaxFaults
  /\ owed \subseteq SD

Init ==
  /\ sd_updated = {} /\ sd_locked = {}
  /\ sd_prov_lock \in SUBSET Named
  /\ up = TRUE
  /\ scan = "idle" /\ row = NULL /\ rows = {}
  /\ queue = <<>>
  /\ pc = [w \in Worker |-> "idle"]
  /\ sd = [w \in Worker |-> NULL]
  /\ verb = {}
  /\ faults = 0
  /\ owed = {}

-----------------------------------------------------------------------------
Fault == faults < MaxFaults /\ faults' = faults + 1
NoFault == UNCHANGED faults

Goto(w, next) == pc' = [pc EXCEPT ![w] = next] /\ UNCHANGED <<sd, verb>>

\* The task ends and frees its sd_info.
Return(w) ==
  /\ pc' = [pc EXCEPT ![w] = "idle"]
  /\ sd' = [sd EXCEPT ![w] = NULL]
  /\ verb' = verb \ {w}

\* A request is settled when its update is over or its failure is recorded,
\* unless the SD was asked for again.
Settle(s) == owed' = owed \ ({s} \ sd_updated)

\* The portal asks for an update, at any time.
requestUpdate(s) ==
  /\ sd_updated' = sd_updated \cup {s}
  /\ owed' = owed \cup {s}
  /\ UNCHANGED <<sd_locked, sd_prov_lock, up, scanner, queue, pc, sd, verb, faults>>

\* A provisioning of the SD starts, or ends well (see SDLock).
provisioning(s) ==
  /\ sd_prov_lock' = (sd_prov_lock \cup {s}) \ (sd_prov_lock \cap {s})
  /\ UNCHANGED <<sd_updated, sd_locked, up, scanner, queue, pc, sd, verb, faults, owed>>

-----------------------------------------------------------------------------
(***************************************************************************)
(* scan_updated.                                                           *)
(***************************************************************************)
ScanOnly == UNCHANGED <<db, up, pc, sd, verb, owed>>

\* The scheduler runs it every 60 seconds.
scanStarts ==
  /\ up /\ scan = "idle"
  /\ scan' = "first"
  /\ NoFault /\ ScanOnly /\ UNCHANGED <<row, rows, queue>>

ReadRow(set) == row' \in set /\ rows' = set \ {row'} /\ scan' = "task"
StopReading(next) == scan' = next /\ row' = NULL /\ rows' = {}

\* HA_SMSSQL_GetSDToUpdateFirst: FAILED, NOTFOUND or a row.
getFirst ==
  /\ scan = "first"
  /\ \/ Fault /\ StopReading("idle")
     \/ NoFault /\ sd_updated = {} /\ StopReading("idle")
     \/ NoFault /\ ReadRow(sd_updated)
  /\ ScanOnly /\ UNCHANGED queue

\* Mutant: the row is freed before the task has copied it.
Mut_newTask ==
  /\ scan = "task"
  /\ scan' = "next" /\ row' = NULL
  /\ \/ Fault /\ UNCHANGED queue
     \/ NoFault /\ Len(queue) < MaxQueued /\ queue' = Append(queue, row')
  /\ ScanOnly /\ UNCHANGED rows

\* gpul_sched_new_task; when it fails nobody notices.
newTask ==
  /\ scan = "task"
  /\ scan' = "next" /\ row' = NULL
  /\ \/ Fault /\ UNCHANGED queue
     \/ NoFault /\ Len(queue) < MaxQueued /\ queue' = Append(queue, row)
  /\ ScanOnly /\ UNCHANGED rows

\* HA_SMSSQL_GetSDToUpdateNext: a row, NOTFOUND, FAILED or CONNECTION_LOST,
\* which starts the whole scan again.
getNext ==
  /\ scan = "next"
  /\ \/ NoFault /\ ReadRow(rows)
     \/ NoFault /\ rows = {} /\ StopReading("idle")
     \/ Fault /\ StopReading("idle")
     \/ Fault /\ StopReading("first")
  /\ ScanOnly /\ UNCHANGED queue

-----------------------------------------------------------------------------
(***************************************************************************)
(* update_task, doUpdateConfig and the script of genericUpdateConf.        *)
(***************************************************************************)
TaskOnly == UNCHANGED <<sd_prov_lock, up, scanner, queue>>

taskStarts(w) ==
  /\ up /\ pc[w] = "idle" /\ queue # <<>>
  /\ sd' = [sd EXCEPT ![w] = Head(queue)]
  /\ queue' = Tail(queue)
  /\ pc' = [pc EXCEPT ![w] = "getSDinfo"]
  /\ UNCHANGED <<db, up, scanner, verb, faults, owed>>

\* UPDATECONFIG, JSAUPDATECONF.
doUpdateConfig(w) ==
  /\ up /\ pc[w] = "idle"
  /\ \E s \in Named : sd' = [sd EXCEPT ![w] = s]
  /\ verb' = verb \cup {w}
  /\ pc' = [pc EXCEPT ![w] = "getSDinfo"]
  /\ UNCHANGED <<db, up, scanner, queue, faults, owed>>

\* After a failure update_task has it to record; a verb has answered it.
Failed(w) ==
  \/ w \in verb /\ Return(w)
  \/ w \notin verb /\ Goto(w, "FAILED")

\* getSDinfo and the test of sd_type, which the verb does not make.
getSDinfo(w) ==
  /\ pc[w] = "getSDinfo"
  /\ \/ Fault /\ Failed(w)
     \/ NoFault /\ Goto(w, IF sd[w] \in Hosted \/ w \in verb THEN "lock"
                                                             ELSE "NOT_SUPPORTED")
  /\ TaskOnly /\ UNCHANGED <<db, owed>>

\* sms_sd_lock: refused if the SD is not provisioned, or if it is locked and the
\* lock is not too old; any other error is a failure of the update.
lock(w) ==
  /\ pc[w] = "lock"
  /\ \/ /\ NoFault /\ sd[w] \in sd_prov_lock \cup sd_locked
        /\ Goto(w, "unlockSD_refused") /\ UNCHANGED sd_locked
     \/ Fault /\ Goto(w, "unlockSD") /\ UNCHANGED sd_locked
     \/ /\ NoFault /\ sd[w] \notin sd_prov_lock
        /\ sd_locked' = sd_locked \cup {sd[w]}
        /\ Goto(w, "flag")
  /\ TaskOnly /\ UNCHANGED <<sd_updated, owed>>

\* sms_set_update_status(WORKING): set_sd_updated(0) ...
clearFlag(w) ==
  /\ pc[w] = "flag"
  /\ \/ Fault /\ Goto(w, "unlockSD") /\ UNCHANGED sd_updated
     \/ NoFault /\ sd_updated' = sd_updated \ {sd[w]} /\ Goto(w, "WORKING")
  /\ TaskOnly /\ UNCHANGED <<sd_locked, owed>>

\* ... then setUpdateStatus, unless the first failed.
setWorking(w) ==
  /\ pc[w] = "WORKING"
  /\ \/ Fault /\ Goto(w, "unlockSD")
     \/ NoFault /\ Goto(w, "work")
  /\ TaskOnly /\ UNCHANGED <<db, owed>>

\* The script works; it ends well (status ENDED) or fails.
work(w) ==
  /\ pc[w] = "work"
  /\ \/ Goto(w, "unlock")
     \/ Goto(w, "unlockSD")
  /\ TaskOnly /\ UNCHANGED <<db, faults, owed>>

\* The script unlocks the SD and ends.
unlock(w) ==
  /\ pc[w] = "unlock"
  /\ \/ Fault /\ Goto(w, "unlockSD") /\ UNCHANGED <<sd_locked, owed>>
     \/ /\ NoFault
        /\ sd_locked' = sd_locked \ {sd[w]}
        /\ Settle(sd[w])
        /\ Return(w)
  /\ TaskOnly /\ UNCHANGED sd_updated

\* Mutant: update_task takes every error for a lock that was refused.
Mut_unlockSD(w) ==
  /\ pc[w] = "unlockSD"
  /\ \/ Fault /\ UNCHANGED sd_locked
     \/ NoFault /\ sd_locked' = sd_locked \ {sd[w]}
  /\ Return(w)
  /\ TaskOnly /\ UNCHANGED <<sd_updated, owed>>

\* genericUpdateConf after a script that failed: the error is answered to the
\* client of a verb, and the SD is unlocked.
unlockSD(w) ==
  /\ pc[w] = "unlockSD"
  /\ \/ Fault /\ UNCHANGED sd_locked
     \/ NoFault /\ sd_locked' = sd_locked \ {sd[w]}
  /\ Failed(w)
  /\ TaskOnly /\ UNCHANGED sd_updated
  /\ IF w \in verb THEN Settle(sd[w]) ELSE UNCHANGED owed

\* Mutant: the SD is unlocked only by the update that locked it.
Mut_refused(w) ==
  /\ pc[w] = "unlockSD_refused"
  /\ Return(w)
  /\ TaskOnly /\ UNCHANGED <<db, faults, owed>>

\* The same when the lock was refused.  update_task records nothing: the column
\* is still set, and a later scan tries again.
refused(w) ==
  /\ pc[w] = "unlockSD_refused"
  /\ \/ Fault /\ UNCHANGED sd_locked
     \/ NoFault /\ sd_locked' = sd_locked \ {sd[w]}
  /\ Return(w)
  /\ TaskOnly /\ UNCHANGED <<sd_updated, owed>>

\* update_task records FAILED, under the type scan_updated, or tries to.
recordFailed(w) ==
  /\ pc[w] = "FAILED"
  /\ Fault \/ NoFault
  /\ Return(w)
  /\ TaskOnly /\ UNCHANGED db
  /\ Settle(sd[w])

\* ERR_SD_NOT_SUPPORTED: status ENDED (type scan_updated), set_sd_updated(0).
notSupported(w) ==
  /\ pc[w] = "NOT_SUPPORTED"
  /\ \/ Fault /\ UNCHANGED <<sd_updated, owed>>
     \/ NoFault /\ sd_updated' = sd_updated \ {sd[w]} /\ owed' = owed \ {sd[w]}
  /\ Return(w)
  /\ TaskOnly /\ UNCHANGED sd_locked

-----------------------------------------------------------------------------
(***************************************************************************)
(* smsd stops at any moment and is started again; resetBdFlag unlocks the  *)
(* SDs.  A request whose column was already cleared is lost with the task. *)
(***************************************************************************)
smsdStops ==
  /\ up /\ up' = FALSE
  /\ Fault
  /\ StopReading("idle") /\ queue' = <<>>
  /\ pc' = [w \in Worker |-> "idle"]
  /\ sd' = [w \in Worker |-> NULL]
  /\ verb' = {}
  /\ owed' = owed \cap sd_updated
  /\ UNCHANGED db

resetBdFlag ==
  /\ ~up /\ up' = TRUE
  /\ sd_locked' = {}
  /\ UNCHANGED <<sd_updated, sd_prov_lock, scanner, queue, pc, sd, verb, faults, owed>>

Scan == scanStarts \/ getFirst \/ newTask \/ getNext

Step(w) ==
  \/ getSDinfo(w) \/ lock(w) \/ clearFlag(w) \/ setWorking(w) \/ work(w)
  \/ unlock(w) \/ unlockSD(w) \/ refused(w) \/ recordFailed(w) \/ notSupported(w)

Next ==
  \/ \E s \in SD : requestUpdate(s)
  \/ \E s \in Named : provisioning(s)
  \/ Scan
  \/ \E w \in Worker : taskStarts(w) \/ doUpdateConfig(w) \/ Step(w)
  \/ smsdStops
  \/ resetBdFlag

Spec == Init /\ [][Next]_vars

\* scan_updated is run every minute, a thread goes on with its task, a waiting
\* task gets a thread some time even if verbs keep arriving, and smsd is
\* restarted by the cluster.
FairSpec ==
  /\ Spec
  /\ WF_vars(Scan) /\ WF_vars(resetBdFlag)
  /\ \A w \in Worker : WF_vars(Step(w))
  /\ SF_vars(\E w \in Worker : taskStarts(w))

-----------------------------------------------------------------------------
\* No request is forgotten.  One that was neither served nor reported is still
\* in the column sd_updated, or a task that took it is under way: whatever tasks
\* of the same device ran before, at the same time, or were refused the lock,
\* and although smsd stops with its queue.  Only what an update had taken from
\* the column when smsd stopped is lost: smsdStops strikes it off.
RequestNotForgotten ==
  \A s \in owed :
    \/ s \in sd_updated
    \/ \E w \in Worker :
         sd[w] = s /\ pc[w] \in {"WORKING", "work", "unlock", "unlockSD", "FAILED"}

\* A request is taken: sd_updated, once set, is cleared by an update or by the task
\* of an SD that cannot be updated, unless the SD is found not provisioned: then
\* every scan's task is refused (ERR_SD_PROVLOCK) and the request waits.  Scans that
\* fail, start again half-way or lose a task, updates that fail before WORKING and
\* restarts only delay it, once they stop (MaxFaults); so does another update
\* that has the SD.
RequestTaken ==
  \A s \in SD : s \in sd_updated ~> (s \notin sd_updated \/ s \in sd_prov_lock)
=============================================================================
