------------------------------- MODULE SDLock -------------------------------
(***************************************************************************)
(* The two locks smsd keeps on a security device (SD), both columns of the *)
(* SD table:                                                               *)
(*                                                                         *)
(*   sd_locked     the low-level lock, held while a script updates the SD; *)
(*   sd_prov_lock  the high-level lock: -1 at creation, 1 while the SD is  *)
(*                 being provisioned or the provisioning failed, 0 when it *)
(*                 ended well.                                             *)
(*                                                                         *)
(* Workers are the threads of the scheduler.  Each runs jobs: the scripts  *)
(* that update or provision an SD, commands that never lock, and the verbs *)
(* that force a lock.  One step is one SQL statement of bd.c or one step   *)
(* of a script.  A statement may succeed, fail, or lose its connection, in *)
(* which case bd.c opens another one and repeats it.                       *)
(***************************************************************************)
EXTENDS Integers, FiniteSets

CONSTANTS SD,           \* the devices of this node
          Worker,       \* the threads of gpul_sched
          Provisioner,  \* the workers that may be given a provisioning script
          Verbs,        \* the lock verbs operators may send
          MaxLosses     \* bound on lost connections (TLC only)

ASSUME ConstantsAssumption ==
  /\ Provisioner \subseteq Worker
  /\ Verbs \subseteq {"UNLOCKUPDATE", "LOCKPROVISIONING", "UNLOCKPROVISIONING"}
  /\ MaxLosses \in Nat

\* What SMSSQL_SetLock reports; lockProv and lockSD start from ALREADY_LOCKED and
\* take every other answer but ALREADY_PROVLOCKED for a lock of their own.
ALREADY_LOCKED == 0
OK_LOCKED == 1
OK_LOCKED_BY_TIMEOUT == 2
ALREADY_PROVLOCKED == 3
Granted == {OK_LOCKED, OK_LOCKED_BY_TIMEOUT}
LockStates == Granted \cup {ALREADY_LOCKED, ALREADY_PROVLOCKED}

\* What a statement returns: ERR_DB_FAILED stands for every error but the
\* lost connection.
SMS_OK == "SMS_OK"
ERR_DB_FAILED == "ERR_DB_FAILED"
ERR_DB_CONNECTION_LOST == "ERR_DB_CONNECTION_LOST"
Results == {SMS_OK, ERR_DB_FAILED, ERR_DB_CONNECTION_LOST}

Jobs == {"none", "update", "command", "provisioning"} \cup Verbs

Labels == {"idle",
           "lockProv", "lockProv_SetLock_get", "lockProv_SetLock", "lockProv_set",
           "lockProv_UnLock", "unlockProv_set", "unlockProv_date",
           "lockSD_get", "lockSD_set", "unlockSD",
           "updating", "running", "provisioning", "failed"}

VARIABLES
  sd_locked,         \* the SDs whose sd_locked column is set
  sd_prov_lock,      \* [SD -> {-1, 0, 1}]
  shutdownRequired,  \* the flag the SIGINT handler raises
  up,                \* smsd runs and serves
  pc,                \* [Worker -> Labels]
  job,               \* [Worker -> Jobs]
  sd,                \* [Worker -> SD], the device of the job
  lock_state,        \* [Worker -> lock states], update_lock_state of the job
  losses,            \* connections lost so far
  dbfault            \* SDs on which a statement about the lock went wrong

db == <<sd_locked, sd_prov_lock>>
local == <<pc, job, sd, lock_state>>
vars == <<sd_locked, sd_prov_lock, shutdownRequired, up, pc, job, sd,
          lock_state, losses, dbfault>>

TypeOK ==
  /\ sd_locked \subseteq SD
  /\ sd_prov_lock \in [SD -> {-1, 0, 1}]
  /\ shutdownRequired \in BOOLEAN
  /\ up \in BOOLEAN
  /\ pc \in [Worker -> Labels]
  /\ job \in [Worker -> Jobs]
  /\ sd \in [Worker -> SD]
  /\ lock_state \in [Worker -> LockStates]
  /\ losses \in 0..MaxLosses
  /\ dbfault \subseteq SD

Init ==
  /\ sd_locked = {}
  /\ sd_prov_lock = [s \in SD |-> -1]
  /\ shutdownRequired = FALSE
  /\ up = TRUE
  /\ pc = [w \in Worker |-> "idle"]
  /\ job = [w \in Worker |-> "none"]
  /\ sd \in [Worker -> SD]
  /\ lock_state = [w \in Worker |-> ALREADY_LOCKED]
  /\ losses = 0
  /\ dbfault = {}

-----------------------------------------------------------------------------
(***************************************************************************)
(* bd.c.  Every HA_SMSSQL_ function refuses to start once shutdownRequired *)
(* is up, and repeats its statement as long as the connection is lost.  A  *)
(* statement whose connection is lost may have reached the database.       *)
(***************************************************************************)
Transmit(r) ==
  /\ r = ERR_DB_CONNECTION_LOST => losses < MaxLosses
  /\ losses' = IF r = ERR_DB_CONNECTION_LOST THEN losses + 1 ELSE losses
  /\ UNCHANGED <<shutdownRequired, up>>

Statement(r) == (shutdownRequired => r = ERR_DB_FAILED) /\ Transmit(r)

\* Read a column: nothing changes, whatever the result.
HA_SMSSQL_GetSDprovlock(r) == Statement(r) /\ UNCHANGED <<db, dbfault>>

\* Mutant: the column is written off by one.
Mut_SetSDprovlock(s, value, r) ==
  /\ Statement(r)
  /\ sd_prov_lock' = [sd_prov_lock EXCEPT ![s] = value + 1]
  /\ UNCHANGED <<sd_locked, dbfault>>

HA_SMSSQL_SetSDprovlock(s, value, r) ==
  LET done == [sd_prov_lock EXCEPT ![s] = value] IN
  /\ Statement(r)
  /\ sd_prov_lock' \in {sd_prov_lock, done}
  /\ r = SMS_OK => sd_prov_lock' = done
  /\ r = ERR_DB_FAILED => sd_prov_lock' = sd_prov_lock
  /\ dbfault' = IF r = ERR_DB_FAILED THEN dbfault \cup {s} ELSE dbfault
  /\ UNCHANGED sd_locked

\* SMSSQL_SetLock tests and sets in one statement; state is what it reports.  A
\* lock that has been set for too long is granted again.  HA_SMSSQL_SetLock has
\* tested shutdownRequired before it read sd_prov_lock, and tests it again only
\* when the connection is lost.
SMSSQL_SetLock(s, r, state) ==
  LET done == sd_locked \cup {s} IN
  /\ Transmit(r)
  /\ sd_locked' \in {sd_locked, done}
  /\ r = SMS_OK => sd_locked' = done
  /\ r = ERR_DB_FAILED => sd_locked' = sd_locked
  /\ state \in IF r # SMS_OK THEN {ALREADY_LOCKED}
               ELSE IF s \in sd_locked THEN {ALREADY_LOCKED, OK_LOCKED_BY_TIMEOUT}
               ELSE {OK_LOCKED}
  /\ dbfault' = IF r = ERR_DB_CONNECTION_LOST THEN dbfault \cup {s} ELSE dbfault
  /\ UNCHANGED sd_prov_lock

HA_SMSSQL_UnLock(s, r) ==
  LET done == sd_locked \ {s} IN
  /\ Statement(r)
  /\ sd_locked' \in {sd_locked, done}
  /\ r = SMS_OK => sd_locked' = done
  /\ r = ERR_DB_FAILED => sd_locked' = sd_locked
  /\ dbfault' = IF r = ERR_DB_FAILED THEN dbfault \cup {s} ELSE dbfault
  /\ UNCHANGED sd_prov_lock

\* SetProvDate writes another table (DB_CUST): no column modelled here.
HA_SMSSQL_SetProvDate(r) == Statement(r) /\ UNCHANGED <<db, dbfault>>

-----------------------------------------------------------------------------
(***************************************************************************)
(* Control.  Leave(w, r, next, state) ends a statement: when its           *)
(* connection was lost it is repeated, otherwise the job goes on at next   *)
(* and remembers state.  A job that ends forgets its locals.               *)
(***************************************************************************)
Goto(w, next, state) ==
  /\ pc' = [pc EXCEPT ![w] = next]
  /\ job' = [job EXCEPT ![w] = IF next = "idle" THEN "none" ELSE job[w]]
  /\ lock_state' = [lock_state EXCEPT ![w] =
                      IF next = "idle" THEN ALREADY_LOCKED ELSE state]
  /\ UNCHANGED sd

Leave(w, r, next, state) ==
  IF r = ERR_DB_CONNECTION_LOST THEN UNCHANGED local ELSE Goto(w, next, state)

\* What HA_SMSSQL_SetLock makes of a result: a lost connection is an error once
\* shutdownRequired is up.
GivenUp(r) ==
  IF r = ERR_DB_CONNECTION_LOST /\ shutdownRequired THEN ERR_DB_FAILED ELSE r

\* Where the caller of lockProv goes on.  A provisioning script whose lock is
\* refused fails, and genericInitialProvisioning then calls unlockSD.
AfterLockProv(w, ok) ==
  IF job[w] = "provisioning" THEN IF ok THEN "provisioning" ELSE "failed"
                             ELSE "idle"

\* Mutant: an SD at creation (-1) is taken for one already locked.
Mut_lockProv(w) ==
  /\ pc[w] = "lockProv"
  /\ \E r \in Results :
       /\ HA_SMSSQL_GetSDprovlock(r)
       /\ Leave(w, r, IF r = SMS_OK /\ sd_prov_lock[sd[w]] = 0
                      THEN "lockProv_SetLock_get"
                      ELSE AfterLockProv(w, r = SMS_OK), ALREADY_LOCKED)

\* lockProv up to the call of HA_SMSSQL_SetLock.  SetSdDown, between the read
\* and the test, writes no column modelled here and its failure is ignored.
lockProv(w) ==
  /\ pc[w] = "lockProv"
  /\ \E r \in Results :
       /\ HA_SMSSQL_GetSDprovlock(r)
       /\ Leave(w, r, IF r = SMS_OK /\ sd_prov_lock[sd[w]] # 1
                      THEN "lockProv_SetLock_get"
                      ELSE AfterLockProv(w, r = SMS_OK), ALREADY_LOCKED)

\* HA_SMSSQL_SetLock first reads sd_prov_lock: an SD that is not provisioned
\* is reported ALREADY_PROVLOCKED, and lockProv goes on without a low lock.
lockProv_SetLock_get(w) ==
  /\ pc[w] = "lockProv_SetLock_get"
  /\ \E r \in Results :
       /\ HA_SMSSQL_GetSDprovlock(r)
       /\ \/ /\ r = SMS_OK
             /\ sd_prov_lock[sd[w]] # 0
             /\ Goto(w, "lockProv_set", ALREADY_PROVLOCKED)
          \/ /\ r = SMS_OK
             /\ sd_prov_lock[sd[w]] = 0
             /\ Goto(w, "lockProv_SetLock", ALREADY_LOCKED)
          \/ /\ r # SMS_OK
             /\ Leave(w, r, AfterLockProv(w, FALSE), ALREADY_LOCKED)

lockProv_SetLock(w) ==
  /\ pc[w] = "lockProv_SetLock"
  /\ \E r \in Results, state \in LockStates :
       /\ SMSSQL_SetLock(sd[w], r, state)
       /\ Leave(w, GivenUp(r), IF state \in Granted THEN "lockProv_set"
                                                   ELSE AfterLockProv(w, FALSE), state)

lockProv_set(w) ==
  /\ pc[w] = "lockProv_set"
  /\ \E r \in Results :
       /\ HA_SMSSQL_SetSDprovlock(sd[w], 1, r)
       /\ Leave(w, r, IF r = SMS_OK THEN "lockProv_UnLock"
                                    ELSE AfterLockProv(w, FALSE), lock_state[w])

\* lockProv unlocks whether or not it locked; the result is only logged.
lockProv_UnLock(w) ==
  /\ pc[w] = "lockProv_UnLock"
  /\ \E r \in Results :
       /\ HA_SMSSQL_UnLock(sd[w], r)
       /\ Leave(w, r, AfterLockProv(w, TRUE), ALREADY_LOCKED)

\* unlockProv goes on to the date whatever SetSDprovlock returned ...
unlockProv_set(w) ==
  /\ pc[w] = "unlockProv_set"
  /\ \E r \in Results :
       /\ HA_SMSSQL_SetSDprovlock(sd[w], 0, r)
       /\ Leave(w, r, "unlockProv_date", lock_state[w])

\* ... and returns what SetProvDate returned.
unlockProv_date(w) ==
  /\ pc[w] = "unlockProv_date"
  /\ \E r \in Results :
       /\ HA_SMSSQL_SetProvDate(r)
       /\ Leave(w, r, IF job[w] = "provisioning" /\ r # SMS_OK THEN "failed"
                                                               ELSE "idle",
                lock_state[w])

\* Mutant: only a provisioning in progress refuses the lock.
Mut_lockSD_get(w) ==
  /\ pc[w] = "lockSD_get"
  /\ \E r \in Results :
       /\ HA_SMSSQL_GetSDprovlock(r)
       /\ Leave(w, r, IF r = SMS_OK /\ sd_prov_lock[sd[w]] # 1
                      THEN "lockSD_set" ELSE "failed", ALREADY_LOCKED)

\* lockSD, called by an update script through sms_sd_lock.  The script fails
\* when the lock is refused.
lockSD_get(w) ==
  /\ pc[w] = "lockSD_get"
  /\ \E r \in Results :
       /\ HA_SMSSQL_GetSDprovlock(r)
       /\ Leave(w, r, IF r = SMS_OK /\ sd_prov_lock[sd[w]] = 0
                      THEN "lockSD_set" ELSE "failed", ALREADY_LOCKED)

lockSD_set(w) ==
  /\ pc[w] = "lockSD_set"
  /\ \E r \in Results, state \in LockStates :
       /\ SMSSQL_SetLock(sd[w], r, state)
       /\ Leave(w, GivenUp(r), IF state \in Granted THEN "updating" ELSE "failed", state)

\* unlockSD, called by the script that ends well (sms_sd_unlock) or by the
\* verb UNLOCKUPDATE.  A script that cannot unlock fails.
unlockSD(w) ==
  /\ pc[w] = "unlockSD"
  /\ \E r \in Results :
       /\ HA_SMSSQL_UnLock(sd[w], r)
       /\ Leave(w, r, IF job[w] = "update" /\ r # SMS_OK THEN "failed" ELSE "idle",
                lock_state[w])

\* Mutant: a failing script does not unlock the SD.
Mut_scriptFailed(w) ==
  /\ pc[w] = "failed"
  /\ Goto(w, "idle", ALREADY_LOCKED)
  /\ UNCHANGED <<db, shutdownRequired, up, losses, dbfault>>

\* Mutant: a script that fails while it has the lock is run again.
Mut_scriptRetried(w) ==
  /\ pc[w] = "failed"
  /\ Goto(w, IF lock_state[w] \in Granted THEN "updating" ELSE "idle", lock_state[w])
  /\ UNCHANGED <<db, shutdownRequired, up, losses, dbfault>>

\* genericUpdateConf, genericInitialProvisioning, generic_sms_cmd...: when the
\* script fails, for whatever reason, the SD is unlocked.
scriptFailed(w) ==
  /\ pc[w] = "failed"
  /\ \E r \in Results :
       /\ HA_SMSSQL_UnLock(sd[w], r)
       /\ Leave(w, r, "idle", ALREADY_LOCKED)

-----------------------------------------------------------------------------
(***************************************************************************)
(* The scripts, between two calls of the daemon, and the arrival of jobs.  *)
(***************************************************************************)
Quiet == UNCHANGED <<db, shutdownRequired, up, losses, dbfault>>

\* A script works on the SD, then ends well or fails.
scriptEnds(w) ==
  /\ pc[w] \in {"updating", "running", "provisioning"}
  /\ \/ Goto(w, CASE pc[w] = "updating"     -> "unlockSD"
                  [] pc[w] = "running"      -> "idle"
                  [] pc[w] = "provisioning" -> "unlockProv_set", lock_state[w])
     \/ Goto(w, "failed", lock_state[w])
  /\ Quiet

\* The first step of each job.
Entry(j) ==
  CASE j = "update"  -> "lockSD_get"
    [] j = "command" -> "running"
    [] j \in {"provisioning", "LOCKPROVISIONING"} -> "lockProv"
    [] j = "UNLOCKPROVISIONING" -> "unlockProv_set"
    [] j = "UNLOCKUPDATE" -> "unlockSD"

\* A client's verb, or a task of scan_updated, gives an idle worker a job.
startJob(w) ==
  /\ up
  /\ pc[w] = "idle"
  /\ \E s \in SD, j \in Jobs \ {"none"} :
       /\ j = "provisioning" => w \in Provisioner
       /\ sd' = [sd EXCEPT ![w] = s]
       /\ job' = [job EXCEPT ![w] = j]
       /\ pc' = [pc EXCEPT ![w] = Entry(j)]
  /\ UNCHANGED lock_state
  /\ Quiet

\* SIGINT: smsSignal raises the flag.
smsSignal ==
  /\ up
  /\ ~shutdownRequired
  /\ shutdownRequired' = TRUE
  /\ UNCHANGED <<db, up, local, losses, dbfault>>

\* The process ends, by exit(0) after SIGINT or by a crash: its threads vanish
\* wherever they are, the columns stay as they are.
smsdStops ==
  /\ up
  /\ up' = FALSE
  /\ pc' = [w \in Worker |-> "idle"]
  /\ job' = [w \in Worker |-> "none"]
  /\ lock_state' = [w \in Worker |-> ALREADY_LOCKED]
  /\ UNCHANGED <<db, shutdownRequired, sd, losses, dbfault>>

\* main: smsd serves only once resetBdFlag has cleared sd_locked everywhere; if
\* it cannot, main exits and smsd stays down.
resetBdFlag ==
  /\ ~up
  /\ up' = TRUE
  /\ shutdownRequired' = FALSE
  /\ sd_locked' = {}
  /\ dbfault' = {}
  /\ UNCHANGED <<sd_prov_lock, local, losses>>

Step(w) ==
  \/ lockProv(w) \/ lockProv_SetLock_get(w) \/ lockProv_SetLock(w)
  \/ lockProv_set(w) \/ lockProv_UnLock(w)
  \/ unlockProv_set(w) \/ unlockProv_date(w)
  \/ lockSD_get(w) \/ lockSD_set(w) \/ unlockSD(w)
  \/ scriptFailed(w) \/ scriptEnds(w)

Next ==
  \/ \E w \in Worker : Step(w) \/ startJob(w)
  \/ smsSignal \/ smsdStops \/ resetBdFlag

Spec == Init /\ [][Next]_vars

\* A thread that can run runs: the scheduler's threads are never suspended,
\* statements return, and scripts terminate.
FairSpec == Spec /\ \A w \in Worker : WF_vars(Step(w))

-----------------------------------------------------------------------------
\* w was given the low lock of s and has not yet executed its UnLock.
Owns(w, s) == sd[w] = s /\ lock_state[w] \in Granted

\* Every low lock that is set belongs to a job that has yet to unlock it: no
\* path of lockProv, lockSD, unlockSD or of a failing script leaves an SD
\* locked behind it, as long as no statement on the lock itself went wrong
\* since smsd started (SetLock's connection lost after the database applied it,
\* UnLock or SetSDprovlock refused).
LockHasOwner ==
  up => \A s \in sd_locked \ dbfault : \E w \in Worker : Owns(w, s)

\* An SD that was never provisioned is never locked at low level: the test of
\* HA_SMSSQL_SetLock and its statement are two steps, but no lock is taken
\* between them that the test would have refused for that reason.
NeverLockedBeforeProvisioning ==
  \A s \in sd_locked : sd_prov_lock[s] # -1

\* While a provisioning script works, sd_prov_lock is 1, provided nobody else
\* provisions the SD and no operator sends UNLOCKPROVISIONING.
ProvisioningMarked ==
  \A w \in Worker : pc[w] = "provisioning" => sd_prov_lock[sd[w]] = 1

\* w updates an SD whose lock it was given free, not by the timeout of a lock that
\* somebody else still had.
Updates(w) == pc[w] = "updating" /\ lock_state[w] = OK_LOCKED

\* Two scripts never update the same SD at the same time ("An update is already
\* running", ERR_SD_LOCK).  A script that took the lock over by timeout is not
\* counted: there SMSSQL_SetLock lets the second one in knowingly.
OneUpdateAtATime ==
  \A v, w \in Worker : Updates(v) /\ Updates(w) /\ sd[v] = sd[w] => v = w

\* The high-level lock is not taken while somebody else holds the low-level one
\* (the comment of lockProv on its call of HA_SMSSQL_SetLock).
HighLockRespectsLow ==
  [][\A s \in SD : sd_prov_lock[s] # 1 /\ sd_prov_lock'[s] = 1 /\ s \in sd_locked
       => \E w \in Worker : pc[w] = "lockProv_set" /\ Owns(w, s)]_vars

\* A lock that is set is released (or a statement on it goes wrong, or smsd
\* stops): no job keeps it for ever.
LockReleased ==
  \A s \in SD : s \in sd_locked ~> (s \notin sd_locked \/ s \in dbfault \/ ~up)
=============================================================================
