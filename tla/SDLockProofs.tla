---------------------------- MODULE SDLockProofs ----------------------------
(***************************************************************************)
(* Proofs about SDLock, for every set of devices, workers and provisioners *)
(* and any number of lost connections.                                     *)
(***************************************************************************)
EXTENDS SDLock, TLAPS

\* Who owns a low lock: a job that has just locked inside lockProv, or an update
\* script up to the UnLock that ends it.
OwnerLabels == {"lockProv_set", "lockProv_UnLock", "updating", "unlockSD", "failed"}

\* The strengthening of LockHasOwner.
OwnerCore ==
  /\ \A w \in Worker : lock_state[w] \in Granted => pc[w] \in OwnerLabels
  /\ LockHasOwner
OwnerInv == TypeOK /\ OwnerCore

\* The strengthening of NeverLockedBeforeProvisioning: whoever has passed the
\* test of HA_SMSSQL_SetLock looks at an SD that has been provisioned.
PastTest == {"lockProv_SetLock", "lockSD_set"}
ProvCore ==
  /\ NeverLockedBeforeProvisioning
  /\ \A w \in Worker : pc[w] \in PastTest => sd_prov_lock[sd[w]] # -1
ProvInv == TypeOK /\ ProvCore

\* A step clears sd_prov_lock of an SD that a provisioning script has just locked
\* or works on: the unlockProv of another provisioning or of UNLOCKPROVISIONING.
ClearedWhileProvisioning ==
  \E v \in Worker :
    /\ job[v] = "provisioning" /\ pc[v] \in {"lockProv_UnLock", "provisioning"}
    /\ sd_prov_lock[sd[v]] = 1 /\ sd_prov_lock'[sd[v]] # 1

\* The strengthening of ProvisioningMarked: from the success of SetSDprovlock in
\* lockProv on, the SD is marked.
MarkedCore ==
  /\ ProvisioningMarked
  /\ \A w \in Worker : pc[w] = "provisioning" => job[w] = "provisioning"
  /\ \A w \in Worker : pc[w] = "lockProv_UnLock" /\ job[w] = "provisioning"
                         => sd_prov_lock[sd[w]] = 1
MarkedInv == TypeOK /\ MarkedCore

-----------------------------------------------------------------------------
\* A job starts outside every critical label, and only UNLOCKPROVISIONING starts
\* at unlockProv_set.
LEMMA EntryLabel ==
  ASSUME NEW j \in Jobs \ {"none"}
  PROVE  /\ Entry(j) \in {"lockSD_get", "running", "lockProv", "unlockProv_set", "unlockSD"}
         /\ Entry(j) = "unlockProv_set" => j = "UNLOCKPROVISIONING"
BY ConstantsAssumption DEF Entry, Jobs

\* The initial states are well typed.
LEMMA InitType == Init => TypeOK
<1> SUFFICES ASSUME Init PROVE TypeOK
  OBVIOUS
<1>1. pc \in [Worker -> Labels] /\ job \in [Worker -> Jobs]
  BY DEF Init, Labels, Jobs
<1>2. sd_prov_lock \in [SD -> {-1, 0, 1}]
  BY DEF Init
<1>3. lock_state \in [Worker -> LockStates]
  BY DEF Init, LockStates
<1>4. losses \in 0..MaxLosses
  BY ConstantsAssumption DEF Init
<1> QED
  BY <1>1, <1>2, <1>3, <1>4 DEF Init, TypeOK

\* Every step of smsd keeps the columns, flags and locals of their types.
LEMMA TypeStep == ASSUME TypeOK, [Next]_vars PROVE TypeOK'
<1> USE ConstantsAssumption DEF TypeOK, ALREADY_LOCKED, OK_LOCKED, OK_LOCKED_BY_TIMEOUT,
        ALREADY_PROVLOCKED, Granted, LockStates, GivenUp, Transmit, SMS_OK,
        ERR_DB_FAILED, ERR_DB_CONNECTION_LOST, Results
<1>1. CASE UNCHANGED vars
  BY <1>1 DEF vars
<1>2. ASSUME NEW w \in Worker, lockProv(w) PROVE TypeOK'
  BY <1>2 DEF lockProv, HA_SMSSQL_GetSDprovlock, db, AfterLockProv, Statement,
           Leave, Goto, local, Jobs, Labels
<1>3. ASSUME NEW w \in Worker, lockProv_SetLock_get(w) PROVE TypeOK'
  BY <1>3 DEF lockProv_SetLock_get, HA_SMSSQL_GetSDprovlock, db,
           AfterLockProv, Statement, Leave, Goto, local, Jobs, Labels
<1>4. ASSUME NEW w \in Worker, lockProv_SetLock(w) PROVE TypeOK'
  BY <1>4 DEF lockProv_SetLock, SMSSQL_SetLock, AfterLockProv, Statement,
           Leave, Goto, local, Jobs, Labels
<1>5. ASSUME NEW w \in Worker, lockProv_set(w) PROVE TypeOK'
  BY <1>5 DEF lockProv_set, HA_SMSSQL_SetSDprovlock, AfterLockProv, Statement,
           Leave, Goto, local, Jobs, Labels
<1>6. ASSUME NEW w \in Worker, lockProv_UnLock(w) PROVE TypeOK'
  BY <1>6 DEF lockProv_UnLock, HA_SMSSQL_UnLock, AfterLockProv, Statement,
           Leave, Goto, local, Jobs, Labels
<1>7. ASSUME NEW w \in Worker, unlockProv_set(w) PROVE TypeOK'
  BY <1>7 DEF unlockProv_set, HA_SMSSQL_SetSDprovlock, Statement, Leave, Goto,
           local, Jobs, Labels
<1>8. ASSUME NEW w \in Worker, unlockProv_date(w) PROVE TypeOK'
  BY <1>8 DEF unlockProv_date, HA_SMSSQL_SetProvDate, db, Statement, Leave,
           Goto, local, Jobs, Labels
<1>9. ASSUME NEW w \in Worker, lockSD_get(w) PROVE TypeOK'
  BY <1>9 DEF lockSD_get, HA_SMSSQL_GetSDprovlock, db, Statement, Leave, Goto,
           local, Jobs, Labels
<1>10. ASSUME NEW w \in Worker, lockSD_set(w) PROVE TypeOK'
  BY <1>10 DEF lockSD_set, SMSSQL_SetLock, Statement, Leave, Goto, local,
           Jobs, Labels
<1>11. ASSUME NEW w \in Worker, unlockSD(w) PROVE TypeOK'
  BY <1>11 DEF unlockSD, HA_SMSSQL_UnLock, Statement, Leave, Goto, local,
           Jobs, Labels
<1>12. ASSUME NEW w \in Worker, scriptFailed(w) PROVE TypeOK'
  BY <1>12 DEF scriptFailed, HA_SMSSQL_UnLock, Statement, Leave, Goto, local,
           Jobs, Labels
<1>13. ASSUME NEW w \in Worker, scriptEnds(w) PROVE TypeOK'
  BY <1>13 DEF scriptEnds, Quiet, db, Goto, Jobs, Labels
<1>14. ASSUME NEW w \in Worker, startJob(w) PROVE TypeOK'
  <2>1. PICK s \in SD, j \in Jobs \ {"none"} : startJob(w)!3!(s, j)
    BY <1>14 DEF startJob
  <2> QED
    BY <1>14, <2>1, EntryLabel DEF startJob, Quiet, db, Jobs, Labels
<1>15. CASE smsSignal
  BY <1>15 DEF smsSignal, db, local, Jobs, Labels
<1>16. CASE smsdStops
  BY <1>16 DEF smsdStops, db, Jobs, Labels
<1>17. CASE resetBdFlag
  BY <1>17 DEF resetBdFlag, local, Jobs, Labels
<1> QED
  BY <1>1, <1>2, <1>3, <1>4, <1>5, <1>6, <1>7, <1>8, <1>9, <1>10, <1>11,
     <1>12, <1>13, <1>14, <1>15, <1>16, <1>17 DEF Next, Step

\* Whatever step is taken, a low lock keeps an owner who will release it.
LEMMA OwnerStep ==
  ASSUME OwnerInv, [Next]_vars
  PROVE  OwnerInv'
<1> SUFFICES OwnerCore'
  BY TypeStep DEF OwnerInv
<1> USE DEF TypeOK, ALREADY_LOCKED, OK_LOCKED, OK_LOCKED_BY_TIMEOUT,
        ALREADY_PROVLOCKED, Granted, LockStates, GivenUp, Transmit, SMS_OK,
        ERR_DB_FAILED, ERR_DB_CONNECTION_LOST, Results,
        OwnerInv, OwnerCore
<1>1. CASE UNCHANGED vars
  BY <1>1 DEF vars, OwnerLabels, LockHasOwner, Owns
<1>2. ASSUME NEW w \in Worker, lockProv(w) PROVE OwnerCore'
  BY <1>2 DEF lockProv, HA_SMSSQL_GetSDprovlock, db, AfterLockProv, Statement,
           Leave, Goto, local, OwnerLabels, LockHasOwner, Owns
<1>3. ASSUME NEW w \in Worker, lockProv_SetLock_get(w) PROVE OwnerCore'
  BY <1>3 DEF lockProv_SetLock_get, HA_SMSSQL_GetSDprovlock, db,
           AfterLockProv, Statement, Leave, Goto, local, OwnerLabels,
           LockHasOwner, Owns
<1>4. ASSUME NEW w \in Worker, lockProv_SetLock(w) PROVE OwnerCore'
  BY <1>4 DEF lockProv_SetLock, SMSSQL_SetLock, AfterLockProv, Statement,
           Leave, Goto, local, OwnerLabels, LockHasOwner, Owns
<1>5. ASSUME NEW w \in Worker, lockProv_set(w) PROVE OwnerCore'
  BY <1>5 DEF lockProv_set, HA_SMSSQL_SetSDprovlock, AfterLockProv, Statement,
           Leave, Goto, local, OwnerLabels, LockHasOwner, Owns
<1>6. ASSUME NEW w \in Worker, lockProv_UnLock(w) PROVE OwnerCore'
  BY <1>6 DEF lockProv_UnLock, HA_SMSSQL_UnLock, AfterLockProv, Statement,
           Leave, Goto, local, OwnerLabels, LockHasOwner, Owns
<1>7. ASSUME NEW w \in Worker, unlockProv_set(w) PROVE OwnerCore'
  BY <1>7 DEF unlockProv_set, HA_SMSSQL_SetSDprovlock, Statement, Leave, Goto,
           local, OwnerLabels, LockHasOwner, Owns
<1>8. ASSUME NEW w \in Worker, unlockProv_date(w) PROVE OwnerCore'
  BY <1>8 DEF unlockProv_date, HA_SMSSQL_SetProvDate, db, Statement, Leave,
           Goto, local, OwnerLabels, LockHasOwner, Owns
<1>9. ASSUME NEW w \in Worker, lockSD_get(w) PROVE OwnerCore'
  BY <1>9 DEF lockSD_get, HA_SMSSQL_GetSDprovlock, db, Statement, Leave, Goto,
           local, OwnerLabels, LockHasOwner, Owns
<1>10. ASSUME NEW w \in Worker, lockSD_set(w) PROVE OwnerCore'
  BY <1>10 DEF lockSD_set, SMSSQL_SetLock, Statement, Leave, Goto, local,
           OwnerLabels, LockHasOwner, Owns
<1>11. ASSUME NEW w \in Worker, unlockSD(w) PROVE OwnerCore'
  BY <1>11 DEF unlockSD, HA_SMSSQL_UnLock, Statement, Leave, Goto, local,
           OwnerLabels, LockHasOwner, Owns
<1>12. ASSUME NEW w \in Worker, scriptFailed(w) PROVE OwnerCore'
  BY <1>12 DEF scriptFailed, HA_SMSSQL_UnLock, Statement, Leave, Goto, local,
           OwnerLabels, LockHasOwner, Owns
<1>13. ASSUME NEW w \in Worker, scriptEnds(w) PROVE OwnerCore'
  BY <1>13 DEF scriptEnds, Quiet, db, Goto, OwnerLabels, LockHasOwner, Owns
<1>14. ASSUME NEW w \in Worker, startJob(w) PROVE OwnerCore'
  <2>1. PICK s \in SD, j \in Jobs \ {"none"} : startJob(w)!3!(s, j)
    BY <1>14 DEF startJob
  <2> QED
    BY <1>14, <2>1, EntryLabel DEF startJob, Quiet, db, OwnerLabels,
       LockHasOwner, Owns
<1>15. CASE smsSignal
  BY <1>15 DEF smsSignal, db, local, OwnerLabels, LockHasOwner, Owns
<1>16. CASE smsdStops
  BY <1>16 DEF smsdStops, db, OwnerLabels, LockHasOwner, Owns
<1>17. CASE resetBdFlag
  BY <1>17 DEF resetBdFlag, local, OwnerLabels, LockHasOwner, Owns
<1> HIDE DEF TypeOK, OwnerInv, OwnerCore, Results
<1> QED
  BY <1>1, <1>2, <1>3, <1>4, <1>5, <1>6, <1>7, <1>8, <1>9, <1>10, <1>11,
     <1>12, <1>13, <1>14, <1>15, <1>16, <1>17 DEF Next, Step

\* No step locks an SD that was never provisioned, not even one that tested
\* sd_prov_lock some steps ago.
LEMMA ProvStep ==
  ASSUME ProvInv, [Next]_vars
  PROVE  ProvInv'
<1> SUFFICES ProvCore'
  BY TypeStep DEF ProvInv
<1> USE DEF TypeOK, ALREADY_LOCKED, OK_LOCKED, OK_LOCKED_BY_TIMEOUT,
        ALREADY_PROVLOCKED, Granted, LockStates, GivenUp, Transmit, SMS_OK,
        ERR_DB_FAILED, ERR_DB_CONNECTION_LOST, Results,
        ProvInv, ProvCore
<1>1. CASE UNCHANGED vars
  BY <1>1 DEF vars, PastTest, NeverLockedBeforeProvisioning
<1>2. ASSUME NEW w \in Worker, lockProv(w) PROVE ProvCore'
  BY <1>2 DEF lockProv, HA_SMSSQL_GetSDprovlock, db, AfterLockProv, Statement,
           Leave, Goto, local, PastTest, NeverLockedBeforeProvisioning
<1>3. ASSUME NEW w \in Worker, lockProv_SetLock_get(w) PROVE ProvCore'
  BY <1>3 DEF lockProv_SetLock_get, HA_SMSSQL_GetSDprovlock, db,
           AfterLockProv, Statement, Leave, Goto, local, PastTest,
           NeverLockedBeforeProvisioning
<1>4. ASSUME NEW w \in Worker, lockProv_SetLock(w) PROVE ProvCore'
  BY <1>4 DEF lockProv_SetLock, SMSSQL_SetLock, AfterLockProv, Statement,
           Leave, Goto, local, PastTest, NeverLockedBeforeProvisioning
<1>5. ASSUME NEW w \in Worker, lockProv_set(w) PROVE ProvCore'
  BY <1>5 DEF lockProv_set, HA_SMSSQL_SetSDprovlock, AfterLockProv, Statement,
           Leave, Goto, local, PastTest, NeverLockedBeforeProvisioning
<1>6. ASSUME NEW w \in Worker, lockProv_UnLock(w) PROVE ProvCore'
  BY <1>6 DEF lockProv_UnLock, HA_SMSSQL_UnLock, AfterLockProv, Statement,
           Leave, Goto, local, PastTest, NeverLockedBeforeProvisioning
<1>7. ASSUME NEW w \in Worker, unlockProv_set(w) PROVE ProvCore'
  BY <1>7 DEF unlockProv_set, HA_SMSSQL_SetSDprovlock, Statement, Leave, Goto,
           local, PastTest, NeverLockedBeforeProvisioning
<1>8. ASSUME NEW w \in Worker, unlockProv_date(w) PROVE ProvCore'
  BY <1>8 DEF unlockProv_date, HA_SMSSQL_SetProvDate, db, Statement, Leave,
           Goto, local, PastTest, NeverLockedBeforeProvisioning
<1>9. ASSUME NEW w \in Worker, lockSD_get(w) PROVE ProvCore'
  BY <1>9 DEF lockSD_get, HA_SMSSQL_GetSDprovlock, db, Statement, Leave, Goto,
           local, PastTest, NeverLockedBeforeProvisioning
<1>10. ASSUME NEW w \in Worker, lockSD_set(w) PROVE ProvCore'
  BY <1>10 DEF lockSD_set, SMSSQL_SetLock, Statement, Leave, Goto, local,
           PastTest, NeverLockedBeforeProvisioning
<1>11. ASSUME NEW w \in Worker, unlockSD(w) PROVE ProvCore'
  BY <1>11 DEF unlockSD, HA_SMSSQL_UnLock, Statement, Leave, Goto, local,
           PastTest, NeverLockedBeforeProvisioning
<1>12. ASSUME NEW w \in Worker, scriptFailed(w) PROVE ProvCore'
  BY <1>12 DEF scriptFailed, HA_SMSSQL_UnLock, Statement, Leave, Goto, local,
           PastTest, NeverLockedBeforeProvisioning
<1>13. ASSUME NEW w \in Worker, scriptEnds(w) PROVE ProvCore'
  BY <1>13 DEF scriptEnds, Quiet, db, Goto, PastTest,
           NeverLockedBeforeProvisioning
<1>14. ASSUME NEW w \in Worker, startJob(w) PROVE ProvCore'
  <2>1. PICK s \in SD, j \in Jobs \ {"none"} : startJob(w)!3!(s, j)
    BY <1>14 DEF startJob
  <2> QED
    BY <1>14, <2>1, EntryLabel DEF startJob, Quiet, db, PastTest,
       NeverLockedBeforeProvisioning
<1>15. CASE smsSignal
  BY <1>15 DEF smsSignal, db, local, PastTest, NeverLockedBeforeProvisioning
<1>16. CASE smsdStops
  BY <1>16 DEF smsdStops, db, PastTest, NeverLockedBeforeProvisioning
<1>17. CASE resetBdFlag
  BY <1>17 DEF resetBdFlag, local, PastTest, NeverLockedBeforeProvisioning
<1> HIDE DEF TypeOK, ProvInv, ProvCore, Results
<1> QED
  BY <1>1, <1>2, <1>3, <1>4, <1>5, <1>6, <1>7, <1>8, <1>9, <1>10, <1>11,
     <1>12, <1>13, <1>14, <1>15, <1>16, <1>17 DEF Next, Step

\* A step that does not clear sd_prov_lock under a provisioning script leaves every
\* SD that is being provisioned marked, and whoever starts to work has marked it.
LEMMA MarkedStep ==
  ASSUME MarkedInv, [Next]_vars, ~ClearedWhileProvisioning
  PROVE  MarkedInv'
<1> SUFFICES MarkedCore'
  BY TypeStep DEF MarkedInv, MarkedCore
<1> USE DEF TypeOK, ALREADY_LOCKED, OK_LOCKED, OK_LOCKED_BY_TIMEOUT,
        ALREADY_PROVLOCKED, Granted, LockStates, GivenUp, Transmit, SMS_OK,
        ERR_DB_FAILED, ERR_DB_CONNECTION_LOST, Results,
        MarkedInv, MarkedCore, ClearedWhileProvisioning
<1>1. CASE UNCHANGED vars
  BY <1>1 DEF vars, ProvisioningMarked, Jobs
<1>2. ASSUME NEW w \in Worker, lockProv(w) PROVE MarkedCore'
  BY <1>2 DEF lockProv, HA_SMSSQL_GetSDprovlock, db, AfterLockProv, Statement,
           Leave, Goto, local, ProvisioningMarked, Jobs
<1>3. ASSUME NEW w \in Worker, lockProv_SetLock_get(w) PROVE MarkedCore'
  BY <1>3 DEF lockProv_SetLock_get, HA_SMSSQL_GetSDprovlock, db,
           AfterLockProv, Statement, Leave, Goto, local, ProvisioningMarked,
           Jobs
<1>4. ASSUME NEW w \in Worker, lockProv_SetLock(w) PROVE MarkedCore'
  BY <1>4 DEF lockProv_SetLock, SMSSQL_SetLock, AfterLockProv, Statement,
           Leave, Goto, local, ProvisioningMarked, Jobs
<1>5. ASSUME NEW w \in Worker, lockProv_set(w) PROVE MarkedCore'
  BY <1>5 DEF lockProv_set, HA_SMSSQL_SetSDprovlock, AfterLockProv, Statement,
           Leave, Goto, local, ProvisioningMarked, Jobs
<1>6. ASSUME NEW w \in Worker, lockProv_UnLock(w) PROVE MarkedCore'
  BY <1>6 DEF lockProv_UnLock, HA_SMSSQL_UnLock, AfterLockProv, Statement,
           Leave, Goto, local, ProvisioningMarked, Jobs
<1>7. ASSUME NEW w \in Worker, unlockProv_set(w) PROVE MarkedCore'
  BY <1>7 DEF unlockProv_set, HA_SMSSQL_SetSDprovlock, Statement, Leave, Goto,
           local, ProvisioningMarked, Jobs
<1>8. ASSUME NEW w \in Worker, unlockProv_date(w) PROVE MarkedCore'
  BY <1>8 DEF unlockProv_date, HA_SMSSQL_SetProvDate, db, Statement, Leave,
           Goto, local, ProvisioningMarked, Jobs
<1>9. ASSUME NEW w \in Worker, lockSD_get(w) PROVE MarkedCore'
  BY <1>9 DEF lockSD_get, HA_SMSSQL_GetSDprovlock, db, Statement, Leave, Goto,
           local, ProvisioningMarked, Jobs
<1>10. ASSUME NEW w \in Worker, lockSD_set(w) PROVE MarkedCore'
  BY <1>10 DEF lockSD_set, SMSSQL_SetLock, Statement, Leave, Goto, local,
           ProvisioningMarked, Jobs
<1>11. ASSUME NEW w \in Worker, unlockSD(w) PROVE MarkedCore'
  BY <1>11 DEF unlockSD, HA_SMSSQL_UnLock, Statement, Leave, Goto, local,
           ProvisioningMarked, Jobs
<1>12. ASSUME NEW w \in Worker, scriptFailed(w) PROVE MarkedCore'
  BY <1>12 DEF scriptFailed, HA_SMSSQL_UnLock, Statement, Leave, Goto, local,
           ProvisioningMarked, Jobs
<1>13. ASSUME NEW w \in Worker, scriptEnds(w) PROVE MarkedCore'
  BY <1>13 DEF scriptEnds, Quiet, db, Goto, ProvisioningMarked, Jobs
<1>14. ASSUME NEW w \in Worker, startJob(w) PROVE MarkedCore'
  <2>1. PICK s \in SD, j \in Jobs \ {"none"} : startJob(w)!3!(s, j)
    BY <1>14 DEF startJob
  <2> QED
    BY <1>14, <2>1, EntryLabel DEF startJob, Quiet, db, ProvisioningMarked,
       Jobs
<1>15. CASE smsSignal
  BY <1>15 DEF smsSignal, db, local, ProvisioningMarked, Jobs
<1>16. CASE smsdStops
  BY <1>16 DEF smsdStops, db, ProvisioningMarked, Jobs
<1>17. CASE resetBdFlag
  BY <1>17 DEF resetBdFlag, local, ProvisioningMarked, Jobs
<1> HIDE DEF TypeOK, MarkedInv, MarkedCore, Results
<1> QED
  BY <1>1, <1>2, <1>3, <1>4, <1>5, <1>6, <1>7, <1>8, <1>9, <1>10, <1>11,
     <1>12, <1>13, <1>14, <1>15, <1>16, <1>17 DEF Next, Step

-----------------------------------------------------------------------------
\* Every state of smsd is well typed.
THEOREM TypeCorrect == Spec => []TypeOK
<1> QED
  BY InitType, TypeStep, PTL DEF Spec

\* lockProv, lockSD, unlockSD and failing scripts never leave an SD locked with
\* nobody left to unlock it, unless a statement on the lock itself went wrong.
THEOREM LocksHaveOwners == Spec => []LockHasOwner
<1>1. Init => OwnerInv
  BY InitType DEF Init, OwnerInv, OwnerCore, LockHasOwner, ALREADY_LOCKED, OK_LOCKED,
     OK_LOCKED_BY_TIMEOUT, Granted
<1>2. OwnerInv => LockHasOwner
  BY DEF OwnerInv, OwnerCore
<1> QED
  BY <1>1, <1>2, OwnerStep, PTL DEF Spec

\* HA_SMSSQL_SetLock never locks an SD whose sd_prov_lock is still -1, although
\* it tests that column in a statement of its own.
THEOREM UnprovisionedNeverLocked == Spec => []NeverLockedBeforeProvisioning
<1>1. Init => ProvInv
  BY InitType
  DEF Init, ProvInv, ProvCore, NeverLockedBeforeProvisioning, PastTest, ALREADY_LOCKED,
      OK_LOCKED
<1>2. ProvInv => NeverLockedBeforeProvisioning
  BY DEF ProvInv, ProvCore
<1> QED
  BY <1>1, <1>2, ProvStep, PTL DEF Spec

\* sd_prov_lock is 1 as long as a provisioning script works, unless the unlockProv
\* of another provisioning or of UNLOCKPROVISIONING clears it under the script:
\* updates, commands, LOCKPROVISIONING, refused locks, database errors, repeated
\* statements and restarts do not, and no path of lockProv lets a script work
\* on an SD it has not marked.
THEOREM OnlyUnlockProvUnmarks ==
  Spec /\ [][~ClearedWhileProvisioning]_vars => []ProvisioningMarked
<1>1. Init => MarkedInv
  BY InitType DEF Init, MarkedInv, MarkedCore, ProvisioningMarked
<1>2. MarkedInv /\ [Next]_vars /\ [~ClearedWhileProvisioning]_vars => MarkedInv'
  <2> SUFFICES ASSUME MarkedInv, [Next]_vars, [~ClearedWhileProvisioning]_vars
               PROVE  MarkedInv'
    OBVIOUS
  <2>1. CASE UNCHANGED vars
    BY <2>1 DEF vars, MarkedInv, MarkedCore, TypeOK, ProvisioningMarked
  <2>2. CASE ~ClearedWhileProvisioning
    BY <2>2, MarkedStep
  <2> QED
    BY <2>1, <2>2
<1>3. MarkedInv => ProvisioningMarked
  BY DEF MarkedInv, MarkedCore
<1> QED
  BY <1>1, <1>2, <1>3, PTL DEF Spec

-----------------------------------------------------------------------------
(***************************************************************************)
(* Why two updates can overlap (OneUpdateAtATime is violated): not through *)
(* the way the lock is taken.                                              *)
(***************************************************************************)
\* A step clears the low lock of an SD that a script is updating.
ReleasedWhileUpdating ==
  \E v \in Worker : pc[v] = "updating" /\ sd[v] \in sd_locked \ sd_locked'

\* The strengthening of OneUpdateAtATime: a script that updates an SD has it locked.
ExclusionCore ==
  /\ OneUpdateAtATime
  /\ \A v \in Worker : pc[v] = "updating" => sd[v] \in sd_locked
ExclusionInv == TypeOK /\ ExclusionCore

\* A script that updates after a step did so before it, or has just been granted a
\* lock that nobody had, or whose timeout had passed.
GrantedOrUpdating(v) ==
  pc'[v] = "updating" =>
    /\ sd'[v] = sd[v]
    /\ \/ pc[v] = "updating" /\ lock_state'[v] = lock_state[v]
       \/ /\ sd[v] \in sd_locked'
          /\ sd[v] \in sd_locked => lock_state'[v] = OK_LOCKED_BY_TIMEOUT
          /\ \A u \in Worker \ {v} : pc'[u] = pc[u]

\* No other step than a granted SetLock of lockSD brings a script to its update.
LEMMA UpdatesAreGranted ==
  ASSUME TypeOK, [Next]_vars, NEW v \in Worker
  PROVE  GrantedOrUpdating(v)
<1> USE DEF TypeOK, GrantedOrUpdating
<1>1. CASE UNCHANGED vars
  BY <1>1 DEF vars
<1>2. ASSUME NEW w \in Worker, lockProv(w) PROVE GrantedOrUpdating(v)
  BY <1>2 DEF lockProv, AfterLockProv, Leave, Goto, local
<1>3. ASSUME NEW w \in Worker, lockProv_SetLock_get(w) PROVE GrantedOrUpdating(v)
  BY <1>3 DEF lockProv_SetLock_get, AfterLockProv, Leave, Goto, local
<1>4. ASSUME NEW w \in Worker, lockProv_SetLock(w) PROVE GrantedOrUpdating(v)
  BY <1>4 DEF lockProv_SetLock, AfterLockProv, Leave, Goto, local
<1>5. ASSUME NEW w \in Worker, lockProv_set(w) PROVE GrantedOrUpdating(v)
  BY <1>5 DEF lockProv_set, AfterLockProv, Leave, Goto, local
<1>6. ASSUME NEW w \in Worker, lockProv_UnLock(w) PROVE GrantedOrUpdating(v)
  BY <1>6 DEF lockProv_UnLock, AfterLockProv, Leave, Goto, local
<1>7. ASSUME NEW w \in Worker, unlockProv_set(w) PROVE GrantedOrUpdating(v)
  BY <1>7 DEF unlockProv_set, Leave, Goto, local
<1>8. ASSUME NEW w \in Worker, unlockProv_date(w) PROVE GrantedOrUpdating(v)
  BY <1>8 DEF unlockProv_date, Leave, Goto, local
<1>9. ASSUME NEW w \in Worker, lockSD_get(w) PROVE GrantedOrUpdating(v)
  BY <1>9 DEF lockSD_get, Leave, Goto, local
<1>10. ASSUME NEW w \in Worker, lockSD_set(w) PROVE GrantedOrUpdating(v)
  BY <1>10 DEF lockSD_set, SMSSQL_SetLock, GivenUp, Leave, Goto, local, ALREADY_LOCKED,
     OK_LOCKED, OK_LOCKED_BY_TIMEOUT, Granted, LockStates, SMS_OK, ERR_DB_FAILED,
     ERR_DB_CONNECTION_LOST
<1>11. ASSUME NEW w \in Worker, unlockSD(w) PROVE GrantedOrUpdating(v)
  BY <1>11 DEF unlockSD, Leave, Goto, local
<1>12. ASSUME NEW w \in Worker, scriptFailed(w) PROVE GrantedOrUpdating(v)
  BY <1>12 DEF scriptFailed, Leave, Goto, local
<1>13. ASSUME NEW w \in Worker, scriptEnds(w) PROVE GrantedOrUpdating(v)
  BY <1>13 DEF scriptEnds, Goto
<1>14. ASSUME NEW w \in Worker, startJob(w) PROVE GrantedOrUpdating(v)
  <2>1. PICK s \in SD, j \in Jobs \ {"none"} : startJob(w)!3!(s, j)
    BY <1>14 DEF startJob
  <2>2. UNCHANGED lock_state
    BY <1>14 DEF startJob
  <2> QED
    BY <2>1, <2>2, EntryLabel
<1>15. CASE smsSignal \/ smsdStops \/ resetBdFlag
  BY <1>15 DEF smsSignal, smsdStops, resetBdFlag, local
<1> HIDE DEF TypeOK, GrantedOrUpdating
<1> QED
  BY <1>1, <1>2, <1>3, <1>4, <1>5, <1>6, <1>7, <1>8, <1>9, <1>10, <1>11,
     <1>12, <1>13, <1>14, <1>15 DEF Next, Step

\* As long as no UnLock clears the lock of an SD under the script that updates it
\* (a refused script's failure path, UNLOCKUPDATE, lockProv, the end of a script that
\* took the lock over, the repetition of an UnLock that the database had applied),
\* two scripts never update an SD at the same time, each with a lock it was given
\* free: the test and the SetLock of lockSD, the timeout of locks, lost connections,
\* crashes and restarts do not add a way.
THEOREM OnlyUnlockBreaksExclusion ==
  Spec /\ [][~ReleasedWhileUpdating]_vars => []OneUpdateAtATime
<1>1. Init => ExclusionInv
  BY InitType DEF Init, ExclusionInv, ExclusionCore, OneUpdateAtATime, Updates
<1>2. ExclusionInv /\ [Next]_vars /\ [~ReleasedWhileUpdating]_vars => ExclusionInv'
  <2> SUFFICES ASSUME ExclusionInv, [Next]_vars, [~ReleasedWhileUpdating]_vars
               PROVE  ExclusionCore'
    BY TypeStep DEF ExclusionInv
  <2>1. \A v \in Worker : GrantedOrUpdating(v)
    BY UpdatesAreGranted DEF ExclusionInv
  <2>2. \A v \in Worker : pc[v] = "updating" => sd[v] \in sd_locked'
    <3>1. CASE UNCHANGED vars
      BY <3>1 DEF vars, ExclusionInv, ExclusionCore
    <3>2. CASE ~ReleasedWhileUpdating
      BY <3>2 DEF ReleasedWhileUpdating, ExclusionInv, ExclusionCore
    <3> QED
      BY <3>1, <3>2
  <2>3. \A v \in Worker : pc'[v] = "updating" => sd'[v] \in sd_locked'
    BY <2>1, <2>2 DEF GrantedOrUpdating
  <2>4. ASSUME NEW v \in Worker, NEW w \in Worker,
               Updates(v)', Updates(w)', sd'[v] = sd'[w]
        PROVE  v = w
    BY <2>1, <2>4
    DEF GrantedOrUpdating, ExclusionInv, ExclusionCore, OneUpdateAtATime, Updates, OK_LOCKED,
        OK_LOCKED_BY_TIMEOUT
  <2> QED
    BY <2>3, <2>4 DEF ExclusionCore, OneUpdateAtATime
<1>3. ExclusionInv => OneUpdateAtATime
  BY DEF ExclusionInv, ExclusionCore
<1> QED
  BY <1>1, <1>2, <1>3, PTL DEF Spec
=============================================================================
