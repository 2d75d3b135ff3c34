------------------------- MODULE DbContextWaitProofs -------------------------
(***************************************************************************)
(* Who waits for whom in DbContext.  A task that waits keeps at most one   *)
(* context, and only sms_bd_set_log waits with one.                        *)
(***************************************************************************)
EXTENDS DbContextProofs

\* An active DB_CUST context belongs to an unlockProv between its find and its
\* release, where it waits for nothing.
CustCore ==
  /\ \A c \in cust_active : \E w \in Worker : db_cust[w] = c
  /\ \A w \in Worker : db_cust[w] # NULL => pc[w] \in {"cust_statement", "back", "cust_back"}

\* No step leaves a DB_CUST context active without its unlockProv.
LEMMA CustStep == ASSUME LeakInv, CustCore, [Next]_vars PROVE CustCore'
<1> USE PoolAssumption DEF LeakInv, LeakCore, CustCore, TypeOK, InCall, InLog
<1>1. CASE UNCHANGED vars
  BY <1>1 DEF vars
<1>2. ASSUME NEW w \in Worker, findContext(w) PROVE CustCore'
  BY <1>2 DEF findContext, Goto, Find
<1>3. ASSUME NEW w \in Worker, getSDinfo(w) PROVE CustCore'
  BY <1>3 DEF getSDinfo, Goto, Stay, pools
<1>4. ASSUME NEW w \in Worker, releaseBeforeScript(w) PROVE CustCore'
  BY <1>4 DEF releaseBeforeScript, Goto, RELEASE_BD_CTX
<1>5. ASSUME NEW w \in Worker, script(w) PROVE CustCore'
  BY <1>5 DEF script, Goto, pools
<1>6. ASSUME NEW w \in Worker, sdForceAsset(w) PROVE CustCore'
  BY <1>6 DEF sdForceAsset, Goto, pools
<1>7. ASSUME NEW w \in Worker, releaseAfterAsset(w) PROVE CustCore'
  BY <1>7 DEF releaseAfterAsset, Goto, RELEASE_BD_CTX
<1>8. ASSUME NEW w \in Worker, refind(w) PROVE CustCore'
  BY <1>8 DEF refind, Goto, Find, pools
<1>9. ASSUME NEW w \in Worker, status(w) PROVE CustCore'
  BY <1>9 DEF status, Goto, pools
<1>10. ASSUME NEW w \in Worker, endOfTask(w) PROVE CustCore'
  BY <1>10 DEF endOfTask, Goto, RELEASE_BD_CTX
<1>11. ASSUME NEW w \in Worker, need(w) PROVE CustCore'
  BY <1>11 DEF need, Goto, Find, pools
<1>12. ASSUME NEW w \in Worker, statement(w) PROVE CustCore'
  BY <1>12 DEF statement, Goto, Stay, pools
<1>13. ASSUME NEW w \in Worker, back(w) PROVE CustCore'
  BY <1>13 DEF back, Goto
<1>14. ASSUME NEW w \in Worker, custFind(w) PROVE CustCore'
  BY <1>14 DEF custFind, Goto, sms_db_find_ctx
<1>15. ASSUME NEW w \in Worker, custBack(w) PROVE CustCore'
  BY <1>15 DEF custBack, Goto, sms_db_release_ctx
<1>16. ASSUME NEW w \in Worker, logFind(w) PROVE CustCore'
  BY <1>16 DEF logFind, Goto
<1>17. ASSUME NEW w \in Worker, logBack(w) PROVE CustCore'
  BY <1>17 DEF logBack, Goto
<1>18. ASSUME NEW w \in Worker, startJob(w) PROVE CustCore'
  BY <1>18 DEF startJob, Goto, pools
<1>19. CASE smsSignal
  BY <1>19 DEF smsSignal
<1> HIDE DEF LeakInv, LeakCore, CustCore, TypeOK, InCall, InLog
<1> QED
  BY <1>1, <1>2, <1>3, <1>4, <1>5, <1>6, <1>7, <1>8, <1>9, <1>10, <1>11,
     <1>12, <1>13, <1>14, <1>15, <1>16, <1>17, <1>18, <1>19 DEF Next, Step

\* If everybody waits, every context is designated by a task that waits, and the
\* only label at which a task waits with a context in its pointer is that of
\* sms_bd_set_log.
LEMMA WaitersLog == ASSUME LeakInv, CustCore, CustCtx # {} PROVE GlobalWaitIsInSetLog
<1> SUFFICES ASSUME AllWaiting, NEW c \in Ctx
             PROVE  \E w \in Worker : pc[w] = "log" /\ db_ctx[w] = c
  BY DEF GlobalWaitIsInSetLog
<1> USE DEF LeakInv
<1>1. \A w \in Worker : ~(pc[w] = "cust" /\ CustCtx \subseteq cust_active)
  <2> SUFFICES ASSUME CustCtx \subseteq cust_active PROVE FALSE
    OBVIOUS
  <2>1. PICK d \in CustCtx, v \in Worker : db_cust[v] = d
    BY DEF CustCore
  <2>2. pc[v] \in {"cust_statement", "back", "cust_back"}
    BY <2>1, PoolAssumption DEF CustCore
  <2> QED
    BY <2>2 DEF AllWaiting, Waiting
<1>2. Ctx \subseteq active
  BY <1>1 DEF AllWaiting, Waiting
<1>3. PICK w \in Worker : c \in {db_ctx[w], own_ctx[w]}
  BY <1>2 DEF LeakCore
<1>4. c # NULL
  BY PoolAssumption
<1>5. pc[w] # "idle" /\ Waiting(w)
  BY <1>3, <1>4 DEF LeakCore, AllWaiting
<1>6. own_ctx[w] = NULL
  BY <1>5 DEF LeakCore, Waiting
<1> QED
  BY <1>1, <1>3, <1>4, <1>5, <1>6 DEF Waiting

\* For every pool, however small, and any mix of the three conventions: all the
\* tasks wait for contexts only when each context is kept by a task that asks for
\* its second one in sms_bd_set_log.  CustCtx is not empty: CUSTnumContext is 1
\* unless the configuration says otherwise.
THEOREM WaitsOnlyInSetLog ==
  ASSUME CustCtx # {}
  PROVE  Spec => []GlobalWaitIsInSetLog
<1>1. Init => LeakInv /\ CustCore
  <2> SUFFICES ASSUME Init PROVE LeakCore /\ CustCore
    BY InitType DEF LeakInv
  <2> QED
    BY DEF Init, LeakCore, CustCore, InCall, InLog
<1>2. LeakInv /\ CustCore /\ [Next]_vars => (LeakInv /\ CustCore)'
  BY TypeStep, LeakStep, CustStep DEF LeakInv
<1>3. LeakInv /\ CustCore => GlobalWaitIsInSetLog
  BY WaitersLog
<1> QED
  BY <1>1, <1>2, <1>3, PTL DEF Spec
=============================================================================
