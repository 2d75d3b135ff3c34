--------------------------- MODULE DbContextProofs ---------------------------
(***************************************************************************)
(* Proofs about DbContext, for every pool and every number of threads.     *)
(***************************************************************************)
EXTENDS DbContext, TLAPS

\* The labels of a call made by a script, and of sms_bd_set_log.
InCall == {"need", "statement", "back", "cust", "cust_statement", "cust_back"}
InLog == {"log", "log_statement"}

\* The strengthening of NoContextLeak: where a call returns to, and which
\* pointers are NULL where a find is about to overwrite them.
LeakCore ==
  /\ \A c \in active : \E w \in Worker : c \in {db_ctx[w], own_ctx[w]}
  /\ \A w \in Worker :
       /\ pc[w] \in {"idle", "find"} => db_ctx[w] = NULL
       /\ pc[w] # "log_statement" => own_ctx[w] = NULL
       /\ pc[w] \in InCall => cont[w] \in {"script", "release_asset", "end"}
       /\ pc[w] \in InLog => cont[w] \in {"script", "idle"}
       /\ pc[w] \in InLog /\ cont[w] = "idle" => db_ctx[w] = NULL
LeakInv == TypeOK /\ LeakCore

\* The strengthening of ExclusiveUse: a context to which no call left a pointer is
\* active while a pointer designates it, and one pointer does.
HoldCore ==
  \A w \in Worker :
    /\ db_ctx[w] \notin left \cup {NULL} =>
         /\ db_ctx[w] \in active
         /\ \A v \in Worker : /\ own_ctx[v] # db_ctx[w]
                              /\ v # w => db_ctx[v] # db_ctx[w]
    /\ own_ctx[w] \notin left \cup {NULL} =>
         /\ own_ctx[w] \in active
         /\ \A v \in Worker : v # w => own_ctx[v] # own_ctx[w]
HoldInv == LeakInv /\ HoldCore

-----------------------------------------------------------------------------
\* The initial states are well typed.
LEMMA InitType == Init => TypeOK
<1> SUFFICES ASSUME Init PROVE TypeOK
  OBVIOUS
<1>1. pc \in [Worker -> Labels] /\ cont \in [Worker -> Labels]
  BY DEF Init, Labels
<1>2. /\ db_ctx \in [Worker -> Ctx \cup {NULL}]
      /\ own_ctx \in [Worker -> Ctx \cup {NULL}]
      /\ db_cust \in [Worker -> CustCtx \cup {NULL}]
  BY DEF Init
<1> QED
  BY <1>1, <1>2 DEF Init, TypeOK

\* Every step keeps the pools, pointers and labels of their types.
LEMMA TypeStep == ASSUME TypeOK, [Next]_vars PROVE TypeOK'
<1> USE PoolAssumption DEF TypeOK, Labels
<1>1. CASE UNCHANGED vars
  BY <1>1 DEF vars
<1>2. ASSUME NEW w \in Worker, findContext(w) PROVE TypeOK'
  BY <1>2 DEF findContext, Goto, Find, sms_db_find_ctx
<1>3. ASSUME NEW w \in Worker, getSDinfo(w) PROVE TypeOK'
  BY <1>3 DEF getSDinfo, Goto, Stay, pools
<1>4. ASSUME NEW w \in Worker, releaseBeforeScript(w) PROVE TypeOK'
  BY <1>4 DEF releaseBeforeScript, Goto, RELEASE_BD_CTX, Forget, sms_db_release_ctx
<1>5. ASSUME NEW w \in Worker, script(w) PROVE TypeOK'
  BY <1>5 DEF script, Goto, pools
<1>6. ASSUME NEW w \in Worker, sdForceAsset(w) PROVE TypeOK'
  BY <1>6 DEF sdForceAsset, Goto, pools
<1>7. ASSUME NEW w \in Worker, releaseAfterAsset(w) PROVE TypeOK'
  BY <1>7 DEF releaseAfterAsset, Goto, RELEASE_BD_CTX, Forget, sms_db_release_ctx
<1>8. ASSUME NEW w \in Worker, refind(w) PROVE TypeOK'
  BY <1>8 DEF refind, Goto, Find, sms_db_find_ctx, pools
<1>9. ASSUME NEW w \in Worker, status(w) PROVE TypeOK'
  BY <1>9 DEF status, Goto, pools
<1>10. ASSUME NEW w \in Worker, endOfTask(w) PROVE TypeOK'
  BY <1>10 DEF endOfTask, Goto, RELEASE_BD_CTX, Forget, sms_db_release_ctx
<1>11. ASSUME NEW w \in Worker, need(w) PROVE TypeOK'
  BY <1>11 DEF need, Goto, Find, sms_db_find_ctx, pools
<1>12. ASSUME NEW w \in Worker, statement(w) PROVE TypeOK'
  BY <1>12 DEF statement, Goto, Stay, pools
<1>13. ASSUME NEW w \in Worker, back(w) PROVE TypeOK'
  BY <1>13 DEF back, Goto, sms_db_release_ctx
<1>14. ASSUME NEW w \in Worker, custFind(w) PROVE TypeOK'
  BY <1>14 DEF custFind, Goto, sms_db_find_ctx
<1>15. ASSUME NEW w \in Worker, custBack(w) PROVE TypeOK'
  BY <1>15 DEF custBack, Goto, sms_db_release_ctx
<1>16. ASSUME NEW w \in Worker, logFind(w) PROVE TypeOK'
  BY <1>16 DEF logFind, Goto, sms_db_find_ctx
<1>17. ASSUME NEW w \in Worker, logBack(w) PROVE TypeOK'
  BY <1>17 DEF logBack, Goto, Forget, sms_db_release_ctx
<1>18. ASSUME NEW w \in Worker, startJob(w) PROVE TypeOK'
  BY <1>18 DEF startJob, Goto, pools
<1>19. CASE smsSignal
  BY <1>19 DEF smsSignal
<1> HIDE DEF TypeOK, Labels
<1> QED
  BY <1>1, <1>2, <1>3, <1>4, <1>5, <1>6, <1>7, <1>8, <1>9, <1>10, <1>11,
     <1>12, <1>13, <1>14, <1>15, <1>16, <1>17, <1>18, <1>19 DEF Next, Step

\* No step loses a context.
LEMMA LeakStep == ASSUME LeakInv, [Next]_vars PROVE LeakCore'
<1> USE PoolAssumption DEF LeakInv, LeakCore, TypeOK, InCall, InLog
<1>1. CASE UNCHANGED vars
  BY <1>1 DEF vars
<1>2. ASSUME NEW w \in Worker, findContext(w) PROVE LeakCore'
  BY <1>2 DEF findContext, Goto, Find, sms_db_find_ctx
<1>3. ASSUME NEW w \in Worker, getSDinfo(w) PROVE LeakCore'
  BY <1>3 DEF getSDinfo, Goto, Stay, pools
<1>4. ASSUME NEW w \in Worker, releaseBeforeScript(w) PROVE LeakCore'
  BY <1>4 DEF releaseBeforeScript, Goto, RELEASE_BD_CTX, sms_db_release_ctx
<1>5. ASSUME NEW w \in Worker, script(w) PROVE LeakCore'
  BY <1>5 DEF script, Goto, pools
<1>6. ASSUME NEW w \in Worker, sdForceAsset(w) PROVE LeakCore'
  BY <1>6 DEF sdForceAsset, Goto, pools
<1>7. ASSUME NEW w \in Worker, releaseAfterAsset(w) PROVE LeakCore'
  BY <1>7 DEF releaseAfterAsset, Goto, RELEASE_BD_CTX, sms_db_release_ctx
<1>8. ASSUME NEW w \in Worker, refind(w) PROVE LeakCore'
  BY <1>8 DEF refind, Goto, Find, sms_db_find_ctx, pools
<1>9. ASSUME NEW w \in Worker, status(w) PROVE LeakCore'
  BY <1>9 DEF status, Goto, pools
<1>10. ASSUME NEW w \in Worker, endOfTask(w) PROVE LeakCore'
  BY <1>10 DEF endOfTask, Goto, RELEASE_BD_CTX, sms_db_release_ctx
<1>11. ASSUME NEW w \in Worker, need(w) PROVE LeakCore'
  BY <1>11 DEF need, Goto, Find, sms_db_find_ctx, pools
<1>12. ASSUME NEW w \in Worker, statement(w) PROVE LeakCore'
  BY <1>12 DEF statement, Goto, Stay, pools
<1>13. ASSUME NEW w \in Worker, back(w) PROVE LeakCore'
  BY <1>13 DEF back, Goto, sms_db_release_ctx
<1>14. ASSUME NEW w \in Worker, custFind(w) PROVE LeakCore'
  BY <1>14 DEF custFind, Goto, sms_db_find_ctx
<1>15. ASSUME NEW w \in Worker, custBack(w) PROVE LeakCore'
  BY <1>15 DEF custBack, Goto, sms_db_release_ctx
<1>16. ASSUME NEW w \in Worker, logFind(w) PROVE LeakCore'
  BY <1>16 DEF logFind, Goto, sms_db_find_ctx
<1>17. ASSUME NEW w \in Worker, logBack(w) PROVE LeakCore'
  BY <1>17 DEF logBack, Goto, sms_db_release_ctx
<1>18. ASSUME NEW w \in Worker, startJob(w) PROVE LeakCore'
  BY <1>18 DEF startJob, Goto, pools
<1>19. CASE smsSignal
  BY <1>19 DEF smsSignal
<1> HIDE DEF LeakInv, LeakCore, TypeOK, InCall, InLog
<1> QED
  BY <1>1, <1>2, <1>3, <1>4, <1>5, <1>6, <1>7, <1>8, <1>9, <1>10, <1>11,
     <1>12, <1>13, <1>14, <1>15, <1>16, <1>17, <1>18, <1>19 DEF Next, Step

\* No step makes a second pointer designate a context, or leaves one that is not
\* active designated, without the context being in left.
LEMMA HoldStep == ASSUME HoldInv, [Next]_vars PROVE HoldCore'
<1> USE PoolAssumption DEF HoldInv, HoldCore, LeakInv, LeakCore, TypeOK, InCall, InLog
<1>1. CASE UNCHANGED vars
  BY <1>1 DEF vars
<1>2. ASSUME NEW w \in Worker, findContext(w) PROVE HoldCore'
  BY <1>2 DEF findContext, Goto, Find, sms_db_find_ctx
<1>3. ASSUME NEW w \in Worker, getSDinfo(w) PROVE HoldCore'
  BY <1>3 DEF getSDinfo, Goto, Stay, pools
<1>4. ASSUME NEW w \in Worker, releaseBeforeScript(w) PROVE HoldCore'
  BY <1>4 DEF releaseBeforeScript, Goto, RELEASE_BD_CTX, Forget, sms_db_release_ctx
<1>5. ASSUME NEW w \in Worker, script(w) PROVE HoldCore'
  BY <1>5 DEF script, Goto, pools
<1>6. ASSUME NEW w \in Worker, sdForceAsset(w) PROVE HoldCore'
  BY <1>6 DEF sdForceAsset, Goto, pools
<1>7. ASSUME NEW w \in Worker, releaseAfterAsset(w) PROVE HoldCore'
  BY <1>7 DEF releaseAfterAsset, Goto, RELEASE_BD_CTX, Forget, sms_db_release_ctx
<1>8. ASSUME NEW w \in Worker, refind(w) PROVE HoldCore'
  BY <1>8 DEF refind, Goto, Find, sms_db_find_ctx, pools
<1>9. ASSUME NEW w \in Worker, status(w) PROVE HoldCore'
  BY <1>9 DEF status, Goto, pools
<1>10. ASSUME NEW w \in Worker, endOfTask(w) PROVE HoldCore'
  BY <1>10 DEF endOfTask, Goto, RELEASE_BD_CTX, Forget, sms_db_release_ctx
<1>11. ASSUME NEW w \in Worker, need(w) PROVE HoldCore'
  BY <1>11 DEF need, Goto, Find, sms_db_find_ctx, pools
<1>12. ASSUME NEW w \in Worker, statement(w) PROVE HoldCore'
  BY <1>12 DEF statement, Goto, Stay, pools
<1>13. ASSUME NEW w \in Worker, back(w) PROVE HoldCore'
  BY <1>13 DEF back, Goto, sms_db_release_ctx
<1>14. ASSUME NEW w \in Worker, custFind(w) PROVE HoldCore'
  BY <1>14 DEF custFind, Goto, sms_db_find_ctx
<1>15. ASSUME NEW w \in Worker, custBack(w) PROVE HoldCore'
  BY <1>15 DEF custBack, Goto, sms_db_release_ctx
<1>16. ASSUME NEW w \in Worker, logFind(w) PROVE HoldCore'
  BY <1>16 DEF logFind, Goto, sms_db_find_ctx
<1>17. ASSUME NEW w \in Worker, logBack(w) PROVE HoldCore'
  BY <1>17 DEF logBack, Goto, Forget, sms_db_release_ctx
<1>18. ASSUME NEW w \in Worker, startJob(w) PROVE HoldCore'
  BY <1>18 DEF startJob, Goto, pools
<1>19. CASE smsSignal
  BY <1>19 DEF smsSignal
<1> HIDE DEF HoldInv, HoldCore, LeakInv, LeakCore, TypeOK, InCall, InLog
<1> QED
  BY <1>1, <1>2, <1>3, <1>4, <1>5, <1>6, <1>7, <1>8, <1>9, <1>10, <1>11,
     <1>12, <1>13, <1>14, <1>15, <1>16, <1>17, <1>18, <1>19 DEF Next, Step

-----------------------------------------------------------------------------
\* The pools of contexts, the flags and the pointers of every task keep their
\* types: only contexts of the pool are ever marked active.
THEOREM TypeCorrect == Spec => []TypeOK
<1>1. TypeOK /\ [Next]_vars => TypeOK'
  BY TypeStep
<1> QED
  BY InitType, <1>1, PTL DEF Spec

\* sms_db_find_ctx and RELEASE_BD_CTX balance: whatever the scripts call, an
\* active context is designated by a running task, so it will be released.
THEOREM ContextsNeverLeak == Spec => []NoContextLeak
<1>1. Init => LeakInv
  <2> SUFFICES ASSUME Init PROVE LeakCore
    BY InitType DEF LeakInv
  <2> QED
    BY DEF Init, LeakCore, InCall, InLog
<1>2. LeakInv /\ [Next]_vars => LeakInv'
  BY TypeStep, LeakStep DEF LeakInv
<1>3. LeakInv => NoContextLeak
  BY DEF LeakInv, LeakCore, NoContextLeak
<1> QED
  BY <1>1, <1>2, <1>3, PTL DEF Spec

\* For every pool, any number of threads and any mix of tasks, the daemon's own
\* included: two threads can use a context at the same time, or use one that is not
\* active, only if a borrowing call released it and left its pointer.  Neither
\* the early RELEASE_BD_CTX of getReport or smsexec, nor the calls that keep
\* what they find, nor the second context of sms_bd_set_log share one.
THEOREM OnlyLeftPointersShare == Spec => []ExclusiveUse
<1>1. Init => HoldInv
  <2> SUFFICES ASSUME Init PROVE LeakCore /\ HoldCore
    BY InitType DEF HoldInv, LeakInv
  <2> QED
    BY DEF Init, LeakCore, HoldCore, InCall, InLog
<1>2. HoldInv /\ [Next]_vars => HoldInv'
  BY TypeStep, LeakStep, HoldStep DEF HoldInv, LeakInv
<1>3. HoldInv => ExclusiveUse
  <2> SUFFICES ASSUME HoldInv, NEW c \in Ctx \ left, NEW w \in Worker, Uses(w, c)
               PROVE  c \in active /\ \A v \in Worker : Uses(v, c) => v = w
    BY DEF ExclusiveUse, Exclusive
  <2> QED
    BY PoolAssumption DEF HoldInv, HoldCore, Uses, InStatement
<1> QED
  BY <1>1, <1>2, <1>3, PTL DEF Spec
-----------------------------------------------------------------------------
\* The strengthening of NullOnlyAtShutdown: unlockProv has its DB_SMS context
\* before it waits for the DB_CUST one, and a call returns to a label without a
\* statement.
NullCore ==
  ~shutdownRequired => \A w \in Worker :
    /\ pc[w] \in InStatement \cup {"cust"} => db_ctx[w] # NULL
    /\ pc[w] = "cust_statement" => db_cust[w] # NULL
    /\ pc[w] = "log_statement" => own_ctx[w] # NULL
NullInv == LeakInv /\ NullCore

\* No step starts a statement through NULL before the shutdown.
LEMMA NullStep == ASSUME NullInv, [Next]_vars PROVE NullCore'
<1> USE PoolAssumption DEF NullInv, NullCore, LeakInv, LeakCore, TypeOK, InStatement, InCall, InLog
<1>1. CASE UNCHANGED vars
  BY <1>1 DEF vars
<1>2. ASSUME NEW w \in Worker, findContext(w) PROVE NullCore'
  BY <1>2 DEF findContext, Goto, Find, sms_db_find_ctx
<1>3. ASSUME NEW w \in Worker, getSDinfo(w) PROVE NullCore'
  BY <1>3 DEF getSDinfo, Goto, Stay, pools
<1>4. ASSUME NEW w \in Worker, releaseBeforeScript(w) PROVE NullCore'
  BY <1>4 DEF releaseBeforeScript, Goto, RELEASE_BD_CTX
<1>5. ASSUME NEW w \in Worker, script(w) PROVE NullCore'
  BY <1>5 DEF script, Goto, pools
<1>6. ASSUME NEW w \in Worker, sdForceAsset(w) PROVE NullCore'
  BY <1>6 DEF sdForceAsset, Goto, pools
<1>7. ASSUME NEW w \in Worker, releaseAfterAsset(w) PROVE NullCore'
  BY <1>7 DEF releaseAfterAsset, Goto, RELEASE_BD_CTX
<1>8. ASSUME NEW w \in Worker, refind(w) PROVE NullCore'
  BY <1>8 DEF refind, Goto, Find, sms_db_find_ctx, pools
<1>9. ASSUME NEW w \in Worker, status(w) PROVE NullCore'
  BY <1>9 DEF status, Goto, pools
<1>10. ASSUME NEW w \in Worker, endOfTask(w) PROVE NullCore'
  BY <1>10 DEF endOfTask, Goto, RELEASE_BD_CTX
<1>11. ASSUME NEW w \in Worker, need(w) PROVE NullCore'
  BY <1>11 DEF need, Goto, Find, sms_db_find_ctx, pools
<1>12. ASSUME NEW w \in Worker, statement(w) PROVE NullCore'
  BY <1>12 DEF statement, Goto, Stay, pools
<1>13. ASSUME NEW w \in Worker, back(w) PROVE NullCore'
  BY <1>13 DEF back, Goto
<1>14. ASSUME NEW w \in Worker, custFind(w) PROVE NullCore'
  BY <1>14 DEF custFind, Goto, sms_db_find_ctx
<1>15. ASSUME NEW w \in Worker, custBack(w) PROVE NullCore'
  BY <1>15 DEF custBack, Goto
<1>16. ASSUME NEW w \in Worker, logFind(w) PROVE NullCore'
  BY <1>16 DEF logFind, Goto, sms_db_find_ctx
<1>17. ASSUME NEW w \in Worker, logBack(w) PROVE NullCore'
  BY <1>17 DEF logBack, Goto
<1>18. ASSUME NEW w \in Worker, startJob(w) PROVE NullCore'
  BY <1>18 DEF startJob, Goto, pools
<1>19. CASE smsSignal
  BY <1>19 DEF smsSignal
<1> HIDE DEF NullInv, NullCore, LeakInv, LeakCore, TypeOK, InStatement, InCall, InLog
<1> QED
  BY <1>1, <1>2, <1>3, <1>4, <1>5, <1>6, <1>7, <1>8, <1>9, <1>10, <1>11,
     <1>12, <1>13, <1>14, <1>15, <1>16, <1>17, <1>18, <1>19 DEF Next, Step

\* A statement is executed through NULL only after smsSignal, for any pool and
\* any mix of tasks: a find that returns NULL before that would be dereferenced.
THEOREM NullIsShutdown == Spec => []NullOnlyAtShutdown
<1>1. Init => NullInv
  <2> SUFFICES ASSUME Init PROVE LeakCore /\ NullCore
    BY InitType DEF NullInv, LeakInv
  <2> QED
    BY DEF Init, LeakCore, NullCore, InCall, InLog, InStatement
<1>2. NullInv /\ [Next]_vars => NullInv'
  BY TypeStep, LeakStep, NullStep DEF NullInv, LeakInv
<1>3. NullInv => NullOnlyAtShutdown
  BY DEF NullInv, NullCore, NullOnlyAtShutdown
<1> QED
  BY <1>1, <1>2, <1>3, PTL DEF Spec

-----------------------------------------------------------------------------
(***************************************************************************)
(* The refinement.  HoldCore makes a context that a pointer designates, if *)
(* it is not in left, an active one: what a thread holds is what it        *)
(* designates.                                                             *)
(***************************************************************************)
Held(w) == {db_ctx[w], own_ctx[w]} \ (left \cup {NULL})
Used(w) == {c \in Ctx \ left : Uses(w, c)}

\* A step of w on the pool: none, or one of the actions of ContextPool.
Move(w) ==
  \/ Held(w)' = Held(w) /\ Used(w)' = Used(w)
  \/ \E c \in Ctx : /\ \A v \in Worker : c \notin Held(v)
                    /\ Held(w)' = Held(w) \cup {c}
                    /\ Used(w)' = Used(w) \cup {c} \/ Used(w)' = Used(w)
  \/ \E c \in Ctx : /\ c \in Held(w)
                    /\ Held(w)' = Held(w) \ {c} /\ Used(w)' = Used(w) \ {c}
  \/ \E c \in Ctx : /\ c \in Held(w) \ Used(w)
                    /\ Held(w)' = Held(w) /\ Used(w)' = Used(w) \cup {c}
  \/ \E c \in Ctx : /\ c \in Used(w)
                    /\ Held(w)' = Held(w) /\ Used(w)' = Used(w) \ {c}

\* What a thread uses, label by label.
LEMMA UsedIs ==
  ASSUME TypeOK, NEW w \in Worker
  PROVE  /\ pc[w] \in InStatement => Used(w) = {db_ctx[w]} \ (left \cup {NULL})
         /\ pc[w] = "log_statement" => Used(w) = {own_ctx[w]} \ (left \cup {NULL})
         /\ pc[w] \notin InStatement \cup {"log_statement"} => Used(w) = {}
  BY PoolAssumption DEF Used, Uses, TypeOK, InStatement

LEMMA UsedIsNext ==
  ASSUME TypeOK', NEW w \in Worker
  PROVE  /\ pc'[w] \in InStatement => Used(w)' = {db_ctx'[w]} \ (left' \cup {NULL})
         /\ pc'[w] = "log_statement" => Used(w)' = {own_ctx'[w]} \ (left' \cup {NULL})
         /\ pc'[w] \notin InStatement \cup {"log_statement"} => Used(w)' = {}
  BY PoolAssumption DEF Used, Uses, TypeOK, InStatement

\* A find by a thread that designates nothing is a Take, or invisible.
LEMMA FindMoves ==
  ASSUME HoldInv, TypeOK', NEW w \in Worker, NEW next \in Labels \ {"log_statement"},
         Find(w, next), db_ctx[w] = NULL, own_ctx[w] = NULL
  PROVE  Move(w)
<1>1. PICK c \in Ctx \cup {NULL} :
        /\ sms_db_find_ctx(c, Ctx, active) /\ db_ctx' = [db_ctx EXCEPT ![w] = c]
  BY DEF Find
<1>2. /\ pc'[w] = next /\ db_ctx'[w] = c /\ own_ctx'[w] = NULL /\ left' = left
  BY <1>1 DEF Find, Goto, HoldInv, LeakInv, TypeOK
<1>3. Held(w) = {} /\ Held(w)' = {c} \ (left \cup {NULL})
  BY <1>2 DEF Held
<1>4. Used(w) = {}
  BY UsedIs, PoolAssumption DEF HoldInv, LeakInv, Used, Uses
<1>5. Used(w)' = {c} \ (left \cup {NULL}) \/ Used(w)' = {}
  BY <1>2, UsedIsNext
<1>6. CASE c \in left \cup {NULL}
  BY <1>3, <1>4, <1>5, <1>6 DEF Move
<1>7. CASE c \notin left \cup {NULL}
  <2>1. c \in Ctx \ active
    BY <1>1, <1>7 DEF sms_db_find_ctx
  <2>2. \A v \in Worker : c \notin Held(v)
    BY <1>7, <2>1 DEF Held, HoldInv, HoldCore
  <2>3. Held(w)' = Held(w) \cup {c}
    BY <1>3, <1>7
  <2>4. Used(w)' = Used(w) \cup {c} \/ Used(w)' = Used(w)
    BY <1>4, <1>5, <1>7
  <2> QED
    BY <2>1, <2>2, <2>3, <2>4 DEF Move
<1> QED
  BY <1>6, <1>7

\* The end of a designation, by RELEASE_BD_CTX or by a release that leaves the
\* pointer, is a Give or invisible.
LEMMA GiveMoves ==
  ASSUME NEW w \in Worker, NEW c \in Ctx \cup {NULL}, c \in Held(w) \/ c \in left \cup {NULL},
         Held(w)' = Held(w) \ {c}, Used(w)' = Used(w) \ {c}
  PROVE  Move(w)
<1>1. CASE c \in Held(w)
  BY <1>1 DEF Move, Held
<1>2. CASE c \notin Held(w)
  <2>1. c \notin Used(w)
    BY <1>2, PoolAssumption DEF Used
  <2> QED
    BY <1>2, <2>1 DEF Move
<1> QED
  BY <1>1, <1>2

LEMMA ReleaseMoves ==
  ASSUME HoldInv, TypeOK', NEW w \in Worker,
         NEW next \in Labels \ (InStatement \cup {"log_statement"}),
         pc[w] \notin InStatement \cup {"log_statement"}, RELEASE_BD_CTX(w, next)
  PROVE  Move(w)
<1>1. pc'[w] = next /\ db_ctx'[w] = NULL /\ own_ctx'[w] = NULL /\ own_ctx[w] = NULL
  BY DEF RELEASE_BD_CTX, Goto, HoldInv, LeakInv, LeakCore, TypeOK
<1>2. Used(w) = {} /\ Used(w)' = {}
  BY <1>1, UsedIs, UsedIsNext DEF HoldInv, LeakInv
<1>3. Held(w)' = {} /\ Held(w) = {db_ctx[w]} \ (left \cup {NULL})
  BY <1>1 DEF Held
<1>4. db_ctx[w] \in Ctx \cup {NULL}
  BY DEF HoldInv, LeakInv, TypeOK
<1>5. /\ Held(w)' = Held(w) \ {db_ctx[w]} /\ Used(w)' = Used(w) \ {db_ctx[w]}
      /\ db_ctx[w] \in Held(w) \/ db_ctx[w] \in left \cup {NULL}
  BY <1>2, <1>3
<1> QED
  BY <1>4, <1>5, GiveMoves

\* A step that leaves the pointers alone, and moves between labels that use db_ctx
\* or nothing, is a Begin, an End or invisible.
LEMMA LabelMoves ==
  ASSUME HoldInv, TypeOK', NEW w \in Worker,
         db_ctx' = db_ctx, own_ctx' = own_ctx, left' = left,
         pc[w] # "log_statement", pc'[w] # "log_statement"
  PROVE  Move(w)
<1>1. Held(w)' = Held(w)
  BY DEF Held
<1>2. Used(w) \in {{}, {db_ctx[w]} \ (left \cup {NULL})}
  BY UsedIs DEF HoldInv, LeakInv
<1>3. Used(w)' \in {{}, {db_ctx[w]} \ (left \cup {NULL})}
  BY UsedIsNext
<1>4. CASE db_ctx[w] \in left \cup {NULL}
  BY <1>1, <1>2, <1>3, <1>4 DEF Move
<1>5. CASE db_ctx[w] \notin left \cup {NULL}
  <2>1. db_ctx[w] \in Ctx /\ db_ctx[w] \in Held(w)
    BY <1>5 DEF Held, HoldInv, LeakInv, TypeOK
  <2>2. Used(w) \in {{}, {db_ctx[w]}} /\ Used(w)' \in {{}, {db_ctx[w]}}
    BY <1>2, <1>3, <1>5
  <2>3. CASE Used(w) = {} /\ Used(w)' = {db_ctx[w]}
    <3>1. db_ctx[w] \in Held(w) \ Used(w) /\ Used(w)' = Used(w) \cup {db_ctx[w]}
      BY <2>1, <2>3
    <3> QED
      BY <1>1, <2>1, <3>1 DEF Move
  <2>4. CASE Used(w) = {db_ctx[w]} /\ Used(w)' = {}
    <3>1. db_ctx[w] \in Used(w) /\ Used(w)' = Used(w) \ {db_ctx[w]}
      BY <2>4
    <3> QED
      BY <1>1, <2>1, <3>1 DEF Move
  <2>5. CASE Used(w)' = Used(w)
    BY <1>1, <2>5 DEF Move
  <2> QED
    BY <2>2, <2>3, <2>4, <2>5
<1> QED
  BY <1>4, <1>5

\* Every step of a thread is a step on the pool.
LEMMA StepMoves ==
  ASSUME HoldInv, TypeOK', NEW w \in Worker, startJob(w) \/ Step(w)
  PROVE  Move(w)
<1> USE DEF HoldInv, LeakInv, Labels, InStatement
<1>1. CASE findContext(w)
  BY <1>1, FindMoves DEF findContext, LeakCore
<1>2. CASE getSDinfo(w)
  BY <1>2, LabelMoves DEF getSDinfo, Goto, Stay, TypeOK
<1>3. CASE script(w) \/ sdForceAsset(w) \/ status(w) \/ startJob(w)
  BY <1>3, LabelMoves DEF script, sdForceAsset, status, startJob, Goto, TypeOK
<1>4. CASE releaseBeforeScript(w) \/ releaseAfterAsset(w) \/ endOfTask(w)
  BY <1>4, ReleaseMoves DEF releaseBeforeScript, releaseAfterAsset, endOfTask
<1>5. CASE refind(w)
  <2>1. PICK next \in {"status", "end"} :
          \/ db_ctx[w] = NULL /\ Find(w, next)
          \/ Goto(w, next) /\ UNCHANGED <<pools, job, db_ctx, own_ctx, db_cust, cont, left>>
    BY <1>5 DEF refind
  <2>2. pc[w] = "refind"
    BY <1>5 DEF refind
  <2>3. CASE db_ctx[w] = NULL /\ Find(w, next)
    BY <2>2, <2>3, FindMoves DEF LeakCore
  <2>4. CASE Goto(w, next) /\ UNCHANGED <<pools, job, db_ctx, own_ctx, db_cust, cont, left>>
    BY <2>2, <2>4, LabelMoves DEF Goto, TypeOK
  <2> QED
    BY <2>1, <2>3, <2>4
<1>6. CASE need(w)
  <2>1. PICK next \in {"statement", "cust"} :
          \/ db_ctx[w] = NULL /\ Find(w, next)
          \/ Goto(w, next) /\ UNCHANGED <<pools, job, db_ctx, own_ctx, db_cust, cont, left>>
    BY <1>6 DEF need
  <2>2. pc[w] = "need"
    BY <1>6 DEF need
  <2>3. CASE db_ctx[w] = NULL /\ Find(w, next)
    BY <2>2, <2>3, FindMoves DEF LeakCore
  <2>4. CASE Goto(w, next) /\ UNCHANGED <<pools, job, db_ctx, own_ctx, db_cust, cont, left>>
    BY <2>2, <2>4, LabelMoves DEF Goto, TypeOK
  <2> QED
    BY <2>1, <2>3, <2>4
<1>7. CASE statement(w)
  BY <1>7, LabelMoves DEF statement, Goto, Stay, TypeOK
<1>8. CASE custFind(w) \/ custBack(w)
  <2>1. pc[w] \in {"cust", "cust_back"} /\ pc'[w] # "log_statement"
    BY <1>8 DEF custFind, custBack, Goto, LeakCore, InCall, TypeOK
  <2>2. db_ctx' = db_ctx /\ own_ctx' = own_ctx /\ left' = left
    BY <1>8 DEF custFind, custBack
  <2> QED
    BY <2>1, <2>2, LabelMoves
<1>9. CASE back(w)
  <2>1. /\ pc[w] = "back" /\ pc'[w] \in {"cust_back", "script", "release_asset", "end"}
        /\ db_ctx' = db_ctx /\ own_ctx' = own_ctx /\ own_ctx[w] = NULL
    BY <1>9 DEF back, Goto, LeakCore, InCall, TypeOK
  <2>2. CASE left' = left
    BY <2>1, <2>2, LabelMoves
  <2>3. CASE left' = left \cup ({db_ctx[w]} \ {NULL})
    <3>1. Used(w) = {} /\ Used(w)' = {}
      BY <2>1, UsedIs, UsedIsNext
    <3>2. Held(w)' = Held(w) \ {db_ctx[w]}
      BY <2>1, <2>3 DEF Held
    <3>3. db_ctx[w] \in Held(w) \/ db_ctx[w] \in left \cup {NULL}
      BY DEF Held
    <3>4. db_ctx[w] \in Ctx \cup {NULL}
      BY DEF TypeOK
    <3>5. Used(w)' = Used(w) \ {db_ctx[w]}
      BY <3>1
    <3> QED
      BY <3>2, <3>3, <3>4, <3>5, GiveMoves
  <2> QED
    BY <1>9, <2>2, <2>3 DEF back
<1>10. CASE logFind(w)
  <2>1. PICK c \in Ctx \cup {NULL} :
          sms_db_find_ctx(c, Ctx, active) /\ own_ctx' = [own_ctx EXCEPT ![w] = c]
    BY <1>10 DEF logFind
  <2>2. /\ pc[w] = "log" /\ pc'[w] = "log_statement" /\ db_ctx' = db_ctx /\ left' = left
        /\ own_ctx[w] = NULL /\ own_ctx'[w] = c
    BY <1>10, <2>1 DEF logFind, Goto, LeakCore, TypeOK
  <2>3. Used(w) = {} /\ Used(w)' = {c} \ (left \cup {NULL})
    BY <2>2, UsedIs, UsedIsNext
  <2>4. Held(w)' = Held(w) \cup ({c} \ (left \cup {NULL}))
    BY <2>2 DEF Held
  <2>5. CASE c \in left \cup {NULL}
    BY <2>3, <2>4, <2>5 DEF Move
  <2>6. CASE c \notin left \cup {NULL}
    <3>1. c \in Ctx /\ \A v \in Worker : c \notin Held(v)
      BY <2>1, <2>6 DEF Held, HoldCore, sms_db_find_ctx
    <3>2. Held(w)' = Held(w) \cup {c} /\ Used(w)' = Used(w) \cup {c}
      BY <2>3, <2>4, <2>6
    <3> QED
      BY <3>1, <3>2 DEF Move
  <2> QED
    BY <2>5, <2>6
<1>11. CASE logBack(w)
  <2>1. /\ pc[w] = "log_statement" /\ pc'[w] \in {"script", "idle"}
        /\ db_ctx' = db_ctx /\ own_ctx'[w] = NULL
    BY <1>11 DEF logBack, Goto, LeakCore, InLog, TypeOK
  <2>2. left' = {c \in left : \E v \in Worker : c \in {db_ctx'[v], own_ctx'[v]}}
    BY <1>11 DEF logBack, Forget
  <2>3. Used(w) = {own_ctx[w]} \ (left \cup {NULL}) /\ Used(w)' = {}
    BY <2>1, UsedIs, UsedIsNext
  <2>4. Held(w)' = {db_ctx[w]} \ (left \cup {NULL})
    BY <2>1, <2>2 DEF Held
  <2>5. own_ctx[w] \notin left \cup {NULL} => own_ctx[w] # db_ctx[w]
    BY DEF HoldCore
  <2>6. own_ctx[w] \in Ctx \cup {NULL}
    BY DEF TypeOK
  <2>7. /\ Held(w)' = Held(w) \ {own_ctx[w]} /\ Used(w)' = Used(w) \ {own_ctx[w]}
        /\ own_ctx[w] \in Held(w) \/ own_ctx[w] \in left \cup {NULL}
    BY <2>3, <2>4, <2>5 DEF Held
  <2> QED
    BY <2>6, <2>7, GiveMoves
<1> QED
  BY <1>1, <1>2, <1>3, <1>4, <1>5, <1>6, <1>7, <1>8, <1>9, <1>10, <1>11 DEF Step

\* A step of w leaves what the other threads hold and use alone: the context it
\* leaves a pointer to is its own, or in left already, and a context that left
\* forgets is designated by nobody.
LEMMA OthersStay ==
  ASSUME HoldInv, NEW w \in Worker, startJob(w) \/ Step(w)
  PROVE  /\ shutdownRequired' = shutdownRequired
         /\ \A v \in Worker \ {w} : Held(v)' = Held(v) /\ Used(v)' = Used(v)
<1>1. /\ shutdownRequired' = shutdownRequired
      /\ \A v \in Worker \ {w} :
           pc'[v] = pc[v] /\ db_ctx'[v] = db_ctx[v] /\ own_ctx'[v] = own_ctx[v]
  BY DEF HoldInv, LeakInv, TypeOK, startJob, Step, findContext, getSDinfo, releaseBeforeScript,
     script, sdForceAsset, releaseAfterAsset, refind, status, endOfTask, need, statement, back,
     custFind, custBack, logFind, logBack, Goto, Find, Stay, RELEASE_BD_CTX, pools
<1>2. \/ left' = left
      \/ left' = left \cup ({db_ctx[w]} \ {NULL})
      \/ left' = {c \in left : \E v \in Worker : c \in {db_ctx'[v], own_ctx'[v]}}
  BY DEF startJob, Step, findContext, getSDinfo, releaseBeforeScript,
     script, sdForceAsset, releaseAfterAsset, refind, status, endOfTask, need, statement, back,
     custFind, custBack, logFind, logBack, Goto, Find, Stay, RELEASE_BD_CTX, Forget
<1>3. ASSUME NEW v \in Worker \ {w}, NEW c \in {db_ctx[v], own_ctx[v]} \ {NULL}
      PROVE  c \in left' <=> c \in left
  <2>1. CASE left' = left
    BY <2>1
  <2>2. CASE left' = left \cup ({db_ctx[w]} \ {NULL})
    BY <2>2, <1>3 DEF HoldInv, HoldCore
  <2>3. CASE left' = {d \in left : \E u \in Worker : d \in {db_ctx'[u], own_ctx'[u]}}
    BY <2>3, <1>1, <1>3
  <2> QED
    BY <1>2, <2>1, <2>2, <2>3
<1>4. ASSUME NEW v \in Worker \ {w}
      PROVE  Held(v)' = Held(v) /\ Used(v)' = Used(v)
  <2>1. Held(v)' = Held(v)
    BY <1>1, <1>3 DEF Held
  <2>2. \A c \in Ctx : Uses(v, c)' <=> Uses(v, c)
    BY <1>1 DEF Uses
  <2>3. \A c \in Ctx : Uses(v, c) => c \in {db_ctx[v], own_ctx[v]} \ {NULL}
    BY PoolAssumption DEF Uses
  <2> QED
    BY <1>3, <2>1, <2>2, <2>3 DEF Used
<1> QED
  BY <1>1, <1>4

\* The refinement mapping in terms of Held and Used.
LEMMA MappingIs ==
  /\ HoldInv /\ ~shutdownRequired =>
       /\ Unless(HoldsNow) = [w \in Worker |-> Held(w)]
       /\ Unless(UsesNow) = [w \in Worker |-> Used(w)]
  /\ shutdownRequired =>
       /\ Unless(HoldsNow) = [w \in Worker |-> {}]
       /\ Unless(UsesNow) = [w \in Worker |-> {}]
<1>1. ASSUME HoldInv, ~shutdownRequired, NEW w \in Worker
      PROVE  HoldsNow[w] = Held(w)
  BY <1>1, PoolAssumption DEF HoldsNow, Held, HoldInv, LeakInv, HoldCore, TypeOK
<1>2. ASSUME NEW w \in Worker PROVE UsesNow[w] = Used(w)
  BY DEF UsesNow, Used
<1> QED
  BY <1>1, <1>2 DEF Unless

\* Every step of the tasks is a step of ContextPool or leaves it alone.
LEMMA PoolStep ==
  ASSUME HoldInv, HoldInv', [Next]_vars
  PROVE  [Pool!Next]_(Pool!poolVars)
<1> DEFINE H == Unless(HoldsNow)
           U == Unless(UsesNow)
<1>1. /\ HoldInv' /\ ~shutdownRequired' =>
           H' = [w \in Worker |-> Held(w)'] /\ U' = [w \in Worker |-> Used(w)']
      /\ shutdownRequired' => H' = [w \in Worker |-> {}] /\ U' = [w \in Worker |-> {}]
  <2>1. ASSUME HoldInv', ~shutdownRequired', NEW w \in Worker
        PROVE  HoldsNow'[w] = Held(w)'
    BY <2>1, PoolAssumption DEF HoldsNow, Held, HoldInv, LeakInv, HoldCore, TypeOK
  <2>2. ASSUME NEW w \in Worker PROVE UsesNow'[w] = Used(w)'
    BY DEF UsesNow, Used
  <2> QED
    BY <2>1, <2>2 DEF Unless
<1> HIDE DEF H, U
<1>2. CASE UNCHANGED vars
  <2>1. UNCHANGED <<H, U, shutdownRequired>>
    BY <1>2 DEF vars, H, U, Unless, HoldsNow, UsesNow, Uses
  <2> QED
    BY <2>1 DEF Pool!poolVars, H, U
<1>3. CASE smsSignal
  <2>1. ~shutdownRequired /\ shutdownRequired'
    BY <1>3 DEF smsSignal
  <2> QED
    BY <1>1, <2>1 DEF Pool!Next, Pool!Close, Pool!None, H, U
<1>4. ASSUME NEW w \in Worker, startJob(w) \/ Step(w)
      PROVE  [Pool!Next]_(Pool!poolVars)
  <2>1. /\ shutdownRequired' = shutdownRequired
        /\ \A v \in Worker \ {w} : Held(v)' = Held(v) /\ Used(v)' = Used(v)
    BY <1>4, OthersStay
  <2>2. CASE shutdownRequired
    <3>1. UNCHANGED <<H, U, shutdownRequired>>
      BY <1>1, <2>1, <2>2, MappingIs DEF H, U
    <3> QED
      BY <3>1 DEF Pool!poolVars, H, U
  <2>3. CASE ~shutdownRequired
    <3>1. /\ H = [v \in Worker |-> Held(v)] /\ U = [v \in Worker |-> Used(v)]
          /\ H' = [v \in Worker |-> Held(v)'] /\ U' = [v \in Worker |-> Used(v)']
      BY <1>1, <2>1, <2>3, MappingIs DEF H, U
    <3>2. ASSUME NEW S, Held(w)' = S PROVE H' = [H EXCEPT ![w] = S]
      BY <3>1, <3>2, <2>1
    <3>3. ASSUME NEW S, Used(w)' = S PROVE U' = [U EXCEPT ![w] = S]
      BY <3>1, <3>3, <2>1
    <3>4. Held(w)' = Held(w) => UNCHANGED H
      BY <3>1, <2>1
    <3>5. Used(w)' = Used(w) => UNCHANGED U
      BY <3>1, <2>1
    <3>6. H[w] = Held(w) /\ U[w] = Used(w) /\ \A v \in Worker : H[v] = Held(v)
      BY <3>1
    <3>7. Move(w)
      BY <1>4, StepMoves DEF HoldInv, LeakInv
    <3>8. \/ UNCHANGED <<H, U, shutdownRequired>>
          \/ \E c \in Ctx : /\ \A v \in Worker : c \notin H[v]
                            /\ H' = [H EXCEPT ![w] = H[w] \cup {c}]
                            /\ \/ U' = [U EXCEPT ![w] = U[w] \cup {c}]
                               \/ UNCHANGED U
          \/ \E c \in Ctx : /\ c \in H[w]
                            /\ H' = [H EXCEPT ![w] = H[w] \ {c}]
                            /\ U' = [U EXCEPT ![w] = U[w] \ {c}]
          \/ \E c \in Ctx : /\ c \in H[w] \ U[w]
                            /\ U' = [U EXCEPT ![w] = U[w] \cup {c}] /\ UNCHANGED H
          \/ \E c \in Ctx : /\ c \in U[w]
                            /\ U' = [U EXCEPT ![w] = U[w] \ {c}] /\ UNCHANGED H
      BY <2>1, <3>2, <3>3, <3>4, <3>5, <3>6, <3>7 DEF Move
    <3> QED
      BY <2>1, <2>3, <3>8
      DEF Pool!Next, Pool!Take, Pool!Give, Pool!Begin, Pool!End, Pool!poolVars, H, U
  <2> QED
    BY <2>2, <2>3
<1> QED
  BY <1>2, <1>3, <1>4 DEF Next

\* The tasks implement ContextPool on every context to which no call left a
\* pointer: until the shutdown each takes free contexts only, executes statements
\* on contexts it holds, and releases its own, for every pool and any mix of tasks.
THEOREM PoolUsedAsMeant == Spec => PoolContract
<1>1. Init => HoldInv /\ Pool!Init
  <2> SUFFICES ASSUME Init PROVE LeakCore /\ HoldCore /\ Pool!Init
    BY InitType DEF HoldInv, LeakInv
  <2>1. LeakCore /\ HoldCore
    BY DEF Init, LeakCore, HoldCore, InCall, InLog
  <2>2. \A w \in Worker : HoldsNow[w] = {} /\ UsesNow[w] = {}
    BY PoolAssumption DEF Init, HoldsNow, UsesNow, Uses, InStatement
  <2> QED
    BY <2>1, <2>2 DEF Init, Pool!Init, Pool!None, Unless
<1>2. HoldInv /\ [Next]_vars => HoldInv'
  BY TypeStep, LeakStep, HoldStep DEF HoldInv, LeakInv
<1>3. HoldInv /\ HoldInv' /\ [Next]_vars => [Pool!Next]_(Pool!poolVars)
  BY PoolStep
<1> QED
  BY <1>1, <1>2, <1>3, PTL DEF Spec, PoolContract, Pool!Spec
=============================================================================
