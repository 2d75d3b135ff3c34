------------------------------ MODULE DbContext ------------------------------
(***************************************************************************)
(* The pool of database contexts (sms_db.h) and the pointer csp->db_ctx    *)
(* through which a task of smsd uses one.  Three conventions coexist:      *)
(*                                                                         *)
(*   - CheckVerb, update_task find a context and RELEASE_BD_CTX it: the    *)
(*     context is released and the pointer becomes NULL;                   *)
(*   - lockProv, lockSD, unlockSD, sdForceAsset and the functions of       *)
(*     php_db.c find one if the pointer is NULL, and then release it but   *)
(*     leave the pointer as it is;                                         *)
(*   - set_sd_updated, setUpdateStatus, getUpdateStatus find one if the    *)
(*     pointer is NULL and leave the release to the task.                  *)
(*                                                                         *)
(* A worker at a label of InStatement executes a statement on the context  *)
(* its pointer designates; the step that leaves the label ends it.         *)
(***************************************************************************)
EXTENDS Naturals, FiniteSets

CONSTANTS Worker,   \* the threads of gpul_sched
          Ctx,      \* the DB_SMS contexts (SMSnumContext of them)
          CustCtx,  \* the DB_CUST contexts (CUSTnumContext of them)
          NULL,
          Jobs      \* the kinds of task that run

\* verb   a verb whose script runs with the context of CheckVerb (provisioning,
\*        restoreConf, push_config, staging...);
\* report a verb that releases the context before the script (getReport,
\*        smsexec, smsexecn, exec_script, getRouterFullConfiguration...);
\* update update_task;
\* scan   scan_updated, save_all_conf, resetBdFlag: a context of their own.
ASSUME PoolAssumption ==
  /\ NULL \notin Ctx \cup CustCtx
  /\ Jobs \subseteq {"verb", "report", "update", "scan"}

VARIABLES
  active,            \* the DB_SMS contexts whose state is DB_CTX_ACTIVE
  cust_active,       \* the DB_CUST ones
  shutdownRequired,
  pc,                \* [Worker -> Labels]
  job,               \* [Worker -> the kind of task it runs]
  db_ctx,            \* [Worker -> Ctx or NULL], csp->db_ctx
  release_db_ctx,    \* the workers whose call in progress has raised that flag
  own_ctx,           \* [Worker -> Ctx or NULL], a context kept in a local
  db_cust,           \* [Worker -> CustCtx or NULL], the local of unlockProv
  cont,              \* [Worker -> Labels], where the call in progress returns
  left               \* the contexts to which a borrowing call left a pointer: history,
                     \* no step depends on it

vars == <<active, cust_active, shutdownRequired, pc, job, db_ctx,
          release_db_ctx, own_ctx, db_cust, cont, left>>
pools == <<active, cust_active, shutdownRequired>>

Labels == {"idle", "find", "getSDinfo", "release", "script",
           "need", "statement", "back", "cust", "cust_statement", "cust_back",
           "log", "log_statement", "sdForceAsset", "release_asset", "refind",
           "status", "end"}

InStatement == {"getSDinfo", "statement", "cust_statement"}

TypeOK ==
  /\ active \subseteq Ctx
  /\ cust_active \subseteq CustCtx
  /\ shutdownRequired \in BOOLEAN
  /\ pc \in [Worker -> Labels]
  /\ job \in [Worker -> Jobs]
  /\ db_ctx \in [Worker -> Ctx \cup {NULL}]
  /\ release_db_ctx \subseteq Worker
  /\ own_ctx \in [Worker -> Ctx \cup {NULL}]
  /\ db_cust \in [Worker -> CustCtx \cup {NULL}]
  /\ cont \in [Worker -> Labels]
  /\ left \subseteq Ctx

Init ==
  /\ active = {} /\ cust_active = {}
  /\ shutdownRequired = FALSE
  /\ pc = [w \in Worker |-> "idle"]
  /\ job \in [Worker -> Jobs]
  /\ db_ctx = [w \in Worker |-> NULL]
  /\ release_db_ctx = {}
  /\ own_ctx = [w \in Worker |-> NULL]
  /\ db_cust = [w \in Worker |-> NULL]
  /\ cont = [w \in Worker |-> "script"]
  /\ left = {}

-----------------------------------------------------------------------------
(***************************************************************************)
(* libsmsbd, from its use: sms_db_find_ctx sleeps until a context is free, *)
(* except that once shutdownRequired is up it gives up and returns NULL;   *)
(* sms_db_release_ctx ignores NULL and never checks who releases.          *)
(***************************************************************************)
sms_db_find_ctx(c, pool, used) ==
  \/ c \in pool \ used
  \/ pool \subseteq used /\ shutdownRequired /\ c = NULL

sms_db_release_ctx(c, used) == used \ {c}

Goto(w, next) == pc' = [pc EXCEPT ![w] = next]

\* Mutant: a context is taken whether or not another thread uses it.
Mut_Find(w, next) ==
  /\ \E c \in Ctx :
       /\ db_ctx' = [db_ctx EXCEPT ![w] = c]
       /\ active' = active \cup {c}
  /\ Goto(w, next)
  /\ UNCHANGED <<cust_active, shutdownRequired, job, own_ctx, db_cust, cont, left>>

\* csp->db_ctx = sms_db_find_ctx(log_handle, DB_SMS)
Find(w, next) ==
  /\ \E c \in Ctx \cup {NULL} :
       /\ sms_db_find_ctx(c, Ctx, active)
       /\ db_ctx' = [db_ctx EXCEPT ![w] = c]
       /\ active' = active \cup ({c} \ {NULL})
  /\ Goto(w, next)
  /\ UNCHANGED <<cust_active, shutdownRequired, job, own_ctx, db_cust, cont, left>>

\* After a release, a context that no pointer designates any more is like new.
Forget == left' = {c \in left : \E v \in Worker : c \in {db_ctx'[v], own_ctx'[v]}}

RELEASE_BD_CTX(w, next) ==
  /\ active' = sms_db_release_ctx(db_ctx[w], active)
  /\ db_ctx' = [db_ctx EXCEPT ![w] = NULL]
  /\ Goto(w, next)
  /\ UNCHANGED <<cust_active, shutdownRequired, job, release_db_ctx, own_ctx,
                 db_cust, cont>>
  /\ Forget

Stay == UNCHANGED <<pools, job, db_ctx, release_db_ctx, own_ctx, db_cust, cont, left>>

-----------------------------------------------------------------------------
(***************************************************************************)
(* Tasks.                                                                  *)
(***************************************************************************)
startJob(w) ==
  /\ pc[w] = "idle"
  /\ \E j \in Jobs :
       /\ job' = [job EXCEPT ![w] = j]
       /\ Goto(w, IF j = "scan" THEN "log" ELSE "find")
  /\ cont' = [cont EXCEPT ![w] = "idle"]
  /\ UNCHANGED <<pools, db_ctx, release_db_ctx, own_ctx, db_cust, left>>

\* CheckVerb, before the verb's function; update_task, at its start.
findContext(w) ==
  /\ pc[w] = "find"
  /\ Find(w, "getSDinfo")
  /\ UNCHANGED release_db_ctx

\* The first statement of the task.  On an error a verb ends here; update_task
\* still reports its status, as it does for an SD it cannot update.
getSDinfo(w) ==
  /\ pc[w] = "getSDinfo"
  /\ \/ db_ctx[w] # NULL /\ Goto(w, IF job[w] = "verb" THEN "script" ELSE "release")
     \/ job[w] # "update" /\ Goto(w, "end")
     \/ job[w] = "update" /\ (Goto(w, "status") \/ Goto(w, "refind"))
  /\ Stay

\* getReport, smsexec, updateConfig...: before the script.
releaseBeforeScript(w) == pc[w] = "release" /\ RELEASE_BD_CTX(w, "script")

\* The script makes a call of the daemon, or ends.
script(w) ==
  /\ pc[w] = "script"
  /\ \/ Goto(w, "need") \/ Goto(w, "log")
     \/ Goto(w, IF job[w] = "update" THEN "sdForceAsset" ELSE "end")
  /\ cont' = [cont EXCEPT ![w] = "script"]
  /\ UNCHANGED <<pools, job, db_ctx, release_db_ctx, own_ctx, db_cust, left>>

\* sdForceAsset at the end of updateConfig is one more borrowing call.
sdForceAsset(w) ==
  /\ pc[w] = "sdForceAsset"
  /\ Goto(w, "need")
  /\ cont' = [cont EXCEPT ![w] = "release_asset"]
  /\ UNCHANGED <<pools, job, db_ctx, release_db_ctx, own_ctx, db_cust, left>>

\* Mutant: the context is released with a plain call, which leaves the pointer.
Mut_releaseAfterAsset(w) ==
  /\ pc[w] = "release_asset"
  /\ active' = sms_db_release_ctx(db_ctx[w], active)
  /\ Goto(w, "refind")
  /\ UNCHANGED <<cust_active, shutdownRequired, job, db_ctx, release_db_ctx, own_ctx,
                 db_cust, cont, left>>

releaseAfterAsset(w) == pc[w] = "release_asset" /\ RELEASE_BD_CTX(w, "refind")

\* Mutant: update_task finds a context without looking at its pointer.
Mut_refindAlways(w) ==
  pc[w] = "refind" /\ Find(w, "status") /\ UNCHANGED release_db_ctx

\* update_task, after updateConfig: a context for sms_set_update_status, which is
\* called when the update failed for another reason than a lock.
refind(w) ==
  /\ pc[w] = "refind"
  /\ \E next \in {"status", "end"} :
       \/ db_ctx[w] = NULL /\ Find(w, next)
       \/ db_ctx[w] # NULL /\ Goto(w, next)
          /\ UNCHANGED <<pools, job, db_ctx, own_ctx, db_cust, cont, left>>
  /\ UNCHANGED release_db_ctx

\* sms_set_update_status and set_sd_updated: calls that keep what they find.
status(w) ==
  /\ pc[w] = "status"
  /\ Goto(w, "need")
  /\ cont' = [cont EXCEPT ![w] = "end"]
  /\ UNCHANGED <<pools, job, db_ctx, release_db_ctx, own_ctx, db_cust, left>>

\* CheckVerb, after the verb's function (RELEASE_BD_CTX if the pointer is set);
\* update_task, at its end (always, and releasing NULL does nothing).
endOfTask(w) == pc[w] = "end" /\ RELEASE_BD_CTX(w, "idle")

-----------------------------------------------------------------------------
(***************************************************************************)
(* Calls the scripts make.                                                 *)
(***************************************************************************)
\* Mutant: the call does not look whether there is a context.
Mut_need(w) ==
  /\ pc[w] = "need"
  /\ Goto(w, "statement")
  /\ release_db_ctx' = release_db_ctx \ {w}
  /\ UNCHANGED <<pools, job, db_ctx, own_ctx, db_cust, cont, left>>

\* A context if there is none: a borrowing call remembers that it found it, the
\* calls that keep it do not.  sdForceAsset borrows, the report of update_task
\* keeps, a script makes calls of both kinds.  unlockProv, which borrows, then
\* takes a DB_CUST context too.
need(w) ==
  /\ pc[w] = "need"
  /\ \E next \in {"statement", "cust"} :
       /\ next = "cust" => cont[w] = "script"
       /\ \/ /\ db_ctx[w] = NULL
             /\ Find(w, next)
             /\ \/ cont[w] # "end" /\ release_db_ctx' = release_db_ctx \cup {w}
                \/ /\ next = "statement" /\ cont[w] # "release_asset"
                   /\ release_db_ctx' = release_db_ctx \ {w}
          \/ /\ db_ctx[w] # NULL
             /\ Goto(w, next)
             /\ release_db_ctx' = release_db_ctx \ {w}
             /\ UNCHANGED <<pools, job, db_ctx, own_ctx, db_cust, cont, left>>

statement(w) ==
  /\ pc[w] \in {"statement", "cust_statement"}
  /\ Goto(w, "back")
  /\ Stay

\* Release what the call found itself.  The pointer stays.
back(w) ==
  /\ pc[w] = "back"
  /\ \/ /\ w \in release_db_ctx
        /\ active' = sms_db_release_ctx(db_ctx[w], active)
        /\ left' = left \cup ({db_ctx[w]} \ {NULL})
     \/ w \notin release_db_ctx /\ UNCHANGED <<active, left>>
  /\ Goto(w, IF db_cust[w] # NULL THEN "cust_back" ELSE cont[w])
  /\ UNCHANGED <<cust_active, shutdownRequired, job, db_ctx, release_db_ctx,
                 own_ctx, db_cust, cont>>

\* unlockProv: the context of SetProvDate.
custFind(w) ==
  /\ pc[w] = "cust"
  /\ \E c \in CustCtx \cup {NULL} :
       /\ sms_db_find_ctx(c, CustCtx, cust_active)
       /\ db_cust' = [db_cust EXCEPT ![w] = c]
       /\ cust_active' = cust_active \cup ({c} \ {NULL})
  /\ Goto(w, "cust_statement")
  /\ UNCHANGED <<active, shutdownRequired, job, db_ctx, release_db_ctx, own_ctx, cont, left>>

\* Mutant: the DB_CUST context is not released.
Mut_custBack(w) ==
  /\ pc[w] = "cust_back"
  /\ db_cust' = [db_cust EXCEPT ![w] = NULL]
  /\ Goto(w, cont[w])
  /\ UNCHANGED <<pools, job, db_ctx, release_db_ctx, own_ctx, cont, left>>

custBack(w) ==
  /\ pc[w] = "cust_back"
  /\ cust_active' = sms_db_release_ctx(db_cust[w], cust_active)
  /\ db_cust' = [db_cust EXCEPT ![w] = NULL]
  /\ Goto(w, cont[w])
  /\ UNCHANGED <<active, shutdownRequired, job, db_ctx, release_db_ctx, own_ctx, cont, left>>

\* Mutant: the NULL of a shutdown is marked active like a context.
Mut_logFind(w) ==
  /\ pc[w] = "log"
  /\ \E c \in Ctx \cup {NULL} :
       /\ sms_db_find_ctx(c, Ctx, active)
       /\ own_ctx' = [own_ctx EXCEPT ![w] = c]
       /\ active' = active \cup {c}
  /\ Goto(w, "log_statement")
  /\ UNCHANGED <<cust_active, shutdownRequired, job, db_ctx, release_db_ctx,
                 db_cust, cont, left>>

\* sms_bd_set_log takes a context of its own, whatever the task holds; so do
\* scan_updated, save_all_conf and resetBdFlag, which hold nothing else.
logFind(w) ==
  /\ pc[w] = "log"
  /\ \E c \in Ctx \cup {NULL} :
       /\ sms_db_find_ctx(c, Ctx, active)
       /\ own_ctx' = [own_ctx EXCEPT ![w] = c]
       /\ active' = active \cup ({c} \ {NULL})
  /\ Goto(w, "log_statement")
  /\ UNCHANGED <<cust_active, shutdownRequired, job, db_ctx, release_db_ctx,
                 db_cust, cont, left>>

logBack(w) ==
  /\ pc[w] = "log_statement"
  /\ active' = sms_db_release_ctx(own_ctx[w], active)
  /\ own_ctx' = [own_ctx EXCEPT ![w] = NULL]
  /\ Goto(w, cont[w])
  /\ UNCHANGED <<cust_active, shutdownRequired, job, db_ctx, release_db_ctx,
                 db_cust, cont>>
  /\ Forget

\* SIGINT: smsSignal raises the flag.
smsSignal ==
  /\ ~shutdownRequired
  /\ shutdownRequired' = TRUE
  /\ UNCHANGED <<active, cust_active, pc, job, db_ctx, release_db_ctx, own_ctx,
                 db_cust, cont, left>>

Step(w) ==
  \/ findContext(w) \/ getSDinfo(w) \/ releaseBeforeScript(w) \/ script(w)
  \/ sdForceAsset(w) \/ releaseAfterAsset(w) \/ refind(w) \/ status(w)
  \/ endOfTask(w) \/ need(w) \/ statement(w) \/ back(w) \/ custFind(w)
  \/ custBack(w) \/ logFind(w) \/ logBack(w)

Next == smsSignal \/ \E w \in Worker : startJob(w) \/ Step(w)

Spec == Init /\ [][Next]_vars

-----------------------------------------------------------------------------
\* No context is lost: one that is active is designated by a pointer of some
\* task, and a task that has ended designates none.  So when every worker is
\* idle the whole pool is free, after any mix of calls of the three conventions.
NoContextLeak ==
  /\ \A c \in active : \E w \in Worker : c \in {db_ctx[w], own_ctx[w]}
  /\ \A w \in Worker : pc[w] = "idle" => db_ctx[w] = NULL /\ own_ctx[w] = NULL

\* A statement is executed through NULL only once shutdownRequired is up, when
\* every HA_SMSSQL_ function returns before it touches the context.
NullOnlyAtShutdown ==
  \A w \in Worker :
    \/ pc[w] \in InStatement /\ db_ctx[w] = NULL
    \/ pc[w] = "cust_statement" /\ db_cust[w] = NULL
    \/ pc[w] = "log_statement" /\ own_ctx[w] = NULL
    => shutdownRequired

\* The context on which w executes a statement, if any.
Uses(w, c) ==
  \/ pc[w] \in InStatement /\ db_ctx[w] = c
  \/ pc[w] = "log_statement" /\ own_ctx[w] = c

\* Whoever executes a statement on c is alone, and c is marked.
Exclusive(c) ==
  \A w \in Worker : Uses(w, c) => c \in active /\ \A v \in Worker : Uses(v, c) => v = w

\* A context is used by one thread at a time, and only while it is marked
\* DB_CTX_ACTIVE ("DB_CTX_ACTIVE=used by a thread , DB_CTX_NOT_ACTIVE=not used
\* by a thread", sms_db.h).  After shutdownRequired every statement is refused.
OneUserPerContext == ~shutdownRequired => \A c \in Ctx : Exclusive(c)

\* OneUserPerContext breaks in one way only: a call that found a context itself
\* released it and left csp->db_ctx pointing at it.  Every other context, whatever
\* mix of tasks runs and even while others are shared, is used by one thread at a
\* time and only while it is active; and one that nobody designates any more is
\* as good as new.
ExclusiveUse == ~shutdownRequired => \A c \in Ctx \ left : Exclusive(c)

(***************************************************************************)
(* DbContext as an implementation of ContextPool, for the contexts to      *)
(* which no call left a pointer.                                           *)
(***************************************************************************)
HoldsNow == [w \in Worker |-> {c \in active \ left : c \in {db_ctx[w], own_ctx[w]}}]
UsesNow == [w \in Worker |-> {c \in Ctx \ left : Uses(w, c)}]
Unless(f) == [w \in Worker |-> IF shutdownRequired THEN {} ELSE f[w]]

Pool == INSTANCE ContextPool
          WITH holds <- Unless(HoldsNow), uses <- Unless(UsesNow), closed <- shutdownRequired

\* Until shutdownRequired every task uses the pool as it is meant to be used: what
\* it takes is free, every statement is on a context it holds, and what it releases
\* is its own.  A context is out of this account from the release that leaves a
\* pointer to it until no pointer designates it.
PoolContract == Pool!Spec

\* A task waits for a context when every one of its kind is active.
Waiting(w) ==
  \/ pc[w] \in {"find", "refind", "need"} /\ db_ctx[w] = NULL /\ Ctx \subseteq active
  \/ pc[w] = "log" /\ Ctx \subseteq active
  \/ pc[w] = "cust" /\ CustCtx \subseteq cust_active

AllWaiting ==
  /\ ~shutdownRequired
  /\ \E w \in Worker : pc[w] # "idle"
  /\ \A w \in Worker : pc[w] # "idle" => Waiting(w)

\* The tasks can all wait for one another in one way only: each context of the
\* pool is kept by a task that asks for a second one in sms_bd_set_log.  Neither
\* CheckVerb, nor a borrowing call, nor unlockProv with its two pools is part of
\* such a circle.
GlobalWaitIsInSetLog ==
  AllWaiting => \A c \in Ctx : \E w \in Worker : pc[w] = "log" /\ db_ctx[w] = c
=============================================================================
