# Verification of smsd

`smsd` (`sms/smsd/source`, about 9600 lines of C) is the daemon of the Core
Engine. Clients connect to its port and send one verb per connection; a verb
runs in a task of a thread pool, mostly by executing a PHP script against a
security device (SD); the state that matters is kept in a database.

This directory holds TLA+ models of the parts of smsd where threads, signals,
crashes and database errors meet, the TLC runs that check them on small
instances, and TLAPS proofs for every size. `PROJECT.json` lists which lines
each definition models.

## Inventory

| Part | State | Operations | What is hard about it | What must hold |
|---|---|---|---|---|
| SD locks (`update.c`, `bd.c`, `generic_router.c`) | columns `sd_locked`, `sd_prov_lock` | lockProv, unlockProv, lockSD, unlockSD, lock verbs, resetBdFlag | several statements per operation, ownerless lock, failing scripts, lost connections, crash | no lock without an owner; locks are released; one update at a time |
| Database contexts (`verb.c`, `update.c`, `php_db.c`) | pool of contexts, `csp->db_ctx` | find, release, borrow | three conventions, stale pointers, a pool smaller than the thread pool | no leak; contexts are shared in one way only; a global wait has one cause |
| Main loop and connections (`smsd.c`, `php_misc.c`) | flags, configuration, socket, descriptors | accept, serve, smsSignal, reloadConfig, shutdown | signals between two steps, reuse of descriptor numbers, reload under running tasks | no signal missed, one owner per descriptor, shutdown ends |
| Addresses (`verb.c`) | `sd_ip_config`, `sd_connected`, DNS | SDIPUP, IPDOWN, GETROUTERIP, set_ipconfig | messages in any order, check on a copy then write | a late IPDOWN is ignored, an SDIPUP is recorded |
| Update tasks (`update.c`, `php_misc.c`) | `sd_updated`, queue of tasks | scan_updated, update_task, UPDATECONFIG | duplicates, refused locks, crash, restart of the scan | no request forgotten; each one taken, or the SD is not provisioned |
| Verbs and answers (`verb.c`) | `csp->cfd`, verb table | CheckVerb, do*, send_ok, send_error | three layers that may answer, asynchronous scripts | one answer per request |
| Statistics (`smsd.c`, `verb.c`) | `currentStat` | increments, updateStats | one mutex per counter | every increment counts |
| Configuration save (`router.c`) | files | save_all_conf, save_conf_task | the loop of scan_updated | - |
| Configuration file, reports, templates, script bridge | buffers | parsing, formatting | string work | - |
| gpul, net, log, smsbd, smssnmp, `common/` | - | - | prebuilt or vendored | modelled from their use |

## Modules

Each component has a module with its state, actions and properties, an `MC`
module for TLC and a `Proofs` module. Two have a second one, which builds on the
first: DbContextWaitProofs (what threads wait in) and VerbsAnswersProofs (answers
and error counters). The action names are the names of the C
functions; a function of several statements is split at them
(`lockProv_SetLock`, `updateIP_write`).

### SDLock

One step is one SQL statement or one step of a script. `Statement` is the
common body of the `HA_SMSSQL_` functions: refused after `shutdownRequired`,
repeated when the connection is lost. A statement whose connection was lost may
or may not have been applied. A job is a script that updates (`lockSD`), that
provisions (`lockProv`, `unlockProv`), that never locks, or a lock verb. A
script that fails for any reason goes through `scriptFailed`, which unlocks, as
`genericUpdateConf` and the others do. `smsdStops` may come at any point;
`resetBdFlag` precedes the first job after it. `dbfault` is a history variable:
the SDs on which a statement about the lock itself went wrong.

Assumption: `SMSSQL_SetLock` tests and sets atomically, as its header promises.
It is in a prebuilt library. A lock that has been set for too long may be granted
again (`OK_LOCKED_BY_TIMEOUT`), at any time as far as the model is concerned;
OneUpdateAtATime does not count a script that got its lock this way, since there
the second script is let in knowingly.

### DbContext

The pool (external) and the pointer `csp->db_ctx`. `verb` tasks keep the context
of `CheckVerb`; `report` and `update` tasks release it before the script;
`scan` tasks have one of their own. Calls of a script find a context when the
pointer is NULL; some release it and leave the pointer, some keep it.
Every borrowing call of `php_db.c`, `update.c` and `router.c` has the same three
steps, `need`, `statement` and `back`; the map names one such function for each.
`unlockProv` also takes a DB_CUST context and `sms_bd_set_log` a second DB_SMS
one.

`ContextPool` is the abstract specification: what a thread holds and uses, in
four actions (take, give, begin, end) until the pool closes. The mapping in
DbContext computes `holds` from the pointers of the task and the active contexts
and `uses` from its label; after `shutdownRequired` both are empty and `closed`
is set. `PoolContract` is the abstract specification under this mapping.

A context is not used by one thread at a time (`OneUserPerContext`, which
`ctx_shared` finds violated), because of the calls that release a context and
leave the pointer. The history variable `left` has the contexts to which such a
pointer was left and still designates; no step depends on it. `ExclusiveUse` and
`PoolContract` are about all the others, for every mix of tasks.

### UpdateScan

The portal sets `sd_updated` at any time. `scan_updated` reads the rows one by
one and queues a task for each; nothing stops it from queueing an SD whose
earlier task still waits. A task goes through `getSDinfo`, the test of the type,
and the script of `genericUpdateConf`: lock, clear `sd_updated` (WORKING), work,
unlock. UPDATECONFIG runs the same script. The failure of a script unlocks the
SD, also when its lock had been refused. A provisioning sets and clears
`sd_prov_lock` (`provisioning`), and while it is set every attempt to lock is refused.
After a failure `update_task` records
FAILED, except for a refused lock, where the column is still set. `smsdStops`
loses the queue and the tasks. `owed` is a history variable: the SDs with a
request that was neither served nor reported. A failed attempt to record FAILED
counts as reported, since the code ignores its result. A request whose column
was cleared before smsd stopped is lost, and is taken out of `owed`.

The order of the calls of the script (lock, WORKING, work, unlock) is external:
the scripts are not in this repository, and the order is the one their calls in
`php_db.c` and `php_misc.c` presuppose.

### Verbs

A request and its answer. The functions a request goes through are data: a
wrapper of `generic_router.c` is the set of outcomes it answers, an operation
adds the ways it can fail and what it answers, a handler of `verb.c` what it
answers and its statistics. `verbTab` is the set of handlers, one for each entry
of the table. The steps (`serve`,
`CheckVerb`, `countTotal`, `run`, `countError`, `reply`, `endServe`) are the same
for all. An increment is two steps, a read and a write, under the mutex the
handler names. `counted` is a history variable.

Two operations dereference NULL: JSRESOLVE takes the length of a configuration
it did not get (`verb.c:2270`), JSSMSEXECN and JSSMSADDONEXEC go through commands
that did not come (`update.c:582`). `crash` is what follows: smsd stops, every connection is closed and the counters start from 0.
`serve` waits for nothing; the wait for a context in `CheckVerb` is DbContext's.
SNMPGET and SNMPGETNEXT hand the descriptor to a prebuilt library, which is
assumed to answer on it (`doSnmpGet`, external).

Assumption about scripts (`run`, external): a script that succeeds has answered;
one that fails has not, unless it had closed the socket before, and then it had
answered.

### Daemon

The main thread step by step, from the start to exit. The handler `smsSignal`
is two steps (flag, connection to the own port) that interleave with everything.
`reloadConfig` is three: flag and file, `deleteConfig`, assignment; between the
last two the handler may read any port. Serve tasks own a descriptor from
`dispatch` to `serveEnds` or `sms_close_user_socket`. The latter closes the
descriptor in one step and resets `csp->cfd` in the next (`resetCfd`); in between
the number may belong to a new connection already, and the task no longer owns it.

External behaviour taken from the libraries: handlers restart system calls,
`socketAccept` repeats on EINTR, `gpul_sched_shutdown` waits for running tasks.

### IpUpDown

The row of one SD. A handler copies the row, decides on the copy and writes in a
later step. Logs and scripts between these steps may fail and end the verb.
`updateRouterIP` (PPPIPUP) looks up an id it has just zeroed, so it finds no
SD; it is modelled as it is.

## Runs

| Run | Result | Question |
|---|---|---|
| lock_verbs | pass | Is every low lock owned and released, is an SD that was never provisioned never locked, and is a provisioning visible in `sd_prov_lock`, under scripts, verbs, lost connections, crash and restart? |
| lock_exclusion | violation | Does the lock keep two updates of an SD apart? |
| lock_highlow | violation | Does `lockProv` respect the low lock? |
| ctx_tasks | pass | Do the three conventions leak contexts or use NULL? Is a context shared in any other way than by a pointer left after its release, and is the pool otherwise used as `ContextPool` says? When all threads wait for a context, what are they waiting in? |
| ctx_shared | violation | Is a context used by one thread at a time? |
| daemon_loop | pass | Signals, descriptors, and the end of a woken shutdown |
| daemon_wakeup | violation | Does every SIGINT end the daemon? |
| ip_serial | pass | Address, flag and DNS, one handler at a time |
| ip_race | violation | The same test of IPDOWN with two handlers |
| update_requests | pass | Is a request for an update forgotten, or never taken, when scans pile up tasks, verbs interfere, statements fail and smsd restarts? |
| verbs_answers | pass | How many answers does each request get, and are the statistics exact, whatever is served at the same time and whatever stops smsd? |
| verbs_execscript | violation | Is a JSEXECSCRIPT answered by `genericExecScript`? |

The six violations:

- **lock_exclusion.** The failure path of a script unlocks the SD whoever holds
  the lock: the script may have been refused it, or be a provisioning that has
  given it back. The script that holds it then goes on without a lock.
  OnlyUnlockBreaksExclusion proves
  that unlocking under a running update is the only way: UNLOCKUPDATE, the UnLock
  of `lockProv` and the repetition of an UnLock are the others of that kind, and
  the way the lock is taken has no part in it. Locks taken over by timeout are not
  what the violation is about, and are not counted.
- **lock_highlow.** `HA_SMSSQL_SetLock` reports ALREADY_PROVLOCKED without
  looking at `sd_locked`; `lockProv` takes it for success.
- **ctx_shared.** A borrowing call leaves `csp->db_ctx` pointing at the context it
  released; the next call uses it while another thread owns it.
- **daemon_wakeup.** A reload changes `currentConfig->port`, the socket stays
  bound to the old port, and the wake-up connection fails.
- **ip_race.** An SDIPUP is handled between the test and the write of IPDOWN.
  OnlyOvertakenDownsDisconnect proves that this is the only way.
- **verbs_execscript.** The script fails, `genericExecScript` returns the error
  without an answer, and its callers leave the answer to it.

### Bounds

- SDLock: one SD, since no operation touches two; three workers, so that one can
  hold, one be refused and one come in; one lost connection (`MaxLosses`).
  `ProvisioningMarked` is false when two jobs provision the same SD or an operator
  sends UNLOCKPROVISIONING, so the instance has one provisioner and no such verb;
  OnlyUnlockProvUnmarks covers both, and the theorems on the other invariants do.
- DbContext: two workers and two contexts for all jobs. Two tasks are enough to
  share a context, and both of them can wait: they keep the context of `CheckVerb`
  and ask for another one in `sms_bd_set_log`. (The default configuration has 5
  contexts and at least 12 threads, where this can happen too. No comment or
  document of the repository promises otherwise, so it is not one of the
  violations.) `GlobalWaitIsInSetLog` says that such a wait takes one task in
  `sms_bd_set_log` for each context, and that no other call of the modelled tasks
  brings it about. Workers and contexts are symmetric.
- Daemon: two tasks, descriptors and ports; a backlog of one (`MaxBacklog`).
- IpUpDown: three addresses. One handler in `ip_serial`, since two break all three
  properties; the theorems are about any number, and say by which step. Two
  handlers in `ip_race`.
- UpdateScan: two SDs, one of which is not hosted and goes through
  ERR_SD_NOT_SUPPORTED; two threads and one waiting task (`MaxQueued`), so that
  three tasks of one SD exist at once; one fault (`MaxFaults`): a failed
  statement, a refusal because of a provisioning, or a stop of smsd. Since the
  faults are bounded, `RequestTaken` says that requests are taken once faults
  cease.
- Verbs: two threads and three requests (`MaxRequests`), each with any verb and
  any outcome: two requests can meet at a counter while a third has been counted
  or has stopped smsd. The threads are symmetric.

Deadlock is checked except in Daemon, where the process ends, and in Verbs,
where the requests do.

### Fairness

Weak fairness of each worker's `Step` in SDLock: threads are not suspended,
statements return and scripts end. It is not assumed that jobs arrive. In Daemon,
weak fairness of the main thread, of a started handler and of the tasks; none of
signals, clients or `sms_close_user_socket`. In UpdateScan, weak fairness of the
scan, which the scheduler runs every 60 seconds, of the restart of smsd and of
each thread's task; strong fairness of the start of a waiting task, since a
thread that comes free may take a verb first, but the queue is served in order.

### What the exceptions in AnsweredOnce are

`AnsweredOnce` names the requests that do not get one answer. Answered twice: a
script of JSSMSEXEC, JSSMSEXECN or JSSMSADDONEXEC that fails (`genericSmsexecCmd`
or `genericSmsAddonExecCmd` and the operation both answer). Not answered:
PPPIPUP, SDIPUP and IMMEDIATESAVECONF by design; parameters that are too short;
failures of JSAUPDATELICENSE, JSAUPDATEFIRMWARE, JSHASWAP, JSSENDDATAFILES and
JSEXECSCRIPT (`verbs_execscript` is about the last). A request that stops smsd
does not come to the end of `serve`, where the property is stated, and neither do
those that are served beside it.

`CountersExact` excepts `totalerrorgetreport`, which GETVPNREPORT increments under
its own mutex (`verb.c:717`), so that increments are lost; `totalerrorgetvpnreport`
is never incremented. `ErrorsWithinTotals` has all counters. Both are about the
counters in memory: STAT reads them one by one without the mutexes, and its answer
may show values of different moments.
PPPIPUP counts IPCHANGED as an error. `totalupdate`, `totalgetconf` and
`totalcheckupdate` are never incremented, and are not in the model.

## Proofs

All theorems hold for every value of the constants that satisfies the named
assumption of the module.

| Theorem | Statement | Strengthening |
|---|---|---|
| SDLockProofs: LocksHaveOwners | LockHasOwner | `OwnerCore`: who remembers OK_LOCKED is at a label that leads to an UnLock |
| SDLockProofs: UnprovisionedNeverLocked | NeverLockedBeforeProvisioning | `ProvCore`: past the test, `sd_prov_lock` is not -1; no statement writes -1 |
| SDLockProofs: OnlyUnlockProvUnmarks | ProvisioningMarked, of the executions in which no step clears `sd_prov_lock` under a provisioning that has just set it or works | `MarkedCore`: from the success of `SetSDprovlock` in `lockProv` on, the SD is marked |
| SDLockProofs: OnlyUnlockBreaksExclusion | OneUpdateAtATime, of the executions in which no step clears the lock of an SD under a script that updates it | `ExclusionCore`: a script that updates has its SD locked; only a granted `SetLock` of `lockSD` brings a script to its update |
| DbContextProofs: ContextsNeverLeak | NoContextLeak | `LeakCore`: a pointer is NULL where a find overwrites it |
| DbContextProofs: OnlyLeftPointersShare | ExclusiveUse | `HoldCore`: a context outside `left` that a pointer designates is active, and one pointer designates it |
| DbContextProofs: NullIsShutdown | NullOnlyAtShutdown | `NullCore`: before the flag, a pointer is set at every label between a find and its statement |
| DbContextProofs: PoolUsedAsMeant | PoolContract | `HoldCore` and the types; each step takes, gives, begins or ends one context of one worker, and leaves the others' alone |
| DbContextWaitProofs: WaitsOnlyInSetLog | GlobalWaitIsInSetLog, if there is a DB_CUST context (`CUSTnumContext` is 1 by default) | `LeakCore`, and `CustCore`: an active DB_CUST context belongs to an `unlockProv` that waits for nothing |
| DaemonProofs: SignalsAreNotMissed | NoMissedSignal | `SignalCore`: a raised flag has a handler, a connection waiting, or a test ahead |
| DaemonProofs: DescriptorsHaveOneOwner | DescriptorsOwned | `FdCore`: main holds none before accept, a free task holds none |
| IpUpDownProofs: OnlyDisturbedUpsAreLost | UpRecorded, of the executions in which no other handler changes the row between the `getSDinfo` of an SDIPUP and its end | `UpCore`: what the SDIPUP decided on its copy is still true of the row |
| IpUpDownProofs: OnlyOvertakenDownsDisconnect | LateDownIgnored, of those in which the address does not change between the test of an IPDOWN and its write | `DownCore`: the address is still the one it tested |
| IpUpDownProofs: OnlyOvertakenUpsMisleadDns | DnsAgrees, of those in which the address does not change between the write of an SDIPUP and its `dnsUpdate` | `DnsCore`: an SDIPUP on its way to the DNS has the address of the row |
| UpdateScanProofs: NoRequestForgotten | RequestNotForgotten | the types; the invariant is inductive with them, since only `clearFlag` takes a request out of the column, and its task is then past it |
| VerbsProofs: StatisticsExact | CountersExact | `CounterInv`: who is between read and write owns the mutex of its counter and has read the present value; two handlers that share a counter share its mutex, `totalerrorgetreport` apart |
| VerbsAnswersProofs: ClientsAnsweredOnce | AnsweredOnce | `AnswerCore`: for each label, how many answers the client has and whether the socket is open; after the operation (`Ran`) a script that succeeded or closed the socket has answered, SDIPUP has closed it, and nobody else has written |
| VerbsAnswersProofs: ErrorsNeverExceedTotals | ErrorsWithinTotals | `ErrorCore`: errors plus the requests that are counted and not yet settled (`Pending`) do not exceed the total; `SharedCore`: the same of `totalerrorgetreport` and the two totals, where a thread that has read the counter may write back an older value |

The proof of ClientsAnsweredOnce has two halves. `VerbTabFits` goes through the
table of verbs: the wrapper, the operation and the handler of an entry answer each
of its outcomes once between them, or it is one of the exceptions (`Fits`). The
other lemmas are about the steps and know of the table only `Fits`. So an entry
added to `verbTab` needs one more step of `VerbTabFits`, and its statistics one
of `StatsOfVerbTab` in VerbsProofs.

Five theorems are about executions in which a given step does not happen
(`[][~A]_vars` as a hypothesis). The property is false in general there, and
where a run shows it (`lock_exclusion`, `ip_race`) the counterexample takes that
very step. What the theorem adds is that, for any number of threads, nothing else
breaks it. The hypothesis of WaitsOnlyInSetLog is needed: without a DB_CUST context
every `unlockProv` would wait for one forever.

Every component's `TypeOK` is also a theorem (TypeCorrect; for Verbs,
VerbsTypeCorrect). All invariants that the passing runs check are proved.

Only model-checked: LockReleased, WokenShutdownCompletes and RequestTaken, which
are liveness properties under fairness and out of the prover's reach. Of
LockReleased, LocksHaveOwners is the part that is proved.

## Not modelled

- Configuration save: the loop of `save_all_conf` is the one of `scan_updated`
  over all SDs. No column tells an SD that was saved from one that was not, so a
  lost task changes nothing a property could speak of; the next day's save
  covers it. `save_running_conf` compares files. `save_conf_task` reads
  `version_changed` uninitialised when the script fails (`router.c:619`), which
  may raise an alarm.
- `parse_params` has no caller.
- `updateStats`: copies figures of `/proc` and of the scheduler.
- What doStat reads: it changes no state, and the figures of one answer need not
  belong together.
- `genericGetBotnetReport`, which nothing calls.
- Keyword parsing of the configuration file, template text, and the interpreter
  behind the script bridge: string work without shared state. The checks of
  mandatory keywords read memory that `realloc` did not clear.
- The prebuilt libraries (scheduler, sockets, log, database) and the vendored
  headers: modelled from their use, where they are used.
- Tasks reading a configuration that `deleteConfig` has freed is a data race in
  the code; only the handler's read of the port is modelled.
- The text and the type of an update status. `update_task` records its status
  under "scan_updated" (`update.c:1072`), which no CHECK verb reads.
- After IPDOWN `sd_ip_config` stays set while `sd_connected` is cleared, although
  `verb.c:1474` says "sd_connected est a 1 si sd_ip_config != 0 donc pas teste".
  GETROUTERIP then answers the address of a device that is not connected. This
  follows from `doIpDown` alone, so no run is about it.
