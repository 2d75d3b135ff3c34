-------------------------- MODULE UpdateScanProofs --------------------------
(***************************************************************************)
(* Proofs about UpdateScan, for any set of devices and threads and any     *)
(* bounds.  RequestNotForgotten is inductive relative to TypeOK.           *)
(***************************************************************************)
EXTENDS UpdateScan, TLAPS

\* What the steps of one task may do to the variables of the invariants.
LEMMA TaskKeepsTypes ==
  ASSUME TypeOK, NEW w \in Worker,
         taskStarts(w) \/ doUpdateConfig(w) \/ Step(w)
  PROVE  TypeOK'
<1> USE ScanAssumption DEF TypeOK, db, scanner, Labels
<1>1. CASE taskStarts(w)
  <2>1. Head(queue) \in SD /\ Tail(queue) \in Seq(SD)
    BY <1>1 DEF taskStarts
  <2> QED
    BY <1>1, <2>1 DEF taskStarts
<1>2. CASE doUpdateConfig(w)
  BY <1>2 DEF doUpdateConfig
<1>3. CASE Step(w)
  <2> USE DEF TaskOnly, Goto, Return, Failed, Settle, Fault, NoFault
  <2>1. CASE getSDinfo(w)  BY <2>1 DEF getSDinfo
  <2>2. CASE lock(w)  BY <2>2 DEF lock
  <2>3. CASE clearFlag(w)  BY <2>3 DEF clearFlag
  <2>4. CASE setWorking(w)  BY <2>4 DEF setWorking
  <2>5. CASE work(w)  BY <2>5 DEF work
  <2>6. CASE unlock(w)  BY <2>6 DEF unlock
  <2>7. CASE unlockSD(w)  BY <2>7 DEF unlockSD
  <2>8. CASE refused(w)  BY <2>8 DEF refused
  <2>9. CASE recordFailed(w)  BY <2>9 DEF recordFailed
  <2>10. CASE notSupported(w)  BY <2>10 DEF notSupported
  <2> QED
    BY <1>3, <2>1, <2>2, <2>3, <2>4, <2>5, <2>6, <2>7, <2>8, <2>9, <2>10 DEF Step
<1> QED
  BY <1>1, <1>2, <1>3

\* Every step keeps the variables in their types.
LEMMA TypesKept == TypeOK /\ [Next]_vars => TypeOK'
<1> SUFFICES ASSUME TypeOK, [Next]_vars PROVE TypeOK'
  OBVIOUS
<1>1. ASSUME NEW s \in SD, requestUpdate(s) PROVE TypeOK'
  BY <1>1 DEF TypeOK, requestUpdate, scanner
<1>2. CASE Scan
  <2> USE ScanAssumption DEF TypeOK, ScanOnly, ReadRow, StopReading, Fault, NoFault, db
  <2>1. CASE scanStarts  BY <2>1 DEF scanStarts
  <2>2. CASE getFirst  BY <2>2 DEF getFirst
  <2>3. CASE newTask
    <3>1. Append(queue, row) \in Seq(SD)
      BY <2>3 DEF newTask
    <3>2. queue' \in Seq(SD)
      BY <2>3, <3>1 DEF newTask
    <3>3. faults' \in 0..MaxFaults
      BY <2>3 DEF newTask
    <3>4. scan' = "next" /\ row' = NULL /\ UNCHANGED <<rows, db, up, pc, sd, verb, owed>>
      BY <2>3 DEF newTask
    <3> QED
      BY <3>2, <3>3, <3>4
  <2>4. CASE getNext  BY <2>4 DEF getNext
  <2> HIDE DEF TypeOK
  <2> QED
    BY <1>2, <2>1, <2>2, <2>3, <2>4 DEF Scan
<1>3. ASSUME NEW w \in Worker, taskStarts(w) \/ doUpdateConfig(w) \/ Step(w) PROVE TypeOK'
  BY <1>3, TaskKeepsTypes
<1>4. CASE smsdStops
  <2>1. queue' \in Seq(SD)
    BY <1>4 DEF smsdStops
  <2>2. faults' \in 0..MaxFaults
    BY <1>4, ScanAssumption DEF TypeOK, smsdStops, Fault
  <2>3. /\ up' = FALSE /\ scan' = "idle" /\ row' = NULL /\ rows' = {} /\ verb' = {}
        /\ UNCHANGED <<sd_updated, sd_locked, sd_prov_lock>> /\ owed' \subseteq SD
        /\ pc' = [w \in Worker |-> "idle"] /\ sd' = [w \in Worker |-> NULL]
    BY <1>4 DEF TypeOK, smsdStops, StopReading, db
  <2> QED
    BY <2>1, <2>2, <2>3 DEF TypeOK, Labels
<1>5. CASE resetBdFlag
  BY <1>5 DEF TypeOK, resetBdFlag, scanner
<1>6. ASSUME NEW s \in Named, provisioning(s) PROVE TypeOK'
  BY <1>6, ScanAssumption DEF TypeOK, provisioning, scanner
<1>7. CASE UNCHANGED vars
  BY <1>7 DEF TypeOK, vars
<1> QED
  BY <1>1, <1>2, <1>3, <1>4, <1>5, <1>6, <1>7 DEF Next

\* A step of a task leaves the other tasks where they are, and settles the
\* requests it gives up.
LEMMA TaskForgetsNone ==
  ASSUME TypeOK, RequestNotForgotten, NEW w \in Worker,
         taskStarts(w) \/ doUpdateConfig(w) \/ Step(w)
  PROVE  RequestNotForgotten'
<1> USE ScanAssumption DEF TypeOK, RequestNotForgotten, db
<1>1. CASE taskStarts(w)
  BY <1>1 DEF taskStarts
<1>2. CASE doUpdateConfig(w)
  BY <1>2 DEF doUpdateConfig
<1>3. CASE Step(w)
  <2> USE DEF TaskOnly, Goto, Return, Failed, Settle
  <2>1. CASE getSDinfo(w)  BY <2>1 DEF getSDinfo
  <2>2. CASE lock(w)  BY <2>2 DEF lock
  <2>3. CASE clearFlag(w)  BY <2>3 DEF clearFlag
  <2>4. CASE setWorking(w)  BY <2>4 DEF setWorking
  <2>5. CASE work(w)  BY <2>5 DEF work
  <2>6. CASE unlock(w)  BY <2>6 DEF unlock
  <2>7. CASE unlockSD(w)  BY <2>7 DEF unlockSD
  <2>8. CASE refused(w)  BY <2>8 DEF refused
  <2>9. CASE recordFailed(w)  BY <2>9 DEF recordFailed
  <2>10. CASE notSupported(w)  BY <2>10 DEF notSupported
  <2> QED
    BY <1>3, <2>1, <2>2, <2>3, <2>4, <2>5, <2>6, <2>7, <2>8, <2>9, <2>10 DEF Step
<1> QED
  BY <1>1, <1>2, <1>3

\* Types: the columns, the scan, the queue and the tasks of scan_updated and
\* update_task, for any number of devices and threads.
THEOREM TypeCorrect == Spec => []TypeOK
<1>1. Init => TypeOK
  BY ScanAssumption DEF Init, TypeOK, Labels
<1> QED
  BY <1>1, TypesKept, PTL DEF Spec

\* No request is forgotten by scan_updated, update_task and the verbs, however
\* many devices, threads, waiting tasks and faults there are.
THEOREM NoRequestForgotten == Spec => []RequestNotForgotten
<1>1. Init => RequestNotForgotten
  BY DEF Init, RequestNotForgotten
<1>2. TypeOK /\ RequestNotForgotten /\ [Next]_vars => RequestNotForgotten'
  <2> SUFFICES ASSUME TypeOK, RequestNotForgotten, [Next]_vars
               PROVE  RequestNotForgotten'
    OBVIOUS
  <2> USE DEF RequestNotForgotten
  <2>1. ASSUME NEW s \in SD, requestUpdate(s) PROVE RequestNotForgotten'
    BY <2>1 DEF requestUpdate
  <2>2. CASE Scan
    BY <2>2 DEF Scan, scanStarts, getFirst, newTask, getNext, ScanOnly, db
  <2>3. ASSUME NEW w \in Worker, taskStarts(w) \/ doUpdateConfig(w) \/ Step(w)
        PROVE  RequestNotForgotten'
    BY <2>3, TaskForgetsNone
  <2>4. CASE smsdStops
    BY <2>4 DEF smsdStops, db
  <2>5. CASE resetBdFlag
    BY <2>5 DEF resetBdFlag
  <2>6. ASSUME NEW s \in Named, provisioning(s) PROVE RequestNotForgotten'
    BY <2>6 DEF provisioning
  <2>7. CASE UNCHANGED vars
    BY <2>7 DEF vars
  <2> QED
    BY <2>1, <2>2, <2>3, <2>4, <2>5, <2>6, <2>7 DEF Next
<1> QED
  BY <1>1, <1>2, TypeCorrect, PTL DEF Spec
=============================================================================
