---------------------------- MODULE IpUpDownProofs ----------------------------
(***************************************************************************)
(* Proofs about IpUpDown, for any addresses and any number of handlers at  *)
(* the same time.  Where handlers disturb one another, the theorem names   *)
(* the step of another handler that is the only way to break the property. *)
(***************************************************************************)
EXTENDS IpUpDown, TLAPS

\* Another handler changes the row between the getSDinfo of an SDIPUP and its end.
UpDisturbed ==
  \E w \in Worker :
    /\ pc[w] \in {"up_check", "up_write", "up_log", "up_dns", "up_done"} /\ pc'[w] = pc[w]
    /\ sd_ip_config' # sd_ip_config \/ sd_connected' # sd_connected

\* The address changes between the test of an IPDOWN and its SetSDConnected.
DownOvertaken ==
  \E w \in Worker : /\ pc[w] \in {"down_log", "down_set"} /\ pc'[w] = pc[w]
                   /\ sd_ip_config' # sd_ip_config

\* The address changes again between the SetSDIPConfig of an SDIPUP and its
\* dnsUpdate.
DnsOvertaken ==
  \E w \in Worker : /\ pc[w] \in {"up_log", "up_dns"} /\ pc'[w] = pc[w]
                   /\ sd_ip_config' # sd_ip_config

\* What an SDIPUP decided on its copy is still true of the row.
UpCore ==
  \A w \in Worker :
    /\ pc[w] \in {"up_check", "up_write"} =>
         SD[w].sd_ip_config = sd_ip_config /\ (SD[w].sd_connected <=> sd_connected)
    /\ pc[w] \in {"up_log", "up_dns"} => sd_connected /\ sd_ip_config = ip[w]
    /\ pc[w] = "up_done" => \/ sd_connected /\ sd_ip_config = ip[w]
                            \/ int_ip_type = "S" /\ ip[w] # sd_ip_config

\* So is what an IPDOWN decided.
DownCore ==
  \A w \in Worker : pc[w] \in {"down_log", "down_set"} => sd_ip_config \in {ip[w], NoAddr}

\* An SDIPUP on its way to the DNS has the address of the row.
DnsCore ==
  /\ \A w \in Worker : pc[w] \in {"up_log", "up_dns"} => sd_ip_config = ip[w]
  /\ DnsAgrees

-----------------------------------------------------------------------------
\* The initial states are well typed.
LEMMA InitType == Init => TypeOK
<1> SUFFICES ASSUME Init PROVE TypeOK
  OBVIOUS
<1>1. pc \in [Worker -> Labels]
  BY DEF Init, Labels
<1>2. SD \in [Worker -> Copies]
  BY DEF Init, Copies
<1> QED
  BY <1>1, <1>2 DEF Init, TypeOK

\* Every step keeps the columns of the row and the locals of their types.
LEMMA TypeStep == ASSUME TypeOK, [Next]_vars PROVE TypeOK'
<1> USE AddrAssumption DEF TypeOK, Labels, Copies
<1>1. CASE UNCHANGED vars
  BY <1>1 DEF vars
<1>2. CASE provisioning
  BY <1>2 DEF provisioning, names
<1>3. ASSUME NEW w \in Worker, receive(w) PROVE TypeOK'
  BY <1>3 DEF receive, Goto, row, names
<1>4. ASSUME NEW w \in Worker, updateIP(w) PROVE TypeOK'
  BY <1>4 DEF updateIP, Goto, getSDinfo, ends, row, names
<1>5. ASSUME NEW w \in Worker, updateIP_check(w) PROVE TypeOK'
  BY <1>5 DEF updateIP_check, Goto, ends, row, names
<1>6. ASSUME NEW w \in Worker, updateIP_write(w) PROVE TypeOK'
  <2>1. sd_connected' \in BOOLEAN
    BY <1>6 DEF updateIP_write, Goto, ends, HA_SMSSQL_SetSDIPConfig,
       HA_SMSSQL_SetSDConnected, row, names
  <2>2. dns_missed' \in BOOLEAN
    BY <1>6 DEF updateIP_write, Goto, ends, HA_SMSSQL_SetSDIPConfig,
       HA_SMSSQL_SetSDConnected, row, names
  <2>3. sd_ip_config' \in Addr \cup {NoAddr} /\ dns' \in Addr \cup {NoAddr}
    BY <1>6 DEF updateIP_write, Goto, ends, HA_SMSSQL_SetSDIPConfig,
       HA_SMSSQL_SetSDConnected, row, names
  <2>4. pc' \in [Worker -> Labels]
    BY <1>6 DEF updateIP_write, Goto, ends, HA_SMSSQL_SetSDIPConfig,
       HA_SMSSQL_SetSDConnected, row, names
  <2>5. UNCHANGED <<sd_prov_lock, int_ip_type, ip, SD>>
    BY <1>6 DEF updateIP_write, Goto, ends, HA_SMSSQL_SetSDIPConfig,
       HA_SMSSQL_SetSDConnected, row, names
  <2> QED
    BY <2>1, <2>2, <2>3, <2>4, <2>5
<1>7. ASSUME NEW w \in Worker, updateIP_log(w) PROVE TypeOK'
  <2>1. dns_missed' \in BOOLEAN
    BY <1>7 DEF updateIP_log, names
  <2>2. pc' \in [Worker -> Labels]
    BY <1>7 DEF updateIP_log, Goto
  <2>3. UNCHANGED <<row, dns, ip, SD>>
    BY <1>7 DEF updateIP_log, names
  <2> QED
    BY <2>1, <2>2, <2>3 DEF row
<1>8. ASSUME NEW w \in Worker, dnsUpdate(w) PROVE TypeOK'
  <2>1. sd_connected' \in BOOLEAN
    BY <1>8 DEF dnsUpdate, Goto, row, names
  <2>2. dns_missed' \in BOOLEAN
    BY <1>8 DEF dnsUpdate, Goto, row, names
  <2>3. sd_ip_config' \in Addr \cup {NoAddr} /\ dns' \in Addr \cup {NoAddr}
    BY <1>8 DEF dnsUpdate, Goto, row, names
  <2>4. pc' \in [Worker -> Labels]
    BY <1>8 DEF dnsUpdate, Goto, row, names
  <2>5. UNCHANGED <<sd_prov_lock, int_ip_type, ip, SD>>
    BY <1>8 DEF dnsUpdate, Goto, row, names
  <2> QED
    BY <2>1, <2>2, <2>3, <2>4, <2>5
<1>9. ASSUME NEW w \in Worker, doSdIpUp(w) PROVE TypeOK'
  BY <1>9 DEF doSdIpUp, Goto, row, names
<1>10. ASSUME NEW w \in Worker, doIpDown(w) PROVE TypeOK'
  BY <1>10 DEF doIpDown, Goto, getSDinfo, ends, row, names
<1>11. ASSUME NEW w \in Worker, doIpDown_log(w) PROVE TypeOK'
  BY <1>11 DEF doIpDown_log, Goto, ends, row, names
<1>12. ASSUME NEW w \in Worker, doIpDown_set(w) PROVE TypeOK'
  BY <1>12 DEF doIpDown_set, Goto, ends, HA_SMSSQL_SetSDConnected, row, names
<1>13. ASSUME NEW w \in Worker, updateRouterIP(w) PROVE TypeOK'
  BY <1>13 DEF updateRouterIP, Goto, ends, row, names
<1>14. ASSUME NEW w \in Worker, getRouterIp(w) PROVE TypeOK'
  BY <1>14 DEF getRouterIp, Goto, getSDinfo, ends, row, names
<1>15. ASSUME NEW w \in Worker, sms_bd_set_ipconfig(w) PROVE TypeOK'
  <2>1. sd_connected' \in BOOLEAN
    BY <1>15 DEF sms_bd_set_ipconfig, Goto, ends, HA_SMSSQL_SetSDIPConfig,
       row, names
  <2>2. dns_missed' \in BOOLEAN
    BY <1>15 DEF sms_bd_set_ipconfig, Goto, ends, HA_SMSSQL_SetSDIPConfig,
       row, names
  <2>3. sd_ip_config' \in Addr \cup {NoAddr} /\ dns' \in Addr \cup {NoAddr}
    BY <1>15 DEF sms_bd_set_ipconfig, Goto, ends, HA_SMSSQL_SetSDIPConfig,
       row, names
  <2>4. pc' \in [Worker -> Labels]
    BY <1>15 DEF sms_bd_set_ipconfig, Goto, ends, HA_SMSSQL_SetSDIPConfig,
       row, names
  <2>5. UNCHANGED <<sd_prov_lock, int_ip_type, ip, SD>>
    BY <1>15 DEF sms_bd_set_ipconfig, Goto, ends, HA_SMSSQL_SetSDIPConfig,
       row, names
  <2> QED
    BY <2>1, <2>2, <2>3, <2>4, <2>5
<1> HIDE DEF TypeOK, Labels, Copies
<1> QED
  BY <1>1, <1>2, <1>3, <1>4, <1>5, <1>6, <1>7, <1>8, <1>9, <1>10, <1>11,
     <1>12, <1>13, <1>14, <1>15 DEF Next, Step

\* A step that disturbs no SDIPUP keeps UpCore.
LEMMA UpStep == ASSUME TypeOK, UpCore, [Next]_vars, ~UpDisturbed PROVE UpCore'
<1> USE AddrAssumption DEF TypeOK, UpCore, UpDisturbed, Copies
<1>1. CASE UNCHANGED vars
  BY <1>1 DEF vars
<1>2. CASE provisioning
  BY <1>2 DEF provisioning, names
<1>3. ASSUME NEW w \in Worker, receive(w) PROVE UpCore'
  BY <1>3 DEF receive, Goto, row, names
<1>4. ASSUME NEW w \in Worker, updateIP(w) PROVE UpCore'
  BY <1>4 DEF updateIP, Goto, getSDinfo, ends, row, names
<1>5. ASSUME NEW w \in Worker, updateIP_check(w) PROVE UpCore'
  BY <1>5 DEF updateIP_check, Goto, ends, row, names
<1>6. ASSUME NEW w \in Worker, updateIP_write(w) PROVE UpCore'
  BY <1>6 DEF updateIP_write, Goto, ends, HA_SMSSQL_SetSDIPConfig,
     HA_SMSSQL_SetSDConnected, row, names
<1>7. ASSUME NEW w \in Worker, updateIP_log(w) PROVE UpCore'
  BY <1>7 DEF updateIP_log, Goto, row, names
<1>8. ASSUME NEW w \in Worker, dnsUpdate(w) PROVE UpCore'
  BY <1>8 DEF dnsUpdate, Goto, row, names
<1>9. ASSUME NEW w \in Worker, doSdIpUp(w) PROVE UpCore'
  BY <1>9 DEF doSdIpUp, Goto, row, names
<1>10. ASSUME NEW w \in Worker, doIpDown(w) PROVE UpCore'
  BY <1>10 DEF doIpDown, Goto, getSDinfo, ends, row, names
<1>11. ASSUME NEW w \in Worker, doIpDown_log(w) PROVE UpCore'
  BY <1>11 DEF doIpDown_log, Goto, ends, row, names
<1>12. ASSUME NEW w \in Worker, doIpDown_set(w) PROVE UpCore'
  BY <1>12 DEF doIpDown_set, Goto, ends, HA_SMSSQL_SetSDConnected, row, names
<1>13. ASSUME NEW w \in Worker, updateRouterIP(w) PROVE UpCore'
  BY <1>13 DEF updateRouterIP, Goto, ends, row, names
<1>14. ASSUME NEW w \in Worker, getRouterIp(w) PROVE UpCore'
  BY <1>14 DEF getRouterIp, Goto, getSDinfo, ends, row, names
<1>15. ASSUME NEW w \in Worker, sms_bd_set_ipconfig(w) PROVE UpCore'
  BY <1>15 DEF sms_bd_set_ipconfig, Goto, ends, HA_SMSSQL_SetSDIPConfig, row,
     names
<1> HIDE DEF TypeOK, UpCore, UpDisturbed, Copies
<1> QED
  BY <1>1, <1>2, <1>3, <1>4, <1>5, <1>6, <1>7, <1>8, <1>9, <1>10, <1>11,
     <1>12, <1>13, <1>14, <1>15 DEF Next, Step

\* A step that overtakes no IPDOWN keeps DownCore.
LEMMA DownStep == ASSUME TypeOK, DownCore, [Next]_vars, ~DownOvertaken PROVE DownCore'
<1> USE AddrAssumption DEF TypeOK, DownCore, DownOvertaken, Copies
<1>1. CASE UNCHANGED vars
  BY <1>1 DEF vars
<1>2. CASE provisioning
  BY <1>2 DEF provisioning, names
<1>3. ASSUME NEW w \in Worker, receive(w) PROVE DownCore'
  BY <1>3 DEF receive, Goto, row, names
<1>4. ASSUME NEW w \in Worker, updateIP(w) PROVE DownCore'
  BY <1>4 DEF updateIP, Goto, getSDinfo, ends, row, names
<1>5. ASSUME NEW w \in Worker, updateIP_check(w) PROVE DownCore'
  BY <1>5 DEF updateIP_check, Goto, ends, row, names
<1>6. ASSUME NEW w \in Worker, updateIP_write(w) PROVE DownCore'
  BY <1>6 DEF updateIP_write, Goto, ends, HA_SMSSQL_SetSDIPConfig,
     HA_SMSSQL_SetSDConnected, row, names
<1>7. ASSUME NEW w \in Worker, updateIP_log(w) PROVE DownCore'
  BY <1>7 DEF updateIP_log, Goto, row, names
<1>8. ASSUME NEW w \in Worker, dnsUpdate(w) PROVE DownCore'
  BY <1>8 DEF dnsUpdate, Goto, row, names
<1>9. ASSUME NEW w \in Worker, doSdIpUp(w) PROVE DownCore'
  BY <1>9 DEF doSdIpUp, Goto, row, names
<1>10. ASSUME NEW w \in Worker, doIpDown(w) PROVE DownCore'
  BY <1>10 DEF doIpDown, Goto, getSDinfo, ends, row, names
<1>11. ASSUME NEW w \in Worker, doIpDown_log(w) PROVE DownCore'
  BY <1>11 DEF doIpDown_log, Goto, ends, row, names
<1>12. ASSUME NEW w \in Worker, doIpDown_set(w) PROVE DownCore'
  BY <1>12 DEF doIpDown_set, Goto, ends, HA_SMSSQL_SetSDConnected, row, names
<1>13. ASSUME NEW w \in Worker, updateRouterIP(w) PROVE DownCore'
  BY <1>13 DEF updateRouterIP, Goto, ends, row, names
<1>14. ASSUME NEW w \in Worker, getRouterIp(w) PROVE DownCore'
  BY <1>14 DEF getRouterIp, Goto, getSDinfo, ends, row, names
<1>15. ASSUME NEW w \in Worker, sms_bd_set_ipconfig(w) PROVE DownCore'
  BY <1>15 DEF sms_bd_set_ipconfig, Goto, ends, HA_SMSSQL_SetSDIPConfig, row,
     names
<1> HIDE DEF TypeOK, DownCore, DownOvertaken, Copies
<1> QED
  BY <1>1, <1>2, <1>3, <1>4, <1>5, <1>6, <1>7, <1>8, <1>9, <1>10, <1>11,
     <1>12, <1>13, <1>14, <1>15 DEF Next, Step

\* A step that overtakes no SDIPUP on its way to the DNS keeps DnsCore.
LEMMA DnsStep == ASSUME TypeOK, DnsCore, [Next]_vars, ~DnsOvertaken PROVE DnsCore'
<1> USE AddrAssumption DEF TypeOK, DnsCore, DnsOvertaken, Copies, DnsAgrees
<1>1. CASE UNCHANGED vars
  BY <1>1 DEF vars
<1>2. CASE provisioning
  BY <1>2 DEF provisioning, names
<1>3. ASSUME NEW w \in Worker, receive(w) PROVE DnsCore'
  BY <1>3 DEF receive, Goto, row, names
<1>4. ASSUME NEW w \in Worker, updateIP(w) PROVE DnsCore'
  BY <1>4 DEF updateIP, Goto, getSDinfo, ends, row, names
<1>5. ASSUME NEW w \in Worker, updateIP_check(w) PROVE DnsCore'
  BY <1>5 DEF updateIP_check, Goto, ends, row, names
<1>6. ASSUME NEW w \in Worker, updateIP_write(w) PROVE DnsCore'
  BY <1>6 DEF updateIP_write, Goto, ends, HA_SMSSQL_SetSDIPConfig,
     HA_SMSSQL_SetSDConnected, row, names
<1>7. ASSUME NEW w \in Worker, updateIP_log(w) PROVE DnsCore'
  BY <1>7 DEF updateIP_log, Goto, row, names
<1>8. ASSUME NEW w \in Worker, dnsUpdate(w) PROVE DnsCore'
  BY <1>8 DEF dnsUpdate, Goto, row, names
<1>9. ASSUME NEW w \in Worker, doSdIpUp(w) PROVE DnsCore'
  BY <1>9 DEF doSdIpUp, Goto, row, names
<1>10. ASSUME NEW w \in Worker, doIpDown(w) PROVE DnsCore'
  BY <1>10 DEF doIpDown, Goto, getSDinfo, ends, row, names
<1>11. ASSUME NEW w \in Worker, doIpDown_log(w) PROVE DnsCore'
  BY <1>11 DEF doIpDown_log, Goto, ends, row, names
<1>12. ASSUME NEW w \in Worker, doIpDown_set(w) PROVE DnsCore'
  BY <1>12 DEF doIpDown_set, Goto, ends, HA_SMSSQL_SetSDConnected, row, names
<1>13. ASSUME NEW w \in Worker, updateRouterIP(w) PROVE DnsCore'
  BY <1>13 DEF updateRouterIP, Goto, ends, row, names
<1>14. ASSUME NEW w \in Worker, getRouterIp(w) PROVE DnsCore'
  BY <1>14 DEF getRouterIp, Goto, getSDinfo, ends, row, names
<1>15. ASSUME NEW w \in Worker, sms_bd_set_ipconfig(w) PROVE DnsCore'
  BY <1>15 DEF sms_bd_set_ipconfig, Goto, ends, HA_SMSSQL_SetSDIPConfig, row,
     names
<1> HIDE DEF TypeOK, DnsCore, DnsOvertaken, Copies, DnsAgrees
<1> QED
  BY <1>1, <1>2, <1>3, <1>4, <1>5, <1>6, <1>7, <1>8, <1>9, <1>10, <1>11,
     <1>12, <1>13, <1>14, <1>15 DEF Next, Step

-----------------------------------------------------------------------------
\* The row of the SD and the locals of its handlers keep their types.
THEOREM TypeCorrect == Spec => []TypeOK
<1>1. TypeOK /\ [Next]_vars => TypeOK'
  BY TypeStep
<1> QED
  BY InitType, <1>1, PTL DEF Spec

\* However many messages of the device are handled at the same time, an SDIPUP that
\* ends is recorded, unless another handler changes the row after its getSDinfo:
\* no branch of updateIP, and no order of the messages, is a cause by itself.
THEOREM OnlyDisturbedUpsAreLost == Spec /\ [][~UpDisturbed]_vars => []UpRecorded
<1>1. Init => TypeOK /\ UpCore
  BY InitType DEF Init, UpCore
<1>2. TypeOK /\ UpCore /\ [Next]_vars /\ [~UpDisturbed]_vars => (TypeOK /\ UpCore)'
  <2> SUFFICES ASSUME TypeOK, UpCore, [Next]_vars, [~UpDisturbed]_vars PROVE UpCore'
    BY TypeStep
  <2>1. CASE UNCHANGED vars
    BY <2>1 DEF vars, UpCore
  <2>2. CASE ~UpDisturbed
    BY <2>2, UpStep
  <2> QED
    BY <2>1, <2>2
<1>3. UpCore => UpRecorded
  BY DEF UpCore, UpRecorded
<1> QED
  BY <1>1, <1>2, <1>3, PTL DEF Spec

\* An IPDOWN for an address the device no longer has is ignored, in whatever order
\* messages come and however many are handled at the same time, unless the
\* address changes between doIpDown's test and its write: the window ip_race shows
\* is the only one.
THEOREM OnlyOvertakenDownsDisconnect == Spec /\ [][~DownOvertaken]_vars => LateDownIgnored
<1>1. Init => TypeOK /\ DownCore
  BY InitType DEF Init, DownCore
<1>2. TypeOK /\ DownCore /\ [Next]_vars /\ [~DownOvertaken]_vars => (TypeOK /\ DownCore)'
  <2> SUFFICES ASSUME TypeOK, DownCore, [Next]_vars, [~DownOvertaken]_vars PROVE DownCore'
    BY TypeStep
  <2>1. CASE UNCHANGED vars
    BY <2>1 DEF vars, DownCore
  <2>2. CASE ~DownOvertaken
    BY <2>2, DownStep
  <2> QED
    BY <2>1, <2>2
<1>3. DownCore /\ [Next]_vars =>
        [\A w \in Worker : sd_connected /\ ~sd_connected' /\ pc[w] = "down_set" /\ pc'[w] = "idle"
           => sd_ip_config \in {ip[w], NoAddr}]_vars
  BY DEF DownCore
<1> QED
  BY <1>1, <1>2, <1>3, PTL DEF Spec, LateDownIgnored

\* The DNS follows the address of the SD, but for the changes it is not told of,
\* unless the address changes again between the write of an SDIPUP and its
\* dnsUpdate, which then tells the DNS the older one.
THEOREM OnlyOvertakenUpsMisleadDns == Spec /\ [][~DnsOvertaken]_vars => []DnsAgrees
<1>1. Init => TypeOK /\ DnsCore
  BY InitType DEF Init, DnsCore, DnsAgrees
<1>2. TypeOK /\ DnsCore /\ [Next]_vars /\ [~DnsOvertaken]_vars => (TypeOK /\ DnsCore)'
  <2> SUFFICES ASSUME TypeOK, DnsCore, [Next]_vars, [~DnsOvertaken]_vars PROVE DnsCore'
    BY TypeStep
  <2>1. CASE UNCHANGED vars
    BY <2>1 DEF vars, DnsCore, DnsAgrees
  <2>2. CASE ~DnsOvertaken
    BY <2>2, DnsStep
  <2> QED
    BY <2>1, <2>2
<1>3. DnsCore => DnsAgrees
  BY DEF DnsCore
<1> QED
  BY <1>1, <1>2, <1>3, PTL DEF Spec
===============================================================================
