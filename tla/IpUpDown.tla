------------------------------- MODULE IpUpDown -------------------------------
(***************************************************************************)
(* The address and the connected flag of one SD: the verbs SDIPUP, IPDOWN, *)
(* PPPIPUP and GETROUTERIP, and the call sms_bd_set_ipconfig of a script.  *)
(* Each runs in a task of its own; messages of a device may be handled in  *)
(* any order and at the same time.  A handler reads the row of the SD      *)
(* once (getSDinfo), decides on this copy, and writes later.               *)
(***************************************************************************)
EXTENDS Naturals

CONSTANTS Worker,  \* the tasks
          Addr,    \* addresses
          NoAddr,  \* the empty string of the column sd_ip_config
          Verbs    \* what the tasks do

ASSUME AddrAssumption ==
  /\ NoAddr \notin Addr
  /\ Verbs \subseteq {"SDIPUP", "IPDOWN", "PPPIPUP", "GETROUTERIP", "set_ipconfig"}

VARIABLES
  sd_ip_config,  \* the columns of the SD
  sd_connected,
  sd_prov_lock,
  int_ip_type,   \* of its external interface: S (static) or D
  dns,           \* the address the DNS has for the SD
  dns_missed,    \* the DNS was not told of the last change: a script made it, or
                 \* the log or the DNS script failed
  pc,            \* [Worker -> Labels]
  ip,            \* [Worker -> Addr], the address in the message
  SD             \* [Worker -> the copy of the row made by getSDinfo]

vars == <<sd_ip_config, sd_connected, sd_prov_lock, int_ip_type, dns, dns_missed,
          pc, ip, SD>>
row == <<sd_ip_config, sd_connected, sd_prov_lock, int_ip_type>>
names == <<dns, dns_missed>>

Labels == {"idle", "SDIPUP", "up_check", "up_write", "up_log", "up_dns", "up_done",
           "IPDOWN", "down_log", "down_set", "PPPIPUP", "GETROUTERIP", "set_ipconfig"}
Copies == [sd_ip_config : Addr \cup {NoAddr}, sd_connected : BOOLEAN, sd_prov_lock : BOOLEAN]

TypeOK ==
  /\ sd_ip_config \in Addr \cup {NoAddr}
  /\ sd_connected \in BOOLEAN
  /\ sd_prov_lock \in BOOLEAN
  /\ int_ip_type \in {"S", "D"}
  /\ dns \in Addr \cup {NoAddr}
  /\ dns_missed \in BOOLEAN
  /\ pc \in [Worker -> Labels]
  /\ ip \in [Worker -> Addr]
  /\ SD \in [Worker -> Copies]

\* A device that has never connected.
Init ==
  /\ sd_ip_config = NoAddr
  /\ sd_connected = FALSE
  /\ sd_prov_lock \in BOOLEAN
  /\ int_ip_type \in {"S", "D"}
  /\ dns = NoAddr
  /\ dns_missed = FALSE
  /\ pc = [w \in Worker |-> "idle"]
  /\ ip \in [Worker -> Addr]
  /\ SD = [w \in Worker |-> [sd_ip_config |-> NoAddr, sd_connected |-> FALSE,
                             sd_prov_lock |-> FALSE]]

-----------------------------------------------------------------------------
Goto(w, next) == pc' = [pc EXCEPT ![w] = next]

\* A task starts on a message of the device, an operator or a script.
receive(w) ==
  /\ pc[w] = "idle"
  /\ \E verb \in Verbs : Goto(w, verb)
  /\ \E a \in Addr : ip' = [ip EXCEPT ![w] = a]
  /\ UNCHANGED <<row, names, SD>>

\* lockProvisioning, unlockProvisioning: see SDLock.
provisioning ==
  /\ sd_prov_lock' = ~sd_prov_lock
  /\ UNCHANGED <<sd_ip_config, sd_connected, int_ip_type, names, pc, ip, SD>>

getSDinfo(w) ==
  SD' = [SD EXCEPT ![w] = [sd_ip_config |-> sd_ip_config, sd_connected |-> sd_connected,
                           sd_prov_lock |-> sd_prov_lock]]

\* Mutant: the two values of the statement are bound in the wrong order.
Mut_SetSDIPConfig(a) == sd_ip_config' = TRUE /\ sd_connected' = a

HA_SMSSQL_SetSDIPConfig(a) == sd_ip_config' = a /\ sd_connected' = TRUE
HA_SMSSQL_SetSDConnected(flag) == sd_connected' = flag /\ UNCHANGED sd_ip_config

\* A verb ends: a statement or a script has failed, or there is nothing to do.
ends(w) == Goto(w, "idle") /\ UNCHANGED <<row, names>>

-----------------------------------------------------------------------------
(***************************************************************************)
(* doSdIpUp and updateIP.                                                  *)
(***************************************************************************)
updateIP(w) ==
  /\ pc[w] = "SDIPUP"
  /\ getSDinfo(w)
  /\ \/ Goto(w, "up_check") /\ UNCHANGED <<row, names>>
     \/ ends(w)
  /\ UNCHANGED ip

\* The gates: provisioning not done, no external interface, serial number.
updateIP_check(w) ==
  /\ pc[w] = "up_check"
  /\ \/ ~SD[w].sd_prov_lock /\ Goto(w, "up_write") /\ UNCHANGED <<row, names>>
     \/ ends(w)
  /\ UNCHANGED <<ip, SD>>

\* Mutant: the connected flag is forgotten when the address has not changed.
Mut_updateIP_write(w) ==
  /\ pc[w] = "up_write"
  /\ \/ ends(w)
     \/ /\ ip[w] # SD[w].sd_ip_config /\ int_ip_type # "S"
        /\ HA_SMSSQL_SetSDIPConfig(ip[w])
        /\ Goto(w, "up_log")
        /\ UNCHANGED <<sd_prov_lock, int_ip_type, names>>
     \/ /\ ip[w] = SD[w].sd_ip_config \/ int_ip_type = "S"
        /\ Goto(w, "up_done")
        /\ UNCHANGED <<row, names>>
  /\ UNCHANGED <<ip, SD>>

\* A new address is stored unless the interface is static; a known one only
\* raises the flag, if the copy says it is down.
updateIP_write(w) ==
  /\ pc[w] = "up_write"
  /\ \/ ends(w)
     \/ /\ ip[w] # SD[w].sd_ip_config /\ int_ip_type # "S"
        /\ HA_SMSSQL_SetSDIPConfig(ip[w])
        /\ Goto(w, "up_log")
        /\ UNCHANGED <<sd_prov_lock, int_ip_type, names>>
     \/ /\ ip[w] = SD[w].sd_ip_config /\ ~SD[w].sd_connected
        /\ HA_SMSSQL_SetSDConnected(TRUE)
        /\ Goto(w, "up_done")
        /\ UNCHANGED <<sd_prov_lock, int_ip_type, names>>
     \/ /\ IF ip[w] = SD[w].sd_ip_config THEN SD[w].sd_connected ELSE int_ip_type = "S"
        /\ Goto(w, "up_done")
        /\ UNCHANGED <<row, names>>
  /\ UNCHANGED <<ip, SD>>

\* Mutant: dnsUpdate is not called.
Mut_updateIP_log(w) ==
  /\ pc[w] = "up_log"
  /\ \/ Goto(w, "up_done") /\ UNCHANGED names
     \/ Goto(w, "idle") /\ dns_missed' = TRUE /\ UNCHANGED dns
  /\ UNCHANGED <<row, ip, SD>>

\* set_log_by_id; if it fails the DNS is not updated.
updateIP_log(w) ==
  /\ pc[w] = "up_log"
  /\ \/ Goto(w, "up_dns") /\ UNCHANGED names
     \/ Goto(w, "idle") /\ dns_missed' = TRUE /\ UNCHANGED dns
  /\ UNCHANGED <<row, ip, SD>>

\* The result of the script is ignored.
dnsUpdate(w) ==
  /\ pc[w] = "up_dns"
  /\ Goto(w, "up_done")
  /\ \/ dns' = ip[w] /\ dns_missed' = FALSE
     \/ dns_missed' = TRUE /\ UNCHANGED dns
  /\ UNCHANGED <<row, ip, SD>>

doSdIpUp(w) == pc[w] = "up_done" /\ Goto(w, "idle") /\ UNCHANGED <<row, names, ip, SD>>

-----------------------------------------------------------------------------
(***************************************************************************)
(* doIpDown.                                                               *)
(***************************************************************************)
\* Mutant: the address of the message is not compared.
Mut_doIpDown(w) ==
  /\ pc[w] = "IPDOWN"
  /\ getSDinfo(w)
  /\ \/ sd_connected /\ Goto(w, "down_log") /\ UNCHANGED <<row, names>>
     \/ ends(w)
  /\ UNCHANGED ip

\* Nothing to do for an SD that is not connected, or is connected with another
\* address.
doIpDown(w) ==
  /\ pc[w] = "IPDOWN"
  /\ getSDinfo(w)
  /\ \/ /\ sd_connected /\ sd_ip_config \in {ip[w], NoAddr}
        /\ Goto(w, "down_log") /\ UNCHANGED <<row, names>>
     \/ ends(w)
  /\ UNCHANGED ip

doIpDown_log(w) ==
  /\ pc[w] = "down_log"
  /\ \/ Goto(w, "down_set") /\ UNCHANGED <<row, names>>
     \/ ends(w)
  /\ UNCHANGED <<ip, SD>>

doIpDown_set(w) ==
  /\ pc[w] = "down_set"
  /\ \/ /\ HA_SMSSQL_SetSDConnected(FALSE)
        /\ Goto(w, "idle") /\ UNCHANGED <<sd_prov_lock, int_ip_type, names>>
     \/ ends(w)
  /\ UNCHANGED <<ip, SD>>

-----------------------------------------------------------------------------
(***************************************************************************)
(* The others.                                                             *)
(***************************************************************************)
\* PPPIPUP: updateRouterIP asks getSDinfo for the SD whose id it has just filled
\* with zeros, finds none and gives up.
updateRouterIP(w) == pc[w] = "PPPIPUP" /\ ends(w) /\ UNCHANGED <<ip, SD>>

\* GETROUTERIP reads sd_ip_config, or the address of the interface if it is empty.
getRouterIp(w) ==
  pc[w] = "GETROUTERIP" /\ getSDinfo(w) /\ ends(w) /\ UNCHANGED ip

\* A script stores the address it has found; the DNS is not told.
sms_bd_set_ipconfig(w) ==
  /\ pc[w] = "set_ipconfig"
  /\ \/ /\ HA_SMSSQL_SetSDIPConfig(ip[w])
        /\ dns_missed' = TRUE
        /\ Goto(w, "idle") /\ UNCHANGED <<sd_prov_lock, int_ip_type, dns>>
     \/ ends(w)
  /\ UNCHANGED <<ip, SD>>

Step(w) ==
  \/ receive(w) \/ updateIP(w) \/ updateIP_check(w) \/ updateIP_write(w)
  \/ updateIP_log(w) \/ dnsUpdate(w) \/ doSdIpUp(w) \/ doIpDown(w) \/ doIpDown_log(w)
  \/ doIpDown_set(w) \/ updateRouterIP(w) \/ getRouterIp(w) \/ sms_bd_set_ipconfig(w)

Next == provisioning \/ \E w \in Worker : Step(w)

Spec == Init /\ [][Next]_vars

-----------------------------------------------------------------------------
\* What doIpDown's test is for ("the address of the IPdown and the previous IPup
\* is the same there is no race condition beetween a down and a UP"): an IPDOWN
\* that arrives late, after the device came back with another address, never
\* marks it disconnected.
LateDownIgnored ==
  [][\A w \in Worker : sd_connected /\ ~sd_connected' /\ pc[w] = "down_set" /\ pc'[w] = "idle"
       => sd_ip_config \in {ip[w], NoAddr}]_vars

\* An SDIPUP that comes to its end leaves the device connected with the address
\* of the message, unless the address of a static interface is another one.
UpRecorded ==
  \A w \in Worker : pc[w] = "up_done" =>
    \/ sd_connected /\ sd_ip_config = ip[w]
    \/ int_ip_type = "S" /\ ip[w] # sd_ip_config

\* Unless an SDIPUP that has stored its address is on its way to the DNS, the DNS
\* has the address of the SD: every change is followed by a dnsUpdate with the
\* same address, except one whose log or DNS script failed or that a script made.
DnsAgrees ==
  \/ dns = sd_ip_config
  \/ dns_missed
  \/ \E w \in Worker : pc[w] \in {"up_log", "up_dns"}
===============================================================================
