------------------------------ MODULE Station ------------------------------
(***************************************************************************)
(* The address of the Wi-Fi station: driver events go through the event    *)
(* queue (components/esp8266/source/event_loop.c) to the default handlers  *)
(* (event_default_handlers.c), which drive the interface and the DHCP      *)
(* client (components/tcpip_adapter/tcpip_adapter_lwip.c).                 *)
(*                                                                         *)
(* Three tasks share the adapter's tables without a lock: the event task,  *)
(* which waits whenever it calls into lwIP; the FreeRTOS timer task, which *)
(* polls the DHCP client every 500 ms and can be interrupted anywhere; and *)
(* lwIP's thread with its DHCP client (lwip/src/core/ipv4/dhcp.c) and the  *)
(* "IP lost" timeout.  The driver is external: binary libraries.  The      *)
(* application leaves DHCP alone, or has stopped it and set a static       *)
(* address before it starts.                                               *)
(***************************************************************************)
EXTENDS Integers, Sequences

CONSTANTS
    Leases,         \* addresses the DHCP server hands out
    StaticIp,       \* the address set by tcpip_adapter_set_ip_info
    LeaseExpires,   \* a lease may end, or its renewal be refused
    QueueLen,       \* places in the event queue (32)
    MaxPolls,       \* polls for an address, CONFIG_IP_LOST_TIMER_INTERVAL * 1000 / 500
    MaxDriverEvents \* bound: events the driver posts

\* No server hands out 0.0.0.0, which stands for no address.
ASSUME StationAssumption == QueueLen \in Nat /\ 0 \notin Leases

VARIABLES
    wifi,           \* driver: "stopped", "started", "connected"
    driven,         \* driver events so far
    queue,          \* s_event_queue
    evpc,           \* event task: "wait" or the place in a default handler
    netif,          \* "none", "down", "up"
    addr,           \* netif->ip_addr, 0 for none
    dhcp,           \* lwIP's client: "none" (no data), "off", "discover", "bound"
    dhcpc_status,
    esp_ip,         \* address in use or to be used
    esp_ip_old,     \* address the application was told of
    lost_running,   \* esp_ip_lost_timer.timer_running, its timeout pending
    polling,        \* dhcp_check_timer is active
    dhcp_fail_time,
    tmpc,           \* timer task: place in tcpip_adapter_dhcpc_done
    clientdhcp,     \* its local variable: the client's data was there
    told,           \* ghost: the last address event sent, "none", "got" or "lost"
    dropped,        \* ghost: an event found the queue full
    raced           \* ghost: the address went while the timer task acted on an older view

adapterVars == <<netif, addr, dhcp, dhcpc_status, esp_ip, esp_ip_old, lost_running>>
timerVars   == <<polling, dhcp_fail_time, tmpc, clientdhcp>>
eventVars   == <<queue, told, dropped>>
driverVars  == <<wifi, driven>>
stationVars == <<driverVars, eventVars, evpc, adapterVars, timerVars, raced>>

\* ------------------------------------------------------------ event loop ----
\* esp_event_send does not wait: an event that finds the queue full is lost.
esp_event_send(events) ==
    /\ dropped' = (dropped \/ Len(queue) + Len(events) > QueueLen)
    /\ queue' = LET q == queue \o events
                IN  SubSeq(q, 1, IF Len(q) < QueueLen THEN Len(q) ELSE QueueLen)

Sends(event) == esp_event_send(<<event>>)
SendsNothing == UNCHANGED eventVars
SendsGotIp   == Sends("GOT_IP") /\ told' = "got"

\* ---------------------------------------------------------------- driver ----
DriverPosts(from, to, events) ==
    /\ wifi \in from /\ driven < MaxDriverEvents
    /\ wifi' = to /\ driven' = driven + 1
    /\ esp_event_send(events)
    /\ UNCHANGED <<told, evpc, adapterVars, timerVars>>

\* A station that is connected is disconnected before it stops.
DriverStart      == DriverPosts({"stopped"}, "started", <<"STA_START">>)
DriverConnects   == DriverPosts({"started"}, "connected", <<"STA_CONNECTED">>)
DriverDisconnects == DriverPosts({"started", "connected"}, "started", <<"STA_DISCONNECTED">>)
DriverStop ==
    \/ DriverPosts({"started"}, "stopped", <<"STA_STOP">>)
    \/ DriverPosts({"connected"}, "stopped", <<"STA_DISCONNECTED", "STA_STOP">>)

\* -------------------------------------------------------- IP lost timer ----
\* Mutant: it looks at the address in use.
StartsForIpInUse == lost_running' = (lost_running \/ (netif # "none" /\ esp_ip # 0))
tcpip_adapter_start_ip_lost_timer ==
    lost_running' = (lost_running \/ (netif # "none" /\ esp_ip_old # 0))

\* Mutant: the address the application was told of is kept.
KeepsOldIp == UNCHANGED esp_ip_old
ForgetsOldIp == esp_ip_old' = 0

\* The timeout, CONFIG_IP_LOST_TIMER_INTERVAL seconds after it was started.
tcpip_adapter_ip_lost_timer ==
    /\ lost_running
    /\ lost_running' = FALSE
    /\ IF netif = "none" \/ addr = 0
       THEN ForgetsOldIp /\ Sends("LOST_IP") /\ told' = "lost"
       ELSE UNCHANGED esp_ip_old /\ SendsNothing
    /\ UNCHANGED <<driverVars, evpc, netif, addr, dhcp, dhcpc_status, esp_ip, timerVars>>

\* --------------------------------------------- default handlers, event task ----
\* The event task takes the next event; the user's callback follows the handler.
TakeEvent(event) ==
    /\ evpc = "wait" /\ queue # <<>> /\ Head(queue) = event
    /\ queue' = Tail(queue)
    /\ UNCHANGED <<driverVars, dropped, timerVars>>

\* tcpip_adapter_start: netif_add takes the stored address over.
StaStart ==
    /\ TakeEvent("STA_START")
    /\ IF netif = "up" THEN UNCHANGED <<netif, addr>> ELSE netif' = "down" /\ addr' = esp_ip
    /\ UNCHANGED <<told, evpc, dhcp, dhcpc_status, esp_ip, esp_ip_old, lost_running>>

\* dhcp_release gives up the address only if it came from the client.
Released == IF dhcp = "bound" THEN 0 ELSE addr

\* tcpip_adapter_stop: the client is released, with it the address.
StaStop ==
    /\ TakeEvent("STA_STOP")
    /\ dhcp' = "none"
    /\ IF netif = "up"
       THEN /\ addr' = Released /\ dhcpc_status' = "INIT" /\ esp_ip' = 0
            /\ netif' = "down"
       ELSE UNCHANGED <<addr, dhcpc_status, esp_ip, netif>>
    /\ UNCHANGED <<told, evpc, esp_ip_old, lost_running>>

\* tcpip_adapter_up, unless there is no interface, and what depends on the client's
\* status: tcpip_adapter_dhcpc_start, or the static address.
StaConnected ==
    /\ evpc = "wait" /\ queue # <<>> /\ Head(queue) = "STA_CONNECTED"
    /\ netif' = IF netif = "none" THEN "none" ELSE "up"
    /\ \/ /\ dhcpc_status = "INIT"
          /\ queue' = Tail(queue)
          /\ esp_ip' = 0 /\ addr' = 0
          /\ tcpip_adapter_start_ip_lost_timer
          /\ evpc' = IF netif = "none" THEN "wait" ELSE "start_dhcp"
          /\ UNCHANGED <<told, esp_ip_old>>
       \/ /\ dhcpc_status = "STOPPED" /\ esp_ip # 0
          /\ addr' = IF netif = "none" THEN addr ELSE esp_ip
          /\ esp_ip_old' = esp_ip
          /\ queue' = Append(Tail(queue), "GOT_IP") /\ told' = "got"
          /\ UNCHANGED <<evpc, esp_ip, lost_running>>
       \/ /\ dhcpc_status = "STARTED" \/ (dhcpc_status = "STOPPED" /\ esp_ip = 0)
          /\ queue' = Tail(queue)
          /\ addr' = IF netif = "none" THEN addr ELSE esp_ip
          /\ UNCHANGED <<told, evpc, esp_ip, esp_ip_old, lost_running>>
    /\ UNCHANGED <<driverVars, dropped, dhcp, dhcpc_status, timerVars>>

\* The call into lwIP, and the rest of tcpip_adapter_dhcpc_start after it.
StartDhcp ==
    /\ evpc = "start_dhcp"
    /\ dhcp' = "discover"
    /\ evpc' = "started"
    /\ UNCHANGED <<driverVars, eventVars, netif, addr, dhcpc_status, esp_ip, esp_ip_old,
                   lost_running, timerVars>>

DhcpStarted ==
    /\ evpc = "started"
    /\ dhcp_fail_time' = 0 /\ polling' = TRUE
    /\ dhcpc_status' = "STARTED"
    /\ evpc' = "wait"
    /\ UNCHANGED <<driverVars, eventVars, netif, addr, dhcp, esp_ip, esp_ip_old, lost_running,
                   tmpc, clientdhcp>>

\* tcpip_adapter_down: a client that was started is stopped, a call into lwIP.
StaDisconnected ==
    /\ TakeEvent("STA_DISCONNECTED")
    /\ evpc' = IF netif = "none" THEN "wait" ELSE "down"
    /\ dhcp' = IF netif # "none" /\ dhcpc_status = "STARTED" /\ dhcp # "none"
               THEN "off" ELSE dhcp
    /\ UNCHANGED <<told, netif, addr, dhcpc_status, esp_ip, esp_ip_old, lost_running>>

TakeDown ==
    /\ evpc = "down"
    /\ IF dhcpc_status = "STARTED" THEN dhcpc_status' = "INIT" /\ esp_ip' = 0
                                   ELSE UNCHANGED <<dhcpc_status, esp_ip>>
    /\ addr' = 0 /\ netif' = "down"
    /\ tcpip_adapter_start_ip_lost_timer
    /\ evpc' = "wait"
    /\ UNCHANGED <<driverVars, eventVars, dhcp, esp_ip_old, timerVars>>

\* The default handlers of these two only log.
AddressEvent ==
    /\ TakeEvent("GOT_IP") \/ TakeEvent("LOST_IP")
    /\ UNCHANGED <<told, evpc, adapterVars>>

\* ------------------------------------------ tcpip_adapter_dhcpc_done, timer task ----
PollDhcp ==
    /\ tmpc = "wait" /\ polling
    /\ clientdhcp' = (dhcp # "none")
    /\ tmpc' = "stop"
    /\ UNCHANGED <<driverVars, eventVars, evpc, adapterVars, dhcp_fail_time, polling>>

\* xTimerStop and xTimerReset queue commands that are obeyed in order: this one
\* also stops a timer the event task has just reset.
StopPolling ==
    /\ tmpc = "stop"
    /\ polling' = FALSE
    /\ tmpc' = "look"
    /\ UNCHANGED <<driverVars, eventVars, evpc, adapterVars, dhcp_fail_time, clientdhcp>>

\* "fault": the client's data is read through a null pointer.
LookAtNetif ==
    /\ tmpc = "look"
    /\ CASE netif # "up" -> tmpc' = "release" /\ dhcp_fail_time' = 0 /\ UNCHANGED polling
         [] netif = "up" /\ ~clientdhcp ->
                tmpc' = "fault" /\ UNCHANGED <<dhcp_fail_time, polling>>
         [] netif = "up" /\ clientdhcp /\ dhcp = "bound" ->
                tmpc' = "callback" /\ UNCHANGED <<dhcp_fail_time, polling>>
         [] netif = "up" /\ clientdhcp /\ dhcp # "bound" ->
                /\ tmpc' = "wait"
                /\ IF dhcp_fail_time < MaxPolls
                   THEN dhcp_fail_time' = dhcp_fail_time + 1 /\ polling' = TRUE
                   ELSE dhcp_fail_time' = 0 /\ UNCHANGED polling
    /\ UNCHANGED <<driverVars, eventVars, evpc, adapterVars, clientdhcp>>

\* The interface is down: the client is released, then forgotten.
ReleaseDhcp ==
    /\ tmpc = "release"
    /\ addr' = Released
    /\ dhcp' = "none"
    /\ tmpc' = "forget"
    /\ UNCHANGED <<driverVars, eventVars, evpc, netif, dhcpc_status, esp_ip, esp_ip_old,
                   lost_running, polling, dhcp_fail_time, clientdhcp>>

ForgetDhcp ==
    /\ tmpc = "forget"
    /\ dhcpc_status' = "INIT" /\ esp_ip' = 0
    /\ tmpc' = "wait"
    /\ UNCHANGED <<driverVars, eventVars, evpc, netif, addr, dhcp, esp_ip_old, lost_running,
                   polling, dhcp_fail_time, clientdhcp>>

\* tcpip_adapter_dhcpc_cb: a new address is stored, recorded as told, and sent.
StoreAddress ==
    /\ tmpc = "callback"
    /\ IF addr # 0
       THEN UNCHANGED lost_running
       ELSE IF esp_ip # 0 THEN tcpip_adapter_start_ip_lost_timer ELSE UNCHANGED lost_running
    /\ IF addr # 0 /\ addr # esp_ip
       THEN esp_ip' = addr /\ tmpc' = "record" /\ UNCHANGED dhcp_fail_time
       ELSE tmpc' = "wait" /\ dhcp_fail_time' = 0 /\ UNCHANGED esp_ip
    /\ UNCHANGED <<driverVars, eventVars, evpc, netif, addr, dhcp, dhcpc_status, esp_ip_old,
                   polling, clientdhcp>>

RecordAddress ==
    /\ tmpc = "record"
    /\ esp_ip_old' = esp_ip
    /\ tmpc' = "send"
    /\ UNCHANGED <<driverVars, eventVars, evpc, netif, addr, dhcp, dhcpc_status, esp_ip,
                   lost_running, polling, dhcp_fail_time, clientdhcp>>

SendAddress ==
    /\ tmpc = "send"
    /\ SendsGotIp
    /\ tmpc' = "wait" /\ dhcp_fail_time' = 0
    /\ UNCHANGED <<driverVars, evpc, adapterVars, polling, clientdhcp>>

\* ------------------------------------------------- lwIP's DHCP client ----
\* dhcp_bind, when the server acknowledges or the ARP check of the address ends.
DhcpBound ==
    /\ dhcp = "discover" /\ netif = "up"
    /\ dhcp' = "bound"
    /\ addr' \in Leases
    /\ UNCHANGED <<driverVars, eventVars, evpc, netif, dhcpc_status, esp_ip, esp_ip_old,
                   lost_running, timerVars>>

\* dhcp_coarse_tmr finds the lease over, or dhcp_handle_nak the renewal refused: no
\* callback is called.
LeaseEnds ==
    /\ LeaseExpires
    /\ dhcp = "bound" /\ netif = "up"
    /\ dhcp' = "discover" /\ addr' = 0
    /\ UNCHANGED <<driverVars, eventVars, evpc, netif, dhcpc_status, esp_ip, esp_ip_old,
                   lost_running, timerVars>>

\* -------------------------------------------------------------------------
StInit ==
    /\ wifi = "stopped" /\ driven = 0
    /\ queue = <<>> /\ told = "none" /\ dropped = FALSE /\ raced = FALSE
    /\ evpc = "wait"
    /\ netif = "none" /\ addr = 0 /\ dhcp = "none"
    /\ \/ dhcpc_status = "INIT" /\ esp_ip = 0
       \/ dhcpc_status = "STOPPED" /\ esp_ip = StaticIp
    /\ esp_ip_old = 0 /\ lost_running = FALSE
    /\ polling = FALSE /\ dhcp_fail_time = 0 /\ tmpc = "wait" /\ clientdhcp = FALSE

EventTask == StaStart \/ StaStop \/ StaConnected \/ StartDhcp \/ DhcpStarted
             \/ StaDisconnected \/ TakeDown \/ AddressEvent
TimerTask == PollDhcp \/ StopPolling \/ LookAtNetif \/ ReleaseDhcp \/ ForgetDhcp
             \/ StoreAddress \/ RecordAddress \/ SendAddress
LwipThread == DhcpBound \/ LeaseEnds \/ tcpip_adapter_ip_lost_timer
Driver == DriverStart \/ DriverConnects \/ DriverDisconnects \/ DriverStop

\* After a fault the chip starts anew.
StNext ==
    /\ tmpc # "fault"
    /\ EventTask \/ TimerTask \/ LwipThread \/ Driver
    /\ raced' = (raced \/ (tmpc \in {"record", "send", "release"} /\ addr # 0 /\ addr' = 0))

StSpec == StInit /\ [][StNext]_stationVars

\* ------------------------------------------------------------ properties ----
\* tcpip_adapter/Kconfig:12: the IP lost timer is "started everytime the IP is
\* lost".  Whenever the application was told of an address and the interface has
\* none, the timer runs, whatever the three tasks were doing.  Excepted are an event
\* that found the queue full, and an address that goes while the timer task is
\* between looking at the interface and telling of the address or releasing it.
LossReported ==
    told = "got" /\ addr = 0 /\ ~dropped /\ ~raced => lost_running

\* SYSTEM_EVENT_STA_LOST_IP follows an address the application was told of and is
\* not repeated, however often the driver fails to reconnect (same exception).
LostOnce ==
    [][tcpip_adapter_ip_lost_timer /\ told' = "lost" /\ ~raced => told = "got"]_stationVars
=============================================================================
