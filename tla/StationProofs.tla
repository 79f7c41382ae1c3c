---------------------------- MODULE StationProofs ----------------------------
(* Theorems about Station, for any addresses, length of the queue and       *)
(* number of polls and driver events.                                       *)
EXTENDS Station, TLAPS

USE StationAssumption

Events == {"STA_START", "STA_STOP", "STA_CONNECTED", "STA_DISCONNECTED", "GOT_IP", "LOST_IP"}

\* Type correctness, of the variables that the proofs read.
STypeOK ==
    /\ wifi \in {"stopped", "started", "connected"}
    /\ queue \in Seq(Events)
    /\ evpc \in {"wait", "start_dhcp", "started", "down"}
    /\ netif \in {"none", "down", "up"}
    /\ dhcpc_status \in {"INIT", "STARTED", "STOPPED"}
    /\ tmpc \in {"wait", "stop", "look", "fault", "callback", "release", "forget",
                 "record", "send"}
    /\ {polling, lost_running, dropped, raced} \subseteq BOOLEAN

\* The k-th event in the queue brings the interface up; the 0-th stands for the
\* events taken so far.
Links(k) == IF k = 0 THEN netif = "up" /\ evpc # "down" ELSE queue[k] = "STA_CONNECTED"

\* The driver disconnects a station before it connects it again or stops it: a
\* disconnection lies between the two in the queue.
QueueOrder ==
    \A k \in 0..Len(queue) : Links(k) =>
        /\ \A i \in (k + 1)..Len(queue) :
              queue[i] \in {"STA_CONNECTED", "STA_STOP"} =>
                  \E j \in (k + 1)..(i - 1) : queue[j] = "STA_DISCONNECTED"
        /\ wifi # "connected" =>
              \E j \in (k + 1)..Len(queue) : queue[j] = "STA_DISCONNECTED"

\* The driver starts the station before anything else.
StartOrder ==
    netif = "none" =>
        /\ wifi # "stopped" => \E j \in 1..Len(queue) : queue[j] = "STA_START"
        /\ \A i \in 1..Len(queue) : queue[i] = "STA_CONNECTED" =>
              \E j \in 1..(i - 1) : queue[j] = "STA_START"

\* Before the interface is there nothing runs.
NothingYet ==
    netif = "none" => /\ evpc = "wait" /\ tmpc = "wait" /\ ~polling
                      /\ addr = 0 /\ told # "got" /\ dhcpc_status # "STARTED"

\* What the client's status says of the interface and of the timer task.
StatusSound ==
    /\ evpc \in {"start_dhcp", "started"} => netif = "up" /\ dhcpc_status = "INIT"
    /\ dhcpc_status = "STARTED" => netif = "up"
    /\ dhcpc_status = "STOPPED" => /\ tmpc = "wait" /\ ~polling
                                   /\ esp_ip = 0 => told # "got"

\* The stored address and the timer task's work, when the client has not been started.
StoredSound ==
    /\ netif = "down" => addr \in {0, esp_ip}
    /\ dhcpc_status = "INIT" /\ evpc \in {"wait", "down"} =>
          /\ esp_ip # 0 => ~polling /\ tmpc \in {"wait", "record", "send"}
          /\ tmpc \in {"look", "callback"} /\ polling => netif = "down"

\* While the timer task tells of an address, the address is there and stored.
TellingSound ==
    /\ tmpc = "record" => addr # 0 /\ esp_ip # 0
    /\ tmpc = "send" => addr # 0 /\ esp_ip_old # 0
    /\ told = "got" => esp_ip_old # 0

\* What holds as long as no event is dropped and no address goes unseen.
Sound == QueueOrder /\ StartOrder /\ NothingYet /\ StatusSound /\ StoredSound /\ TellingSound
         /\ LossReported

\* The inductive invariant.
SInv == STypeOK /\ (~dropped /\ ~raced => Sound)

\* Such a state, and a step that does not end it.
Undisturbed ==
    /\ STypeOK /\ ~dropped /\ ~raced /\ Sound
    /\ ~dropped' /\ ~raced'
    /\ tmpc \in {"record", "send", "release"} /\ addr # 0 => addr' # 0

\* esp_event_send appends the events or records that one was dropped (event_loop.c:70).
LEMMA EventsSent ==
  ASSUME STypeOK, NEW e \in Seq(Events), esp_event_send(e)
  PROVE  queue' \in Seq(Events) /\ (~dropped' => ~dropped /\ queue' = queue \o e)
<1> DEFINE q == queue \o e
<1>1. q \in Seq(Events) /\ Len(q) = Len(queue) + Len(e) /\ QueueLen \in Nat
  BY DEF STypeOK
<1>2. queue' = SubSeq(q, 1, IF Len(q) < QueueLen THEN Len(q) ELSE QueueLen)
  BY DEF esp_event_send
<1>3. ~dropped' => ~dropped /\ ~(Len(queue) + Len(e) > QueueLen)
  BY Zenon DEF esp_event_send
<1>4. ~(Len(queue) + Len(e) > QueueLen) => Len(q) <= QueueLen
  BY <1>1 DEF STypeOK
<1> HIDE DEF q
<1>5. queue' \in Seq(Events)
  BY <1>1, <1>2
<1>6. Len(q) <= QueueLen => queue' = q
  BY <1>1, <1>2
<1> QED BY <1>3, <1>4, <1>5, <1>6, Zenon DEF q

\* The order of the driver's events survives a step that takes d events (none or one)
\* from the queue and adds none that connects, disconnects or stops.
LEMMA OrderKept ==
  ASSUME STypeOK, QueueOrder, queue' \in Seq(Events), NEW d \in {0, 1},
         d <= Len(queue), Len(queue') >= Len(queue) - d,
         \A i \in 1..(Len(queue) - d) : queue'[i] = queue[i + d],
         \A i \in (Len(queue) - d + 1)..Len(queue') :
             queue'[i] \notin {"STA_CONNECTED", "STA_STOP", "STA_DISCONNECTED"},
         Links(0)' => Links(d) \/ (Links(0) /\ (d = 1 => queue[1] # "STA_DISCONNECTED")),
         wifi' = wifi \/ (wifi # "connected" /\ wifi' # "connected")
  PROVE  QueueOrder'
<1> DEFINE n == Len(queue)
<1>1. n \in Nat /\ Len(queue') \in Nat /\ d \in Nat
  BY DEF STypeOK
<1> SUFFICES ASSUME NEW k \in 0..Len(queue'), Links(k)'
             PROVE  /\ \A i \in (k + 1)..Len(queue') :
                          queue'[i] \in {"STA_CONNECTED", "STA_STOP"} =>
                              \E j \in (k + 1)..(i - 1) : queue'[j] = "STA_DISCONNECTED"
                    /\ wifi' # "connected" =>
                          \E j \in (k + 1)..Len(queue') : queue'[j] = "STA_DISCONNECTED"
  BY DEF QueueOrder
<1>2. PICK m \in 0..n : /\ Links(m) /\ m <= k + d
                        /\ \A j \in (m + 1)..n : queue[j] = "STA_DISCONNECTED" => j > k + d
  <2>1. CASE k = 0
    <3>1. CASE Links(d)
      BY <1>1, <2>1, <3>1
    <3>2. CASE Links(0) /\ (d = 1 => queue[1] # "STA_DISCONNECTED")
      BY <1>1, <2>1, <3>2
    <3> QED BY <2>1, <3>1, <3>2
  <2>2. CASE k # 0
    <3>1. queue'[k] = "STA_CONNECTED"
      BY <2>2 DEF Links
    <3>2. k \in 1..(n - d) /\ k + d \in 1..n
      BY <1>1, <2>2, <3>1
    <3>3. Links(k + d)
      BY <3>1, <3>2 DEF Links
    <3> QED BY <1>1, <3>2, <3>3
  <2> QED BY <2>1, <2>2
<1>3. ASSUME NEW i \in (k + 1)..Len(queue'), queue'[i] \in {"STA_CONNECTED", "STA_STOP"}
      PROVE  \E j \in (k + 1)..(i - 1) : queue'[j] = "STA_DISCONNECTED"
  <2>1. i \in 1..(n - d)
    BY <1>1, <1>3
  <2>2. i + d \in (m + 1)..n /\ queue[i + d] = queue'[i]
    BY <1>1, <1>2, <1>3, <2>1
  <2>3. PICK j \in (m + 1)..(i + d - 1) : queue[j] = "STA_DISCONNECTED"
    BY <1>2, <1>3, <2>2 DEF QueueOrder
  <2>4. j - d \in (k + 1)..(i - 1) /\ j - d \in 1..(n - d) /\ j = (j - d) + d
    BY <1>1, <1>2, <2>1, <2>2, <2>3
  <2> QED BY <2>3, <2>4
<1>4. ASSUME wifi' # "connected"
      PROVE  \E j \in (k + 1)..Len(queue') : queue'[j] = "STA_DISCONNECTED"
  <2>1. PICK j \in (m + 1)..n : queue[j] = "STA_DISCONNECTED"
    BY <1>2, <1>4 DEF QueueOrder
  <2>2. j - d \in (k + 1)..Len(queue') /\ j - d \in 1..(n - d) /\ j = (j - d) + d
    BY <1>1, <1>2, <2>1
  <2> QED BY <2>1, <2>2
<1> QED BY <1>3, <1>4

\* An event that stays in the queue or is taken; and those that only tell.
LEMMA OrderKeptTail ==
  ASSUME STypeOK, QueueOrder, NEW event, TakeEvent(event),
         Links(0)' => Links(0) /\ event # "STA_DISCONNECTED"
  PROVE  QueueOrder'
<1>1. queue \in Seq(Events) /\ queue # <<>> /\ queue[1] = event /\ queue' = Tail(queue)
  BY DEF STypeOK, TakeEvent
<1>2. /\ queue' \in Seq(Events) /\ 1 <= Len(queue) /\ Len(queue') = Len(queue) - 1
      /\ \A i \in 1..(Len(queue) - 1) : queue'[i] = queue[i + 1]
  BY <1>1
<1>3. wifi' = wifi
  BY DEF TakeEvent, driverVars
<1>4. \A i \in (Len(queue) - 1 + 1)..Len(queue') : FALSE
  BY <1>1, <1>2
<1> QED BY <1>1, <1>2, <1>3, <1>4, OrderKept

\* The station's events: the address it got or lost comes last.
LEMMA OrderKeptSend ==
  ASSUME STypeOK, QueueOrder, NEW event \in {"GOT_IP", "LOST_IP", "STA_START"},
         queue' = queue \o <<event>>, Links(0)' => Links(0),
         wifi' = wifi \/ (wifi # "connected" /\ wifi' # "connected")
  PROVE  QueueOrder'
<1>1. queue \in Seq(Events)
  BY DEF STypeOK
<1>2. /\ queue' \in Seq(Events) /\ Len(queue') = Len(queue) + 1
      /\ \A i \in 1..Len(queue) : queue'[i] = queue[i]
      /\ queue'[Len(queue) + 1] = event
  BY <1>1 DEF Events
<1>3. \A i \in 1..(Len(queue) - 0) : queue'[i] = queue[i + 0]
  BY <1>1, <1>2
<1>4. \A i \in (Len(queue) - 0 + 1)..Len(queue') : queue'[i] = event
  BY <1>1, <1>2
<1>5. 0 <= Len(queue) /\ Len(queue') >= Len(queue) - 0
  BY <1>1, <1>2
<1> QED BY <1>2, <1>3, <1>4, <1>5, OrderKept

\* A step that leaves the queue and the driver alone and brings nothing up.
LEMMA OrderKeptQuiet ==
  ASSUME STypeOK, QueueOrder, UNCHANGED <<queue, wifi>>, Links(0)' => Links(0)
  PROVE  QueueOrder'
  BY DEF QueueOrder, Links

\* The driver posts a connection only to a station that is not connected, and a stop
\* only after a disconnection: the order of its events is kept.
LEMMA OrderKeptDriver ==
  ASSUME STypeOK, QueueOrder, Links(0)' => Links(0), NEW e \in Seq(Events), queue' = queue \o e,
         \/ wifi # "connected" /\ e \in {<<"STA_CONNECTED">>, <<"STA_STOP">>, <<"STA_DISCONNECTED">>}
         \/ e \in {<<"STA_DISCONNECTED">>, <<"STA_DISCONNECTED", "STA_STOP">>},
         wifi' # "connected" => e # <<"STA_CONNECTED">>
  PROVE  QueueOrder'
<1> DEFINE n == Len(queue)
<1>1. /\ n \in Nat /\ Len(e) \in {1, 2} /\ Len(queue') = n + Len(e)
      /\ \A i \in 1..n : queue'[i] = queue[i]
      /\ \A i \in (n + 1)..Len(queue') : queue'[i] = e[i - n]
  BY DEF STypeOK
<1>2. /\ e[1] \in {"STA_CONNECTED", "STA_STOP", "STA_DISCONNECTED"}
      /\ e[1] \in {"STA_CONNECTED", "STA_STOP"} => wifi # "connected" /\ Len(e) = 1
      /\ Len(e) = 2 => e[2] = "STA_STOP"
      /\ e[1] = "STA_CONNECTED" => wifi' = "connected"
      /\ e[1] = "STA_STOP" => wifi # "connected"
  <2>1. CASE e = <<"STA_CONNECTED">>
    BY <2>1
  <2>2. CASE e = <<"STA_STOP">>
    BY <2>2
  <2>3. CASE e = <<"STA_DISCONNECTED">>
    BY <2>3
  <2>4. CASE e = <<"STA_DISCONNECTED", "STA_STOP">>
    BY <2>4
  <2> QED BY <2>1, <2>2, <2>3, <2>4
<1>3. queue'[n + 1] = e[1] /\ (Len(e) = 2 => queue'[n + 2] = e[2])
  BY <1>1
<1> SUFFICES ASSUME NEW k \in 0..Len(queue'), Links(k)'
             PROVE  /\ \A i \in (k + 1)..Len(queue') :
                          queue'[i] \in {"STA_CONNECTED", "STA_STOP"} =>
                              \E j \in (k + 1)..(i - 1) : queue'[j] = "STA_DISCONNECTED"
                    /\ wifi' # "connected" =>
                          \E j \in (k + 1)..Len(queue') : queue'[j] = "STA_DISCONNECTED"
  BY DEF QueueOrder
<1>4. CASE k = n + 1
  BY <1>1, <1>2, <1>3, <1>4 DEF Links
<1>5. CASE k <= n
  <2>1. Links(k)
    BY <1>1, <1>5 DEF Links
  <2>2. \A i \in (k + 1)..n : queue'[i] \in {"STA_CONNECTED", "STA_STOP"} =>
            \E j \in (k + 1)..(i - 1) : queue'[j] = "STA_DISCONNECTED"
    BY <1>1, <1>5, <2>1, SMTT(30) DEF QueueOrder
  <2>3. wifi # "connected" => \E j \in (k + 1)..n : queue'[j] = "STA_DISCONNECTED"
    BY <1>1, <1>5, <2>1 DEF QueueOrder
  <2> QED BY <1>1, <1>2, <1>3, <1>5, <2>2, <2>3, SMTT(30)
<1>6. k <= n \/ k = n + 1 \/ (k = n + 2 /\ Len(e) = 2)
  BY <1>1
<1>7. CASE k = n + 2 /\ Len(e) = 2
  BY <1>1, <1>2, <1>3, <1>7 DEF Links
<1> QED BY <1>4, <1>5, <1>6, <1>7

\* Nothing is taken before the station's start, which makes the interface.
LEMMA StartKeptTail ==
  ASSUME STypeOK, StartOrder, NEW event, TakeEvent(event),
         netif' = netif, event # "STA_START" \/ netif # "none"
  PROVE  StartOrder'
<1>1. queue \in Seq(Events) /\ queue # <<>> /\ queue[1] = event /\ queue' = Tail(queue)
      /\ wifi' = wifi
  BY DEF STypeOK, TakeEvent, driverVars
<1>2. /\ Len(queue) \in Nat /\ Len(queue') = Len(queue) - 1
      /\ \A i \in 1..Len(queue') : queue'[i] = queue[i + 1]
  BY <1>1
<1>3. ASSUME netif = "none", NEW i \in 1..Len(queue), queue[i] = "STA_START"
      PROVE  i - 1 \in 1..Len(queue') /\ queue'[i - 1] = "STA_START"
  BY <1>1, <1>2, <1>3
<1>4. ASSUME netif = "none", NEW i \in 1..Len(queue'), queue'[i] = "STA_CONNECTED"
      PROVE  \E j \in 1..(i - 1) : queue'[j] = "STA_START"
  <2>1. i + 1 \in 1..Len(queue) /\ queue[i + 1] = "STA_CONNECTED"
    BY <1>2, <1>4
  <2>2. PICK j \in 1..(i + 1 - 1) : queue[j] = "STA_START"
    BY <1>4, <2>1 DEF StartOrder
  <2>3. j \in 1..Len(queue)
    BY <1>2, <2>1, <2>2
  <2> QED BY <1>2, <1>3, <1>4, <2>2, <2>3
<1>5. ASSUME netif = "none", wifi # "stopped"
      PROVE  \E j \in 1..Len(queue') : queue'[j] = "STA_START"
  <2>1. PICK j \in 1..Len(queue) : queue[j] = "STA_START"
    BY <1>5 DEF StartOrder
  <2> QED BY <1>3, <1>5, <2>1
<1> QED BY <1>1, <1>4, <1>5 DEF StartOrder

\* Events are posted after the station's start.
LEMMA StartKeptSend ==
  ASSUME STypeOK, StartOrder, NEW e \in Seq(Events), queue' = queue \o e, netif' = netif,
         \A i \in 1..Len(e) : e[i] = "STA_CONNECTED" => wifi # "stopped",
         wifi' # "stopped" => wifi # "stopped" \/ \E i \in 1..Len(e) : e[i] = "STA_START"
  PROVE  StartOrder'
<1>1. /\ Len(queue) \in Nat /\ Len(e) \in Nat /\ Len(queue') = Len(queue) + Len(e)
      /\ \A i \in 1..Len(queue) : queue'[i] = queue[i]
      /\ \A i \in (Len(queue) + 1)..Len(queue') : queue'[i] = e[i - Len(queue)]
  BY DEF STypeOK
<1>2. ASSUME netif = "none", NEW i \in 1..Len(queue'), queue'[i] = "STA_CONNECTED"
      PROVE  \E j \in 1..(i - 1) : queue'[j] = "STA_START"
  <2>1. CASE i \in 1..Len(queue)
    <3>1. PICK j \in 1..(i - 1) : queue[j] = "STA_START"
      BY <1>1, <1>2, <2>1 DEF StartOrder
    <3> QED BY <1>1, <2>1, <3>1
  <2>2. CASE i \in (Len(queue) + 1)..Len(queue')
    <3>1. i - Len(queue) \in 1..Len(e) /\ e[i - Len(queue)] = "STA_CONNECTED"
      BY <1>1, <1>2, <2>2
    <3>2. PICK j \in 1..Len(queue) : queue[j] = "STA_START"
      BY <1>2, <3>1 DEF StartOrder
    <3> QED BY <1>1, <2>2, <3>2
  <2> QED BY <1>1, <1>2, <2>1, <2>2
<1>3. ASSUME netif = "none", wifi' # "stopped"
      PROVE  \E j \in 1..Len(queue') : queue'[j] = "STA_START"
  <2>1. CASE wifi # "stopped"
    BY <1>1, <1>3, <2>1 DEF StartOrder
  <2>2. ASSUME NEW i \in 1..Len(e), e[i] = "STA_START"
        PROVE  \E j \in 1..Len(queue') : queue'[j] = "STA_START"
    <3>1. Len(queue) + i \in (Len(queue) + 1)..Len(queue')
          /\ Len(queue) + i - Len(queue) = i /\ Len(queue) + i \in 1..Len(queue')
      BY <1>1
    <3> QED BY <1>1, <2>2, <3>1, SMTT(30)
  <2> QED BY <1>3, <2>1, <2>2
<1> QED BY <1>2, <1>3 DEF StartOrder

\* The interface takes the stored address over (tcpip_adapter_lwip.c:342).
LEMMA StaStartSound ==
  ASSUME Undisturbed, StaStart
  PROVE  Sound'
<1> USE DEF Undisturbed, Sound, STypeOK, StaStart, TakeEvent, driverVars, eventVars, adapterVars, timerVars
<1>1. QueueOrder'
  <2>1. TakeEvent("STA_START")
    BY DEF StaStart
  <2> QED BY <2>1, OrderKeptTail DEF Links
<1>2. StartOrder'
  BY DEF StartOrder
<1>3. NothingYet'
  BY DEF NothingYet
<1>4. StatusSound'
  BY DEF StatusSound, NothingYet
<1>5. StoredSound'
  BY DEF StoredSound, NothingYet, StatusSound
<1>6. TellingSound'
  BY DEF TellingSound, NothingYet, StatusSound
<1>7. LossReported'
  BY DEF LossReported, TellingSound, NothingYet, StatusSound, StoredSound
<1> QED BY <1>1, <1>2, <1>3, <1>4, <1>5, <1>6, <1>7

\* A station that stops has been disconnected: its interface is down already
\* (tcpip_adapter_lwip.c:399).
LEMMA StaStopSound ==
  ASSUME Undisturbed, StaStop
  PROVE  Sound'
<1> USE DEF Undisturbed, Sound, STypeOK, StaStop, TakeEvent, driverVars, eventVars, adapterVars, timerVars
<1>0. netif # "up"
  BY DEF QueueOrder, Links
<1>1. QueueOrder'
  <2>1. TakeEvent("STA_STOP")
    BY DEF StaStop
  <2> QED BY <1>0, <2>1, OrderKeptTail DEF Links
<1>2. StartOrder'
  <2>1. TakeEvent("STA_STOP")
    BY DEF StaStop
  <2> QED BY <1>0, <2>1, StartKeptTail
<1>3. NothingYet'
  BY <1>0 DEF NothingYet
<1>4. StatusSound'
  BY <1>0 DEF StatusSound, NothingYet
<1>5. StoredSound'
  BY <1>0 DEF StoredSound, NothingYet, StatusSound
<1>6. TellingSound'
  BY <1>0 DEF TellingSound, NothingYet, StatusSound
<1>7. LossReported'
  BY <1>0 DEF LossReported, TellingSound, NothingYet, StatusSound, StoredSound
<1> QED BY <1>1, <1>2, <1>3, <1>4, <1>5, <1>6, <1>7

\* A station that connects was disconnected, so its interface is down
\* (event_default_handlers.c:118).
LEMMA ConnectsWhenDown ==
  ASSUME Undisturbed, StaConnected
  PROVE  /\ queue \in Seq(Events) /\ queue # <<>> /\ queue[1] = "STA_CONNECTED"
         /\ evpc = "wait" /\ netif = "down" /\ dhcpc_status # "STARTED"
<1>1. evpc = "wait" /\ queue # <<>> /\ Head(queue) = "STA_CONNECTED"
  BY DEF StaConnected
<1>2. STypeOK /\ QueueOrder /\ StartOrder /\ StatusSound
  BY DEF Undisturbed, Sound
<1>3. queue \in Seq(Events) /\ 1 \in 1..Len(queue) /\ queue[1] = "STA_CONNECTED"
  BY <1>1, <1>2 DEF STypeOK
<1>4. netif # "up"
  <2>1. SUFFICES ASSUME Links(0) PROVE FALSE
    BY <1>1 DEF Links
  <2>2. 0 \in 0..Len(queue)
    BY <1>3
  <2>3. \E j \in (0 + 1)..(1 - 1) : queue[j] = "STA_DISCONNECTED"
    BY <1>2, <1>3, <2>1, <2>2 DEF QueueOrder
  <2> QED BY <2>3
<1>5. netif # "none"
  <2>1. SUFFICES ASSUME netif = "none" PROVE FALSE
    OBVIOUS
  <2>2. \E j \in 1..(1 - 1) : queue[j] = "STA_START"
    BY <1>2, <1>3, <2>1 DEF StartOrder
  <2> QED BY <2>2
<1> QED BY <1>1, <1>2, <1>3, <1>4, <1>5 DEF StatusSound, STypeOK

\* The events that are left keep their order, with or without the one that tells of a
\* static address (tcpip_adapter_lwip.c:437).
LEMMA OrderKeptConnected ==
  ASSUME Undisturbed, StaConnected
  PROVE  QueueOrder'
<1>1. queue \in Seq(Events) /\ queue # <<>> /\ queue[1] = "STA_CONNECTED"
  BY ConnectsWhenDown
<1>2. wifi' = wifi /\ (queue' = Tail(queue) \/ queue' = Append(Tail(queue), "GOT_IP"))
  BY DEF StaConnected, driverVars
<1>3. 1 <= Len(queue) /\ Tail(queue) \in Seq(Events) /\ Len(Tail(queue)) = Len(queue) - 1
      /\ \A i \in 1..(Len(queue) - 1) : Tail(queue)[i] = queue[i + 1]
  BY <1>1
<1>4. /\ queue' \in Seq(Events) /\ Len(queue') >= Len(queue) - 1
      /\ \A i \in 1..(Len(queue) - 1) : queue'[i] = queue[i + 1]
      /\ \A i \in (Len(queue) - 1 + 1)..Len(queue') : queue'[i] = "GOT_IP"
  <2>1. CASE queue' = Tail(queue)
    BY <1>1, <1>3, <2>1
  <2>2. CASE queue' = Append(Tail(queue), "GOT_IP")
    <3>1. "GOT_IP" \in Events
      BY DEF Events
    <3>2. /\ queue' \in Seq(Events) /\ Len(queue') = Len(queue)
          /\ queue'[Len(queue)] = "GOT_IP"
          /\ \A i \in 1..(Len(queue) - 1) : queue'[i] = Tail(queue)[i]
      BY <1>1, <1>3, <2>2, <3>1
    <3> QED BY <1>1, <1>3, <3>2
  <2> QED BY <1>2, <2>1, <2>2
<1>5. STypeOK /\ QueueOrder /\ Links(1)
  BY <1>1 DEF Links, Undisturbed, Sound
<1> QED BY <1>2, <1>3, <1>4, <1>5, OrderKept

\* Connecting starts the client, which gives up the address, or tells of the static
\* one (event_default_handlers.c:118, tcpip_adapter_lwip.c:437).
LEMMA StaConnectedSound ==
  ASSUME Undisturbed, StaConnected
  PROVE  Sound'
<1>1. QueueOrder'
  BY OrderKeptConnected
<1>2. evpc = "wait" /\ netif = "down" /\ dhcpc_status # "STARTED"
  BY ConnectsWhenDown
<1>3. netif' = "up" /\ UNCHANGED <<wifi, dhcpc_status, polling, tmpc>>
  BY <1>2 DEF StaConnected, driverVars, timerVars
<1>4. CASE dhcpc_status = "INIT"
  <2>1. /\ esp_ip' = 0 /\ addr' = 0 /\ evpc' = "start_dhcp"
        /\ lost_running' = (lost_running \/ (netif # "none" /\ esp_ip_old # 0))
        /\ UNCHANGED <<told, esp_ip_old>>
    BY <1>2, <1>4 DEF StaConnected, tcpip_adapter_start_ip_lost_timer
  <2> QED BY <1>1, <1>2, <1>3, <1>4, <2>1 DEF Undisturbed, STypeOK, Sound, StartOrder, NothingYet,
               StatusSound, StoredSound, TellingSound, LossReported
<1>5. CASE dhcpc_status = "STOPPED"
  <2>1. /\ addr' = esp_ip
        /\ UNCHANGED <<evpc, esp_ip, lost_running>>
    BY <1>2, <1>5 DEF StaConnected
  <2>2. /\ esp_ip = 0 => UNCHANGED <<told, esp_ip_old>>
        /\ esp_ip # 0 => esp_ip_old' = esp_ip /\ told' = "got"
    BY <1>2, <1>5 DEF StaConnected
  <2> QED BY <1>1, <1>2, <1>3, <1>5, <2>1, <2>2 DEF Undisturbed, STypeOK, Sound, StartOrder,
               NothingYet, StatusSound, StoredSound, TellingSound, LossReported
<1> QED BY <1>2, <1>4, <1>5 DEF Undisturbed, STypeOK

\* The client starts in lwIP's thread (tcpip_adapter_lwip.c:99).
LEMMA StartDhcpSound ==
  ASSUME Undisturbed, StartDhcp
  PROVE  Sound'
<1> USE DEF Undisturbed, Sound, STypeOK, StartDhcp, driverVars, eventVars, adapterVars, timerVars
<1>1. QueueOrder'
  BY OrderKeptQuiet DEF Links
<1>2. StartOrder'
  BY DEF StartOrder
<1>3. NothingYet'
  BY DEF NothingYet
<1>4. StatusSound'
  BY DEF StatusSound, NothingYet
<1>5. StoredSound'
  BY DEF StoredSound, NothingYet, StatusSound
<1>6. TellingSound'
  BY DEF TellingSound, NothingYet, StatusSound
<1>7. LossReported'
  BY DEF LossReported, TellingSound, NothingYet, StatusSound, StoredSound
<1> QED BY <1>1, <1>2, <1>3, <1>4, <1>5, <1>6, <1>7

\* The client's status and the polls are set after it has started
\* (tcpip_adapter_lwip.c:1079).
LEMMA DhcpStartedSound ==
  ASSUME Undisturbed, DhcpStarted
  PROVE  Sound'
<1> USE DEF Undisturbed, Sound, STypeOK, DhcpStarted, driverVars, eventVars, adapterVars, timerVars
<1>1. QueueOrder'
  BY OrderKeptQuiet DEF Links
<1>2. StartOrder'
  BY DEF StartOrder
<1>3. NothingYet'
  BY DEF NothingYet
<1>4. StatusSound'
  BY DEF StatusSound, NothingYet
<1>5. StoredSound'
  BY DEF StoredSound, NothingYet, StatusSound
<1>6. TellingSound'
  BY DEF TellingSound, NothingYet, StatusSound
<1>7. LossReported'
  BY DEF LossReported, TellingSound, NothingYet, StatusSound, StoredSound
<1> QED BY <1>1, <1>2, <1>3, <1>4, <1>5, <1>6, <1>7

\* A disconnection begins to take the interface down (tcpip_adapter_lwip.c:462).
LEMMA StaDisconnectedSound ==
  ASSUME Undisturbed, StaDisconnected
  PROVE  Sound'
<1> USE DEF Undisturbed, Sound, STypeOK, StaDisconnected, TakeEvent, driverVars, eventVars, adapterVars, timerVars
<1>1. QueueOrder'
  <2>1. TakeEvent("STA_DISCONNECTED")
    BY DEF StaDisconnected
  <2>2. ~Links(0)'
    BY DEF Links
  <2> QED BY <2>1, <2>2, OrderKeptTail
<1>2. StartOrder'
  <2>1. TakeEvent("STA_DISCONNECTED")
    BY DEF StaDisconnected
  <2> QED BY <2>1, StartKeptTail
<1>3. NothingYet'
  BY DEF NothingYet
<1>4. StatusSound'
  BY DEF StatusSound, NothingYet
<1>5. StoredSound'
  BY DEF StoredSound, NothingYet, StatusSound
<1>6. TellingSound'
  BY DEF TellingSound, NothingYet, StatusSound
<1>7. LossReported'
  BY DEF LossReported, TellingSound, NothingYet, StatusSound, StoredSound
<1> QED BY <1>1, <1>2, <1>3, <1>4, <1>5, <1>6, <1>7

\* The address goes with the interface, and the IP lost timer is started
\* (tcpip_adapter_lwip.c:472).
LEMMA TakeDownSound ==
  ASSUME Undisturbed, TakeDown
  PROVE  Sound'
<1> USE DEF Undisturbed, Sound, STypeOK, TakeDown, tcpip_adapter_start_ip_lost_timer, driverVars, eventVars, adapterVars, timerVars
<1>1. QueueOrder'
  BY OrderKeptQuiet DEF Links
<1>2. StartOrder'
  BY DEF StartOrder
<1>3. NothingYet'
  BY DEF NothingYet
<1>4. StatusSound'
  BY DEF StatusSound, NothingYet
<1>5. StoredSound'
  BY DEF StoredSound, NothingYet, StatusSound
<1>6. TellingSound'
  BY DEF TellingSound, NothingYet, StatusSound
<1>7. LossReported'
  BY DEF LossReported, TellingSound, NothingYet, StatusSound, StoredSound
<1> QED BY <1>1, <1>2, <1>3, <1>4, <1>5, <1>6, <1>7

\* The handlers of the address events change nothing (event_default_handlers.c:63).
LEMMA AddressEventSound ==
  ASSUME Undisturbed, AddressEvent
  PROVE  Sound'
<1> USE DEF Undisturbed, Sound, STypeOK, AddressEvent, TakeEvent, driverVars, eventVars, adapterVars, timerVars
<1>1. QueueOrder'
  <2>1. TakeEvent("GOT_IP") \/ TakeEvent("LOST_IP")
    BY DEF AddressEvent
  <2> QED BY <2>1, OrderKeptTail DEF Links
<1>2. StartOrder'
  <2>1. TakeEvent("GOT_IP") \/ TakeEvent("LOST_IP")
    BY DEF AddressEvent
  <2> QED BY <2>1, StartKeptTail
<1>3. NothingYet'
  BY DEF NothingYet
<1>4. StatusSound'
  BY DEF StatusSound, NothingYet
<1>5. StoredSound'
  BY DEF StoredSound, NothingYet, StatusSound
<1>6. TellingSound'
  BY DEF TellingSound, NothingYet, StatusSound
<1>7. LossReported'
  BY DEF LossReported, TellingSound, NothingYet, StatusSound, StoredSound
<1> QED BY <1>1, <1>2, <1>3, <1>4, <1>5, <1>6, <1>7

\* A poll begins (tcpip_adapter_lwip.c:287).
LEMMA PollDhcpSound ==
  ASSUME Undisturbed, PollDhcp
  PROVE  Sound'
<1> USE DEF Undisturbed, Sound, STypeOK, PollDhcp, tcpip_adapter_start_ip_lost_timer, Released, driverVars, eventVars, adapterVars, timerVars
<1>1. QueueOrder'
  BY OrderKeptQuiet DEF Links
<1>2. StartOrder'
  BY DEF StartOrder
<1>3. NothingYet'
  BY DEF NothingYet
<1>4. StatusSound'
  BY DEF StatusSound, NothingYet
<1>5. StoredSound'
  BY DEF StoredSound, NothingYet, StatusSound
<1>6. TellingSound'
  BY DEF TellingSound, NothingYet, StatusSound
<1>7. LossReported'
  BY DEF LossReported, TellingSound, NothingYet, StatusSound, StoredSound
<1> QED BY <1>1, <1>2, <1>3, <1>4, <1>5, <1>6, <1>7

\* It stops the timer (tcpip_adapter_lwip.c:301).
LEMMA StopPollingSound ==
  ASSUME Undisturbed, StopPolling
  PROVE  Sound'
<1> USE DEF Undisturbed, Sound, STypeOK, StopPolling, tcpip_adapter_start_ip_lost_timer, Released, driverVars, eventVars, adapterVars, timerVars
<1>1. QueueOrder'
  BY OrderKeptQuiet DEF Links
<1>2. StartOrder'
  BY DEF StartOrder
<1>3. NothingYet'
  BY DEF NothingYet
<1>4. StatusSound'
  BY DEF StatusSound, NothingYet
<1>5. StoredSound'
  BY DEF StoredSound, NothingYet, StatusSound
<1>6. TellingSound'
  BY DEF TellingSound, NothingYet, StatusSound
<1>7. LossReported'
  BY DEF LossReported, TellingSound, NothingYet, StatusSound, StoredSound
<1> QED BY <1>1, <1>2, <1>3, <1>4, <1>5, <1>6, <1>7

\* It looks at the interface and the client (tcpip_adapter_lwip.c:302).
LEMMA LookAtNetifSound ==
  ASSUME Undisturbed, LookAtNetif
  PROVE  Sound'
<1> USE DEF Undisturbed, Sound, STypeOK, LookAtNetif, tcpip_adapter_start_ip_lost_timer, Released, driverVars, eventVars, adapterVars, timerVars
<1>1. QueueOrder'
  BY OrderKeptQuiet DEF Links
<1>2. StartOrder'
  BY DEF StartOrder
<1>3. NothingYet'
  BY DEF NothingYet
<1>4. StatusSound'
  BY DEF StatusSound, NothingYet
<1>5. StoredSound'
  BY DEF StoredSound, NothingYet, StatusSound
<1>6. TellingSound'
  BY DEF TellingSound, NothingYet, StatusSound
<1>7. LossReported'
  BY DEF LossReported, TellingSound, NothingYet, StatusSound, StoredSound
<1> QED BY <1>1, <1>2, <1>3, <1>4, <1>5, <1>6, <1>7

\* It releases the client of an interface that is down (tcpip_adapter_lwip.c:123).
LEMMA ReleaseDhcpSound ==
  ASSUME Undisturbed, ReleaseDhcp
  PROVE  Sound'
<1> USE DEF Undisturbed, Sound, STypeOK, ReleaseDhcp, tcpip_adapter_start_ip_lost_timer, Released, driverVars, eventVars, adapterVars, timerVars
<1>1. QueueOrder'
  BY OrderKeptQuiet DEF Links
<1>2. StartOrder'
  BY DEF StartOrder
<1>3. NothingYet'
  BY DEF NothingYet
<1>4. StatusSound'
  BY DEF StatusSound, NothingYet
<1>5. StoredSound'
  BY DEF StoredSound, NothingYet, StatusSound
<1>6. TellingSound'
  BY DEF TellingSound, NothingYet, StatusSound
<1>7. LossReported'
  BY DEF LossReported, TellingSound, NothingYet, StatusSound, StoredSound
<1> QED BY <1>1, <1>2, <1>3, <1>4, <1>5, <1>6, <1>7

\* It forgets that client (tcpip_adapter_lwip.c:325).
LEMMA ForgetDhcpSound ==
  ASSUME Undisturbed, ForgetDhcp
  PROVE  Sound'
<1> USE DEF Undisturbed, Sound, STypeOK, ForgetDhcp, tcpip_adapter_start_ip_lost_timer, Released, driverVars, eventVars, adapterVars, timerVars
<1>1. QueueOrder'
  BY OrderKeptQuiet DEF Links
<1>2. StartOrder'
  BY DEF StartOrder
<1>3. NothingYet'
  BY DEF NothingYet
<1>4. StatusSound'
  BY DEF StatusSound, NothingYet
<1>5. StoredSound'
  BY DEF StoredSound, NothingYet, StatusSound
<1>6. TellingSound'
  BY DEF TellingSound, NothingYet, StatusSound
<1>7. LossReported'
  BY DEF LossReported, TellingSound, NothingYet, StatusSound, StoredSound
<1> QED BY <1>1, <1>2, <1>3, <1>4, <1>5, <1>6, <1>7

\* It stores an address that is new (tcpip_adapter_lwip.c:921).
LEMMA StoreAddressSound ==
  ASSUME Undisturbed, StoreAddress
  PROVE  Sound'
<1> USE DEF Undisturbed, Sound, STypeOK, StoreAddress, tcpip_adapter_start_ip_lost_timer, Released, driverVars, eventVars, adapterVars, timerVars
<1>1. QueueOrder'
  BY OrderKeptQuiet DEF Links
<1>2. StartOrder'
  BY DEF StartOrder
<1>3. NothingYet'
  BY DEF NothingYet
<1>4. StatusSound'
  BY DEF StatusSound, NothingYet
<1>5. StoredSound'
  BY DEF StoredSound, NothingYet, StatusSound
<1>6. TellingSound'
  BY DEF TellingSound, NothingYet, StatusSound
<1>7. LossReported'
  BY DEF LossReported, TellingSound, NothingYet, StatusSound, StoredSound
<1> QED BY <1>1, <1>2, <1>3, <1>4, <1>5, <1>6, <1>7

\* It records the address the application is told of (tcpip_adapter_lwip.c:955).
LEMMA RecordAddressSound ==
  ASSUME Undisturbed, RecordAddress
  PROVE  Sound'
<1> USE DEF Undisturbed, Sound, STypeOK, RecordAddress, tcpip_adapter_start_ip_lost_timer, Released, driverVars, eventVars, adapterVars, timerVars
<1>1. QueueOrder'
  BY OrderKeptQuiet DEF Links
<1>2. StartOrder'
  BY DEF StartOrder
<1>3. NothingYet'
  BY DEF NothingYet
<1>4. StatusSound'
  BY DEF StatusSound, NothingYet
<1>5. StoredSound'
  BY DEF StoredSound, NothingYet, StatusSound
<1>6. TellingSound'
  BY DEF TellingSound, NothingYet, StatusSound
<1>7. LossReported'
  BY DEF LossReported, TellingSound, NothingYet, StatusSound, StoredSound
<1> QED BY <1>1, <1>2, <1>3, <1>4, <1>5, <1>6, <1>7

\* It tells of an address that is there (tcpip_adapter_lwip.c:966).
LEMMA SendAddressSound ==
  ASSUME Undisturbed, SendAddress
  PROVE  Sound'
<1> USE DEF Undisturbed, Sound, STypeOK, SendAddress, SendsGotIp, Sends, driverVars, eventVars, adapterVars, timerVars
<1>1. QueueOrder'
  <2>1. <<"GOT_IP">> \in Seq(Events) /\ esp_event_send(<<"GOT_IP">>)
    BY DEF Events
  <2>2. queue' = queue \o <<"GOT_IP">>
    BY <2>1, EventsSent
  <2> QED BY <2>2, OrderKeptSend DEF Links
<1>2. StartOrder'
  <2>1. <<"GOT_IP">> \in Seq(Events) /\ esp_event_send(<<"GOT_IP">>)
    BY DEF Events
  <2>2. queue' = queue \o <<"GOT_IP">>
    BY <2>1, EventsSent
  <2>3. \A i \in 1..Len(<<"GOT_IP">>) : <<"GOT_IP">>[i] # "STA_CONNECTED"
    OBVIOUS
  <2>4. netif' = netif /\ wifi' = wifi
    OBVIOUS
  <2> QED BY <2>1, <2>2, <2>3, <2>4, StartKeptSend
<1>3. NothingYet'
  BY DEF NothingYet
<1>4. StatusSound'
  BY DEF StatusSound, NothingYet
<1>5. StoredSound'
  BY DEF StoredSound, NothingYet, StatusSound
<1>6. TellingSound'
  BY DEF TellingSound, NothingYet, StatusSound
<1>7. LossReported'
  BY DEF LossReported, TellingSound, NothingYet, StatusSound, StoredSound
<1> QED BY <1>1, <1>2, <1>3, <1>4, <1>5, <1>6, <1>7

\* The client is bound to an address of the server (dhcp.c:1023).
LEMMA DhcpBoundSound ==
  ASSUME Undisturbed, DhcpBound
  PROVE  Sound'
<1> USE DEF Undisturbed, Sound, STypeOK, DhcpBound, driverVars, eventVars, adapterVars, timerVars
<1>1. QueueOrder'
  BY OrderKeptQuiet DEF Links
<1>2. StartOrder'
  BY DEF StartOrder
<1>3. NothingYet'
  BY DEF NothingYet
<1>4. StatusSound'
  BY DEF StatusSound, NothingYet
<1>5. StoredSound'
  BY DEF StoredSound, NothingYet, StatusSound
<1>6. TellingSound'
  BY DEF TellingSound, NothingYet, StatusSound
<1>7. LossReported'
  BY DEF LossReported, TellingSound, NothingYet, StatusSound, StoredSound
<1> QED BY <1>1, <1>2, <1>3, <1>4, <1>5, <1>6, <1>7

\* The timeout tells of the loss, or finds an address (tcpip_adapter_lwip.c:1008).
LEMMA IpLostSound ==
  ASSUME Undisturbed, tcpip_adapter_ip_lost_timer
  PROVE  Sound'
<1> USE DEF Undisturbed, Sound, STypeOK, tcpip_adapter_ip_lost_timer, Sends, SendsNothing, ForgetsOldIp, driverVars, eventVars, adapterVars, timerVars
<1>1. QueueOrder'
  <2>1. CASE UNCHANGED queue
    BY <2>1, OrderKeptQuiet DEF Links
  <2>2. CASE esp_event_send(<<"LOST_IP">>)
    <3>1. <<"LOST_IP">> \in Seq(Events)
      BY DEF Events
    <3>2. queue' = queue \o <<"LOST_IP">>
      BY <2>2, <3>1, EventsSent
    <3> QED BY <3>2, OrderKeptSend DEF Links
  <2> QED BY <2>1, <2>2
<1>2. StartOrder'
  <2>1. CASE UNCHANGED queue
    BY <2>1, Zenon DEF StartOrder
  <2>2. CASE esp_event_send(<<"LOST_IP">>)
    <3>1. <<"LOST_IP">> \in Seq(Events)
      BY DEF Events
    <3>2. queue' = queue \o <<"LOST_IP">>
      BY <2>2, <3>1, EventsSent
    <3>3. \A i \in 1..Len(<<"LOST_IP">>) : <<"LOST_IP">>[i] # "STA_CONNECTED"
      OBVIOUS
    <3>4. netif' = netif /\ wifi' = wifi
      OBVIOUS
    <3> QED BY <3>1, <3>2, <3>3, <3>4, StartKeptSend
  <2> QED BY <2>1, <2>2
<1>3. NothingYet'
  BY DEF NothingYet
<1>4. StatusSound'
  BY DEF StatusSound, NothingYet
<1>5. StoredSound'
  BY DEF StoredSound, NothingYet, StatusSound
<1>6. TellingSound'
  BY DEF TellingSound, NothingYet, StatusSound
<1>7. LossReported'
  BY DEF LossReported, TellingSound, NothingYet, StatusSound, StoredSound
<1> QED BY <1>1, <1>2, <1>3, <1>4, <1>5, <1>6, <1>7

\* What the driver posts keeps the order, in each of its states.
LEMMA DriverOrder ==
  ASSUME Undisturbed, Driver
  PROVE  QueueOrder' /\ StartOrder'
<1>1. STypeOK /\ QueueOrder /\ StartOrder /\ ~dropped'
  BY DEF Undisturbed, Sound
<1>2. UNCHANGED <<netif, evpc>> /\ (Links(0)' => Links(0))
  BY DEF Driver, DriverStart, DriverConnects, DriverDisconnects, DriverStop, DriverPosts,
         adapterVars, Links
<1>3. /\ <<"STA_START">> \in Seq(Events) /\ <<"STA_CONNECTED">> \in Seq(Events)
      /\ <<"STA_DISCONNECTED">> \in Seq(Events) /\ <<"STA_STOP">> \in Seq(Events)
      /\ <<"STA_DISCONNECTED", "STA_STOP">> \in Seq(Events)
  BY DEF Events
<1>4. CASE DriverStart
  <2>1. wifi = "stopped" /\ wifi' = "started" /\ esp_event_send(<<"STA_START">>)
    BY <1>4 DEF DriverStart, DriverPosts
  <2>2. queue' = queue \o <<"STA_START">>
    BY <1>1, <1>3, <2>1, EventsSent
  <2>3. QueueOrder'
    BY <1>1, <1>2, <2>1, <2>2, OrderKeptSend
  <2>4. 1 \in 1..Len(<<"STA_START">>) /\ <<"STA_START">>[1] = "STA_START"
        /\ \A i \in 1..Len(<<"STA_START">>) : <<"STA_START">>[i] # "STA_CONNECTED"
    OBVIOUS
  <2>5. StartOrder'
    BY <1>1, <1>2, <1>3, <2>1, <2>2, <2>4, StartKeptSend
  <2> QED BY <2>3, <2>5
<1>5. CASE DriverConnects
  <2>1. wifi = "started" /\ wifi' = "connected" /\ esp_event_send(<<"STA_CONNECTED">>)
    BY <1>5 DEF DriverConnects, DriverPosts
  <2>2. queue' = queue \o <<"STA_CONNECTED">>
    BY <1>1, <1>3, <2>1, EventsSent
  <2>3. QueueOrder'
    BY <1>1, <1>2, <1>3, <2>1, <2>2, OrderKeptDriver
  <2>4. StartOrder'
    BY <1>1, <1>2, <1>3, <2>1, <2>2, StartKeptSend
  <2> QED BY <2>3, <2>4
<1>6. CASE DriverDisconnects
  <2>1. /\ wifi \in {"started", "connected"} /\ wifi' = "started"
        /\ esp_event_send(<<"STA_DISCONNECTED">>)
    BY <1>6 DEF DriverDisconnects, DriverPosts
  <2>2. queue' = queue \o <<"STA_DISCONNECTED">>
    BY <1>1, <1>3, <2>1, EventsSent
  <2>3. QueueOrder'
    BY <1>1, <1>2, <1>3, <2>1, <2>2, OrderKeptDriver
  <2>4. StartOrder'
    BY <1>1, <1>2, <1>3, <2>1, <2>2, StartKeptSend
  <2> QED BY <2>3, <2>4
<1>7. CASE DriverStop
  <2>1. wifi' = "stopped" /\ wifi \in {"started", "connected"}
    BY <1>7 DEF DriverStop, DriverPosts
  <2>2. \/ wifi = "started" /\ esp_event_send(<<"STA_STOP">>)
        \/ esp_event_send(<<"STA_DISCONNECTED", "STA_STOP">>)
    BY <1>7 DEF DriverStop, DriverPosts
  <2>3. \/ wifi = "started" /\ queue' = queue \o <<"STA_STOP">>
        \/ queue' = queue \o <<"STA_DISCONNECTED", "STA_STOP">>
    BY <1>1, <1>3, <2>2, EventsSent
  <2>4. QueueOrder'
    BY <1>1, <1>2, <1>3, <2>1, <2>3, OrderKeptDriver
  <2>5. StartOrder'
    BY <1>1, <1>2, <1>3, <2>1, <2>3, StartKeptSend
  <2> QED BY <2>4, <2>5
<1> QED BY <1>4, <1>5, <1>6, <1>7 DEF Driver

\* The driver does nothing else.
LEMMA DriverSound ==
  ASSUME Undisturbed, Driver
  PROVE  Sound'
<1>1. QueueOrder' /\ StartOrder'
  BY DriverOrder
<1>2. UNCHANGED <<told, evpc, netif, addr, dhcp, dhcpc_status, esp_ip, esp_ip_old, lost_running,
                  polling, tmpc>>
  BY DEF Driver, DriverStart, DriverConnects, DriverDisconnects, DriverStop, DriverPosts,
         adapterVars, timerVars
<1>3. NothingYet' /\ StatusSound'
  BY <1>2 DEF Undisturbed, Sound, NothingYet, StatusSound
<1>4. StoredSound' /\ TellingSound' /\ LossReported'
  BY <1>2 DEF Undisturbed, Sound, StoredSound, TellingSound, LossReported
<1> QED BY <1>1, <1>3, <1>4 DEF Sound

\* Every step of the event task keeps the types (event_loop.c:45).
LEMMA EventTaskTypes ==
  ASSUME STypeOK, EventTask, raced' \in BOOLEAN
  PROVE  STypeOK'
<1> USE DEF STypeOK, driverVars, eventVars, adapterVars, timerVars
<1>1. ASSUME NEW event, TakeEvent(event)
      PROVE  queue' \in Seq(Events) /\ UNCHANGED <<wifi, dropped, polling, tmpc>>
  BY <1>1 DEF TakeEvent
<1>2. CASE StaStart
  BY <1>1, <1>2 DEF StaStart
<1>3. CASE StaStop
  BY <1>1, <1>3 DEF StaStop
<1>4. CASE StaConnected
  <2>1. Tail(queue) \in Seq(Events) /\ "GOT_IP" \in Events
    BY <1>4 DEF StaConnected, Events
  <2>2. queue' \in Seq(Events)
    BY <1>4, <2>1 DEF StaConnected
  <2>3. lost_running' \in BOOLEAN
    BY <1>4, Zenon DEF StaConnected, tcpip_adapter_start_ip_lost_timer
  <2> QED BY <1>4, <2>2, <2>3 DEF StaConnected
<1>5. CASE StartDhcp
  BY <1>5 DEF StartDhcp
<1>6. CASE DhcpStarted
  BY <1>6 DEF DhcpStarted
<1>7. CASE StaDisconnected
  BY <1>1, <1>7 DEF StaDisconnected
<1>8. CASE TakeDown
  BY <1>8 DEF TakeDown, tcpip_adapter_start_ip_lost_timer
<1>9. CASE AddressEvent
  BY <1>1, <1>9 DEF AddressEvent
<1> QED BY <1>2, <1>3, <1>4, <1>5, <1>6, <1>7, <1>8, <1>9 DEF EventTask

\* So does every step of the timer task (tcpip_adapter_lwip.c:287).
LEMMA TimerTaskTypes ==
  ASSUME STypeOK, TimerTask, raced' \in BOOLEAN
  PROVE  STypeOK'
<1>1. CASE SendAddress
  <2>1. queue' \in Seq(Events) /\ dropped' \in BOOLEAN
    <3>1. <<"GOT_IP">> \in Seq(Events) /\ esp_event_send(<<"GOT_IP">>)
      BY <1>1 DEF Events, SendAddress, SendsGotIp, Sends
    <3>2. dropped' \in BOOLEAN
      BY <3>1, Zenon DEF esp_event_send
    <3> QED BY <3>1, <3>2, EventsSent
  <2> QED BY <1>1, <2>1 DEF SendAddress, STypeOK, driverVars, adapterVars
<1>2. CASE PollDhcp \/ StopPolling \/ LookAtNetif \/ ReleaseDhcp \/ ForgetDhcp
           \/ StoreAddress \/ RecordAddress
  <2> USE DEF STypeOK, driverVars, eventVars, adapterVars
  <2>1. CASE PollDhcp
    BY <2>1 DEF PollDhcp
  <2>2. CASE StopPolling
    BY <2>2 DEF StopPolling
  <2>3. CASE LookAtNetif
    <3>1. polling' \in BOOLEAN
      BY <2>3 DEF LookAtNetif
    <3>2. /\ tmpc' \in {"wait", "fault", "callback", "release"}
          /\ UNCHANGED <<wifi, queue, evpc, netif, dhcpc_status, lost_running, dropped>>
      BY <2>3 DEF LookAtNetif
    <3> QED BY <3>1, <3>2
  <2>4. CASE ReleaseDhcp \/ ForgetDhcp \/ RecordAddress
    BY <2>4 DEF ReleaseDhcp, ForgetDhcp, RecordAddress
  <2>5. CASE StoreAddress
    BY <2>5 DEF StoreAddress, tcpip_adapter_start_ip_lost_timer
  <2> QED BY <1>2, <2>1, <2>2, <2>3, <2>4, <2>5
<1> QED BY <1>1, <1>2 DEF TimerTask

\* And of lwIP's thread and of the driver.
LEMMA LwipAndDriverTypes ==
  ASSUME STypeOK, LwipThread \/ Driver, raced' \in BOOLEAN
  PROVE  STypeOK'
<1>1. ASSUME NEW e \in Seq(Events), esp_event_send(e)
      PROVE  queue' \in Seq(Events) /\ dropped' \in BOOLEAN
  <2>1. dropped' \in BOOLEAN
    BY <1>1, Zenon DEF esp_event_send
  <2> QED BY <1>1, <2>1, EventsSent
<1>2. /\ <<"STA_START">> \in Seq(Events) /\ <<"STA_CONNECTED">> \in Seq(Events)
      /\ <<"STA_DISCONNECTED">> \in Seq(Events) /\ <<"STA_STOP">> \in Seq(Events)
      /\ <<"STA_DISCONNECTED", "STA_STOP">> \in Seq(Events) /\ <<"LOST_IP">> \in Seq(Events)
  BY DEF Events
<1> USE DEF STypeOK, driverVars, eventVars, adapterVars, timerVars
<1>3. CASE DhcpBound \/ LeaseEnds
  BY <1>3 DEF DhcpBound, LeaseEnds
<1>4. CASE tcpip_adapter_ip_lost_timer
  <2>1. queue' \in Seq(Events) /\ dropped' \in BOOLEAN
    BY <1>1, <1>2, <1>4 DEF tcpip_adapter_ip_lost_timer, Sends, SendsNothing
  <2>2. /\ UNCHANGED <<wifi, evpc, netif, dhcpc_status, tmpc, polling>>
        /\ lost_running' = FALSE
    BY <1>4 DEF tcpip_adapter_ip_lost_timer
  <2>3. polling' \in BOOLEAN /\ lost_running' \in BOOLEAN
    BY <2>2
  <2> QED BY <2>1, <2>2, <2>3
<1>5. CASE Driver
  <2>1. queue' \in Seq(Events) /\ dropped' \in BOOLEAN
    BY <1>1, <1>2, <1>5
    DEF Driver, DriverStart, DriverConnects, DriverDisconnects, DriverStop, DriverPosts
  <2> QED BY <1>5, <2>1
      DEF Driver, DriverStart, DriverConnects, DriverDisconnects, DriverStop, DriverPosts
<1> QED BY <1>3, <1>4, <1>5 DEF LwipThread

\* An event that was dropped stays so.
LEMMA DroppedStays ==
  ASSUME StNext, dropped
  PROVE  dropped'
<1>1. ASSUME NEW e, esp_event_send(e) PROVE dropped'
  BY <1>1, Zenon DEF esp_event_send
<1>2. CASE EventTask
  BY <1>2, Zenon DEF EventTask, StaStart, StaStop, StaConnected, StartDhcp, DhcpStarted,
     StaDisconnected, TakeDown, AddressEvent, TakeEvent, eventVars
<1>3. CASE TimerTask
  BY <1>1, <1>3, Zenon DEF TimerTask, PollDhcp, StopPolling, LookAtNetif, ReleaseDhcp, ForgetDhcp,
     StoreAddress, RecordAddress, SendAddress, SendsGotIp, Sends, eventVars
<1>4. CASE LwipThread
  BY <1>1, <1>4, Zenon DEF LwipThread, DhcpBound, LeaseEnds, tcpip_adapter_ip_lost_timer, Sends,
     SendsNothing, eventVars
<1>5. CASE Driver
  BY <1>1, <1>5, Zenon DEF Driver, DriverStart, DriverConnects, DriverDisconnects, DriverStop,
     DriverPosts
<1> QED BY <1>2, <1>3, <1>4, <1>5 DEF StNext

\* The invariant holds when the station starts (tcpip_adapter_lwip.c:180).
LEMMA StationStart == StInit => SInv
<1> SUFFICES ASSUME StInit PROVE SInv
  OBVIOUS
<1>1. STypeOK
  <2>1. queue \in Seq(Events)
    BY DEF StInit
  <2> QED BY <2>1 DEF StInit, STypeOK
<1>2. queue = <<>> /\ ~Links(0)
  BY DEF StInit, Links
<1>3. QueueOrder /\ StartOrder
  BY <1>2 DEF QueueOrder, StartOrder, StInit
<1> QED BY <1>1, <1>3 DEF StInit, SInv, Sound, NothingYet, StatusSound, StoredSound, TellingSound,
           LossReported

\* Every step keeps it, when leases do not end.
LEMMA StationStep ==
  ASSUME ~LeaseExpires, SInv, [StNext]_stationVars
  PROVE  SInv'
<1>1. CASE UNCHANGED stationVars
  <2> USE <1>1 DEF stationVars, driverVars, eventVars, adapterVars, timerVars
  <2>1. STypeOK'
    BY DEF SInv, STypeOK
  <2>2. Sound => Sound'
    BY DEF Sound, QueueOrder, StartOrder, Links, NothingYet, StatusSound, StoredSound,
           TellingSound, LossReported
  <2> QED BY <2>1, <2>2 DEF SInv
<1>2. CASE StNext
  <2>1. raced' \in BOOLEAN
    BY <1>2, Zenon DEF StNext
  <2>2. STypeOK'
    BY <1>2, <2>1, EventTaskTypes, TimerTaskTypes, LwipAndDriverTypes DEF SInv, StNext
  <2>3. ASSUME ~dropped', ~raced' PROVE Sound'
    <3>1. ~raced /\ (tmpc \in {"record", "send", "release"} /\ addr # 0 => addr' # 0)
      BY <1>2, <2>3, Zenon DEF StNext
    <3>2. ~dropped
      BY <1>2, <2>3, DroppedStays DEF SInv
    <3>3. Undisturbed
      BY <2>3, <3>1, <3>2 DEF Undisturbed, SInv
    <3> QED BY <1>2, <3>3, StaStartSound, StaStopSound, StaConnectedSound, StartDhcpSound,
               DhcpStartedSound, StaDisconnectedSound, TakeDownSound, AddressEventSound,
               PollDhcpSound, StopPollingSound, LookAtNetifSound, ReleaseDhcpSound,
               ForgetDhcpSound, StoreAddressSound, RecordAddressSound, SendAddressSound,
               DhcpBoundSound, IpLostSound, DriverSound
            DEF StNext, EventTask, TimerTask, LwipThread, LeaseEnds
  <2> QED BY <2>2, <2>3 DEF SInv
<1> QED BY <1>1, <1>2

\* A loss of the address is never missed, with any addresses, any length of the event
\* queue and any number of driver events, when leases do not end
\* (tcpip_adapter_lwip.c:979, tcpip_adapter/Kconfig:12).
THEOREM LossIsReported == ~LeaseExpires /\ StSpec => []LossReported
<1> SUFFICES ASSUME ~LeaseExpires PROVE StSpec => []LossReported
  OBVIOUS
<1>1. SInv => LossReported
  BY DEF SInv, Sound, LossReported
<1> QED BY <1>1, StationStart, StationStep, PTL DEF StSpec

\* Once the address has gone the timer runs only for an address the application was
\* told of, or is about to be.  Nothing is assumed of the queue or of leases.
TimerOwed ==
    ~raced =>
        /\ lost_running => told = "got"
        /\ esp_ip_old # 0 => told = "got" \/ tmpc = "send"
        /\ tmpc \in {"record", "send"} => addr # 0

\* Every step keeps it (tcpip_adapter_lwip.c:979, :1008).
LEMMA TimerOwedStep ==
  ASSUME STypeOK, TimerOwed, StNext
  PROVE  TimerOwed'
<1> USE DEF TimerOwed, STypeOK, driverVars, eventVars, adapterVars, timerVars
<1> SUFFICES ASSUME ~raced' PROVE TimerOwed'
  OBVIOUS
<1>1. ~raced /\ (tmpc \in {"record", "send", "release"} /\ addr # 0 => addr' # 0)
  BY Zenon DEF StNext
<1>2. CASE StaStart \/ StaStop
  BY <1>1, <1>2 DEF StaStart, StaStop, TakeEvent
<1>3. CASE StaConnected
  BY <1>1, <1>3 DEF StaConnected, tcpip_adapter_start_ip_lost_timer
<1>4. CASE StartDhcp \/ DhcpStarted \/ StaDisconnected \/ AddressEvent
  BY <1>1, <1>4 DEF StartDhcp, DhcpStarted, StaDisconnected, AddressEvent, TakeEvent
<1>5. CASE TakeDown
  BY <1>1, <1>5 DEF TakeDown, tcpip_adapter_start_ip_lost_timer
<1>6. CASE PollDhcp \/ StopPolling \/ LookAtNetif \/ ReleaseDhcp \/ ForgetDhcp \/ RecordAddress
  BY <1>1, <1>6 DEF PollDhcp, StopPolling, LookAtNetif, ReleaseDhcp, ForgetDhcp, RecordAddress
<1>7. CASE StoreAddress
  BY <1>1, <1>7 DEF StoreAddress, tcpip_adapter_start_ip_lost_timer
<1>8. CASE SendAddress
  BY <1>1, <1>8 DEF SendAddress, SendsGotIp
<1>9. CASE DhcpBound \/ LeaseEnds
  BY <1>1, <1>9 DEF DhcpBound, LeaseEnds
<1>10. CASE tcpip_adapter_ip_lost_timer
  BY <1>1, <1>10 DEF tcpip_adapter_ip_lost_timer, ForgetsOldIp, SendsNothing
<1>11. CASE Driver
  BY <1>1, <1>11 DEF Driver, DriverStart, DriverConnects, DriverDisconnects, DriverStop, DriverPosts
<1> QED BY <1>2, <1>3, <1>4, <1>5, <1>6, <1>7, <1>8, <1>9, <1>10, <1>11
        DEF StNext, EventTask, TimerTask, LwipThread

\* A loss is told of once for every address the application was told of, whatever the
\* leases do and whatever events are dropped (tcpip_adapter_lwip.c:1008).
THEOREM LossIsToldOnce == StSpec => LostOnce
<1>1. StInit => STypeOK /\ TimerOwed
  <2>1. StInit => STypeOK
    BY StationStart DEF SInv
  <2> QED BY <2>1 DEF StInit, TimerOwed
<1>2. STypeOK /\ TimerOwed /\ [StNext]_stationVars => (STypeOK /\ TimerOwed)'
  <2> SUFFICES ASSUME STypeOK, TimerOwed, [StNext]_stationVars PROVE (STypeOK /\ TimerOwed)'
    OBVIOUS
  <2>1. CASE StNext
    <3>1. raced' \in BOOLEAN
      BY <2>1, Zenon DEF StNext
    <3> QED BY <2>1, <3>1, TimerOwedStep, EventTaskTypes, TimerTaskTypes, LwipAndDriverTypes
            DEF StNext
  <2>2. CASE UNCHANGED stationVars
    BY <2>2 DEF stationVars, driverVars, eventVars, adapterVars, timerVars, STypeOK, TimerOwed
  <2> QED BY <2>1, <2>2
<1>3. STypeOK /\ TimerOwed /\ [StNext]_stationVars =>
          [tcpip_adapter_ip_lost_timer /\ told' = "lost" /\ ~raced => told = "got"]_stationVars
  BY DEF TimerOwed, tcpip_adapter_ip_lost_timer
<1> QED BY <1>1, <1>2, <1>3, PTL DEF StSpec, LostOnce
=============================================================================
