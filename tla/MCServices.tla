----------------------------- MODULE MCServices -----------------------------
(* Five parts that run beside each other and share no state: threads, a     *)
(* condition variable, the station's address, the sessions of the HTTP      *)
(* server, and updates over HTTPS with the boot-time copy, of partitions of *)
(* three sectors: an old image of two in ota_0, and the newest one, of      *)
(* three, on the server.  A behaviour is one of the part that `part' names. *)
EXTENDS Pthread, PthreadCond, Station, HttpdSess, HttpsOta

CONSTANTS t1, t2, t3
VARIABLE part

MCImageSectors == <<2, 3>>
MCInitialParts == [p \in Parts |-> IF p = find_default_boot_partition THEN 1 ELSE 0]

\* Threads are named in the order of their creation: any other behaviour is one of
\* these with the names exchanged, and no property tells them apart.
InOrder == \A p \in {<<t1, t2>>, <<t2, t3>>} : pc'[p[2]] # "unborn" => pc'[p[1]] # "unborn"

MCInit ==
    /\ part \in {"threads", "cond", "station", "httpd", "https"}
    /\ PInit /\ CInit /\ StInit /\ HInit /\ HttpsInit
    /\ part # "cond" => how = "broadcast"
    /\ part # "station" => dhcpc_status = "INIT"
    /\ part # "httpd" => lru_purge_enable

Threading == part = "threads" /\ PNext /\ InOrder
             /\ UNCHANGED <<part, condVars, stationVars, httpdVars, httpsVars>>
Waiting == part = "cond" /\ CNext
           /\ UNCHANGED <<part, threadVars, stationVars, httpdVars, httpsVars>>
Connecting == part = "station" /\ StNext
              /\ UNCHANGED <<part, threadVars, condVars, httpdVars, httpsVars>>
Serving == part = "httpd" /\ HNext
           /\ UNCHANGED <<part, threadVars, condVars, stationVars, httpsVars>>
Updating == part = "https" /\ HttpsNext
            /\ UNCHANGED <<part, threadVars, condVars, stationVars, httpdVars>>

MCNext == Threading \/ Waiting \/ Connecting \/ Serving \/ Updating

\* The fairness of each part. In the others nothing of HttpsOta is taken though it
\* could be, so that its fairness is that of its own part.
MCSpec ==
    /\ MCInit
    /\ [][MCNext]_<<part, threadVars, condVars, stationVars, httpdVars, httpsVars>>
    /\ PFair /\ CFair /\ HFair /\ WF_httpsVars(part = "https" /\ Progress)

\* However its calls of esp_https_ota (esp_https_ota.c:84-137) are interrupted, the
\* device ends up running the newest firmware for good, once the faults are over.
DeviceUpdated == part = "https" => EventuallyUpToDate
=============================================================================
