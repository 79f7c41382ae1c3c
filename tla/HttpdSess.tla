----------------------------- MODULE HttpdSess ------------------------------
(* The sessions of the HTTP server (components/esp_http_server/src/         *)
(* httpd_main.c, httpd_sess.c, util/ctrl_sock.c).  One task waits in select *)
(* for its listening socket, its control socket and the sessions; other     *)
(* tasks, and the server itself, reach it with datagrams to the control     *)
(* socket.  lwIP's thread, of a higher priority than theirs, loops them     *)
(* back at once and drops them when the socket's mailbox is full.           *)
(*                                                                          *)
(* Connections are numbered in the order they are made, and the number      *)
(* stands for the socket's descriptor: descriptors are not reused.  What a  *)
(* request says is abstracted to whether it was served.                     *)
EXTENDS Naturals, Sequences, FiniteSets

CONSTANTS
    MaxConns,       \* bound: connections made by peers
    max_open_sockets,
    MailboxLen,     \* datagrams the control socket holds
    MaxPosts,       \* bound: calls of other tasks
    MaxRequests     \* bound: requests of all peers

ASSUME HttpdAssumption == MaxConns \in Nat /\ max_open_sockets \in Nat

NoFd == 0
Conns == 1..MaxConns
listen_fd == MaxConns + 1
ctrl_fd == MaxConns + 2
Socks == 1..max_open_sockets

VARIABLES
    lru_purge_enable, \* rigid: the configuration
    hd_sd,          \* the connection of each slot of the session table
    sd_lru,         \* lru_counter of each slot
    lru_counter,    \* the counter itself
    conn,           \* each connection, see ConnStates
    backlog,        \* connections waiting to be accepted
    ctrl,           \* the control socket's mailbox
    hpc,            \* the server task's place in httpd_thread
    read_set,       \* what select found readable: descriptors
    fd,             \* the local variable that iterates over the sessions
    served,         \* ghost: the sessions processed in this round
    posts, requests,\* counted against the bounds
    stop            \* httpd_stop: "no", "sent", "returned"

tableVars == <<hd_sd, sd_lru, lru_counter>>
roundVars == <<hpc, read_set, fd, served>>
appVars   == <<posts, requests, stop, lru_purge_enable>>
httpdVars == <<tableVars, conn, backlog, ctrl, roundVars, appVars>>

\* "idle": nothing to read; "ready": a request; "gone": closed by the peer;
\* "closed": closed by the server.
ConnStates == {"away", "backlog", "idle", "ready", "gone", "closed"}
Held == {hd_sd[s] : s \in Socks} \ {NoFd}
SockOf(c) == CHOOSE s \in Socks : hd_sd[s] = c
FreeSocks == {s \in Socks : hd_sd[s] = NoFd}
First(S) == CHOOSE s \in S : \A t \in S : s <= t

HInit ==
    /\ lru_purge_enable \in BOOLEAN
    /\ hd_sd = [s \in Socks |-> NoFd]
    /\ sd_lru = [s \in Socks |-> 0] /\ lru_counter = 0
    /\ conn = [c \in Conns |-> "away"] /\ backlog = <<>>
    /\ ctrl = <<>>
    /\ hpc = "select" /\ read_set = {} /\ fd = NoFd /\ served = <<>>
    /\ posts = 0 /\ requests = 0 /\ stop = "no"

Becomes(c, s) == conn' = [conn EXCEPT ![c] = s]

\* ------------------------------------------------------- control socket ----
cs_send_to_ctrl_sock(msg) ==
    ctrl' = IF Len(ctrl) < MailboxLen THEN Append(ctrl, msg) ELSE ctrl

\* The message holds a pointer to the slot, not the descriptor.
httpd_sess_trigger_close(c) == cs_send_to_ctrl_sock([close |-> SockOf(c)])

\* ---------------------------------------------------------------- peers ----
PeerConnects(c) ==
    /\ conn[c] = "away" /\ hpc # "stopped"
    /\ \A b \in 1..c - 1 : conn[b] # "away"
    /\ Becomes(c, "backlog")
    /\ backlog' = Append(backlog, c)
    /\ UNCHANGED <<tableVars, ctrl, roundVars, appVars>>

PeerSends(c) ==
    /\ conn[c] = "idle" /\ requests < MaxRequests
    /\ Becomes(c, "ready")
    /\ requests' = requests + 1
    /\ UNCHANGED <<tableVars, backlog, ctrl, roundVars, posts, stop, lru_purge_enable>>

PeerCloses(c) ==
    /\ conn[c] \in {"idle", "ready"}
    /\ Becomes(c, "gone")
    /\ UNCHANGED <<tableVars, backlog, ctrl, roundVars, appVars>>

\* --------------------------------------------------------- other tasks ----
AppClosesSession(c) ==
    /\ c \in Held /\ posts < MaxPosts
    /\ posts' = posts + 1
    /\ httpd_sess_trigger_close(c)
    /\ UNCHANGED <<tableVars, conn, backlog, roundVars, requests, stop, lru_purge_enable>>

httpd_stop ==
    /\ stop = "no"
    /\ stop' = "sent"
    /\ cs_send_to_ctrl_sock([shutdown |-> TRUE])
    /\ UNCHANGED <<tableVars, conn, backlog, roundVars, posts, requests, lru_purge_enable>>

StopReturns ==
    /\ stop = "sent" /\ hpc = "stopped"
    /\ stop' = "returned"
    /\ UNCHANGED <<tableVars, conn, backlog, ctrl, roundVars, posts, requests,
                   lru_purge_enable>>

\* ---------------------------------------------------------- httpd_server ----
Readable == {c \in Held : conn[c] \in {"ready", "gone"}}
            \cup (IF backlog = <<>> THEN {} ELSE {listen_fd})
            \cup (IF ctrl = <<>> THEN {} ELSE {ctrl_fd})

Select ==
    /\ hpc = "select" /\ Readable # {}
    /\ read_set' = Readable
    /\ hpc' = IF ctrl = <<>> THEN "iterate" ELSE "ctrl"
    /\ UNCHANGED <<tableVars, conn, backlog, ctrl, fd, served, appVars>>

\* A closed descriptor makes select fail; httpd_sess_delete_invalid.
SelectFails ==
    /\ hpc = "select" /\ Readable = {}
    /\ \E c \in Held : conn[c] = "closed"
    /\ hd_sd' = [s \in Socks |->
                   IF hd_sd[s] # NoFd /\ conn[hd_sd[s]] = "closed" THEN NoFd ELSE hd_sd[s]]
    /\ UNCHANGED <<sd_lru, lru_counter, conn, backlog, ctrl, roundVars, appVars>>

\* The slot may be empty, or another connection's, by now.  (Mutant: the socket
\* stays open.)
httpd_sess_delete(c) == hd_sd' = [hd_sd EXCEPT ![SockOf(c)] = NoFd]
DeletesOnly(c) == httpd_sess_delete(c) /\ UNCHANGED conn
DeletesAndCloses(c) == httpd_sess_delete(c) /\ Becomes(c, "closed")
httpd_sess_close(s) ==
    IF hd_sd[s] = NoFd THEN UNCHANGED <<hd_sd, conn>> ELSE DeletesAndCloses(hd_sd[s])

httpd_process_ctrl_msg ==
    /\ hpc = "ctrl"
    /\ ctrl' = Tail(ctrl)
    /\ IF "close" \in DOMAIN Head(ctrl)
       THEN hpc' = "iterate" /\ httpd_sess_close(Head(ctrl).close)
       ELSE hpc' = "exit" /\ UNCHANGED <<hd_sd, conn>>
    /\ UNCHANGED <<sd_lru, lru_counter, backlog, read_set, fd, served, appVars>>

\* httpd_sess_iterate: a descriptor that is in no slot starts again with the first.
StartIndex(c) == IF c \in Held THEN SockOf(c) + 1 ELSE 1
After(c) == {s \in Socks : s >= StartIndex(c) /\ hd_sd[s] # NoFd}

\* What httpd_sess_delete returns: the session before the one it deletes.  (Mutant:
\* the deleted one.)
TheDeleted(c) == c
Preceding(c) ==
    LET before == {s \in Socks : s < SockOf(c) /\ hd_sd[s] # NoFd}
    IN  IF before = {} THEN NoFd
        ELSE hd_sd[CHOOSE s \in before : \A t \in before : t <= s]

\* httpd_sess_process reads a request and serves it; it fails when the peer has
\* gone, the request is bad or its handler says so, and the session is closed.
ServeSession(c) ==
    \/ /\ conn[c] = "ready" /\ Becomes(c, "idle")
       /\ sd_lru' = [sd_lru EXCEPT ![SockOf(c)] = lru_counter]
       /\ lru_counter' = lru_counter + 1
       /\ fd' = c
       /\ UNCHANGED hd_sd
    \/ /\ DeletesAndCloses(c)
       /\ fd' = Preceding(c)
       /\ UNCHANGED <<sd_lru, lru_counter>>

NextSession ==
    /\ hpc = "iterate" /\ After(fd) # {}
    /\ LET c == hd_sd[First(After(fd))] IN
         IF c \in read_set
         THEN ServeSession(c) /\ served' = Append(served, c)
         ELSE fd' = c /\ UNCHANGED <<tableVars, conn, served>>
    /\ UNCHANGED <<backlog, ctrl, hpc, read_set, appVars>>

LastSession ==
    /\ hpc = "iterate" /\ After(fd) = {}
    /\ hpc' = IF listen_fd \in read_set THEN "accept" ELSE "select"
    /\ read_set' = {} /\ fd' = NoFd /\ served' = <<>>
    /\ UNCHANGED <<tableVars, conn, backlog, ctrl, appVars>>

\* ----------------------------------------------------- httpd_accept_conn ----
\* The first session whose counter is below the least so far.  (Mutant: the search
\* starts from 0, the counter of a session that was never used.)
LeastFrom0 == {}
LeastUsed == {s \in Socks : \A t \in Socks : sd_lru[s] <= sd_lru[t]}
httpd_sess_close_lru ==
    IF LeastUsed = {} THEN UNCHANGED ctrl
    ELSE httpd_sess_trigger_close(hd_sd[First(LeastUsed)])

\* With no slot free the closing is queued and the connection left in the backlog.
PurgeSession ==
    /\ hpc = "accept" /\ lru_purge_enable /\ FreeSocks = {}
    /\ httpd_sess_close_lru
    /\ hpc' = "select"
    /\ UNCHANGED <<tableVars, conn, backlog, read_set, fd, served, appVars>>

\* httpd_sess_new; when open_fn refuses, the socket is closed and stays in its slot.
AcceptConnection ==
    /\ hpc = "accept" /\ ~(lru_purge_enable /\ FreeSocks = {})
    /\ LET c == Head(backlog) IN
         IF FreeSocks = {}
         THEN Becomes(c, "closed") /\ UNCHANGED <<hd_sd, sd_lru>>
         ELSE /\ hd_sd' = [hd_sd EXCEPT ![First(FreeSocks)] = c]
              /\ sd_lru' = [sd_lru EXCEPT ![First(FreeSocks)] = 0]
              /\ Becomes(c, "idle") \/ Becomes(c, "closed")
    /\ backlog' = Tail(backlog)
    /\ hpc' = "select"
    /\ UNCHANGED <<lru_counter, ctrl, read_set, fd, served, appVars>>

\* httpd_thread after its loop: the sockets go, httpd_close_all_sessions.
ExitThread ==
    /\ hpc = "exit"
    /\ hd_sd' = [s \in Socks |-> NoFd]
    /\ conn' = [c \in Conns |-> IF conn[c] = "away" THEN "away" ELSE "closed"]
    /\ backlog' = <<>> /\ ctrl' = <<>>
    /\ hpc' = "stopped"
    /\ UNCHANGED <<sd_lru, lru_counter, read_set, fd, served, appVars>>

Server == \/ Select \/ SelectFails \/ httpd_process_ctrl_msg \/ NextSession \/ LastSession
          \/ PurgeSession \/ AcceptConnection \/ ExitThread

HNext ==
    \/ Server \/ httpd_stop \/ StopReturns
    \/ \E c \in Conns : PeerConnects(c) \/ PeerSends(c) \/ PeerCloses(c) \/ AppClosesSession(c)

HSpec == HInit /\ [][HNext]_httpdVars

\* The server's task is scheduled, and its calls into the network return: each
\* session has a receive and a send timeout.
HFair == WF_httpdVars(Server)

\* ------------------------------------------------------------ properties ----
\* A round processes each session that was readable exactly once, although sessions
\* are deleted while the table is walked: a session processed again would block the
\* server in recv, one passed over would wait for another round.
ServedOncePerRound ==
    /\ \A i, j \in DOMAIN served : served[i] = served[j] => i = j
    /\ hpc = "iterate" /\ After(fd) = {} =>
          \A c \in read_set \cap Held : \E i \in DOMAIN served : served[i] = c

\* Every accepted connection has one slot until it is closed, however purges,
\* closings from other tasks, failures and the end of the server meet; so none is
\* left open without a session, and none is open when the server has stopped.
SocketsAccounted ==
    /\ \A c \in Conns : conn[c] \in {"idle", "ready", "gone"} => c \in Held
    /\ \A s, t \in Socks : hd_sd[s] = hd_sd[t] /\ hd_sd[s] # NoFd => s = t
    /\ hpc = "stopped" => Held = {}

\* A connection that waits is accepted or refused, also when every slot is in use
\* and the least recently used session has to be purged first; and the server stops
\* once the message of httpd_stop has reached its mailbox.
ServerProceeds ==
    /\ \A c \in Conns : conn[c] = "backlog" ~> conn[c] # "backlog"
    /\ (\E i \in DOMAIN ctrl : "shutdown" \in DOMAIN ctrl[i]) ~> hpc = "stopped"
=============================================================================
