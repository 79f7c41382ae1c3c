--------------------------- MODULE HttpdSessProofs ---------------------------
(* Theorems about HttpdSess, for any number of slots and connections.       *)
EXTENDS HttpdSess, WellFoundedInduction, TLAPS

USE HttpdAssumption

Messages == [close : Socks] \cup [shutdown : {TRUE}]

\* Type correctness.  What a peer or another task counts does not matter here.
HTypeOK ==
    /\ hd_sd \in [Socks -> Conns \cup {NoFd}]
    /\ sd_lru \in [Socks -> Nat] /\ lru_counter \in Nat
    /\ conn \in [Conns -> ConnStates]
    /\ backlog \in Seq(Conns)
    /\ ctrl \in Seq(Messages)
    /\ hpc \in {"select", "ctrl", "iterate", "accept", "exit", "stopped"}
    /\ fd \in Conns \cup {NoFd}
    /\ served \in Seq(Conns)

\* A connection is in the backlog or in the table, not in both.
BacklogApart ==
    /\ \A i \in DOMAIN backlog : conn[backlog[i]] = "backlog"
    /\ \A i, j \in DOMAIN backlog : backlog[i] = backlog[j] => i = j
    /\ \A s \in Socks : hd_sd[s] # NoFd => conn[hd_sd[s]] \notin {"away", "backlog"}

\* What select found is still there when the server comes to it.
FoundWaits ==
    /\ hpc = "accept" \/ (hpc \in {"ctrl", "iterate"} /\ listen_fd \in read_set)
          => backlog # <<>>
    /\ hpc = "ctrl" => ctrl # <<>>

\* While the table is walked, fd is a session or none, and of the sessions left
\* those processed are the readable ones up to fd.
WalkSound ==
    /\ hpc = "iterate" =>
          /\ fd = NoFd \/ fd \in Held
          /\ \A s \in Socks : hd_sd[s] # NoFd =>
                ((\E i \in DOMAIN served : served[i] = hd_sd[s])
                    <=> hd_sd[s] \in read_set /\ s < StartIndex(fd))
    /\ hpc # "iterate" => served = <<>> /\ fd = NoFd
    /\ \A i, j \in DOMAIN served : served[i] = served[j] => i = j

\* The inductive invariant.
HInv == HTypeOK /\ BacklogApart /\ FoundWaits /\ WalkSound /\ SocketsAccounted

\* Every set of naturals that is not empty has a least member.
LEMMA LeastNat ==
  ASSUME NEW T, T \subseteq Nat, T # {}
  PROVE  \E x \in T : \A y \in T : x <= y
<1> DEFINE R == {ss \in Nat \X Nat : ss[1] < ss[2]}
<1>1. IsWellFoundedOn(R, Nat)
  BY NatLessThanWellFounded DEF OpToRel
<1>2. \A x, y \in Nat : <<y, x>> \notin R => x <= y
  OBVIOUS
<1> HIDE DEF R
<1>3. \E x \in T : \A y \in T : <<y, x>> \notin R
  BY <1>1, WFMin, Zenon
<1> QED BY <1>2, <1>3, Zenon

\* The loops over the table that look for the first slot of a kind find it.
LEMMA FirstSlot ==
  ASSUME NEW S, S \subseteq Socks, S # {}
  PROVE  First(S) \in S /\ \A t \in S : First(S) <= t
<1>1. S \subseteq Nat
  BY DEF Socks
<1>2. \E x \in S : \A y \in S : x <= y
  BY <1>1, LeastNat
<1> QED BY <1>2 DEF First

\* And so does the one that goes on to the last (httpd_sess.c:215).
LEMMA LastSlot ==
  ASSUME NEW S, S \subseteq Socks, S # {}
  PROVE  \E s \in S : \A t \in S : t <= s
<1> DEFINE T == {max_open_sockets - s : s \in S}
<1>0. \A s \in S : max_open_sockets - s \in Nat
  BY DEF Socks
<1>1. T \subseteq Nat /\ T # {}
  BY <1>0
<1>2. PICK x \in T : \A y \in T : x <= y
  BY <1>1, LeastNat
<1>3. PICK s \in S : x = max_open_sockets - s
  BY <1>2
<1>4. \A t \in S : x <= max_open_sockets - t
  BY <1>2
<1>5. \A t \in S : t \in Int
  BY DEF Socks
<1> QED BY <1>3, <1>4, <1>5

\* A session has one slot.
LEMMA OneSlot ==
  ASSUME HInv
  PROVE  /\ Held \subseteq Conns
         /\ \A c \in Held : SockOf(c) \in Socks /\ hd_sd[SockOf(c)] = c
         /\ \A s \in Socks : hd_sd[s] # NoFd => hd_sd[s] \in Held /\ SockOf(hd_sd[s]) = s
<1>1. Held \subseteq Conns
  BY DEF HInv, HTypeOK, Held
<1>2. \A c \in Held : SockOf(c) \in Socks /\ hd_sd[SockOf(c)] = c
  BY DEF SockOf, Held
<1>3. \A s \in Socks : hd_sd[s] # NoFd => hd_sd[s] \in Held
  BY DEF Held
<1>4. \A s \in Socks : hd_sd[s] # NoFd => SockOf(hd_sd[s]) = s
  BY <1>2, <1>3 DEF HInv, SocketsAccounted
<1> QED BY <1>1, <1>2, <1>3, <1>4

\* A message that asks for a closing names a slot; the other one does not.
LEMMA MessageKinds ==
  /\ \A s \in Socks : [close |-> s] \in Messages
  /\ [shutdown |-> TRUE] \in Messages
  /\ \A m \in Messages : "close" \in DOMAIN m => m.close \in Socks
<1>1. \A m \in [close : Socks] : m.close \in Socks
  OBVIOUS
<1>2. \A m \in [shutdown : {TRUE}] : DOMAIN m = {"shutdown"}
  OBVIOUS
<1>3. \A m \in [shutdown : {TRUE}] : "close" \notin DOMAIN m
  BY <1>2
<1>4. \A m \in Messages : "close" \in DOMAIN m => m.close \in Socks
  BY <1>1, <1>3, Zenon DEF Messages
<1> QED BY <1>4 DEF Messages

\* A datagram is queued or dropped (ctrl_sock.c:53); none that waits is lost.
LEMMA MessageSent ==
  ASSUME HInv, NEW m \in Messages, cs_send_to_ctrl_sock(m)
  PROVE  ctrl' \in Seq(Messages) /\ (ctrl # <<>> => ctrl' # <<>>)
<1>1. ctrl \in Seq(Messages)
  BY DEF HInv, HTypeOK
<1> QED BY <1>1 DEF cs_send_to_ctrl_sock

\* What leaves the table and the walk alone does so to what is said of them.
LEMMA WalkQuiet ==
  ASSUME HInv, UNCHANGED <<hd_sd, hpc, read_set, fd, served>>
  PROVE  WalkSound' /\ Held' = Held
<1>1. Held' = Held
  BY DEF Held
<1>2. UNCHANGED <<StartIndex(fd), WalkSound>>
  BY <1>1 DEF StartIndex, SockOf, WalkSound
<1> QED BY <1>1, <1>2 DEF HInv

\* Deleting a session and closing its socket empties its slot and no other
\* (httpd_sess.c:215).
LEMMA ClosingKeepsTable ==
  ASSUME HInv, NEW c \in Held, DeletesAndCloses(c), backlog' = backlog, hpc' # "stopped"
  PROVE  /\ hd_sd' \in [Socks -> Conns \cup {NoFd}] /\ conn' \in [Conns -> ConnStates]
         /\ hd_sd' = [hd_sd EXCEPT ![SockOf(c)] = NoFd]
         /\ Held' = Held \ {c}
         /\ BacklogApart' /\ SocketsAccounted'
<1> DEFINE p == SockOf(c)
<1>1. /\ p \in Socks /\ hd_sd[p] = c /\ c \in Conns
      /\ \A s \in Socks : hd_sd[s] = c => s = p
  BY OneSlot DEF Held
<1>2. hd_sd' = [hd_sd EXCEPT ![p] = NoFd] /\ conn' = [conn EXCEPT ![c] = "closed"]
  BY DEF DeletesAndCloses, httpd_sess_delete, Becomes
<1> HIDE DEF p
<1>3. hd_sd' \in [Socks -> Conns \cup {NoFd}] /\ conn' \in [Conns -> ConnStates]
  BY <1>1, <1>2 DEF HInv, HTypeOK, ConnStates
<1>4. Held' = Held \ {c}
  BY <1>1, <1>2 DEF Held, HInv, HTypeOK
<1>5. BacklogApart'
  <2>1. conn[c] \notin {"away", "backlog"}
    BY <1>1 DEF HInv, BacklogApart, Held
  <2>2. \A i \in DOMAIN backlog : backlog[i] \in Conns /\ backlog[i] # c
    BY <2>1 DEF HInv, BacklogApart, HTypeOK
  <2>3. \A i \in DOMAIN backlog' : conn'[backlog'[i]] = "backlog"
    BY <1>1, <1>2, <2>2 DEF HInv, BacklogApart, HTypeOK
  <2>4. \A s \in Socks : hd_sd'[s] # NoFd => conn'[hd_sd'[s]] \notin {"away", "backlog"}
    BY <1>1, <1>2 DEF HInv, BacklogApart, HTypeOK
  <2> QED BY <2>3, <2>4 DEF HInv, BacklogApart
<1>6. SocketsAccounted'
  BY <1>1, <1>2, <1>4 DEF SocketsAccounted, HInv, HTypeOK
<1> QED BY <1>2, <1>3, <1>4, <1>5, <1>6 DEF p

\* A peer that connects was in nobody's list.
LEMMA PeerConnectsInv ==
  ASSUME HInv, NEW c \in Conns, PeerConnects(c)
  PROVE  HInv'
<1> USE DEF HInv, PeerConnects, Becomes, tableVars, roundVars, appVars
<1>1. HTypeOK'
  BY DEF HTypeOK, ConnStates
<1>2. BacklogApart'
  BY DEF BacklogApart, HTypeOK
<1>3. FoundWaits'
  BY DEF FoundWaits, HTypeOK
<1>4. WalkSound'
  BY WalkQuiet
<1>5. SocketsAccounted'
  BY WalkQuiet DEF SocketsAccounted, HTypeOK
<1> QED BY <1>1, <1>2, <1>3, <1>4, <1>5

\* A request changes what can be read and nothing else.
LEMMA PeerSendsInv ==
  ASSUME HInv, NEW c \in Conns, PeerSends(c)
  PROVE  HInv'
<1> USE DEF HInv, PeerSends, Becomes, tableVars, roundVars, appVars
<1>1. HTypeOK'
  BY DEF HTypeOK, ConnStates
<1>2. BacklogApart'
  BY DEF BacklogApart, HTypeOK
<1>3. FoundWaits'
  BY DEF FoundWaits, HTypeOK
<1>4. WalkSound'
  BY WalkQuiet
<1>5. SocketsAccounted'
  BY WalkQuiet DEF SocketsAccounted, HTypeOK
<1> QED BY <1>1, <1>2, <1>3, <1>4, <1>5

\* A peer that goes leaves its session to the server.
LEMMA PeerClosesInv ==
  ASSUME HInv, NEW c \in Conns, PeerCloses(c)
  PROVE  HInv'
<1> USE DEF HInv, PeerCloses, Becomes, tableVars, roundVars, appVars
<1>1. HTypeOK'
  BY DEF HTypeOK, ConnStates
<1>2. BacklogApart'
  BY DEF BacklogApart, HTypeOK
<1>3. FoundWaits'
  BY DEF FoundWaits, HTypeOK
<1>4. WalkSound'
  BY WalkQuiet
<1>5. SocketsAccounted'
  BY WalkQuiet DEF SocketsAccounted, HTypeOK
<1> QED BY <1>1, <1>2, <1>3, <1>4, <1>5

\* A closing asked for by another task is a message (httpd_sess.c:385).
LEMMA AppClosesSessionInv ==
  ASSUME HInv, NEW c \in Conns, AppClosesSession(c)
  PROVE  HInv'
<1> USE DEF HInv, AppClosesSession, httpd_sess_trigger_close, tableVars, roundVars, appVars
<1>1. HTypeOK'
  <2>1. SockOf(c) \in Socks
    BY OneSlot
  <2>2. ctrl' \in Seq(Messages)
    BY <2>1, MessageKinds, MessageSent
  <2> QED BY <2>2 DEF HTypeOK
<1>2. BacklogApart'
  BY DEF BacklogApart, HTypeOK
<1>3. FoundWaits'
  <2>1. SockOf(c) \in Socks
    BY OneSlot
  <2>2. ctrl # <<>> => ctrl' # <<>>
    BY <2>1, MessageKinds, MessageSent
  <2> QED BY <2>2 DEF FoundWaits
<1>4. WalkSound'
  BY WalkQuiet
<1>5. SocketsAccounted'
  BY WalkQuiet DEF SocketsAccounted, HTypeOK
<1> QED BY <1>1, <1>2, <1>3, <1>4, <1>5

\* So is httpd_stop (httpd_main.c:376).
LEMMA HttpdStopInv ==
  ASSUME HInv, httpd_stop
  PROVE  HInv'
<1> USE DEF HInv, httpd_stop, tableVars, roundVars, appVars
<1>1. HTypeOK'
  <2>1. ctrl' \in Seq(Messages)
    BY MessageKinds, MessageSent
  <2> QED BY <2>1 DEF HTypeOK
<1>2. BacklogApart'
  BY DEF BacklogApart, HTypeOK
<1>3. FoundWaits'
  <2>1. ctrl # <<>> => ctrl' # <<>>
    BY MessageKinds, MessageSent
  <2> QED BY <2>1 DEF FoundWaits
<1>4. WalkSound'
  BY WalkQuiet
<1>5. SocketsAccounted'
  BY WalkQuiet DEF SocketsAccounted, HTypeOK
<1> QED BY <1>1, <1>2, <1>3, <1>4, <1>5

\* Its return changes no session.
LEMMA StopReturnsInv ==
  ASSUME HInv, StopReturns
  PROVE  HInv'
<1> USE DEF HInv, StopReturns, tableVars, roundVars, appVars
<1>1. HTypeOK'
  BY DEF HTypeOK, ConnStates
<1>2. BacklogApart'
  BY DEF BacklogApart, HTypeOK
<1>3. FoundWaits'
  BY DEF FoundWaits, HTypeOK
<1>4. WalkSound'
  BY WalkQuiet
<1>5. SocketsAccounted'
  BY WalkQuiet DEF SocketsAccounted, HTypeOK
<1> QED BY <1>1, <1>2, <1>3, <1>4, <1>5

\* select says what is there; the walk starts with nothing processed (httpd_main.c:169).
LEMMA SelectInv ==
  ASSUME HInv, Select
  PROVE  HInv'
<1> USE DEF HInv, Select, tableVars, roundVars, appVars
<1>1. HTypeOK'
  BY DEF HTypeOK, ConnStates
<1>2. BacklogApart'
  BY DEF BacklogApart, HTypeOK
<1>3. FoundWaits'
  <2>1. listen_fd \notin Held /\ listen_fd # ctrl_fd
    BY OneSlot DEF listen_fd, ctrl_fd, Conns
  <2>2. listen_fd \in Readable => backlog # <<>>
    BY <2>1 DEF Readable
  <2> QED BY <2>2 DEF FoundWaits, HTypeOK
<1>4. WalkSound'
  <2>1. served' = <<>> /\ fd' = NoFd /\ Held' = Held
    BY DEF WalkSound, Held
  <2>2. StartIndex(fd)' = 1
    BY <2>1 DEF StartIndex, Held
  <2>3. \A s \in Socks : ~(s < 1)
    BY DEF Socks
  <2> QED BY <2>1, <2>2, <2>3 DEF WalkSound
<1>5. SocketsAccounted'
  BY DEF SocketsAccounted, HTypeOK, Held
<1> QED BY <1>1, <1>2, <1>3, <1>4, <1>5

\* When select fails the closed descriptors leave the table (httpd_sess.c:205).
LEMMA SelectFailsInv ==
  ASSUME HInv, SelectFails
  PROVE  HInv'
<1> USE DEF HInv, SelectFails, tableVars, roundVars, appVars
<1>1. HTypeOK'
  BY DEF HTypeOK, ConnStates
<1>2. BacklogApart'
  BY DEF BacklogApart, HTypeOK
<1>3. FoundWaits'
  BY DEF FoundWaits, HTypeOK
<1>4. WalkSound'
  BY DEF WalkSound, HTypeOK, Held, StartIndex, SockOf
<1>5. SocketsAccounted'
  BY DEF SocketsAccounted, HTypeOK, Held
<1> QED BY <1>1, <1>2, <1>3, <1>4, <1>5

\* The message is there, as select has said; the slot it names is closed if it is in
\* use, before the walk starts (httpd_main.c:179).
LEMMA CtrlMsgInv ==
  ASSUME HInv, httpd_process_ctrl_msg
  PROVE  HInv'
<1>1. /\ ctrl' = Tail(ctrl) /\ hpc = "ctrl" /\ hpc' \in {"iterate", "exit"}
      /\ UNCHANGED <<sd_lru, lru_counter, backlog, read_set, fd, served>>
  BY DEF httpd_process_ctrl_msg, appVars
<1>2. Head(ctrl) \in Messages /\ Tail(ctrl) \in Seq(Messages)
  BY <1>1 DEF HInv, HTypeOK, FoundWaits
<1>3. /\ hd_sd' \in [Socks -> Conns \cup {NoFd}] /\ conn' \in [Conns -> ConnStates]
      /\ BacklogApart' /\ SocketsAccounted'
  <2>1. CASE UNCHANGED <<hd_sd, conn>>
    BY <1>1, <2>1 DEF HInv, HTypeOK, BacklogApart, SocketsAccounted, Held
  <2>2. ASSUME NEW c \in Held, DeletesAndCloses(c)
        PROVE  /\ hd_sd' \in [Socks -> Conns \cup {NoFd}] /\ conn' \in [Conns -> ConnStates]
               /\ BacklogApart' /\ SocketsAccounted'
    BY <1>1, <2>2, ClosingKeepsTable
  <2>3. ASSUME "close" \in DOMAIN Head(ctrl), ~UNCHANGED <<hd_sd, conn>>
        PROVE  \E c \in Held : DeletesAndCloses(c)
    <3>1. Head(ctrl).close \in Socks
      BY <1>2, <2>3, MessageKinds
    <3> QED BY <2>3, <3>1, OneSlot DEF httpd_process_ctrl_msg, httpd_sess_close
  <2> QED BY <2>1, <2>2, <2>3 DEF httpd_process_ctrl_msg
<1>4. HTypeOK'
  BY <1>1, <1>2, <1>3 DEF HInv, HTypeOK
<1>5. FoundWaits'
  BY <1>1 DEF HInv, FoundWaits
<1>6. WalkSound'
  <2>1. served' = <<>> /\ fd' = NoFd /\ NoFd \notin Held'
    BY <1>1 DEF HInv, WalkSound, Held
  <2> QED BY <1>1, <2>1 DEF WalkSound, StartIndex, Socks
<1> QED BY <1>3, <1>4, <1>5, <1>6 DEF HInv

\* The next session of the walk: the first occupied slot after fd.
LEMMA NextSlot ==
  ASSUME HInv, hpc = "iterate", After(fd) # {}
  PROVE  LET n == First(After(fd))
             c == hd_sd[n]
         IN  /\ n \in Socks /\ StartIndex(fd) <= n
             /\ c \in Held /\ c \in Conns /\ SockOf(c) = n
             /\ \A s \in Socks : hd_sd[s] # NoFd /\ s < n => s < StartIndex(fd)
             /\ \A i \in DOMAIN served : served[i] # c
<1> DEFINE n == First(After(fd))
<1>1. StartIndex(fd) \in Nat
  BY OneSlot DEF StartIndex, Socks
<1>2. n \in After(fd) /\ \A t \in After(fd) : n <= t
  <2>1. After(fd) \subseteq Socks
    BY DEF After
  <2> QED BY <2>1, FirstSlot
<1> HIDE DEF n
<1>3. n \in Socks /\ StartIndex(fd) <= n /\ hd_sd[n] # NoFd
  BY <1>2 DEF After
<1>4. hd_sd[n] \in Held /\ hd_sd[n] \in Conns /\ SockOf(hd_sd[n]) = n
  BY <1>3, OneSlot
<1>5. ASSUME NEW s \in Socks, hd_sd[s] # NoFd, s < n
      PROVE  s < StartIndex(fd)
  <2>1. s \notin After(fd)
    BY <1>2, <1>3, <1>5 DEF Socks
  <2> QED BY <1>1, <1>5, <2>1 DEF After, Socks
<1>6. \A i \in DOMAIN served : served[i] # hd_sd[n]
  <2>1. ~(n < StartIndex(fd))
    BY <1>1, <1>3 DEF Socks
  <2> QED BY <1>3, <2>1 DEF HInv, WalkSound
<1> QED BY <1>3, <1>4, <1>5, <1>6 DEF n

\* One session of the walk keeps the invariant, whether it is passed over, served or
\* deleted: after a deletion the walk goes on from the session before it
\* (httpd_main.c:189, httpd_sess.c:215).
LEMMA NextSessionInv ==
  ASSUME HInv, NextSession
  PROVE  HInv'
<1> DEFINE n == First(After(fd))
           c == hd_sd[n]
<1>1. /\ hpc = "iterate" /\ After(fd) # {}
      /\ UNCHANGED <<backlog, ctrl, hpc, read_set>>
      /\ \/ c \in read_set /\ ServeSession(c) /\ served' = Append(served, c)
         \/ c \notin read_set /\ fd' = c /\ UNCHANGED <<tableVars, conn, served>>
  BY DEF NextSession, appVars
<1>2. /\ n \in Socks /\ StartIndex(fd) <= n
      /\ c \in Held /\ c \in Conns /\ SockOf(c) = n
      /\ \A s \in Socks : hd_sd[s] # NoFd /\ s < n => s < StartIndex(fd)
      /\ \A i \in DOMAIN served : served[i] # c
  BY <1>1, NextSlot
<1>3. /\ StartIndex(fd) \in Nat /\ n \in Nat /\ served \in Seq(Conns)
      /\ c # NoFd /\ hd_sd \in [Socks -> Conns \cup {NoFd}]
      /\ \A s \in Socks : hd_sd[s] = c => s = n
  BY <1>2, OneSlot DEF StartIndex, Socks, HInv, HTypeOK, Held
<1>4. \A s \in Socks : hd_sd[s] # NoFd =>
         ((\E i \in DOMAIN served : served[i] = hd_sd[s])
             <=> hd_sd[s] \in read_set /\ s < StartIndex(fd))
  BY <1>1 DEF HInv, WalkSound
<1>5. FoundWaits'
  BY <1>1 DEF HInv, FoundWaits
<1>6. ASSUME served' = Append(served, c)
      PROVE  /\ served' \in Seq(Conns)
             /\ \A i, j \in DOMAIN served' : served'[i] = served'[j] => i = j
             /\ \A d : (\E i \in DOMAIN served' : served'[i] = d)
                        <=> d = c \/ \E i \in DOMAIN served : served[i] = d
  BY <1>2, <1>3, <1>6 DEF HInv, WalkSound
<1>7. CASE UNCHANGED hd_sd /\ fd' = c
  <2>1. Held' = Held /\ StartIndex(fd)' = n + 1
    BY <1>2, <1>7 DEF Held, StartIndex, SockOf
  <2>2. CASE c \notin read_set
    <3>1. UNCHANGED <<conn, sd_lru, lru_counter, served>>
      BY <1>1, <2>2 DEF tableVars
    <3>2. HTypeOK' /\ BacklogApart' /\ SocketsAccounted'
      BY <1>1, <1>2, <1>7, <2>1, <3>1 DEF HInv, HTypeOK, BacklogApart, SocketsAccounted
    <3>3. \A s \in Socks : hd_sd[s] # NoFd /\ hd_sd[s] \in read_set =>
             (s < n + 1 <=> s < StartIndex(fd))
      BY <1>2, <1>3, <2>2 DEF Socks
    <3>4. WalkSound'
      BY <1>1, <1>2, <1>4, <1>7, <2>1, <3>1, <3>3 DEF HInv, WalkSound
    <3> QED BY <1>5, <3>2, <3>4 DEF HInv
  <2>3. CASE c \in read_set
    <3>1. served' = Append(served, c) /\ ServeSession(c)
      BY <1>1, <2>3
    <3>2. /\ conn' = [conn EXCEPT ![c] = "idle"] /\ conn[c] = "ready"
          /\ sd_lru' = [sd_lru EXCEPT ![n] = lru_counter] /\ lru_counter' = lru_counter + 1
      <4>1. ~DeletesAndCloses(c)
        BY <1>2, <1>3, <1>7 DEF DeletesAndCloses, httpd_sess_delete
      <4> QED BY <1>2, <3>1, <4>1 DEF ServeSession, Becomes
    <3>3. HTypeOK'
      BY <1>1, <1>2, <1>3, <1>6, <1>7, <3>1, <3>2 DEF HInv, HTypeOK, ConnStates
    <3>4. BacklogApart' /\ SocketsAccounted'
      BY <1>1, <1>2, <1>7, <2>1, <3>2 DEF HInv, HTypeOK, BacklogApart, SocketsAccounted
    <3>5. \A s \in Socks : hd_sd[s] # NoFd =>
             (s < n + 1 <=> s < StartIndex(fd) \/ hd_sd[s] = c)
      BY <1>2, <1>3 DEF Socks
    <3>6. WalkSound'
      BY <1>1, <1>2, <1>4, <1>6, <1>7, <2>1, <2>3, <3>1, <3>5 DEF WalkSound
    <3> QED BY <1>5, <3>3, <3>4, <3>6 DEF HInv
  <2> QED BY <2>2, <2>3
<1>8. CASE ~(UNCHANGED hd_sd /\ fd' = c)
  <2>1. /\ c \in read_set /\ DeletesAndCloses(c) /\ fd' = Preceding(c)
        /\ served' = Append(served, c) /\ UNCHANGED <<sd_lru, lru_counter>>
    BY <1>1, <1>8 DEF ServeSession, tableVars
  <2>2. /\ hd_sd' \in [Socks -> Conns \cup {NoFd}] /\ conn' \in [Conns -> ConnStates]
        /\ hd_sd' = [hd_sd EXCEPT ![n] = NoFd]
        /\ Held' = Held \ {c}
        /\ BacklogApart' /\ SocketsAccounted'
    BY <1>1, <1>2, <2>1, ClosingKeepsTable
  <2>3. /\ fd' = NoFd \/ fd' \in Held'
        /\ \A s \in Socks : hd_sd'[s] # NoFd =>
              (s < StartIndex(fd)' <=> s < StartIndex(fd))
    <3> DEFINE before == {s \in Socks : s < n /\ hd_sd[s] # NoFd}
    <3>1. CASE before = {}
      <4>1. fd' = NoFd /\ NoFd \notin Held'
        BY <1>2, <2>1, <3>1 DEF Preceding, Held
      <4>2. StartIndex(fd)' = 1
        BY <4>1 DEF StartIndex
      <4>3. \A s \in Socks : hd_sd'[s] # NoFd => ~(s < n)
        BY <1>2, <2>2, <3>1
      <4> QED BY <1>2, <1>3, <4>1, <4>2, <4>3 DEF Socks
    <3>2. CASE before # {}
      <4>1. \E s \in before : \A t \in before : t <= s
        BY <3>2, LastSlot
      <4>2. PICK m \in before : fd' = hd_sd[m] /\ \A t \in before : t <= m
        BY <1>2, <2>1, <3>2, <4>1 DEF Preceding
      <4>3. /\ m \in Socks /\ m < n /\ fd' # NoFd
            /\ hd_sd'[m] = fd'
        BY <1>2, <1>3, <2>2, <4>2 DEF Socks
      <4>4. fd' \in Held'
        BY <4>3 DEF Held
      <4>5. SockOf(fd)' = m
        BY <2>2, <4>3 DEF SockOf, SocketsAccounted
      <4>6. StartIndex(fd)' = m + 1
        BY <4>4, <4>5 DEF StartIndex
      <4>7. \A s \in Socks : hd_sd'[s] # NoFd => (s <= m <=> s < n)
        BY <1>3, <2>2, <4>2, <4>3 DEF Socks
      <4>8. \A s \in Socks : hd_sd'[s] # NoFd => (s < n <=> s < StartIndex(fd))
        BY <1>2, <1>3, <2>2 DEF Socks
      <4> QED BY <1>3, <4>3, <4>4, <4>6, <4>7, <4>8 DEF Socks
    <3> QED BY <3>1, <3>2
  <2>4. HTypeOK'
    BY <1>1, <1>6, <2>1, <2>2, <2>3 DEF HInv, HTypeOK, Held
  <2>5. \A s \in Socks : hd_sd'[s] # NoFd => hd_sd'[s] = hd_sd[s] /\ hd_sd[s] # c
    BY <1>2, <1>3, <2>2
  <2>6. \A s \in Socks : hd_sd'[s] # NoFd =>
           ((\E i \in DOMAIN served' : served'[i] = hd_sd'[s])
               <=> hd_sd'[s] \in read_set' /\ s < StartIndex(fd)')
    BY <1>1, <1>4, <1>6, <2>1, <2>3, <2>5
  <2>7. WalkSound'
    BY <1>1, <1>6, <2>1, <2>3, <2>6 DEF WalkSound
  <2> QED BY <1>5, <2>2, <2>4, <2>7 DEF HInv
<1> QED BY <1>7, <1>8

\* The walk ends (httpd_main.c:189).
LEMMA LastSessionInv ==
  ASSUME HInv, LastSession
  PROVE  HInv'
<1> USE DEF HInv, LastSession, tableVars, roundVars, appVars
<1>1. HTypeOK'
  BY DEF HTypeOK, ConnStates
<1>2. BacklogApart'
  BY DEF BacklogApart, HTypeOK
<1>3. FoundWaits'
  BY DEF FoundWaits, HTypeOK
<1>4. WalkSound'
  BY DEF WalkSound, HTypeOK, Held, StartIndex, SockOf
<1>5. SocketsAccounted'
  BY DEF SocketsAccounted, HTypeOK, Held
<1> QED BY <1>1, <1>2, <1>3, <1>4, <1>5

\* A purge queues the closing of a session (httpd_sess.c:329).
LEMMA PurgeSessionInv ==
  ASSUME HInv, PurgeSession
  PROVE  HInv'
<1> USE DEF HInv, PurgeSession, httpd_sess_close_lru, httpd_sess_trigger_close, tableVars, roundVars, appVars
<1>1. HTypeOK'
  <2>1. CASE LeastUsed = {}
    BY <2>1 DEF HTypeOK
  <2>2. CASE LeastUsed # {}
    <3>1. LeastUsed \subseteq Socks
      BY DEF LeastUsed
    <3>2. First(LeastUsed) \in Socks
      BY <2>2, <3>1, FirstSlot
    <3>3. hd_sd[First(LeastUsed)] # NoFd
      BY <3>2 DEF FreeSocks
    <3>4. SockOf(hd_sd[First(LeastUsed)]) \in Socks
      BY <3>2, <3>3, OneSlot
    <3>5. ctrl' \in Seq(Messages)
      BY <2>2, <3>4, MessageKinds, MessageSent
    <3> QED BY <3>5 DEF HTypeOK
  <2> QED BY <2>1, <2>2
<1>2. BacklogApart'
  BY DEF BacklogApart, HTypeOK
<1>3. FoundWaits'
  BY DEF FoundWaits, HTypeOK
<1>4. WalkSound'
  BY DEF WalkSound, HTypeOK, Held, StartIndex, SockOf
<1>5. SocketsAccounted'
  BY DEF SocketsAccounted, HTypeOK, Held
<1> QED BY <1>1, <1>2, <1>3, <1>4, <1>5

\* The head of the backlog gets a free slot or is closed (httpd_main.c:29).
LEMMA AcceptConnectionInv ==
  ASSUME HInv, AcceptConnection
  PROVE  HInv'
<1> DEFINE c == Head(backlog)
           f == First(FreeSocks)
<1>1. /\ hpc = "accept" /\ hpc' = "select" /\ backlog' = Tail(backlog)
      /\ UNCHANGED <<lru_counter, ctrl, read_set, fd, served>>
  BY DEF AcceptConnection, appVars
<1>2. backlog \in Seq(Conns) /\ backlog # <<>>
  BY <1>1 DEF HInv, HTypeOK, FoundWaits
<1>3. /\ c \in Conns /\ backlog' \in Seq(Conns) /\ Len(backlog') = Len(backlog) - 1
      /\ \A i \in DOMAIN backlog' : backlog'[i] = backlog[i + 1] /\ i + 1 \in DOMAIN backlog
      /\ c = backlog[1] /\ 1 \in DOMAIN backlog
  BY <1>1, <1>2
<1>4. conn[c] = "backlog" /\ c \notin Held /\ \A i \in DOMAIN backlog' : backlog'[i] # c
  <2>1. conn[c] = "backlog" /\ c \notin Held
    BY <1>3 DEF HInv, BacklogApart, Held
  <2>2. ASSUME NEW i \in DOMAIN backlog' PROVE backlog'[i] # c
    <3>1. i + 1 # 1 /\ i + 1 \in DOMAIN backlog
      BY <1>3
    <3> QED BY <1>3, <3>1 DEF HInv, BacklogApart
  <2> QED BY <2>1, <2>2
<1>5. CASE FreeSocks = {}
  <2>1. conn' = [conn EXCEPT ![c] = "closed"] /\ UNCHANGED <<hd_sd, sd_lru>>
    BY <1>5 DEF AcceptConnection, Becomes
  <2>2. Held' = Held
    BY <2>1 DEF Held
  <2>3. HTypeOK'
    BY <1>1, <1>3, <2>1 DEF HInv, HTypeOK, ConnStates
  <2>4. BacklogApart'
    BY <1>2, <1>3, <1>4, <2>1 DEF HInv, BacklogApart, HTypeOK, Held
  <2>5. SocketsAccounted'
    BY <1>1, <1>3, <2>1, <2>2 DEF HInv, SocketsAccounted, HTypeOK
  <2>6. FoundWaits' /\ WalkSound'
    BY <1>1 DEF HInv, FoundWaits, WalkSound
  <2> QED BY <2>3, <2>4, <2>5, <2>6 DEF HInv
<1>6. CASE FreeSocks # {}
  <2>1. f \in Socks /\ hd_sd[f] = NoFd
    <3>1. FreeSocks \subseteq Socks
      BY DEF FreeSocks
    <3> QED BY <1>6, <3>1, FirstSlot DEF FreeSocks
  <2>2. /\ hd_sd' = [hd_sd EXCEPT ![f] = c] /\ sd_lru' = [sd_lru EXCEPT ![f] = 0]
        /\ \/ conn' = [conn EXCEPT ![c] = "idle"]
           \/ conn' = [conn EXCEPT ![c] = "closed"]
    BY <1>6 DEF AcceptConnection, Becomes
  <2> HIDE DEF c, f
  <2>3. Held' = Held \cup {c}
    BY <1>3, <2>1, <2>2 DEF Held, HInv, HTypeOK, NoFd, Conns
  <2>4. HTypeOK'
    BY <1>1, <1>3, <2>1, <2>2 DEF HInv, HTypeOK, ConnStates
  <2>5. BacklogApart'
    BY <1>2, <1>3, <1>4, <2>1, <2>2 DEF HInv, BacklogApart, HTypeOK, Held
  <2>6. SocketsAccounted'
    <3>1. \A s, t \in Socks : hd_sd'[s] = hd_sd'[t] /\ hd_sd'[s] # NoFd => s = t
      BY <1>3, <1>4, <2>1, <2>2 DEF HInv, SocketsAccounted, HTypeOK, Held
    <3> QED BY <1>1, <1>3, <2>2, <2>3, <3>1 DEF HInv, SocketsAccounted, HTypeOK
  <2>7. FoundWaits' /\ WalkSound'
    BY <1>1 DEF HInv, FoundWaits, WalkSound
  <2> QED BY <2>4, <2>5, <2>6, <2>7 DEF HInv
<1> QED BY <1>5, <1>6

\* The end of the server closes everything (httpd_main.c:231).
LEMMA ExitThreadInv ==
  ASSUME HInv, ExitThread
  PROVE  HInv'
<1> USE DEF HInv, ExitThread, tableVars, roundVars, appVars
<1>1. HTypeOK'
  BY DEF HTypeOK, ConnStates
<1>2. BacklogApart'
  BY DEF BacklogApart, HTypeOK
<1>3. FoundWaits'
  BY DEF FoundWaits, HTypeOK
<1>4. WalkSound'
  BY DEF WalkSound, HTypeOK, Held, StartIndex, SockOf
<1>5. SocketsAccounted'
  BY DEF SocketsAccounted, HTypeOK, Held
<1> QED BY <1>1, <1>2, <1>3, <1>4, <1>5

\* Every step keeps the invariant.
LEMMA HStepInv == HInv /\ [HNext]_httpdVars => HInv'
<1> SUFFICES ASSUME HInv, [HNext]_httpdVars PROVE HInv'
  OBVIOUS
<1>1. CASE UNCHANGED httpdVars
  <2>1. /\ UNCHANGED <<hd_sd, sd_lru, lru_counter, conn, backlog, ctrl>>
        /\ UNCHANGED <<hpc, read_set, fd, served>>
    BY <1>1 DEF httpdVars, tableVars, roundVars
  <2>2. WalkSound' /\ Held' = Held
    BY <2>1, WalkQuiet
  <2>3. HTypeOK' /\ BacklogApart' /\ FoundWaits' /\ SocketsAccounted'
    BY <2>1, <2>2 DEF HInv, HTypeOK, BacklogApart, FoundWaits, SocketsAccounted
  <2> QED BY <2>2, <2>3 DEF HInv
<1>2. CASE Server
  BY <1>2, SelectInv, SelectFailsInv, CtrlMsgInv, NextSessionInv, LastSessionInv,
     PurgeSessionInv, AcceptConnectionInv, ExitThreadInv DEF Server
<1>3. CASE httpd_stop \/ StopReturns
  BY <1>3, HttpdStopInv, StopReturnsInv
<1>4. CASE \E c \in Conns : \/ PeerConnects(c) \/ PeerSends(c) \/ PeerCloses(c)
                            \/ AppClosesSession(c)
  BY <1>4, PeerConnectsInv, PeerSendsInv, PeerClosesInv, AppClosesSessionInv
<1> QED BY <1>1, <1>2, <1>3, <1>4 DEF HNext

\* The invariant holds in every behaviour of the server and its peers.
LEMMA HInvHolds == HSpec => []HInv
<1>1. HInit => HInv
  <2> SUFFICES ASSUME HInit PROVE HInv
    OBVIOUS
  <2>1. Held = {}
    BY DEF HInit, Held
  <2>2. HTypeOK
    BY DEF HInit, HTypeOK, ConnStates, NoFd
  <2>3. BacklogApart /\ FoundWaits /\ WalkSound
    BY DEF HInit, BacklogApart, FoundWaits, WalkSound
  <2>4. SocketsAccounted
    BY <2>1 DEF HInit, SocketsAccounted
  <2> QED BY <2>2, <2>3, <2>4 DEF HInv
<1> QED BY <1>1, HStepInv, PTL DEF HSpec

\* Every open connection has its one slot, and a stopped server has none, however
\* many slots and connections there are.
THEOREM EverySocketAccounted == HSpec => []SocketsAccounted
<1>1. HInv => SocketsAccounted
  BY DEF HInv
<1> QED BY <1>1, HInvHolds, PTL

\* A round processes each readable session exactly once, although it deletes from the
\* table it walks.
THEOREM RoundServesOnce == HSpec => []ServedOncePerRound
<1>1. HInv => ServedOncePerRound
  <2> SUFFICES ASSUME HInv PROVE ServedOncePerRound
    OBVIOUS
  <2>1. ASSUME hpc = "iterate", After(fd) = {}, NEW c \in read_set \cap Held
        PROVE  \E i \in DOMAIN served : served[i] = c
    <3>1. PICK s \in Socks : hd_sd[s] = c /\ c # NoFd
      BY DEF Held
    <3>2. StartIndex(fd) \in Nat
      BY OneSlot DEF StartIndex, Socks
    <3>3. s < StartIndex(fd)
      BY <2>1, <3>1, <3>2 DEF After, Socks
    <3> QED BY <2>1, <3>1, <3>3 DEF HInv, WalkSound
  <2> QED BY <2>1 DEF ServedOncePerRound, HInv, WalkSound
<1> QED BY <1>1, HInvHolds, PTL

=============================================================================
