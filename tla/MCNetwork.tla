------------------------------ MODULE MCNetwork ------------------------------
(***************************************************************************)
(* The small network programs, each an executable of its own: the web      *)
(* server of test8, the TCP servers of test7 and test8, the asynchronous   *)
(* DNS client and the round-trip client.  They never meet, so a behaviour  *)
(* runs one of them, "active", while the others stay as they began.  The   *)
(* DNS client is extended, so that its assumption is evaluated here and    *)
(* its properties are checked under the names they are proved by.          *)
(***************************************************************************)
EXTENDS DnsClient, Integers, Sequences

CONSTANTS WebFd, BUFFER_LENGTH, HeaderLen, FileLens, MaxAccepts, MaxRequests
CONSTANTS TcpFd, MaxClients, MaxPieces
CONSTANTS g_loop_num, MaxSends, MaxOthers, MaxTime, MaxSpurious, MaxCloses

ASSUME WebAssumption == /\ BUFFER_LENGTH \in Nat /\ HeaderLen \in 1..BUFFER_LENGTH
                        /\ FileLens \subseteq Nat
ASSUME TcpAssumption == /\ IsFiniteSet(TcpFd) /\ TcpFd \subseteq Nat \ {0}
                        /\ MaxClients \in Nat /\ MaxPieces \in Nat \ {0}
ASSUME RttAssumption == g_loop_num \in Nat \ {0} /\ MaxSends \in Nat

VARIABLES active
VARIABLES fileLen, conns, mode, peer, requests, wire, tainted, accepts, killed
VARIABLES server, backlog, clients, sock, watched, pfds, nfds, ready, edges, slipped
VARIABLES main, start_time, startTimes, joined, echoed, spoken, told, taken, reach,
          recvThread, now, others, spurious, closes, rtt_vec

Web == INSTANCE Reactor
Tcp == INSTANCE TcpServers
Rtt == INSTANCE RoundTrip

webVars == <<fileLen, conns, mode, peer, requests, wire, tainted, accepts, killed>>
tcpVars == <<server, backlog, clients, sock, watched, pfds, nfds, ready, edges, slipped>>
rttVars == <<main, start_time, startTimes, joined, echoed, spoken, told, taken, reach,
             recvThread, now, others, spurious, closes, rtt_vec>>
networkVars == <<active, webVars, tcpVars, vars, rttVars>>

\* A program that does not run has nothing to choose.
NetworkInit ==
  /\ active \in {"web", "tcp", "dns", "rtt"}
  /\ Web!Init /\ (active = "web" \/ \A n \in FileLens : fileLen <= n)
  /\ Tcp!Init /\ (active = "tcp" \/ server = "select")
  /\ Init /\ Rtt!Init

NetworkNext ==
  /\ UNCHANGED active
  /\ \/ active = "web" /\ Web!Next /\ UNCHANGED <<tcpVars, vars, rttVars>>
     \/ active = "tcp" /\ Tcp!Next /\ UNCHANGED <<webVars, vars, rttVars>>
     \/ active = "dns" /\ Next /\ UNCHANGED <<webVars, tcpVars, rttVars>>
     \/ active = "rtt" /\ Rtt!Next /\ UNCHANGED <<webVars, tcpVars, vars>>

\* The event loops run on and clients take what they are sent.
WebFairness ==
  \A fd \in WebFd : /\ WF_webVars(active = "web" /\ ~killed /\ Web!Progress(fd))
                    /\ WF_webVars(active = "web" /\ ~killed /\ Web!NoProgress(fd))

\* The loops of the servers run on.
TcpFairness ==
  /\ WF_tcpVars(active = "tcp" /\ Tcp!Wait) /\ WF_tcpVars(active = "tcp" /\ Tcp!Accept)
  /\ WF_tcpVars(active = "tcp" /\ Tcp!PollWait) /\ WF_tcpVars(active = "tcp" /\ Tcp!PollEntry)
  /\ \A fd \in TcpFd : WF_tcpVars(active = "tcp" /\ Tcp!HandleClient(fd))

\* Both threads run on; nothing is assumed of the network.
DnsFairness ==
  /\ WF_vars(active = "dns" /\ Register) /\ WF_vars(active = "dns" /\ EpollWait)
  /\ \A q \in Query : WF_vars(active = "dns" /\ Handle(q))

\* Both threads and the server run on, keep-alives included, and KCP delivers what the
\* session has sent, once the client has all that was numbered before.
RttFairness ==
  /\ WF_rttVars(active = "rtt" /\ Rtt!SendAndWait)
  /\ WF_rttVars(active = "rtt" /\ Rtt!HandleConnection)
  /\ WF_rttVars(active = "rtt" /\ Rtt!ServerHandleMessage)
  /\ WF_rttVars(active = "rtt" /\ joined /\ taken < spoken /\ Rtt!ReadClock)
  /\ WF_rttVars(active = "rtt" /\ Rtt!Measure) /\ WF_rttVars(active = "rtt" /\ Rtt!NotifyOne)

NetworkSpec == NetworkInit /\ [][NetworkNext]_networkVars

FairSpec ==
  /\ NetworkSpec
  /\ WebFairness /\ TcpFairness /\ DnsFairness /\ RttFairness

-----------------------------------------------------------------------------
(* Properties: see the module of each program.  Those of the DNS client are *)
(* AnswerToOwner and CallbackComes.                                         *)

\* The variables of the running program keep their types.
NetworkTypeOK ==
  CASE active = "web" -> Web!TypeOK
    [] active = "tcp" -> Tcp!TypeOK
    [] active = "dns" -> TypeOK
    [] active = "rtt" -> Rtt!TypeOK

\* Clients of the web server are sent their responses byte for byte, whatever send
\* and sendfile take at a time.
ResponseExact == Web!ResponseExact

\* A response that was begun comes to an end, or its connection does.
ResponseEnds == Web!ResponseEnds

\* Each server watches exactly the descriptors that are open, and no recv or accept
\* of a blocking socket finds nothing.
WatchedExact == Tcp!WatchedExact

\* What a client sends is read to its end, edge-triggered or not.
Served == Tcp!Served

\* The answer to the newest message of the round-trip client gets its true time.
NewestExact == Rtt!NewestExact

\* The round-trip client never waits for a notification that has come already, until a
\* session is dropped.
KeepsMeasuring == Rtt!KeepsMeasuring
=============================================================================
