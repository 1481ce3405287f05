----------------------------- MODULE Lifecycle ------------------------------
(***************************************************************************)
(* The life of the process: main(), the signals, and run() with everything *)
(* but the turns of its loop (FMGateway.cpp), the log (Log.cpp) and its    *)
(* connection (MQTTConnection.cpp).  SIGHUP makes main() call run() again  *)
(* in the same process, which keeps what the run before has left: the      *)
(* open descriptors, the working directory and the clients of the log with *)
(* their threads.                                                          *)
(*                                                                         *)
(* A client of the log is a thread of libmosquitto.  The broker lets one   *)
(* client have a name, and drops the one that had it; a client that was    *)
(* dropped, or finds that its number is no connection, connects again.  It *)
(* does not if the broker refused it: onConnect() then ends the thread.    *)
(***************************************************************************)
EXTENDS Descriptors, Sequences

CONSTANTS Options,          \* what the .ini file and the command line may say
          MaxSignals,       \* bound: the signals that are sent
          ClientNames       \* what the n-th connection of the log is called here

HUP == 1
INT == 2
TERM == 15

\* A run opens one connection, and every run but the first needs a signal.
Runs == 1 .. MaxSignals + 1

\* What the descriptors stand for.
Standard == {"stdin", "stdout", "stderr"}
Networks == {"local", "net", "squelch"}
Owners == {Free} \union Standard \union Networks \union
          { ClientNames[k] : k \in Runs }

ASSUME LifecycleAssumption ==
  /\ Options \subseteq [daemon : BOOLEAN,             \* conf.getDaemon()
                       protocol : {"USRP", "RAW", "IAX", "other"},
                       squelchFile : BOOLEAN,        \* the RAW network has one
                       relativePath : BOOLEAN]       \* that of the .ini file
  /\ MaxFd \in Nat /\ MaxFd >= 2
  /\ MaxSignals \in Nat

ASSUME NamesAssumption ==
  /\ \A k \in Runs : ClientNames[k] \notin {Free} \union Standard \union Networks
  /\ \A j, k \in Runs : ClientNames[j] = ClientNames[k] => j = k

VARIABLES pc,
          signal, killed,       \* m_signal, m_killed
          options,              \* those that this process has
          directory,            \* the working directory of the process, "root" for /
          pid,                  \* getpid(), as the number of forks
          files,                \* what the descriptors stand for
          clients,              \* the connections that were ever opened
          mqtt,                 \* m_mqtt, 0 for nullptr
          fds,                  \* the numbers in the networks of this run
          sent, restarts, gaveUp    \* history: signals, restarts, a run returned 1

process == << options, directory, pid >>
log == << clients, mqtt >>
history == << sent, restarts, gaveUp >>
vars == << pc, signal, killed, process, files, log, fds, history >>

Clients == [name : 0 .. MaxSignals + 1, fd : Fds \union {NoFd}, thread : BOOLEAN,
            state : {"none", "opening", "connected", "dropped", "refused"}]

\* What the process is started with.
Inherited == [n \in Fds |-> IF n = 0 THEN "stdin" ELSE IF n = 1 THEN "stdout"
                            ELSE IF n = 2 THEN "stderr" ELSE Free]

Daemon == options.daemon
HasSquelch == options.protocol = "RAW" /\ options.squelchFile

NotOpen == [n \in Networks |-> NoFd]

\* The statements from the first of run() to the test of main().
InRun == {"read", "fork", "log", "standard", "local", "net", "loop",
          "closeLocal", "closeNet", "closeSquelch", "again"}

Init ==
  /\ pc = "clearSignal" /\ signal = 0 /\ killed = FALSE
  /\ options \in Options /\ directory = "home" /\ pid = 0
  /\ files = Inherited
  /\ clients = << >> /\ mqtt = 0 /\ fds = NotOpen
  /\ sent = 0 /\ restarts = 0 /\ gaveUp = FALSE

-----------------------------------------------------------------------------
(***************************************************************************)
(* main()                                                                  *)
(***************************************************************************)
\* sigHandler().  The main thread does not block signals, so that it runs
\* the handler, between two of its own statements.
Signal(signum) ==
  /\ pc # "exited" /\ sent < MaxSignals
  /\ killed' = TRUE /\ signal' = signum
  /\ sent' = sent + 1
  /\ UNCHANGED << pc, process, files, log, fds, restarts, gaveUp >>

ClearSignal ==
  /\ pc = "clearSignal" /\ pc' = "clearKilled"
  /\ signal' = 0
  /\ UNCHANGED << killed, process, files, log, fds, history >>

ClearKilled ==
  /\ pc = "clearKilled" /\ pc' = "read"
  /\ killed' = FALSE
  /\ UNCHANGED << signal, process, files, log, fds, history >>

\* Variant of Again that goes by what run() returned.
AgainUnlessFailed ==
  /\ pc = "again"
  /\ pc' = IF signal = HUP /\ ~gaveUp THEN "clearSignal" ELSE "finalise"
  /\ restarts' = IF signal = HUP /\ ~gaveUp THEN restarts + 1 ELSE restarts
  /\ UNCHANGED << signal, killed, process, files, log, fds, sent, gaveUp >>

\* while (m_signal == 1), whatever run() returned.
Again ==
  /\ pc = "again"
  /\ pc' = IF signal = HUP THEN "clearSignal" ELSE "finalise"
  /\ restarts' = IF signal = HUP THEN restarts + 1 ELSE restarts
  /\ UNCHANGED << signal, killed, process, files, log, fds, sent, gaveUp >>

\* LogFinalise(), which knows of one connection.  Then the process ends.
Finalise ==
  /\ pc = "finalise" /\ pc' = "exited"
  /\ IF mqtt # 0 /\ clients[mqtt].state # "none"
     THEN /\ files' = IF clients[mqtt].fd = NoFd THEN files
                      ELSE ClosedAt(files, clients[mqtt].fd)
          /\ clients' = [clients EXCEPT ![mqtt].state = "none"]
     ELSE UNCHANGED << files, clients >>
  /\ mqtt' = 0
  /\ UNCHANGED << signal, killed, process, fds, history >>

-----------------------------------------------------------------------------
(***************************************************************************)
(* run()                                                                   *)
(***************************************************************************)
\* return 1, without closing anything.
GivesUp ==
  /\ pc' = "again"
  /\ gaveUp' = TRUE
  /\ UNCHANGED << sent, restarts >>

Goes(there) == pc' = there /\ UNCHANGED history

\* The file stays where it was when the process was started.
Found == options.relativePath => directory # "root"

ReadConf ==
  /\ pc = "read"
  /\ fds' = NotOpen
  /\ IF Found THEN Goes("fork") ELSE GivesUp
  /\ UNCHANGED << signal, killed, process, files, log >>

\* A child has none of the threads of its parent.
Orphaned(cs) == [k \in DOMAIN cs |-> [cs[k] EXCEPT !.thread = FALSE]]

\* Variant of Daemonise that leaves a daemon alone.
DaemoniseOnce ==
  /\ pc = "fork"
  /\ \/ (~Daemon \/ pid > 0) /\ Goes("log") /\ UNCHANGED << process, clients >>
     \/ /\ Daemon /\ pid = 0
        /\ pid' = 1 /\ directory' = "root"
        /\ clients' = Orphaned(clients)
        /\ Goes("log")
  /\ UNCHANGED << signal, killed, options, files, mqtt, fds >>

\* fork() may fail.  The child may fail to start a session or to change the
\* directory, and after that to become the user mmdvm.
Daemonise ==
  /\ pc = "fork"
  /\ \/ ~Daemon /\ Goes("log") /\ UNCHANGED << process, clients >>
     \/ Daemon /\ GivesUp /\ UNCHANGED << process, clients >>
     \/ /\ Daemon
        /\ pid' = pid + 1
        /\ clients' = Orphaned(clients)
        /\ \/ directory' = "root" /\ Goes("log")
           \/ directory' \in {directory, "root"} /\ GivesUp
  /\ UNCHANGED << signal, killed, options, files, mqtt, fds >>

\* Variant of Client without the call of mosquitto_loop_start().
ClientWithoutThread(fd) == [name |-> pid, fd |-> fd, state |-> "opening", thread |-> FALSE]

\* CMQTTConnection::open() names the client after the process.
Client(fd) == [name |-> pid, fd |-> fd, state |-> "opening", thread |-> TRUE]

NoClient == [name |-> pid, fd |-> NoFd, state |-> "none", thread |-> FALSE]

\* The connection of the run before is not closed.
OpenLog ==
  /\ pc = "log"
  /\ mqtt' = Len(clients) + 1
  /\ \/ GivesUp /\ clients' = Append(clients, NoClient) /\ UNCHANGED files
     \/ /\ \E n \in LowestFds(files) :
             /\ files' = OpenedAt(files, n, ClientNames[mqtt'])
             /\ clients' = Append(clients, Client(n))
        /\ Goes("standard")
  /\ UNCHANGED << signal, killed, process, fds >>

\* Variant of CloseStandard that does not ask for m_daemon.
CloseStandardAlways ==
  /\ pc = "standard"
  /\ Goes("local")
  /\ files' = ClosedAt(ClosedAt(ClosedAt(files, 0), 1), 2)
  /\ UNCHANGED << signal, killed, process, log, fds >>

\* A daemon closes the numbers 0, 1 and 2.
CloseStandard ==
  /\ pc = "standard"
  /\ Goes("local")
  /\ files' = IF Daemon THEN ClosedAt(ClosedAt(ClosedAt(files, 0), 1), 2) ELSE files
  /\ UNCHANGED << signal, killed, process, log, fds >>

OpenLocal ==
  /\ pc = "local"
  /\ \/ GivesUp /\ UNCHANGED << files, fds >>
     \/ /\ \E n \in LowestFds(files) :
             /\ files' = OpenedAt(files, n, "local")
             /\ fds' = [fds EXCEPT !["local"] = n]
        /\ Goes("net")
  /\ UNCHANGED << signal, killed, process, log >>

\* The name of the protocol may be wrong; CRAWNetwork::open() opens the
\* squelch file and then the socket, the others only the socket.  Each may fail.
OpenNet ==
  /\ pc = "net"
  /\ \/ GivesUp /\ UNCHANGED << files, fds >>
     \/ /\ HasSquelch
        /\ \E n \in LowestFds(files) : files' = OpenedAt(files, n, "squelch")
        /\ GivesUp /\ UNCHANGED fds
     \/ /\ ~HasSquelch /\ options.protocol # "other"
        /\ \E n \in LowestFds(files) :
             /\ files' = OpenedAt(files, n, "net")
             /\ fds' = [fds EXCEPT !["net"] = n]
        /\ Goes("loop")
     \/ /\ HasSquelch
        /\ \E n \in LowestFds(files) : \E m \in LowestFds(OpenedAt(files, n, "squelch")) :
             /\ files' = OpenedAt(OpenedAt(files, n, "squelch"), m, "net")
             /\ fds' = [fds EXCEPT !["squelch"] = n, !["net"] = m]
        /\ Goes("loop")
  /\ UNCHANGED << signal, killed, process, log >>

\* The turns of the loop are those of module FMGateway.
TestKilled ==
  /\ pc = "loop"
  /\ Goes(IF killed THEN "closeLocal" ELSE "loop")
  /\ UNCHANGED << signal, killed, process, files, log, fds >>

\* A number is closed, whatever it stands for.
Closes(o) ==
  /\ files' = IF fds[o] = NoFd THEN files ELSE ClosedAt(files, fds[o])
  /\ fds' = [fds EXCEPT ![o] = NoFd]
  /\ UNCHANGED << signal, killed, process, log >>

\* localNetwork.close(), which closes the socket and nothing else.
CloseLocal == pc = "closeLocal" /\ Goes("closeNet") /\ Closes("local")

\* network->close() closes the socket, and then the squelch file, if one is open.
CloseNet == pc = "closeNet" /\ Goes("closeSquelch") /\ Closes("net")

\* Variant of CloseSquelch that forgets the number without closing the file.
CloseSquelchForgets ==
  /\ pc = "closeSquelch" /\ Goes("again")
  /\ fds' = [fds EXCEPT !["squelch"] = NoFd]
  /\ UNCHANGED << signal, killed, process, log, files >>

CloseSquelch == pc = "closeSquelch" /\ Goes("again") /\ Closes("squelch")

-----------------------------------------------------------------------------
(***************************************************************************)
(* The threads of the log's clients, and the broker                        *)
(***************************************************************************)
Lives(k) == clients[k].thread /\ clients[k].state # "none" /\ pc # "exited"

HasNumber(k) == clients[k].fd # NoFd /\ files[clients[k].fd] = ClientNames[k]

\* onConnect() sets m_connected.  The broker drops a client of the same name.
Connect(k) ==
  /\ Lives(k) /\ clients[k].state = "opening" /\ HasNumber(k)
  /\ clients' = [j \in DOMAIN clients |->
       IF j = k THEN [clients[j] EXCEPT !.state = "connected"]
       ELSE IF clients[j].name = clients[k].name /\ clients[j].state = "connected"
            THEN [clients[j] EXCEPT !.state = "dropped"] ELSE clients[j]]
  /\ UNCHANGED << pc, signal, killed, process, files, mqtt, fds, history >>

\* onConnect() of a connection that the broker refuses calls
\* mosquitto_disconnect(), after which the thread ends and nothing reconnects.
Refused(k) ==
  /\ Lives(k) /\ clients[k].state = "opening" /\ HasNumber(k)
  /\ files' = ClosedAt(files, clients[k].fd)
  /\ clients' = [clients EXCEPT ![k].fd = NoFd, ![k].state = "refused", ![k].thread = FALSE]
  /\ UNCHANGED << pc, signal, killed, process, mqtt, fds, history >>

\* onDisconnect(): the client closes its number, whatever it stands for.
Disconnect(k) ==
  /\ Lives(k) /\ clients[k].fd # NoFd
  /\ clients[k].state = "dropped" \/ ~HasNumber(k)
  /\ files' = ClosedAt(files, clients[k].fd)
  /\ clients' = [clients EXCEPT ![k].fd = NoFd, ![k].state = "dropped"]
  /\ UNCHANGED << pc, signal, killed, process, mqtt, fds, history >>

\* The library connects again on its own.
Reconnect(k) ==
  /\ Lives(k) /\ clients[k].fd = NoFd
  /\ \E n \in LowestFds(files) :
       /\ files' = OpenedAt(files, n, ClientNames[k])
       /\ clients' = [clients EXCEPT ![k].fd = n, ![k].state = "opening"]
  /\ UNCHANGED << pc, signal, killed, process, mqtt, fds, history >>

-----------------------------------------------------------------------------
Main ==
  \/ ClearSignal \/ ClearKilled \/ Again \/ Finalise
  \/ ReadConf \/ Daemonise \/ OpenLog \/ CloseStandard
  \/ OpenLocal \/ OpenNet \/ TestKilled
  \/ CloseLocal \/ CloseNet \/ CloseSquelch

Thread(k) == Connect(k) \/ Refused(k) \/ Disconnect(k) \/ Reconnect(k)

Exited == pc = "exited" /\ UNCHANGED vars

Next ==
  \/ Main
  \/ \E signum \in {HUP, INT, TERM} : Signal(signum)
  \/ \E k \in DOMAIN clients : Thread(k)
  \/ Exited

\* The main thread and those of the clients go on as long as they can.
Spec ==
  /\ Init /\ [][Next]_vars
  /\ WF_vars(Main)
  /\ \A k \in Runs : WF_vars(k \in DOMAIN clients /\ Thread(k))
-----------------------------------------------------------------------------
(***************************************************************************)
(* Properties                                                              *)
(***************************************************************************)
TypeOK ==
  /\ pc \in InRun \union {"clearSignal", "clearKilled", "finalise", "exited"}
  /\ signal \in {0, HUP, INT, TERM} /\ killed \in BOOLEAN
  /\ options \in Options /\ directory \in {"home", "root"} /\ pid \in 0 .. MaxSignals + 1
  /\ files \in [Fds -> Owners]
  /\ clients \in Seq(Clients)
  /\ mqtt \in 0 .. Len(clients)
  /\ fds \in [Networks -> Fds \union {NoFd}]

\* Whatever signals come and whatever the threads do, a run that has
\* returned has left none of its sockets and files open to the next one,
\* unless it, or one before it, returned early (FMGateway.cpp:231-248).
NothingLeftOpen ==
  pc \in {"clearSignal", "exited"} /\ ~gaveUp => \A n \in Fds : files[n] \notin Networks

\* While the loop turns, the numbers in the networks and in the log's
\* connection stand for what they opened, and what is written to standard
\* output goes to no squelch file: the latter except in a daemon, the former
\* except in a daemon that was restarted (FMGateway.cpp:221-226).
NumbersAreTrue ==
  pc = "loop" =>
    /\ (Daemon => restarts = 0)
         => /\ \A o \in Networks : fds[o] # NoFd => files[fds[o]] = o
            /\ clients[mqtt].fd # NoFd => HasNumber(mqtt)
    /\ ~Daemon => files[1] # "squelch"

\* Every SIGINT or SIGTERM that run() could notice ends the process, and every
\* SIGHUP leads to another run, although run() may return early, unless a
\* signal of the other kind overtakes it (FMGateway.cpp:105-130).
SignalsHeeded ==
  /\ pc \in InRun /\ killed /\ signal \in {INT, TERM} ~> (pc = "exited" \/ signal = HUP)
  /\ pc \in InRun /\ killed /\ signal = HUP ~> (pc = "clearSignal" \/ signal \in {INT, TERM})

Rivals ==
  \E j, k \in DOMAIN clients :
    j # k /\ Lives(j) /\ Lives(k) /\ clients[j].name = clients[k].name

\* No two clients of the log have one name, of which a broker lets one client
\* have it, so that they would take the connection from each other for ever:
\* in a daemon, which is another process after a restart (FMGateway.cpp:161,
\* MQTTConnection.cpp:59-67).
OneClientPerName == Daemon => ~Rivals

\* The log is connected in the end, and stays so, if no client of a run
\* before disputes its name and the broker does not refuse it, which is for
\* good (MQTTConnection.cpp:156-191, 224-233).
LogSettles ==
  <>[](pc = "loop" /\ ~Rivals /\ FreeFds(files) # {}) =>
    \/ <>[](mqtt # 0 /\ clients[mqtt].state = "connected" /\ HasNumber(mqtt))
    \/ <>[](mqtt # 0 /\ clients[mqtt].state = "refused")
=============================================================================
