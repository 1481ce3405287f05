-------------------------- MODULE LifecycleProofs ---------------------------
(***************************************************************************)
(* For every size of the table of descriptors, any number of signals and   *)
(* all options: the types of Lifecycle, that no run leaves its sockets and *)
(* files open without having returned early, that a daemon has one client  *)
(* of a name, and that the numbers stand for what was opened until a       *)
(* daemon is restarted.                                                    *)
(***************************************************************************)
EXTENDS Lifecycle, TLAPS

\* A run has forked once at most and opened one connection at most, and
\* every run but the first has cost a signal.
BeforeFork == {"clearSignal", "clearKilled", "read", "fork"}
BeforeLog == BeforeFork \union {"log"}

Counted ==
  /\ restarts \in Nat /\ sent \in 0 .. MaxSignals
  /\ restarts <= sent
  /\ pc # "clearSignal" /\ signal # 0 => restarts < sent
  /\ pid <= restarts + 1
  /\ pc \in BeforeFork => pid <= restarts
  /\ Len(clients) <= restarts + 1
  /\ pc \in BeforeLog => Len(clients) <= restarts

\* What run() may have open of its networks at a statement.
StillOpen(at) ==
  IF at \in {"loop", "closeLocal"} THEN Networks
  ELSE IF at = "net" THEN {"local"}
  ELSE IF at = "closeNet" THEN {"net", "squelch"}
  ELSE IF at = "closeSquelch" THEN {"squelch"}
  ELSE {}

\* What is open of the networks is in the numbers of this run.
Accounted ==
  ~gaveUp => \A n \in Fds, o \in Networks : files[n] = o => fds[o] = n /\ o \in StillOpen(pc)

\* In a daemon only the last client has a thread, and none has one between
\* the fork and the next connection.
OneThread ==
  Daemon =>
    \A k \in DOMAIN clients : clients[k].thread => k = Len(clients) /\ pc # "log"

Inv == TypeOK /\ Counted /\ Accounted /\ OneThread

-----------------------------------------------------------------------------
\* Every connection has a name, which is no network's.
LEMMA Names ==
  /\ MaxSignals \in Nat
  /\ \A k \in Runs : ClientNames[k] \in Owners /\ ClientNames[k] \notin Networks
BY LifecycleAssumption, NamesAssumption DEF Owners

\* Free is no network, and has a place among the owners, as the networks do.
LEMMA Ownership == Free \notin Networks /\ Free \in Owners /\ Networks \subseteq Owners
BY DEF Free, Networks, Owners

\* Changing the elements of a sequence keeps a sequence of the same length.
LEMMA Mapped ==
  ASSUME NEW S, NEW s \in Seq(S), NEW f \in [DOMAIN s -> S]
  PROVE  f \in Seq(S) /\ Len(f) = Len(s) /\ DOMAIN f = DOMAIN s
<1>1. DOMAIN s = 1 .. Len(s) /\ Len(s) \in Nat
  OBVIOUS
<1>2. f \in [1 .. Len(s) -> S]
  BY <1>1
<1> QED BY <1>1, <1>2

\* A number that is given out was free.
LEMMA Opened ==
  ASSUME NEW table \in [Fds -> Owners], NEW n \in LowestFds(table), NEW owner \in Owners
  PROVE  /\ OpenedAt(table, n, owner) \in [Fds -> Owners]
         /\ \A m \in Fds : OpenedAt(table, n, owner)[m] = IF m = n THEN owner ELSE table[m]
         /\ n \in Fds /\ table[n] = Free
BY DEF OpenedAt, LowestFds, FreeFds

LEMMA ClosedIs ==
  ASSUME NEW table \in [Fds -> Owners], NEW n
  PROVE  /\ ClosedAt(table, n) \in [Fds -> Owners]
         /\ \A m \in Fds : ClosedAt(table, n)[m] \in {table[m], Free}
BY Ownership DEF ClosedAt

-----------------------------------------------------------------------------
LEMMA Initial == Init => Inv
<1> SUFFICES ASSUME Init PROVE Inv
  OBVIOUS
<1> USE DEF Init
<1>1. \A n \in Fds : files[n] \in Standard \union {Free}
  BY DEF Inherited, Standard
<1>2. files \in [Fds -> Owners]
  BY DEF Inherited, Owners, Standard
<1>3. MaxSignals \in Nat
  BY Names
<1>4. TypeOK
  <2>1. fds \in [Networks -> Fds \union {NoFd}]
    BY DEF NotOpen
  <2>2. clients \in Seq(Clients) /\ mqtt \in 0 .. Len(clients)
    OBVIOUS
  <2>3. pc \in InRun \union {"clearSignal", "clearKilled", "finalise", "exited"}
    OBVIOUS
  <2>4. signal \in {0, HUP, INT, TERM} /\ pid \in 0 .. MaxSignals + 1
    BY <1>3
  <2>5. killed \in BOOLEAN /\ directory \in {"home", "root"} /\ options \in Options
    OBVIOUS
  <2> HIDE DEF Init
  <2> QED BY <1>2, <2>1, <2>2, <2>3, <2>4, <2>5 DEF TypeOK
<1>5. Counted
  BY <1>3 DEF Counted, BeforeLog, BeforeFork
<1>6. Accounted
  BY <1>1 DEF Accounted, Networks, Standard, Free
<1>7. OneThread
  BY DEF OneThread
<1> QED BY <1>4, <1>5, <1>6, <1>7 DEF Inv

-----------------------------------------------------------------------------
\* What moves only the program counter, the signals and the history.
Still == UNCHANGED << process, files, log, fds >>

\* Such a step keeps the types of all the rest.
LEMMA StillTypes ==
  ASSUME TypeOK, Still,
         pc' \in InRun \union {"clearSignal", "clearKilled", "finalise", "exited"},
         signal' \in {0, HUP, INT, TERM}, killed' \in BOOLEAN
  PROVE  TypeOK'
BY DEF TypeOK, Still, process, log

LEMMA SignalStep ==
  ASSUME Inv, NEW signum \in {HUP, INT, TERM}, Signal(signum)
  PROVE  Inv'
<1> USE DEF Inv, Signal
<1>1. TypeOK'
  <2>1. Still /\ killed' \in BOOLEAN /\ signal' \in {0, HUP, INT, TERM}
    BY DEF Still
  <2> QED BY <2>1, StillTypes DEF TypeOK
<1>2. Counted'
  BY Names DEF Counted, process, log, BeforeFork, BeforeLog
<1>3. Accounted'
  BY DEF Accounted
<1>4. OneThread'
  BY DEF OneThread, Daemon, process, log
<1> QED BY <1>1, <1>2, <1>3, <1>4

LEMMA MainSteps ==
  ASSUME Inv, ClearSignal \/ ClearKilled \/ Again \/ TestKilled
  PROVE  Inv'
<1> USE DEF Inv, ClearSignal, ClearKilled, Again, TestKilled, Goes, history
<1>1. TypeOK'
  <2>1. Still
    BY DEF Still
  <2>2. signal' \in {0, HUP, INT, TERM}
    BY DEF TypeOK
  <2>3. killed' \in BOOLEAN
    BY DEF TypeOK
  <2>4. pc' \in InRun \union {"clearSignal", "clearKilled", "finalise", "exited"}
    BY DEF InRun
  <2> QED BY <2>1, <2>2, <2>3, <2>4, StillTypes
<1>2. Counted'
  <2>1. /\ UNCHANGED << sent, pid, clients >>
        /\ \/ signal' = 0 /\ restarts' = restarts /\ pc = "clearSignal" /\ pc' = "clearKilled"
           \/ signal' = signal /\ restarts' = restarts
                /\ \/ pc = "clearKilled" /\ pc' = "read"
                   \/ pc \in {"again", "loop"} /\ pc' \in {"finalise", "loop", "closeLocal"}
           \/ signal' = 1 /\ signal = 1 /\ pc = "again" /\ pc' = "clearSignal"
                /\ restarts' = restarts + 1
    BY DEF process, log, HUP
  <2> HIDE DEF ClearSignal, ClearKilled, Again, TestKilled
  <2>2. pid \in Int /\ Len(clients) \in Int
    BY DEF TypeOK
  <2> QED BY <2>1, <2>2, Names DEF Counted, BeforeFork, BeforeLog
<1>3. Accounted'
  <2>1. gaveUp' = gaveUp /\ files' = files /\ fds' = fds
    OBVIOUS
  <2>2. (pc = "loop" /\ pc' \in {"loop", "closeLocal"}) \/ StillOpen(pc) = {}
    BY DEF StillOpen
  <2>3. StillOpen(pc) \subseteq StillOpen(pc')
    BY <2>2 DEF StillOpen
  <2> HIDE DEF ClearSignal, ClearKilled, Again, TestKilled
  <2> QED BY <2>1, <2>3 DEF Accounted
<1>4. OneThread'
  <2>1. clients' = clients /\ pc' # "log" /\ Daemon' = Daemon
    BY DEF log, process, Daemon
  <2> QED BY <2>1 DEF OneThread
<1> QED BY <1>1, <1>2, <1>3, <1>4

-----------------------------------------------------------------------------
\* A statement of run() that neither forks nor opens a connection.
LEMMA Forward ==
  ASSUME TypeOK, Counted, UNCHANGED << signal, sent, restarts, pid >>,
         Len(clients') = Len(clients), pc # "clearSignal",
         pc' \in BeforeFork => pc \in BeforeFork, pc' \in BeforeLog => pc \in BeforeLog
  PROVE  Counted'
<1>1. pid \in Int /\ Len(clients) \in Int
  BY DEF TypeOK
<1> QED BY <1>1 DEF Counted

\* A step that opens no network and forgets none that may be open.
LEMMA NothingNew ==
  ASSUME Accounted, ~gaveUp' => ~gaveUp,
         \A n \in Fds : files'[n] \in Networks => files'[n] = files[n],
         StillOpen(pc) # {} /\ ~gaveUp'
           => fds' = fds /\ StillOpen(pc) \subseteq StillOpen(pc')
  PROVE  Accounted'
BY DEF Accounted

LEMMA FinaliseStep ==
  ASSUME Inv, Finalise
  PROVE  Inv'
<1> USE DEF Inv
<1> DEFINE open == mqtt # 0 /\ clients[mqtt].state # "none"
<1>1. open => mqtt \in DOMAIN clients
  BY DEF TypeOK
<1>2. /\ files' \in [Fds -> Owners]
      /\ \A n \in Fds : files'[n] \in {files[n], Free}
  BY ClosedIs DEF Finalise, TypeOK
<1>3. /\ clients' \in Seq(Clients) /\ Len(clients') = Len(clients)
      /\ \A k \in DOMAIN clients' : k \in DOMAIN clients /\ clients'[k].thread = clients[k].thread
  <2>1. CASE open
    <3>1. clients' = [clients EXCEPT ![mqtt].state = "none"]
      BY <2>1 DEF Finalise
    <3>2. clients[mqtt] \in Clients
      BY <1>1, <2>1 DEF TypeOK
    <3>3. [clients[mqtt] EXCEPT !.state = "none"] \in Clients
      BY <3>2 DEF Clients
    <3> QED BY <1>1, <2>1, <3>1, <3>2, <3>3 DEF TypeOK, Clients
  <2>2. CASE ~open
    BY <2>2 DEF Finalise, TypeOK
  <2> QED BY <2>1, <2>2
<1>4. TypeOK'
  <2>1. mqtt' = 0 /\ pc' = "exited" /\ UNCHANGED << signal, killed, process, fds >>
    BY DEF Finalise
  <2> QED BY <1>2, <1>3, <2>1 DEF TypeOK, process
<1>5. Counted'
  BY <1>3, Forward DEF Finalise, process, history, BeforeFork, BeforeLog
<1>6. Accounted'
  <2>1. pc = "finalise" /\ gaveUp' = gaveUp
    BY DEF Finalise, history
  <2> QED BY <1>2, <2>1, Ownership, NothingNew DEF StillOpen
<1>7. OneThread'
  BY <1>3 DEF OneThread, Daemon, process, Finalise
<1> QED BY <1>4, <1>5, <1>6, <1>7

LEMMA ReadConfStep ==
  ASSUME Inv, ReadConf
  PROVE  Inv'
<1> USE DEF Inv, ReadConf, Goes, GivesUp, history
<1>1. /\ UNCHANGED << signal, killed, process, files, log, sent, restarts >>
      /\ pc = "read" /\ pc' \in {"fork", "again"} /\ fds' = NotOpen
      /\ ~gaveUp' => ~gaveUp
  OBVIOUS
<1> HIDE DEF ReadConf
<1>2. TypeOK'
  <2>1. fds' \in [Networks -> Fds \union {NoFd}]
    BY <1>1 DEF NotOpen
  <2> QED BY <1>1, <2>1 DEF TypeOK, InRun, process, log
<1>3. Counted'
  BY <1>1, Forward DEF BeforeFork, BeforeLog, process, log
<1>4. Accounted'
  BY <1>1, NothingNew DEF StillOpen
<1>5. OneThread'
  BY <1>1 DEF OneThread, Daemon, process, log
<1> QED BY <1>2, <1>3, <1>4, <1>5

LEMMA DaemoniseStep ==
  ASSUME Inv, Daemonise
  PROVE  Inv'
<1> USE DEF Inv
<1>1. /\ UNCHANGED << signal, killed, options, files, mqtt, fds, sent, restarts >>
      /\ pc = "fork" /\ pc' \in {"log", "again"}
      /\ ~gaveUp' => ~gaveUp
  BY DEF Daemonise, Goes, GivesUp, history, process
<1>2. \/ pid' = pid /\ directory' = directory /\ clients' = clients
           /\ (Daemon => pc' = "again")
      \/ pid' = pid + 1 /\ directory' \in {directory, "root"} /\ clients' = Orphaned(clients)
  BY DEF Daemonise, Goes, GivesUp, process
<1>3. /\ Orphaned(clients) \in Seq(Clients)
      /\ Len(Orphaned(clients)) = Len(clients)
      /\ DOMAIN Orphaned(clients) = DOMAIN clients
      /\ \A k \in DOMAIN clients : Orphaned(clients)[k].thread = FALSE
  <2>1. ASSUME NEW k \in DOMAIN clients
        PROVE  /\ [clients[k] EXCEPT !.thread = FALSE] \in Clients
               /\ [clients[k] EXCEPT !.thread = FALSE].thread = FALSE
    <3>1. clients[k] \in Clients
      BY DEF TypeOK
    <3> QED BY <3>1 DEF Clients
  <2>2. clients \in Seq(Clients)
    BY DEF TypeOK
  <2>3. Orphaned(clients) \in [DOMAIN clients -> Clients]
    BY <2>1 DEF Orphaned
  <2> QED BY <2>1, <2>2, <2>3, Mapped DEF Orphaned
<1>4. Counted'
  <2>1. pid \in Int /\ Len(clients) \in Int /\ Len(clients') = Len(clients)
    BY <1>2, <1>3 DEF TypeOK
  <2>2. pid' = pid \/ pid' = pid + 1
    BY <1>2
  <2> QED BY <1>1, <2>1, <2>2 DEF Counted, BeforeFork, BeforeLog
<1>5. TypeOK'
  <2>1. pid' \in 0 .. MaxSignals + 1
    BY <1>1, <1>2, Names DEF TypeOK, Counted, BeforeFork
  <2>2. clients' \in Seq(Clients) /\ Len(clients') = Len(clients) /\ directory' \in {"home", "root"}
    BY <1>2, <1>3 DEF TypeOK
  <2> QED BY <1>1, <2>1, <2>2 DEF TypeOK, InRun
<1>6. Accounted'
  BY <1>1, NothingNew DEF StillOpen
<1>7. OneThread'
  BY <1>1, <1>2, <1>3 DEF OneThread, Daemon, process
<1> QED BY <1>4, <1>5, <1>6, <1>7

\* One more connection: the only one with a thread, if there is any.
LEMMA OneMore ==
  ASSUME Inv, pc = "log", NEW client \in Clients, clients' = Append(clients, client)
  PROVE  /\ clients' \in Seq(Clients) /\ Len(clients') = Len(clients) + 1
         /\ Daemon => \A k \in DOMAIN clients' : clients'[k].thread => k = Len(clients')
<1>1. clients \in Seq(Clients)
  BY DEF Inv, TypeOK
<1>2. clients' \in Seq(Clients) /\ Len(clients') = Len(clients) + 1
  BY <1>1
<1>3. ASSUME Daemon, NEW k \in DOMAIN clients', k # Len(clients')
      PROVE  ~clients'[k].thread
  <2>1. k \in DOMAIN clients /\ clients'[k] = clients[k]
    BY <1>1, <1>3
  <2> QED BY <2>1, <1>3 DEF Inv, OneThread
<1> QED BY <1>2, <1>3

LEMMA OpenLogStep ==
  ASSUME Inv, OpenLog
  PROVE  Inv'
<1> USE DEF Inv
<1>1. /\ UNCHANGED << signal, killed, process, fds, sent, restarts >>
      /\ pc = "log" /\ pc' \in {"again", "standard"} /\ mqtt' = Len(clients) + 1
      /\ ~gaveUp' => ~gaveUp
  BY DEF OpenLog, Goes, GivesUp, history
<1>2. Len(clients) \in Nat /\ Len(clients) + 1 \in Runs /\ pid \in 0 .. MaxSignals + 1
  BY <1>1, Names DEF Counted, TypeOK, BeforeLog, Runs
<1>3. /\ \E client \in Clients : clients' = Append(clients, client)
      /\ files' \in [Fds -> Owners]
      /\ \A n \in Fds : files'[n] \in Networks => files'[n] = files[n]
  <2>1. CASE clients' = Append(clients, NoClient) /\ UNCHANGED files
    <3>1. NoClient \in Clients
      BY <1>2 DEF NoClient, Clients
    <3> QED BY <2>1, <3>1 DEF TypeOK
  <2>2. ASSUME NEW n \in LowestFds(files),
               files' = OpenedAt(files, n, ClientNames[mqtt']),
               clients' = Append(clients, Client(n))
        PROVE  /\ \E client \in Clients : clients' = Append(clients, client)
               /\ files' \in [Fds -> Owners]
               /\ \A m \in Fds : files'[m] \in Networks => files'[m] = files[m]
    <3>1. ClientNames[mqtt'] \in Owners /\ ClientNames[mqtt'] \notin Networks
      BY <1>1, <1>2, Names
    <3>2. files \in [Fds -> Owners]
      BY DEF TypeOK
    <3>3. /\ files' \in [Fds -> Owners] /\ n \in Fds
          /\ \A m \in Fds : files'[m] = IF m = n THEN ClientNames[mqtt'] ELSE files[m]
      BY <2>2, <3>1, <3>2, Opened
    <3>4. Client(n) \in Clients
      BY <1>2, <3>3 DEF Client, Clients
    <3> QED BY <2>2, <3>1, <3>3, <3>4
  <2> QED BY <2>1, <2>2 DEF OpenLog
<1>4. PICK client \in Clients : clients' = Append(clients, client)
  BY <1>3
<1>5. /\ clients' \in Seq(Clients) /\ Len(clients') = Len(clients) + 1
      /\ Daemon => \A k \in DOMAIN clients' : clients'[k].thread => k = Len(clients')
  BY <1>1, <1>4, OneMore
<1>6. TypeOK'
  <2>1. mqtt' \in 0 .. Len(clients')
    BY <1>1, <1>2, <1>5
  <2> QED BY <1>1, <1>3, <1>5, <2>1 DEF TypeOK, process, InRun
<1>7. Counted'
  BY <1>1, <1>2, <1>5 DEF Counted, process, BeforeFork, BeforeLog
<1>8. Accounted'
  BY <1>1, <1>3, NothingNew DEF StillOpen
<1>9. OneThread'
  BY <1>1, <1>5 DEF OneThread, Daemon, process
<1> QED BY <1>6, <1>7, <1>8, <1>9

LEMMA CloseStandardStep ==
  ASSUME Inv, CloseStandard
  PROVE  Inv'
<1> USE DEF Inv
<1>1. /\ UNCHANGED << signal, killed, process, log, fds, history >>
      /\ pc = "standard" /\ pc' = "local"
  BY DEF CloseStandard, Goes
<1>2. /\ files' \in [Fds -> Owners]
      /\ \A n \in Fds : files'[n] \in {files[n], Free}
  <2>1. files \in [Fds -> Owners]
    BY DEF TypeOK
  <2> DEFINE once == ClosedAt(files, 0)
             twice == ClosedAt(once, 1)
             thrice == ClosedAt(twice, 2)
  <2>2. once \in [Fds -> Owners] /\ \A n \in Fds : once[n] \in {files[n], Free}
    BY <2>1, ClosedIs
  <2>3. twice \in [Fds -> Owners] /\ \A n \in Fds : twice[n] \in {once[n], Free}
    <3> HIDE DEF once
    <3> QED BY <2>2, ClosedIs
  <2>4. thrice \in [Fds -> Owners] /\ \A n \in Fds : thrice[n] \in {twice[n], Free}
    <3> HIDE DEF twice
    <3> QED BY <2>3, ClosedIs
  <2>5. files' = thrice \/ files' = files
    BY DEF CloseStandard
  <2> HIDE DEF once, twice, thrice
  <2> QED BY <2>1, <2>2, <2>3, <2>4, <2>5
<1>3. TypeOK'
  BY <1>1, <1>2 DEF TypeOK, process, log, InRun
<1>4. Counted'
  BY <1>1, Forward DEF process, log, history, BeforeFork, BeforeLog
<1>5. Accounted'
  BY <1>1, <1>2, Ownership, NothingNew DEF history, StillOpen
<1>6. OneThread'
  BY <1>1 DEF OneThread, Daemon, process, log
<1> QED BY <1>3, <1>4, <1>5, <1>6

\* A network that is opened is in the number it was given.
LEMMA OneMoreOpen ==
  ASSUME NEW table \in [Fds -> Owners], NEW numbers \in [Networks -> Fds \union {NoFd}],
         NEW o \in Networks, NEW n \in LowestFds(table),
         \A m \in Fds : table[m] \in Networks => numbers[table[m]] = m,
         \A m \in Fds : table[m] # o
  PROVE  LET table2 == OpenedAt(table, n, o)
             numbers2 == [numbers EXCEPT ![o] = n]
         IN  /\ table2 \in [Fds -> Owners]
             /\ numbers2 \in [Networks -> Fds \union {NoFd}]
             /\ \A m \in Fds : table2[m] \in Networks => numbers2[table2[m]] = m
             /\ \A m \in Fds : table2[m] \in {o, table[m]}
<1> DEFINE table2 == OpenedAt(table, n, o)
           numbers2 == [numbers EXCEPT ![o] = n]
<1>1. /\ table2 \in [Fds -> Owners] /\ n \in Fds
      /\ \A m \in Fds : table2[m] = IF m = n THEN o ELSE table[m]
  BY Ownership, Opened
<1>2. /\ numbers2 \in [Networks -> Fds \union {NoFd}]
      /\ numbers2[o] = n /\ \A p \in Networks : p # o => numbers2[p] = numbers[p]
  BY <1>1
<1> HIDE DEF table2, numbers2
<1>3. \A m \in Fds : table2[m] \in Networks => numbers2[table2[m]] = m
  BY <1>1, <1>2
<1>4. \A m \in Fds : table2[m] \in {o, table[m]}
  BY <1>1
<1> QED BY <1>1, <1>2, <1>3, <1>4 DEF table2, numbers2

LEMMA OpenLocalStep ==
  ASSUME Inv, OpenLocal
  PROVE  Inv'
<1> USE DEF Inv
<1>1. /\ UNCHANGED << signal, killed, process, log, sent, restarts >>
      /\ pc = "local" /\ pc' \in {"again", "net"}
      /\ ~gaveUp' => ~gaveUp
      /\ pc' = "again" => gaveUp'
  BY DEF OpenLocal, Goes, GivesUp, history
<1>2. files \in [Fds -> Owners] /\ fds \in [Networks -> Fds \union {NoFd}]
  BY DEF TypeOK
<1>3. ~gaveUp => \A m \in Fds : files[m] \notin Networks
  BY <1>1 DEF Accounted, StillOpen
<1>4. /\ files' \in [Fds -> Owners] /\ fds' \in [Networks -> Fds \union {NoFd}]
      /\ pc' = "net" /\ ~gaveUp =>
           \A m \in Fds : files'[m] \in Networks => files'[m] = "local" /\ fds'[files'[m]] = m
  <2>1. CASE UNCHANGED << files, fds >>
    BY <1>2, <1>3, <2>1
  <2>2. ASSUME NEW n \in LowestFds(files), files' = OpenedAt(files, n, "local"),
               fds' = [fds EXCEPT !["local"] = n]
        PROVE  /\ files' \in [Fds -> Owners] /\ fds' \in [Networks -> Fds \union {NoFd}]
               /\ ~gaveUp => \A m \in Fds : files'[m] \in Networks
                              => files'[m] = "local" /\ fds'[files'[m]] = m
    <3>1. "local" \in Networks
      BY DEF Networks
    <3>2. n \in Fds /\ files' \in [Fds -> Owners]
      BY <1>2, <2>2, <3>1, Ownership, Opened
    <3>3. ~gaveUp => \A m \in Fds : files'[m] \in Networks
                       => files'[m] = "local" /\ fds'[files'[m]] = m
      <4> SUFFICES ASSUME ~gaveUp
                   PROVE  \A m \in Fds : files'[m] \in Networks
                            => files'[m] = "local" /\ fds'[files'[m]] = m
        OBVIOUS
      <4>1. \A m \in Fds : files[m] \notin Networks
        BY <1>3
      <4> QED BY <1>2, <2>2, <3>1, <4>1, OneMoreOpen
    <3> QED BY <1>2, <2>2, <3>2, <3>3
  <2> QED BY <2>1, <2>2 DEF OpenLocal
<1>5. TypeOK'
  BY <1>1, <1>4 DEF TypeOK, process, log, InRun
<1>6. Counted'
  BY <1>1, Forward DEF process, log, BeforeFork, BeforeLog
<1>7. Accounted'
  BY <1>1, <1>4 DEF Accounted, StillOpen
<1>8. OneThread'
  BY <1>1 DEF OneThread, Daemon, process, log
<1> QED BY <1>5, <1>6, <1>7, <1>8

LEMMA OpenNetStep ==
  ASSUME Inv, OpenNet
  PROVE  Inv'
<1> USE DEF Inv
<1> DEFINE Types == files' \in [Fds -> Owners] /\ fds' \in [Networks -> Fds \union {NoFd}]
           InNumbers == \A m \in Fds : files'[m] \in Networks => fds'[files'[m]] = m
<1>1. /\ UNCHANGED << signal, killed, process, log, sent, restarts >>
      /\ pc = "net" /\ pc' \in {"again", "loop"}
      /\ ~gaveUp' => ~gaveUp
      /\ pc' = "again" => gaveUp'
  BY DEF OpenNet, Goes, GivesUp, history
<1>2. /\ files \in [Fds -> Owners] /\ fds \in [Networks -> Fds \union {NoFd}]
      /\ "net" \in Networks /\ "squelch" \in Networks
  BY DEF TypeOK, Networks
<1>3. Types
  <2>1. ASSUME NEW n \in LowestFds(files), NEW o \in Networks
        PROVE  OpenedAt(files, n, o) \in [Fds -> Owners] /\ n \in Fds
    BY <1>2, Ownership, Opened
  <2>2. ASSUME NEW n \in LowestFds(files), NEW m \in LowestFds(OpenedAt(files, n, "squelch"))
        PROVE  /\ OpenedAt(OpenedAt(files, n, "squelch"), m, "net") \in [Fds -> Owners]
               /\ n \in Fds /\ m \in Fds
    <3> DEFINE table == OpenedAt(files, n, "squelch")
    <3>1. table \in [Fds -> Owners] /\ n \in Fds
      BY <1>2, <2>1
    <3> HIDE DEF table
    <3>2. m \in LowestFds(table)
      BY DEF table
    <3>3. OpenedAt(table, m, "net") \in [Fds -> Owners] /\ m \in Fds
      BY <1>2, <3>1, <3>2, Ownership, Opened
    <3> QED BY <3>1, <3>3 DEF table
  <2> QED BY <1>2, <2>1, <2>2 DEF OpenNet
<1>4. ~gaveUp' => InNumbers
  <2> SUFFICES ASSUME ~gaveUp' PROVE InNumbers
    OBVIOUS
  <2>1. ~gaveUp /\ pc' = "loop"
    BY <1>1
  <2>2. \A m \in Fds : files[m] \in Networks => files[m] = "local" /\ fds[files[m]] = m
    BY <1>1, <2>1 DEF Accounted, StillOpen
  <2>3. \A m \in Fds : files[m] # "net" /\ files[m] # "squelch"
    BY <1>2, <2>2
  <2>4. ASSUME NEW n \in LowestFds(files), files' = OpenedAt(files, n, "net"),
               fds' = [fds EXCEPT !["net"] = n]
        PROVE  InNumbers
    BY <1>2, <2>2, <2>3, <2>4, OneMoreOpen
  <2>5. ASSUME NEW n \in LowestFds(files), NEW m \in LowestFds(OpenedAt(files, n, "squelch")),
               files' = OpenedAt(OpenedAt(files, n, "squelch"), m, "net"),
               fds' = [fds EXCEPT !["squelch"] = n, !["net"] = m]
        PROVE  InNumbers
    <3> DEFINE table == OpenedAt(files, n, "squelch")
               numbers == [fds EXCEPT !["squelch"] = n]
    <3>1. /\ table \in [Fds -> Owners] /\ numbers \in [Networks -> Fds \union {NoFd}]
          /\ \A k \in Fds : table[k] \in Networks => numbers[table[k]] = k
          /\ \A k \in Fds : table[k] \in {"squelch", files[k]}
      BY <1>2, <2>2, <2>3, OneMoreOpen
    <3>2. fds' = [numbers EXCEPT !["net"] = m]
      BY <1>2, <2>5
    <3>3. files' = OpenedAt(table, m, "net") /\ m \in LowestFds(table)
      BY <2>5
    <3> HIDE DEF table, numbers
    <3>4. \A k \in Fds : table[k] # "net"
      BY <2>3, <3>1
    <3> QED BY <1>2, <3>1, <3>2, <3>3, <3>4, OneMoreOpen
  <2> QED BY <2>1, <2>4, <2>5, <1>1 DEF OpenNet, GivesUp
<1>5. TypeOK'
  BY <1>1, <1>3 DEF TypeOK, process, log, InRun
<1>6. Counted'
  BY <1>1, Forward DEF process, log, BeforeFork, BeforeLog
<1>7. Accounted'
  BY <1>1, <1>4 DEF Accounted, StillOpen
<1>8. OneThread'
  BY <1>1 DEF OneThread, Daemon, process, log
<1> QED BY <1>5, <1>6, <1>7, <1>8

\* What is closed is no longer open, and nothing else changes.
LEMMA ClosesStep ==
  ASSUME Inv, NEW o \in Networks, Closes(o), UNCHANGED history,
         pc \in {"closeLocal", "closeNet", "closeSquelch"},
         pc' \in {"closeNet", "closeSquelch", "again"},
         StillOpen(pc) \subseteq StillOpen(pc') \union {o}
  PROVE  Inv'
<1> USE DEF Inv
<1>1. /\ UNCHANGED << signal, killed, process, log >>
      /\ files' = IF fds[o] = NoFd THEN files ELSE ClosedAt(files, fds[o])
      /\ fds' = [fds EXCEPT ![o] = NoFd]
  BY DEF Closes
<1>2. /\ files \in [Fds -> Owners] /\ fds \in [Networks -> Fds \union {NoFd}]
      /\ files' \in [Fds -> Owners] /\ fds' \in [Networks -> Fds \union {NoFd}]
  BY <1>1, ClosedIs DEF TypeOK
<1>3. ASSUME ~gaveUp, NEW n \in Fds, NEW p \in Networks, files'[n] = p
      PROVE  fds'[p] = n /\ p \in StillOpen(pc')
  <2>1. files[n] = p
    BY <1>1, <1>2, <1>3, ClosedIs, Ownership
  <2>2. fds[p] = n /\ p \in StillOpen(pc)
    BY <1>3, <2>1 DEF Accounted
  <2>3. p # o
    <3> SUFFICES ASSUME p = o PROVE FALSE
      OBVIOUS
    <3>1. fds[o] = n /\ n # NoFd
      BY <2>2 DEF Fds, NoFd
    <3>2. files'[n] = Free
      BY <1>1, <1>2, <3>1 DEF ClosedAt
    <3> QED BY <1>3, <3>2, Ownership
  <2> QED BY <1>1, <1>2, <2>2, <2>3
<1>4. TypeOK'
  BY <1>1, <1>2 DEF TypeOK, process, log, InRun
<1>5. Counted'
  BY <1>1, Forward DEF process, log, history, BeforeFork, BeforeLog
<1>6. Accounted'
  BY <1>1, <1>3 DEF Accounted, history
<1>7. OneThread'
  BY <1>1 DEF OneThread, Daemon, process, log
<1> QED BY <1>4, <1>5, <1>6, <1>7

LEMMA CloseStep ==
  ASSUME Inv, CloseLocal \/ CloseNet \/ CloseSquelch
  PROVE  Inv'
<1>1. CASE CloseLocal
  <2>1. /\ pc = "closeLocal" /\ pc' = "closeNet" /\ UNCHANGED history /\ Closes("local")
        /\ "local" \in Networks
    BY <1>1 DEF CloseLocal, Goes, Networks
  <2>2. StillOpen(pc) \subseteq StillOpen(pc') \union {"local"}
    BY <2>1 DEF StillOpen, Networks
  <2> QED BY <2>1, <2>2, ClosesStep
<1>2. CASE CloseNet
  <2>1. /\ pc = "closeNet" /\ pc' = "closeSquelch" /\ UNCHANGED history /\ Closes("net")
        /\ "net" \in Networks
    BY <1>2 DEF CloseNet, Goes, Networks
  <2>2. StillOpen(pc) \subseteq StillOpen(pc') \union {"net"}
    BY <2>1 DEF StillOpen
  <2> QED BY <2>1, <2>2, ClosesStep
<1>3. CASE CloseSquelch
  <2>1. /\ pc = "closeSquelch" /\ pc' = "again" /\ UNCHANGED history /\ Closes("squelch")
        /\ "squelch" \in Networks
    BY <1>3 DEF CloseSquelch, Goes, Networks
  <2>2. StillOpen(pc) \subseteq StillOpen(pc') \union {"squelch"}
    BY <2>1 DEF StillOpen
  <2> QED BY <2>1, <2>2, ClosesStep
<1> QED BY <1>1, <1>2, <1>3

-----------------------------------------------------------------------------
\* The threads change what their clients know, and no client gets a thread.
LEMMA ThreadStep ==
  ASSUME Inv, NEW k \in DOMAIN clients, Thread(k)
  PROVE  Inv'
<1> USE DEF Inv
<1>1. UNCHANGED << pc, signal, killed, process, mqtt, fds, history >>
  BY DEF Thread, Connect, Refused, Disconnect, Reconnect
<1>2. /\ files \in [Fds -> Owners] /\ clients \in Seq(Clients)
      /\ \A j \in DOMAIN clients : clients[j] \in Clients
  BY DEF TypeOK
<1>3. k \in Runs
  <2>1. Len(clients) \in Nat /\ DOMAIN clients = 1 .. Len(clients)
    BY <1>2
  <2>2. Len(clients) <= MaxSignals + 1
    BY <2>1, Names DEF Counted
  <2> QED BY <2>1, <2>2, Names DEF Runs
<1> DEFINE Kept == /\ clients' \in [DOMAIN clients -> Clients]
                   /\ \A j \in DOMAIN clients : clients'[j].thread => clients[j].thread
           Tabled == /\ files' \in [Fds -> Owners]
                     /\ \A n \in Fds : files'[n] \in Networks => files'[n] = files[n]
<1>4. ASSUME Connect(k) PROVE Kept /\ Tabled
  <2>1. Kept
    <3>1. ASSUME NEW j \in DOMAIN clients
          PROVE  /\ clients'[j] \in Clients /\ clients'[j].thread = clients[j].thread
      <4>1. /\ [clients[j] EXCEPT !.state = "connected"] \in Clients
            /\ [clients[j] EXCEPT !.state = "connected"].thread = clients[j].thread
        BY <1>2 DEF Clients
      <4>2. /\ [clients[j] EXCEPT !.state = "dropped"] \in Clients
            /\ [clients[j] EXCEPT !.state = "dropped"].thread = clients[j].thread
        BY <1>2 DEF Clients
      <4> QED BY <1>2, <1>4, <4>1, <4>2 DEF Connect
    <3>2. clients' = [j \in DOMAIN clients |-> clients'[j]]
      BY <1>4 DEF Connect
    <3> QED BY <3>1, <3>2
  <2>2. Tabled
    BY <1>2, <1>4 DEF Connect
  <2> HIDE DEF Kept, Tabled
  <2> QED BY <2>1, <2>2
<1>5. ASSUME Disconnect(k) PROVE Kept /\ Tabled
  <2>1. clients' = [clients EXCEPT ![k].fd = NoFd, ![k].state = "dropped"]
    BY <1>5 DEF Disconnect
  <2>2. files' = ClosedAt(files, clients[k].fd)
    BY <1>5 DEF Disconnect
  <2>3. Kept
    <3>1. /\ [[clients[k] EXCEPT !.fd = NoFd] EXCEPT !.state = "dropped"] \in Clients
          /\ [[clients[k] EXCEPT !.fd = NoFd] EXCEPT !.state = "dropped"].thread = clients[k].thread
      BY <1>2 DEF Clients
    <3> QED BY <1>2, <2>1, <3>1
  <2>4. Tabled
    BY <1>2, <2>2, ClosedIs, Ownership
  <2> HIDE DEF Kept, Tabled
  <2> QED BY <2>3, <2>4
<1>6. ASSUME Reconnect(k) PROVE Kept /\ Tabled
  <2>1. PICK n \in LowestFds(files) :
          /\ files' = OpenedAt(files, n, ClientNames[k])
          /\ clients' = [clients EXCEPT ![k].fd = n, ![k].state = "opening"]
    BY <1>6 DEF Reconnect
  <2>2. /\ files' \in [Fds -> Owners] /\ n \in Fds
        /\ \A m \in Fds : files'[m] = IF m = n THEN ClientNames[k] ELSE files[m]
    BY <1>2, <1>3, <2>1, Names, Opened
  <2>3. Kept
    <3>1. /\ [[clients[k] EXCEPT !.fd = n] EXCEPT !.state = "opening"] \in Clients
          /\ [[clients[k] EXCEPT !.fd = n] EXCEPT !.state = "opening"].thread = clients[k].thread
      BY <1>2, <2>2 DEF Clients
    <3> QED BY <1>2, <2>1, <3>1
  <2>4. Tabled
    BY <1>3, <2>2, Names
  <2> HIDE DEF Kept, Tabled
  <2> QED BY <2>3, <2>4
<1>7. ASSUME Refused(k) PROVE Kept /\ Tabled
  <2>1. /\ clients' = [clients EXCEPT ![k].fd = NoFd, ![k].state = "refused", ![k].thread = FALSE]
        /\ files' = ClosedAt(files, clients[k].fd)
    BY <1>7 DEF Refused
  <2>2. Kept
    <3> DEFINE refused == [[[clients[k] EXCEPT !.fd = NoFd] EXCEPT !.state = "refused"]
                             EXCEPT !.thread = FALSE]
    <3>1. refused \in Clients /\ refused.thread = FALSE
      BY <1>2 DEF Clients
    <3>2. clients' = [clients EXCEPT ![k] = refused]
      BY <1>2, <2>1
    <3> HIDE DEF refused
    <3> QED BY <1>2, <3>1, <3>2
  <2>3. Tabled
    BY <1>2, <2>1, ClosedIs, Ownership
  <2> HIDE DEF Kept, Tabled
  <2> QED BY <2>2, <2>3
<1>8. Kept /\ Tabled
  <2> HIDE DEF Kept, Tabled
  <2> QED BY <1>4, <1>5, <1>6, <1>7 DEF Thread
<1>9. /\ clients' \in Seq(Clients) /\ Len(clients') = Len(clients)
      /\ DOMAIN clients' = DOMAIN clients
  BY <1>2, <1>8, Mapped
<1>10. TypeOK'
  BY <1>1, <1>8, <1>9 DEF TypeOK, process
<1>11. Counted'
  BY <1>1, <1>9 DEF Counted, process, history
<1>12. Accounted'
  BY <1>1, <1>8, NothingNew DEF history
<1>13. OneThread'
  BY <1>1, <1>8, <1>9 DEF OneThread, Daemon, process
<1> QED BY <1>10, <1>11, <1>12, <1>13

LEMMA Inductive == Inv /\ [Next]_vars => Inv'
<1> SUFFICES ASSUME Inv, [Next]_vars PROVE Inv'
  OBVIOUS
<1>1. CASE Main
  BY <1>1, MainSteps, FinaliseStep, ReadConfStep, DaemoniseStep, OpenLogStep,
     CloseStandardStep, OpenLocalStep, OpenNetStep, CloseStep DEF Main
<1>2. CASE \E signum \in {HUP, INT, TERM} : Signal(signum)
  BY <1>2, SignalStep
<1>3. CASE \E k \in DOMAIN clients : Thread(k)
  BY <1>3, ThreadStep
<1>4. CASE UNCHANGED vars
  BY <1>4 DEF vars, process, log, history, Inv, TypeOK, Counted, Accounted, OneThread, Daemon
<1> QED BY <1>1, <1>2, <1>3, <1>4 DEF Next, Exited

LEMMA Invariance == Spec => []Inv
BY Initial, Inductive, PTL DEF Spec

-----------------------------------------------------------------------------
(***************************************************************************)
(* Which number belongs to whom.  As long as no daemon has been restarted, *)
(* every number that a network or a client of the log holds stands for it, *)
(* so that whoever closes a number closes what is its own: the close of    *)
(* the standard streams too, which until then are what the process         *)
(* inherited.                                                              *)
(***************************************************************************)
Stand(table, numbers, cs) ==
  /\ \A o \in Networks : numbers[o] # NoFd => table[numbers[o]] = o
  /\ \A k \in DOMAIN cs :
       cs[k].fd # NoFd /\ cs[k].state # "none" => table[cs[k].fd] = ClientNames[k]

Streams(table) == \A n \in 0 .. 2 : table[n] = Inherited[n]

Unrestarted == Daemon => restarts = 0

Early == Daemon => restarts = 0 /\ pc \in BeforeLog \union {"standard"}

HasLog ==
  pc \in {"standard", "local", "net", "loop"}
    => mqtt \in DOMAIN clients /\ clients[mqtt].state # "none"

Truth ==
  /\ HasLog
  /\ Unrestarted => Stand(files, fds, clients)
  /\ Early => Streams(files)

\* Nobody shares a name.
LEMMA Distinct ==
  /\ \A j, k \in Runs : ClientNames[j] = ClientNames[k] => j = k
  /\ \A k \in Runs : ClientNames[k] # Free /\ ClientNames[k] \notin Standard
  /\ Free \notin Standard /\ Networks \intersect Standard = {}
  /\ \A n \in 0 .. 2 : n \in Fds /\ Inherited[n] \in Standard
  /\ Inherited[1] # "squelch"
<1>1. Free \notin Standard /\ Networks \intersect Standard = {}
  BY DEF Free, Standard, Networks
<1>2. \A n \in 0 .. 2 : n \in Fds
  BY LifecycleAssumption DEF Fds
<1>3. \A n \in 0 .. 2 : Inherited[n] \in Standard
  BY <1>2 DEF Inherited, Standard
<1>4. Inherited[1] # "squelch"
  BY <1>2 DEF Inherited
<1> QED BY <1>1, <1>2, <1>3, <1>4, NamesAssumption

\* There are no more clients than names, and their numbers are numbers.
LEMMA ClientsAre ==
  ASSUME Inv
  PROVE  /\ clients \in Seq(Clients) /\ Len(clients) \in Nat
         /\ DOMAIN clients = 1 .. Len(clients) /\ Len(clients) <= MaxSignals + 1
         /\ \A k \in DOMAIN clients : k \in Runs /\ clients[k].fd \in Fds \union {NoFd}
<1>1. clients \in Seq(Clients) /\ Len(clients) \in Nat /\ DOMAIN clients = 1 .. Len(clients)
  BY DEF Inv, TypeOK
<1>2. Len(clients) <= MaxSignals + 1
  BY <1>1, Names DEF Inv, Counted
<1>3. \A k \in DOMAIN clients : clients[k] \in Clients
  BY <1>1
<1>4. DOMAIN clients \subseteq Runs
  BY <1>1, <1>2, Names DEF Runs
<1> QED BY <1>1, <1>2, <1>3, <1>4 DEF Clients

\* A number is given out that stood for nobody.
LEMMA OpensTruly ==
  ASSUME NEW table \in [Fds -> Owners], NEW n \in LowestFds(table), NEW owner \in Owners,
         NEW numbers \in [Networks -> Fds \union {NoFd}],
         NEW cs, \A k \in DOMAIN cs : k \in Runs /\ cs[k].fd \in Fds \union {NoFd}
  PROVE  /\ Stand(table, numbers, cs) => Stand(OpenedAt(table, n, owner), numbers, cs)
         /\ Streams(table) => Streams(OpenedAt(table, n, owner))
         /\ OpenedAt(table, n, owner)[n] = owner
         /\ OpenedAt(table, n, owner) \in [Fds -> Owners]
<1> DEFINE after == OpenedAt(table, n, owner)
<1>1. /\ \A m \in Fds : after[m] = IF m = n THEN owner ELSE table[m]
      /\ n \in Fds /\ table[n] = Free /\ after \in [Fds -> Owners]
  BY Opened
<1> HIDE DEF after
<1>2. \A m \in Fds : table[m] # Free => after[m] = table[m]
  BY <1>1
<1>3. ASSUME Stand(table, numbers, cs) PROVE Stand(after, numbers, cs)
  <2>1. ASSUME NEW o \in Networks, numbers[o] # NoFd PROVE after[numbers[o]] = o
    BY <1>2, <1>3, <2>1, Ownership DEF Stand
  <2>2. ASSUME NEW k \in DOMAIN cs, cs[k].fd # NoFd, cs[k].state # "none"
        PROVE  after[cs[k].fd] = ClientNames[k]
    <3>1. table[cs[k].fd] = ClientNames[k]
      BY <1>3, <2>2 DEF Stand
    <3>2. k \in Runs /\ cs[k].fd \in Fds
      BY <2>2
    <3> QED BY <1>2, <3>1, <3>2, Distinct
  <2> QED BY <2>1, <2>2 DEF Stand
<1>4. ASSUME Streams(table) PROVE Streams(after)
  <2>1. ASSUME NEW m \in 0 .. 2 PROVE after[m] = Inherited[m]
    <3>1. table[m] = Inherited[m] /\ m \in Fds /\ Inherited[m] # Free
      BY <1>4, Distinct DEF Streams
    <3> QED BY <1>2, <3>1
  <2> QED BY <2>1 DEF Streams
<1> QED BY <1>1, <1>3, <1>4 DEF after

\* What the threads do with a number that stands for their client, and
\* LogFinalise(): nobody else's number is touched.
LEMMA ClosesTruly ==
  ASSUME NEW table \in [Fds -> Owners], NEW k \in Runs, NEW n \in Fds,
         table[n] = ClientNames[k],
         NEW numbers \in [Networks -> Fds \union {NoFd}],
         NEW cs, \A j \in DOMAIN cs : j \in Runs /\ cs[j].fd \in Fds \union {NoFd},
         Stand(table, numbers, cs),
         NEW after, \A j \in DOMAIN after :
           j \in DOMAIN cs
           /\ (j # k => after[j].fd = cs[j].fd /\ (after[j].state = "none" <=> cs[j].state = "none"))
           /\ (j = k => after[j].fd = NoFd \/ after[j].state = "none")
  PROVE  /\ Stand(ClosedAt(table, n), numbers, after)
         /\ Streams(table) => Streams(ClosedAt(table, n))
<1> DEFINE closed == ClosedAt(table, n)
<1>1. \A m \in Fds : m # n => closed[m] = table[m]
  BY DEF ClosedAt
<1>2. \A m \in Fds : table[m] # ClientNames[k] => closed[m] = table[m]
  BY <1>1
<1> HIDE DEF closed
<1>3. ASSUME NEW o \in Networks, numbers[o] # NoFd PROVE closed[numbers[o]] = o
  BY <1>2, <1>3, Names DEF Stand
<1>4. ASSUME NEW j \in DOMAIN after, after[j].fd # NoFd, after[j].state # "none"
      PROVE  closed[after[j].fd] = ClientNames[j]
  <2>1. j # k /\ j \in DOMAIN cs /\ after[j].fd = cs[j].fd /\ cs[j].state # "none"
    BY <1>4
  <2>2. table[cs[j].fd] = ClientNames[j] /\ j \in Runs /\ cs[j].fd \in Fds
    BY <1>4, <2>1 DEF Stand
  <2> QED BY <1>2, <2>1, <2>2, Distinct
<1>5. ASSUME Streams(table) PROVE Streams(closed)
  <2>1. ASSUME NEW m \in 0 .. 2 PROVE closed[m] = Inherited[m]
    <3>1. table[m] = Inherited[m] /\ m \in Fds /\ Inherited[m] \in Standard
      BY <1>5, Distinct DEF Streams
    <3> QED BY <1>2, <3>1, Distinct
  <2> QED BY <2>1 DEF Streams
<1> QED BY <1>3, <1>4, <1>5 DEF Stand, closed

\* A step of main() that leaves the table, the numbers and the clients alone.
LEMMA SteadyTruth ==
  ASSUME Inv, Truth, UNCHANGED << files, fds, clients, mqtt, options >>,
         restarts' = restarts \/ (restarts' = restarts + 1 /\ pc' = "clearSignal"),
         pc' = pc \/ pc' \in {"clearSignal", "clearKilled", "read", "fork", "again",
                              "finalise", "closeLocal"}
           \/ (pc = "loop" /\ pc' = "loop"),
         pc' \in BeforeLog \union {"standard"} /\ restarts' = restarts
           => pc \in BeforeLog \union {"standard"}
  PROVE  Truth'
<1>1. restarts \in Nat
  BY DEF Inv, Counted
<1>2. HasLog'
  BY DEF HasLog, Truth
<1>3. Unrestarted' => Unrestarted
  BY <1>1 DEF Unrestarted, Daemon
<1>4. Early' => Early
  BY <1>1 DEF Early, Daemon
<1>5. Unrestarted' => Stand(files, fds, clients)'
  BY <1>3 DEF Truth, Stand
<1>6. Early' => Streams(files)'
  BY <1>4 DEF Truth, Streams
<1> QED BY <1>2, <1>5, <1>6 DEF Truth

LEMMA TruthAtFirst == Init => Truth
<1> SUFFICES ASSUME Init PROVE Truth
  OBVIOUS
<1>1. HasLog
  BY DEF Init, HasLog
<1>2. Stand(files, fds, clients)
  BY DEF Init, Stand, NotOpen
<1>3. Streams(files)
  BY DEF Init, Streams
<1> QED BY <1>1, <1>2, <1>3 DEF Truth

LEMMA CalmSteps ==
  ASSUME Inv, Truth,
         ClearSignal \/ ClearKilled \/ Again \/ TestKilled \/
           (\E signum \in {HUP, INT, TERM} : Signal(signum))
  PROVE  Truth'
<1>1. UNCHANGED << files, fds, clients, mqtt, options >>
  BY DEF ClearSignal, ClearKilled, Again, TestKilled, Signal, process, log
<1>2. restarts' = restarts \/ (restarts' = restarts + 1 /\ pc' = "clearSignal")
  BY DEF ClearSignal, ClearKilled, Again, TestKilled, Signal, Goes, history
<1>3. pc' = pc \/ pc' \in {"clearSignal", "clearKilled", "read", "fork", "again",
                           "finalise", "closeLocal"}
  BY DEF ClearSignal, ClearKilled, Again, TestKilled, Signal, Goes
<1>4. pc' \in BeforeLog \union {"standard"} /\ restarts' = restarts
        => pc \in BeforeLog \union {"standard"}
  <2>1. restarts \in Nat
    BY DEF Inv, Counted
  <2> QED BY <2>1 DEF ClearSignal, ClearKilled, Again, TestKilled, Signal, Goes,
                      BeforeLog, BeforeFork
<1> QED BY <1>1, <1>2, <1>3, <1>4, SteadyTruth

LEMMA ReadConfTruth ==
  ASSUME Inv, Truth, ReadConf
  PROVE  Truth'
<1>1. /\ UNCHANGED << files, clients, options, restarts >> /\ pc = "read"
      /\ pc' \in {"fork", "again"} /\ fds' = NotOpen
  BY DEF ReadConf, Goes, GivesUp, process, log, history
<1>2. HasLog'
  BY <1>1 DEF HasLog
<1>3. Unrestarted' => Stand(files, fds, clients)'
  BY <1>1 DEF Truth, Unrestarted, Daemon, Stand, NotOpen
<1>4. Early' => Streams(files)'
  BY <1>1 DEF Truth, Early, Daemon, Streams, BeforeLog, BeforeFork
<1> QED BY <1>2, <1>3, <1>4 DEF Truth

LEMMA DaemoniseTruth ==
  ASSUME Inv, Truth, Daemonise
  PROVE  Truth'
<1>1. /\ UNCHANGED << files, fds, options, restarts >> /\ pc = "fork"
      /\ pc' \in {"log", "again"} /\ (clients' = clients \/ clients' = Orphaned(clients))
  BY DEF Daemonise, Goes, GivesUp, history, process
<1>2. /\ DOMAIN clients' = DOMAIN clients
      /\ \A k \in DOMAIN clients :
           clients'[k].fd = clients[k].fd /\ clients'[k].state = clients[k].state
  <2>1. \A k \in DOMAIN clients : clients[k] \in Clients
    BY DEF Inv, TypeOK
  <2>2. /\ DOMAIN Orphaned(clients) = DOMAIN clients
        /\ \A k \in DOMAIN clients : Orphaned(clients)[k] = [clients[k] EXCEPT !.thread = FALSE]
    BY DEF Orphaned
  <2>3. \A k \in DOMAIN clients :
          /\ [clients[k] EXCEPT !.thread = FALSE].fd = clients[k].fd
          /\ [clients[k] EXCEPT !.thread = FALSE].state = clients[k].state
    BY <2>1 DEF Clients
  <2> QED BY <1>1, <2>2, <2>3
<1>3. HasLog'
  BY <1>1 DEF HasLog
<1>4. Unrestarted' => Stand(files, fds, clients)'
  BY <1>1, <1>2 DEF Truth, Unrestarted, Daemon, Stand
<1>5. Early' => Streams(files)'
  BY <1>1 DEF Truth, Early, Daemon, Streams, BeforeLog, BeforeFork
<1> QED BY <1>3, <1>4, <1>5 DEF Truth

LEMMA FinaliseTruth ==
  ASSUME Inv, Truth, Finalise
  PROVE  Truth'
<1>1. /\ UNCHANGED << fds, options, restarts >> /\ pc = "finalise" /\ pc' = "exited"
  BY DEF Finalise, process, history
<1>2. HasLog'
  BY <1>1 DEF HasLog
<1>3. Unrestarted' => Unrestarted
  BY <1>1 DEF Unrestarted, Daemon
<1>4. Early' => Early /\ ~Daemon
  BY <1>1 DEF Early, Daemon, BeforeLog, BeforeFork
<1>5. CASE mqtt # 0 /\ clients[mqtt].state # "none"
  <2>1. /\ files' = IF clients[mqtt].fd = NoFd THEN files ELSE ClosedAt(files, clients[mqtt].fd)
        /\ clients' = [clients EXCEPT ![mqtt].state = "none"]
    BY <1>5 DEF Finalise
  <2>2. mqtt \in DOMAIN clients
    BY <1>5 DEF Inv, TypeOK
  <2>3. \A k \in DOMAIN clients : clients[k] \in Clients
    BY DEF Inv, TypeOK
  <2>4. \A j \in DOMAIN clients' :
          /\ j \in DOMAIN clients
          /\ j # mqtt => clients'[j] = clients[j]
          /\ j = mqtt => clients'[j].state = "none" /\ clients'[j].fd = clients[j].fd
    BY <2>1, <2>2, <2>3 DEF Clients
  <2>5. CASE clients[mqtt].fd = NoFd
    BY <1>1, <1>2, <1>3, <1>4, <2>1, <2>4, <2>5 DEF Truth, Stand, Streams
  <2>6. CASE clients[mqtt].fd # NoFd
    <3>1. ASSUME Unrestarted
          PROVE  /\ Stand(files', fds, clients')
                 /\ Streams(files) => Streams(files')
      <4>1. Stand(files, fds, clients)
        BY <3>1 DEF Truth
      <4>2. files[clients[mqtt].fd] = ClientNames[mqtt] /\ clients[mqtt].fd \in Fds
        BY <1>5, <2>2, <2>6, <4>1, ClientsAre DEF Stand
      <4>3. files \in [Fds -> Owners] /\ fds \in [Networks -> Fds \union {NoFd}]
        BY DEF Inv, TypeOK
      <4>4. files' = ClosedAt(files, clients[mqtt].fd)
        BY <2>1, <2>6
      <4>5. mqtt \in Runs
        BY <2>2, ClientsAre
      <4>6. \A j \in DOMAIN clients : j \in Runs /\ clients[j].fd \in Fds \union {NoFd}
        BY ClientsAre
      <4> QED BY <2>4, <4>1, <4>2, <4>3, <4>4, <4>5, <4>6, ClosesTruly
    <3>2. Early' => Unrestarted
      BY <1>4 DEF Unrestarted
    <3>3. Unrestarted' => Stand(files, fds, clients)'
      BY <1>1, <1>3, <3>1 DEF Stand
    <3>4. Early' => Streams(files)'
      BY <1>4, <3>1, <3>2 DEF Truth, Streams
    <3> QED BY <1>2, <3>3, <3>4 DEF Truth
  <2> QED BY <2>5, <2>6
<1>6. CASE ~(mqtt # 0 /\ clients[mqtt].state # "none")
  <2>1. files' = files /\ clients' = clients
    BY <1>6 DEF Finalise
  <2> QED BY <1>1, <1>2, <1>3, <1>4, <2>1 DEF Truth, Stand, Streams
<1> QED BY <1>5, <1>6

LEMMA OpenLogTruth ==
  ASSUME Inv, Truth, OpenLog
  PROVE  Truth'
<1>1. /\ UNCHANGED << fds, options, restarts >> /\ pc = "log" /\ mqtt' = Len(clients) + 1
      /\ pc' \in {"standard", "again"}
  BY DEF OpenLog, process, Goes, GivesUp, history
<1>2. /\ clients \in Seq(Clients) /\ Len(clients) \in Nat /\ Len(clients) <= MaxSignals
      /\ DOMAIN clients = 1 .. Len(clients)
      /\ \A k \in DOMAIN clients : k \in Runs /\ clients[k].fd \in Fds \union {NoFd}
  <2>1. Len(clients) <= MaxSignals
    BY <1>1, Names, ClientsAre DEF Inv, Counted, BeforeLog
  <2> QED BY <2>1, ClientsAre
<1>3. files \in [Fds -> Owners] /\ fds \in [Networks -> Fds \union {NoFd}]
  BY DEF Inv, TypeOK
<1>4. \A client : /\ DOMAIN Append(clients, client) = 1 .. Len(clients) + 1
                  /\ Append(clients, client)[Len(clients) + 1] = client
                  /\ \A k \in DOMAIN clients : Append(clients, client)[k] = clients[k]
  BY <1>2
<1>5. Unrestarted' => Unrestarted
  BY <1>1 DEF Unrestarted, Daemon
<1>6. Early' => Early
  BY <1>1 DEF Early, Daemon, BeforeLog
<1>7. CASE clients' = Append(clients, NoClient) /\ files' = files /\ pc' = "again"
  <2>1. HasLog'
    BY <1>7 DEF HasLog
  <2>2. NoClient.fd = NoFd
    BY DEF NoClient
  <2>3. Stand(files, fds, clients) => Stand(files', fds, clients')
    <3>1. \A k \in DOMAIN clients' : \/ k \in DOMAIN clients /\ clients'[k] = clients[k]
                                     \/ clients'[k] = NoClient
      BY <1>2, <1>4, <1>7
    <3> QED BY <1>7, <2>2, <3>1 DEF Stand
  <2> QED BY <1>1, <1>5, <1>6, <1>7, <2>1, <2>3 DEF Truth, Stand, Streams
<1>8. ASSUME NEW n \in LowestFds(files), files' = OpenedAt(files, n, ClientNames[mqtt']),
             clients' = Append(clients, Client(n))
      PROVE  Truth'
  <2>1. mqtt' \in Runs /\ ClientNames[mqtt'] \in Owners
    BY <1>1, <1>2, Names DEF Runs
  <2> DEFINE owner == ClientNames[mqtt']
  <2>2. /\ Stand(files, fds, clients) => Stand(files', fds, clients)
        /\ Streams(files) => Streams(files')
        /\ files'[n] = owner
    <3> HIDE DEF owner
    <3>1. owner \in Owners /\ files' = OpenedAt(files, n, owner)
      BY <1>8, <2>1 DEF owner
    <3> QED BY <1>2, <1>3, <3>1, OpensTruly
  <2>3. Client(n).fd = n
    BY DEF Client
  <2>4. Stand(files', fds, clients) => Stand(files', fds, clients')
    <3>1. /\ DOMAIN clients' = 1 .. Len(clients) + 1
          /\ clients'[Len(clients) + 1] = Client(n)
          /\ \A k \in DOMAIN clients : clients'[k] = clients[k]
      BY <1>4, <1>8
    <3>2. \A k \in DOMAIN clients' : k \in DOMAIN clients \/ k = mqtt'
      BY <1>1, <1>2, <3>1
    <3>3. clients'[mqtt'] = Client(n)
      BY <1>1, <3>1
    <3> QED BY <2>2, <2>3, <3>1, <3>2, <3>3 DEF Stand
  <2>5. HasLog'
    <3>1. DOMAIN clients' = 1 .. Len(clients) + 1 /\ clients'[mqtt'] = Client(n)
      BY <1>1, <1>4, <1>8
    <3>2. mqtt' \in DOMAIN clients'
      BY <1>1, <1>2, <3>1
    <3>3. Client(n).state # "none"
      BY DEF Client
    <3> QED BY <3>1, <3>2, <3>3 DEF HasLog
  <2> QED BY <1>1, <1>5, <1>6, <2>2, <2>4, <2>5 DEF Truth, Stand, Streams
<1> QED BY <1>7, <1>8 DEF OpenLog, GivesUp, Goes

\* What the daemon closes are its standard streams.
LEMMA CloseStandardTruth ==
  ASSUME Inv, Truth, CloseStandard
  PROVE  Truth'
<1>1. /\ UNCHANGED << fds, clients, mqtt, options, restarts >> /\ pc = "standard" /\ pc' = "local"
      /\ files' = IF Daemon THEN ClosedAt(ClosedAt(ClosedAt(files, 0), 1), 2) ELSE files
  BY DEF CloseStandard, process, log, Goes, history
<1>2. HasLog'
  BY <1>1 DEF HasLog, Truth
<1>3. Early' => ~Daemon
  BY <1>1 DEF Early, Daemon, BeforeLog, BeforeFork
<1>4. CASE ~Daemon
  BY <1>1, <1>2, <1>4 DEF Truth, Unrestarted, Early, Daemon, Stand, Streams
<1>5. CASE Daemon
  <2>1. ASSUME Unrestarted PROVE Stand(files', fds, clients')
    <3>1. Stand(files, fds, clients) /\ Streams(files)
      BY <1>1, <2>1 DEF Truth, Unrestarted, Early
    <3>2. \A m \in Fds : files[m] \notin Standard => files'[m] = files[m]
      <4>1. files[0] \in Standard /\ files[1] \in Standard /\ files[2] \in Standard
        BY <3>1, Distinct DEF Streams
      <4>2. \A m \in Fds : m # 0 /\ m # 1 /\ m # 2 => files'[m] = files[m]
        <5>1. files \in [Fds -> Owners]
          BY DEF Inv, TypeOK
        <5>2. files' = [[[files EXCEPT ![0] = Free] EXCEPT ![1] = Free] EXCEPT ![2] = Free]
          BY <1>1, <1>5 DEF ClosedAt
        <5> QED BY <5>1, <5>2
      <4> QED BY <4>1, <4>2
    <3>3. ASSUME NEW o \in Networks, fds[o] # NoFd PROVE files'[fds[o]] = o
      <4>1. fds[o] \in Fds
        BY <3>3 DEF Inv, TypeOK
      <4> QED BY <3>1, <3>2, <3>3, <4>1, Distinct DEF Stand
    <3>4. ASSUME NEW k \in DOMAIN clients, clients[k].fd # NoFd, clients[k].state # "none"
          PROVE  files'[clients[k].fd] = ClientNames[k]
      <4>1. clients[k].fd \in Fds /\ k \in Runs
        BY <3>4, ClientsAre
      <4>2. files[clients[k].fd] = ClientNames[k]
        BY <3>1, <3>4 DEF Stand
      <4> QED BY <3>2, <4>1, <4>2, Distinct
    <3> QED BY <1>1, <3>3, <3>4 DEF Stand
  <2>2. Unrestarted' => Unrestarted
    BY <1>1 DEF Unrestarted, Daemon
  <2>3. ~Early'
    BY <1>1, <1>3, <1>5 DEF Daemon
  <2>4. Unrestarted' => Stand(files, fds, clients)'
    BY <1>1, <2>1, <2>2 DEF Stand
  <2> QED BY <1>2, <2>3, <2>4 DEF Truth
<1> QED BY <1>4, <1>5

\* A network opens, and holds the number.
LEMMA NetworkOpens ==
  ASSUME Inv, NEW table \in [Fds -> Owners], NEW numbers \in [Networks -> Fds \union {NoFd}],
         NEW o \in Networks, NEW n \in LowestFds(table)
  PROVE  /\ Stand(table, numbers, clients)
              => Stand(OpenedAt(table, n, o), [numbers EXCEPT ![o] = n], clients)
         /\ Stand(table, numbers, clients)
              => Stand(OpenedAt(table, n, o), numbers, clients)
         /\ Streams(table) => Streams(OpenedAt(table, n, o))
         /\ OpenedAt(table, n, o) \in [Fds -> Owners]
         /\ [numbers EXCEPT ![o] = n] \in [Networks -> Fds \union {NoFd}]
<1>1. \A k \in DOMAIN clients : k \in Runs /\ clients[k].fd \in Fds \union {NoFd}
  BY ClientsAre
<1>2. /\ Stand(table, numbers, clients) => Stand(OpenedAt(table, n, o), numbers, clients)
      /\ Streams(table) => Streams(OpenedAt(table, n, o))
      /\ OpenedAt(table, n, o)[n] = o
      /\ OpenedAt(table, n, o) \in [Fds -> Owners]
  BY <1>1, OpensTruly, Ownership
<1>3. n \in Fds
  BY Opened, Ownership
<1>4. /\ [numbers EXCEPT ![o] = n] \in [Networks -> Fds \union {NoFd}]
      /\ \A p \in Networks : [numbers EXCEPT ![o] = n][p] = IF p = o THEN n ELSE numbers[p]
  BY <1>3
<1> DEFINE after == OpenedAt(table, n, o)
           held == [numbers EXCEPT ![o] = n]
<1>5. Stand(after, numbers, clients) => Stand(after, held, clients)
  <2> HIDE DEF after, held
  <2>1. after[n] = o /\ \A p \in Networks : held[p] = IF p = o THEN n ELSE numbers[p]
    BY <1>2, <1>4 DEF after, held
  <2> QED BY <2>1 DEF Stand
<1> QED BY <1>2, <1>4, <1>5

\* A step that opens networks, which come after the standard streams.
LEMMA OpeningTruth ==
  ASSUME Inv, Truth, UNCHANGED << clients, mqtt, options, restarts >>,
         pc \in {"local", "net"}, pc' \in {"net", "loop", "again"},
         Stand(files, fds, clients) => Stand(files', fds', clients),
         Streams(files) => Streams(files')
  PROVE  Truth'
<1>1. HasLog'
  BY DEF HasLog, Truth
<1>2. Unrestarted' => Unrestarted
  BY DEF Unrestarted, Daemon
<1>3. Early' => Early
  BY DEF Early, Daemon, BeforeLog, BeforeFork
<1>4. Unrestarted' => Stand(files, fds, clients)'
  BY <1>2 DEF Truth, Stand
<1>5. Early' => Streams(files)'
  BY <1>3 DEF Truth, Streams
<1> QED BY <1>1, <1>4, <1>5 DEF Truth

LEMMA OpenLocalTruth ==
  ASSUME Inv, Truth, OpenLocal
  PROVE  Truth'
<1>1. /\ UNCHANGED << clients, mqtt, options, restarts >>
      /\ pc = "local" /\ pc' \in {"net", "again"}
  BY DEF OpenLocal, process, log, Goes, GivesUp, history
<1>2. /\ files \in [Fds -> Owners] /\ fds \in [Networks -> Fds \union {NoFd}]
      /\ "local" \in Networks
  BY DEF Inv, TypeOK, Networks
<1>3. CASE files' = files /\ fds' = fds
  BY <1>1, <1>3, OpeningTruth
<1>4. ASSUME NEW n \in LowestFds(files), files' = OpenedAt(files, n, "local"),
             fds' = [fds EXCEPT !["local"] = n]
      PROVE  Truth'
  <2>1. /\ Stand(files, fds, clients) => Stand(files', fds', clients)
        /\ Streams(files) => Streams(files')
    BY <1>2, <1>4, NetworkOpens
  <2> QED BY <1>1, <2>1, OpeningTruth
<1> QED BY <1>3, <1>4 DEF OpenLocal

LEMMA OpenNetTruth ==
  ASSUME Inv, Truth, OpenNet
  PROVE  Truth'
<1>1. /\ UNCHANGED << clients, mqtt, options, restarts >>
      /\ pc = "net" /\ pc' \in {"loop", "again"}
  BY DEF OpenNet, process, log, Goes, GivesUp, history
<1>2. /\ files \in [Fds -> Owners] /\ fds \in [Networks -> Fds \union {NoFd}]
      /\ "net" \in Networks /\ "squelch" \in Networks
  BY DEF Inv, TypeOK, Networks
<1>3. CASE files' = files /\ fds' = fds
  BY <1>1, <1>3, OpeningTruth
<1>4. ASSUME NEW n \in LowestFds(files), files' = OpenedAt(files, n, "squelch"), fds' = fds
      PROVE  Truth'
  <2>1. /\ Stand(files, fds, clients) => Stand(files', fds', clients)
        /\ Streams(files) => Streams(files')
    BY <1>2, <1>4, NetworkOpens
  <2> QED BY <1>1, <2>1, OpeningTruth
<1>5. ASSUME NEW n \in LowestFds(files), files' = OpenedAt(files, n, "net"),
             fds' = [fds EXCEPT !["net"] = n]
      PROVE  Truth'
  <2>1. /\ Stand(files, fds, clients) => Stand(files', fds', clients)
        /\ Streams(files) => Streams(files')
    BY <1>2, <1>5, NetworkOpens
  <2> QED BY <1>1, <2>1, OpeningTruth
<1>6. ASSUME NEW n \in LowestFds(files), NEW m \in LowestFds(OpenedAt(files, n, "squelch")),
             files' = OpenedAt(OpenedAt(files, n, "squelch"), m, "net"),
             fds' = [fds EXCEPT !["squelch"] = n, !["net"] = m]
      PROVE  Truth'
  <2> DEFINE table == OpenedAt(files, n, "squelch")
             numbers == [fds EXCEPT !["squelch"] = n]
  <2>1. /\ Stand(files, fds, clients) => Stand(table, numbers, clients)
        /\ Streams(files) => Streams(table)
        /\ table \in [Fds -> Owners] /\ numbers \in [Networks -> Fds \union {NoFd}]
    BY <1>2, NetworkOpens
  <2>2. files' = OpenedAt(table, m, "net") /\ fds' = [numbers EXCEPT !["net"] = m]
        /\ m \in LowestFds(table)
    BY <1>2, <1>6
  <2> HIDE DEF table, numbers
  <2>3. /\ Stand(table, numbers, clients) => Stand(files', fds', clients)
        /\ Streams(table) => Streams(files')
    BY <1>2, <2>1, <2>2, NetworkOpens
  <2> QED BY <1>1, <2>1, <2>3, OpeningTruth
<1> QED BY <1>3, <1>4, <1>5, <1>6 DEF OpenNet

\* What is closed is the networks' own.
LEMMA ClosesTruth ==
  ASSUME Inv, Truth, NEW o \in Networks, Closes(o), UNCHANGED history,
         pc \in {"closeLocal", "closeNet", "closeSquelch"},
         pc' \in {"closeNet", "closeSquelch", "again"}
  PROVE  Truth'
<1>1. /\ UNCHANGED << clients, mqtt, options, restarts >>
      /\ files' = IF fds[o] = NoFd THEN files ELSE ClosedAt(files, fds[o])
      /\ fds' = [fds EXCEPT ![o] = NoFd]
  BY DEF Closes, process, log, history
<1>2. /\ files \in [Fds -> Owners] /\ fds \in [Networks -> Fds \union {NoFd}]
      /\ HasLog'
  BY DEF Inv, TypeOK, HasLog
<1>3. Unrestarted' => Unrestarted
  BY <1>1 DEF Unrestarted, Daemon
<1>4. Early' => Early /\ Unrestarted
  BY <1>1 DEF Early, Unrestarted, Daemon, BeforeLog, BeforeFork
<1>5. ASSUME Unrestarted, NEW m \in Fds, files[m] # o PROVE files'[m] = files[m]
  <2>1. fds[o] # NoFd => files[fds[o]] = o
    BY <1>5 DEF Truth, Stand
  <2> QED BY <1>1, <1>2, <1>5, <2>1 DEF ClosedAt
<1>6. ASSUME Unrestarted PROVE Stand(files', fds', clients')
  <2>1. Stand(files, fds, clients)
    BY <1>6 DEF Truth
  <2>2. ASSUME NEW k \in DOMAIN clients, clients[k].fd # NoFd, clients[k].state # "none"
        PROVE  files'[clients[k].fd] = ClientNames[k]
    <3>1. clients[k].fd \in Fds /\ k \in Runs
      BY <2>2, ClientsAre
    <3>2. files[clients[k].fd] = ClientNames[k]
      BY <2>1, <2>2 DEF Stand
    <3> QED BY <1>5, <1>6, <3>1, <3>2, Names
  <2>3. ASSUME NEW p \in Networks, fds'[p] # NoFd PROVE files'[fds'[p]] = p
    <3>1. p # o /\ fds'[p] = fds[p]
      BY <1>1, <1>2, <2>3
    <3>2. files[fds[p]] = p /\ fds[p] \in Fds
      BY <1>2, <2>1, <2>3, <3>1 DEF Stand
    <3> QED BY <1>5, <1>6, <3>1, <3>2
  <2> QED BY <1>1, <2>2, <2>3 DEF Stand
<1>7. ASSUME Unrestarted, Streams(files) PROVE Streams(files')
  <2>1. ASSUME NEW m \in 0 .. 2 PROVE files'[m] = Inherited[m]
    <3>1. files[m] = Inherited[m] /\ m \in Fds /\ Inherited[m] \in Standard
      BY <1>7, Distinct DEF Streams
    <3> QED BY <1>5, <1>7, <3>1, Distinct
  <2> QED BY <2>1 DEF Streams
<1>8. Unrestarted' => Stand(files, fds, clients)'
  BY <1>3, <1>6 DEF Stand
<1>9. Early' => Streams(files)'
  BY <1>4, <1>7 DEF Truth, Streams
<1> QED BY <1>2, <1>8, <1>9 DEF Truth

LEMMA CloseTruth ==
  ASSUME Inv, Truth, CloseLocal \/ CloseNet \/ CloseSquelch
  PROVE  Truth'
<1>1. "local" \in Networks /\ "net" \in Networks /\ "squelch" \in Networks
  BY DEF Networks
<1> QED BY <1>1, ClosesTruth DEF CloseLocal, CloseNet, CloseSquelch, Goes

\* The threads of the clients close and open numbers of their own.
LEMMA ThreadTruth ==
  ASSUME Inv, Truth, NEW k \in DOMAIN clients, Thread(k)
  PROVE  Truth'
<1>1. UNCHANGED << pc, options, mqtt, fds, restarts >>
  BY DEF Thread, Connect, Refused, Disconnect, Reconnect, process, history
<1>2. /\ files \in [Fds -> Owners] /\ fds \in [Networks -> Fds \union {NoFd}]
      /\ \A j \in DOMAIN clients : clients[j] \in Clients
      /\ \A j \in DOMAIN clients : j \in Runs /\ clients[j].fd \in Fds \union {NoFd}
      /\ k \in Runs
  BY ClientsAre DEF Inv, TypeOK
<1>3. Unrestarted' <=> Unrestarted
  BY <1>1 DEF Unrestarted, Daemon
<1>4. Early' => Early /\ Unrestarted
  BY <1>1 DEF Early, Unrestarted, Daemon
<1> DEFINE Holds == /\ DOMAIN clients' = DOMAIN clients
                    /\ \A j \in DOMAIN clients :
                         clients[j].state # "none" => clients'[j].state # "none"
                    /\ Unrestarted => /\ Stand(files', fds, clients')
                                      /\ Streams(files) => Streams(files')
<1>5. ASSUME Connect(k) PROVE Holds
  <2>1. /\ files' = files /\ DOMAIN clients' = DOMAIN clients
        /\ \A j \in DOMAIN clients :
             \/ clients'[j] = clients[j]
             \/ clients'[j] = [clients[j] EXCEPT !.state = "connected"] /\ j = k
             \/ clients'[j] = [clients[j] EXCEPT !.state = "dropped"]
                  /\ clients[j].state = "connected"
    BY <1>5 DEF Connect
  <2>2. clients[k].state = "opening"
    BY <1>5 DEF Connect
  <2>3. \A j \in DOMAIN clients :
          /\ clients'[j].fd = clients[j].fd
          /\ clients'[j].state = "none" <=> clients[j].state = "none"
    BY <1>2, <2>1, <2>2 DEF Clients
  <2> QED BY <2>1, <2>3 DEF Truth, Stand
<1>6. ASSUME Disconnect(k) \/ Refused(k) PROVE Holds
  <2>1. /\ files' = ClosedAt(files, clients[k].fd)
        /\ clients[k].fd # NoFd /\ clients[k].state # "none"
    BY <1>6 DEF Disconnect, Refused, Lives, HasNumber
  <2>2. /\ DOMAIN clients' = DOMAIN clients
        /\ \A j \in DOMAIN clients : j # k => clients'[j] = clients[j]
        /\ clients'[k].fd = NoFd /\ clients'[k].state \in {"dropped", "refused"}
    <3>1. CASE Disconnect(k)
      BY <1>2, <3>1 DEF Clients, Disconnect
    <3>2. CASE Refused(k)
      BY <1>2, <3>2 DEF Clients, Refused
    <3> QED BY <1>6, <3>1, <3>2
  <2>3. ASSUME Unrestarted
        PROVE  Stand(files', fds, clients') /\ (Streams(files) => Streams(files'))
    <3>1. Stand(files, fds, clients)
      BY <2>3 DEF Truth
    <3>2. files[clients[k].fd] = ClientNames[k] /\ clients[k].fd \in Fds
      BY <1>2, <2>1, <3>1 DEF Stand
    <3>3. \A j \in DOMAIN clients' :
            /\ j \in DOMAIN clients
            /\ (j # k => /\ clients'[j].fd = clients[j].fd
                         /\ (clients'[j].state = "none" <=> clients[j].state = "none"))
            /\ (j = k => clients'[j].fd = NoFd \/ clients'[j].state = "none")
      BY <2>2
    <3> DEFINE n == clients[k].fd
               after == clients'
    <3>4. files' = ClosedAt(files, n) /\ files[n] = ClientNames[k] /\ n \in Fds
      BY <2>1, <3>2
    <3> HIDE DEF n
    <3>5. /\ Stand(ClosedAt(files, n), fds, after)
          /\ Streams(files) => Streams(ClosedAt(files, n))
      BY <1>2, <3>1, <3>3, <3>4, ClosesTruly
    <3> QED BY <3>4, <3>5
  <2>4. \A j \in DOMAIN clients : clients[j].state # "none" => clients'[j].state # "none"
    BY <2>2
  <2> QED BY <2>2, <2>3, <2>4
<1>7. ASSUME Reconnect(k) PROVE Holds
  <2>1. PICK n \in LowestFds(files) :
          /\ files' = OpenedAt(files, n, ClientNames[k])
          /\ clients' = [clients EXCEPT ![k].fd = n, ![k].state = "opening"]
    BY <1>7 DEF Reconnect
  <2>2. /\ DOMAIN clients' = DOMAIN clients
        /\ \A j \in DOMAIN clients : j # k => clients'[j] = clients[j]
        /\ clients'[k].fd = n /\ clients'[k].state = "opening"
    BY <1>2, <2>1 DEF Clients
  <2> DEFINE owner == ClientNames[k]
  <2>3. /\ Stand(files, fds, clients) => Stand(files', fds, clients)
        /\ Streams(files) => Streams(files')
        /\ files'[n] = owner
    <3>1. owner \in Owners /\ files' = OpenedAt(files, n, owner)
      BY <1>2, <2>1, Names
    <3> HIDE DEF owner
    <3> QED BY <1>2, <3>1, OpensTruly
  <2>4. Stand(files', fds, clients) => Stand(files', fds, clients')
    BY <2>2, <2>3 DEF Stand
  <2>5. \A j \in DOMAIN clients : clients[j].state # "none" => clients'[j].state # "none"
    BY <2>2
  <2> QED BY <2>2, <2>3, <2>4, <2>5 DEF Truth
<1>8. Holds
  <2> HIDE DEF Holds
  <2> QED BY <1>5, <1>6, <1>7 DEF Thread
<1>9. HasLog'
  BY <1>1, <1>8 DEF HasLog, Truth
<1>10. Unrestarted' => Stand(files, fds, clients)'
  BY <1>1, <1>3, <1>8 DEF Stand
<1>11. Early' => Streams(files)'
  BY <1>4, <1>8 DEF Truth, Streams
<1> QED BY <1>9, <1>10, <1>11 DEF Truth

LEMMA TruthKept == Inv /\ Truth /\ [Next]_vars => Truth'
<1> SUFFICES ASSUME Inv, Truth, [Next]_vars PROVE Truth'
  OBVIOUS
<1>1. CASE Main
  BY <1>1, CalmSteps, FinaliseTruth, ReadConfTruth, DaemoniseTruth, OpenLogTruth,
     CloseStandardTruth, OpenLocalTruth, OpenNetTruth, CloseTruth DEF Main
<1>2. CASE \E signum \in {HUP, INT, TERM} : Signal(signum)
  BY <1>2, CalmSteps
<1>3. CASE \E k \in DOMAIN clients : Thread(k)
  BY <1>3, ThreadTruth
<1>4. CASE UNCHANGED vars
  BY <1>4 DEF vars, process, log, history, Truth, HasLog, Unrestarted, Early, Daemon,
              Stand, Streams
<1> QED BY <1>1, <1>2, <1>3, <1>4 DEF Next, Exited

-----------------------------------------------------------------------------
\* The variables keep their types for every size of the table and setting.
THEOREM TypeCorrect == Spec => []TypeOK
<1>1. Inv => TypeOK
  BY DEF Inv
<1> QED BY <1>1, Invariance, PTL

\* Whatever signals come and whatever the threads of the log's clients close
\* and open in between, run() leaves none of its sockets and files open unless
\* a run returned early.
THEOREM NothingLeft == Spec => []NothingLeftOpen
<1>1. Inv => NothingLeftOpen
  BY DEF Inv, Accounted, NothingLeftOpen, StillOpen
<1> QED BY <1>1, Invariance, PTL

\* The fork of a daemon leaves the clients of the runs before without their
\* threads, so that the connection of this run keeps its name.
THEOREM DaemonsHaveOneClient == Spec => []OneClientPerName
<1>1. Inv => OneClientPerName
  BY DEF Inv, OneThread, OneClientPerName, Rivals, Lives
<1> QED BY <1>1, Invariance, PTL

\* While the loop turns, no number has come to stand for something else under
\* the hands of its owner, except in a daemon that was restarted.
THEOREM NumbersHold == Spec => []NumbersAreTrue
<1>1. Inv /\ Truth => NumbersAreTrue
  <2> SUFFICES ASSUME Inv, Truth, pc = "loop" PROVE NumbersAreTrue
    BY DEF NumbersAreTrue
  <2>1. ASSUME Daemon => restarts = 0
        PROVE  /\ \A o \in Networks : fds[o] # NoFd => files[fds[o]] = o
               /\ clients[mqtt].fd # NoFd => HasNumber(mqtt)
    <3>1. Stand(files, fds, clients)
      BY <2>1 DEF Truth, Unrestarted
    <3>2. mqtt \in DOMAIN clients /\ clients[mqtt].state # "none"
      BY DEF Truth, HasLog
    <3> QED BY <3>1, <3>2 DEF Stand, HasNumber
  <2>2. ~Daemon => files[1] # "squelch"
    BY Distinct DEF Truth, Early, Streams
  <2> QED BY <2>1, <2>2 DEF NumbersAreTrue
<1>2. Spec => []Truth
  BY TruthAtFirst, TruthKept, Invariance, PTL DEF Spec
<1> QED BY <1>1, <1>2, Invariance, PTL
=============================================================================
