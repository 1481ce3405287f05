-------------------------- MODULE UDPSocketProofs ---------------------------
(***************************************************************************)
(* For every size of the table, with or without a port, and whatever other *)
(* parts of the process do to the descriptors, CUDPSocket loses no socket  *)
(* and fails its assertion only after a reopening that failed.             *)
(***************************************************************************)
EXTENDS UDPSocket, TLAPS

Tables == [Fds -> {Free} \union Kinds]

Objects == [files : Tables, fd : Fds \union {NoFd}, ok : BOOLEAN]

\* Nothing in the table is the object's but what its number stands for.
Keeps(s) == \A n \in Fds : s.files[n] = "mine" => s.fd = n

\* close() leaves nothing behind.
LEMMA ClosedKeeps ==
  ASSUME NEW s \in Objects, Keeps(s)
  PROVE  /\ Closed(s) \in Objects /\ Keeps(Closed(s))
         /\ Closed(s).fd = NoFd
         /\ Closed(s).ok = s.ok
<1>1. CASE s.fd >= 0
  <2>1. s.fd \in Fds
    BY <1>1 DEF Objects, NoFd
  <2>2. Closed(s) = [files |-> [s.files EXCEPT ![s.fd] = Free], fd |-> NoFd, ok |-> s.ok]
    BY <1>1 DEF Closed, ClosedAt, Objects
  <2>3. [s.files EXCEPT ![s.fd] = Free] \in Tables
    BY <2>1 DEF Objects, Tables
  <2>4. \A n \in Fds : [s.files EXCEPT ![s.fd] = Free][n] # "mine"
    BY <2>1 DEF Objects, Tables, Keeps, Free
  <2> QED BY <2>2, <2>3, <2>4 DEF Objects, Keeps
<1>2. CASE ~(s.fd >= 0)
  <2>1. s.fd = NoFd
    BY <1>2 DEF Objects, Fds
  <2> QED BY <1>2, <2>1 DEF Closed
<1> QED BY <1>1, <1>2

\* Every way in which open() can end leaves at most the socket in m_fd, and
\* none when it fails.
LEMMA OpenKeeps ==
  ASSUME NEW s \in Objects, Keeps(s), s.fd = NoFd, s.ok, NEW t \in OpenOutcomes(s)
  PROVE  t \in Objects /\ Keeps(t) /\ (t.ok <=> t.fd # NoFd)
<1>1. Failed(s) \in Objects /\ Keeps(Failed(s)) /\ ~Failed(s).ok /\ Failed(s).fd = NoFd
  BY DEF Failed, Objects, Keeps
<1>2. ASSUME NEW n \in FreeFds(s.files)
      PROVE  /\ Created(s, n) \in Objects /\ Keeps(Created(s, n))
             /\ Created(s, n).ok /\ Created(s, n).fd # NoFd
  <2>1. n \in Fds
    BY DEF FreeFds
  <2>2. Created(s, n) = [files |-> [s.files EXCEPT ![n] = "mine"], fd |-> n, ok |-> s.ok]
    BY DEF Created, OpenedAt
  <2>3. [s.files EXCEPT ![n] = "mine"] \in Tables
    BY <2>1 DEF Objects, Tables, Kinds
  <2>4. \A m \in Fds : [s.files EXCEPT ![n] = "mine"][m] = "mine" => n = m
    BY <2>1 DEF Objects, Tables, Keeps, NoFd, Fds
  <2>5. n # NoFd
    BY <2>1, SocketAssumption DEF NoFd, Fds
  <2> QED BY <2>1, <2>2, <2>3, <2>4, <2>5 DEF Objects, Keeps
<1>3. ASSUME NEW n \in FreeFds(s.files)
      PROVE  /\ BindFails(Created(s, n)) \in Objects /\ Keeps(BindFails(Created(s, n)))
             /\ ~BindFails(Created(s, n)).ok /\ BindFails(Created(s, n)).fd = NoFd
  <2> DEFINE c == Closed(Created(s, n))
  <2>1. c \in Objects /\ Keeps(c) /\ c.fd = NoFd
    BY <1>2, ClosedKeeps
  <2>2. BindFails(Created(s, n)) = [c EXCEPT !.ok = FALSE]
    BY DEF BindFails, Failed
  <2> HIDE DEF c
  <2> QED BY <2>1, <2>2 DEF Objects, Keeps
<1>4. \/ t = Failed(s)
      \/ \E n \in FreeFds(s.files) : t \in {Created(s, n), BindFails(Created(s, n))}
  BY DEF OpenOutcomes
<1> QED BY <1>1, <1>2, <1>3, <1>4

Inv ==
  /\ TypeOK /\ NoSocketLost /\ AbortsOnlyAfterReopen
  /\ phase # "open" => fd = NoFd \/ phase = "aborted"

\* The object as it is now satisfies what the lemmas ask for.
LEMMA SocketIsObject ==
  ASSUME Inv
  PROVE  Socket \in Objects /\ Keeps(Socket) /\ Socket.ok
BY DEF Inv, TypeOK, NoSocketLost, Socket, Objects, Tables, Keeps

LEMMA Inductive == Inv /\ [Next]_vars => Inv'
<1> SUFFICES ASSUME Inv, [Next]_vars PROVE Inv'
  OBVIOUS
<1> USE DEF TypeOK, NoSocketLost, AbortsOnlyAfterReopen
<1>1. CASE Open
  <2>1. PICK s \in OpenOutcomes(Socket) :
          Becomes(s) /\ phase' = (IF s.ok THEN "open" ELSE "failed")
    BY <1>1 DEF Open
  <2>2. Socket.fd = NoFd
    BY <1>1 DEF Inv, Open, Socket
  <2>3. s \in Objects /\ Keeps(s) /\ (s.ok <=> s.fd # NoFd)
    BY <2>1, <2>2, SocketIsObject, OpenKeeps
  <2>4. UNCHANGED reopenFailed
    BY <1>1 DEF Open
  <2> QED BY <2>1, <2>3, <2>4 DEF Inv, Becomes, Objects, Tables, Keeps
<1>2. CASE Read
  <2>1. CASE UNCHANGED << files, fd, reopenFailed >>
    BY <1>2, <2>1 DEF Read, Inv
  <2>2. CASE Reopened
    <3>1. PICK s \in OpenOutcomes(Closed(Socket)) : Becomes(s) /\ reopenFailed' = ~s.ok
      BY <2>2 DEF Reopened
    <3>2. /\ Closed(Socket) \in Objects /\ Keeps(Closed(Socket))
          /\ Closed(Socket).fd = NoFd /\ Closed(Socket).ok
      BY SocketIsObject, ClosedKeeps
    <3>3. s \in Objects /\ Keeps(s) /\ (s.ok <=> s.fd # NoFd)
      BY <3>1, <3>2, OpenKeeps
    <3>4. phase = "open" /\ phase' = "open"
      BY <1>2 DEF Read
    <3> QED BY <3>1, <3>3, <3>4 DEF Inv, Becomes, Objects, Tables, Keeps
  <2> QED BY <1>2, <2>1, <2>2 DEF Read
<1>3. CASE Write
  BY <1>3 DEF Write, Inv
<1>4. CASE Close
  <2>1. Closed(Socket) \in Objects /\ Keeps(Closed(Socket)) /\ Closed(Socket).fd = NoFd
    BY SocketIsObject, ClosedKeeps
  <2>2. phase' = "closed" /\ Becomes(Closed(Socket)) /\ UNCHANGED reopenFailed
    BY <1>4 DEF Close
  <2> QED BY <2>1, <2>2 DEF Inv, Becomes, Objects, Tables, Keeps
<1>5. CASE Renew
  BY <1>5 DEF Renew, Inv
<1>6. CASE OthersOpen
  <2>1. PICK n \in FreeFds(files), kind \in {"socket", "file"} : files' = OpenedAt(files, n, kind)
    BY <1>6 DEF OthersOpen
  <2>2. n \in Fds
    BY DEF FreeFds
  <2>3. UNCHANGED << phase, fd, reopenFailed >>
    BY <1>6 DEF OthersOpen
  <2> QED BY <2>1, <2>2, <2>3 DEF OpenedAt, Inv, Kinds
<1>7. CASE OthersClose
  BY <1>7 DEF OthersClose, ClosedAt, Inv, Free
<1>8. CASE UNCHANGED vars
  BY <1>8 DEF vars, Inv
<1> QED BY <1>1, <1>2, <1>3, <1>4, <1>5, <1>6, <1>7, <1>8 DEF Next

LEMMA Invariant == Spec => []Inv
<1>1. Init => Inv
  BY SocketAssumption DEF Init, Inv, TypeOK, NoSocketLost, AbortsOnlyAfterReopen, Kinds, Free
<1> QED BY <1>1, Inductive, PTL DEF Spec

\* Through open(), its failures, close() and the reopening in read(), no
\* socket that the object has created is left open without being the one in
\* m_fd, whatever the rest of the process does to the descriptors.
THEOREM NoSocketLostHolds == Spec => []NoSocketLost
BY Invariant, PTL DEF Inv

\* While the socket is open it has no descriptor only when the reopening in
\* read() failed, so that nothing else can fail the assertion of write().
THEOREM AbortsOnly == Spec => []AbortsOnlyAfterReopen
BY Invariant, PTL DEF Inv
=============================================================================
