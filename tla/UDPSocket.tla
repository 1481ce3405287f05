----------------------------- MODULE UDPSocket ------------------------------
(***************************************************************************)
(* CUDPSocket (UDPSocket.cpp) in a process that has other descriptors.     *)
(* The object holds a number, m_fd; what the number stands for is in the   *)
(* table of the operating system, where any other part of the process may  *)
(* close it and have it given out again.  When recvfrom() then says        *)
(* ENOTSOCK, read() closes the number and opens a socket again.            *)
(***************************************************************************)
EXTENDS Descriptors, FiniteSets

CONSTANT HasPort        \* whether m_localPort > 0

ASSUME SocketAssumption == MaxFd \in Nat /\ HasPort \in BOOLEAN

VARIABLES phase,        \* what the owner of the object has done with it
          files,        \* what the descriptors stand for
          fd,           \* m_fd
          reopenFailed  \* history: the last reopening failed

vars == << phase, files, fd, reopenFailed >>

\* The socket of this object, another socket, or anything that is none.
Kinds == {"mine", "socket", "file"}

Socket == [files |-> files, fd |-> fd, ok |-> TRUE]

-----------------------------------------------------------------------------
(***************************************************************************)
(* close() and open() as operators, because read() calls both              *)
(***************************************************************************)
Closed(s) ==
  IF s.fd >= 0 THEN [s EXCEPT !.files = ClosedAt(@, s.fd), !.fd = NoFd] ELSE s

\* ::socket()
Created(s, n) == [files |-> OpenedAt(s.files, n, "mine"), fd |-> n, ok |-> s.ok]

Failed(s) == [s EXCEPT !.ok = FALSE]

\* Variant of BindFails that leaves the socket open.
BindFailsOpen(s) == Failed([s EXCEPT !.fd = NoFd])

\* A socket that cannot be bound is closed again.
BindFails(s) == Failed(Closed(s))

\* open(): the local address is not found, there is no socket to be had, the
\* socket cannot be bound to its port, or it works.
OpenOutcomes(s) ==
  { Failed(s) } \union
  { Created(s, n) : n \in FreeFds(s.files) } \union
  { BindFails(Created(s, n)) : n \in IF HasPort THEN FreeFds(s.files) ELSE {} }

-----------------------------------------------------------------------------
Init ==
  /\ phase = "new" /\ fd = NoFd /\ reopenFailed = FALSE
  /\ files \in [Fds -> {Free, "socket", "file"}]

Becomes(s) == files' = s.files /\ fd' = s.fd

\* The networks call open() on a new object and give up when it fails.  The
\* assertion of open() holds: m_fd is -1.
Open ==
  /\ phase = "new"
  /\ \E s \in OpenOutcomes(Socket) :
       Becomes(s) /\ phase' = IF s.ok THEN "open" ELSE "failed"
  /\ UNCHANGED reopenFailed

\* Variant of Reopened that does not open.
ReopenedNot == Becomes(Closed(Socket)) /\ UNCHANGED reopenFailed

\* ENOTSOCK: what open() returns is not looked at.
Reopened ==
  \E s \in OpenOutcomes(Closed(Socket)) : Becomes(s) /\ reopenFailed' = ~s.ok

\* read(), which finds nothing, a datagram, or an error.  poll() never has
\* POLLIN for a number that is closed.
Read ==
  /\ phase = "open" /\ UNCHANGED phase
  /\ IF fd # NoFd /\ files[fd] = "file" THEN Reopened
     ELSE UNCHANGED << files, fd, reopenFailed >>

\* write() asserts that there is a descriptor, and ignores what sendto() says.
Write ==
  /\ phase = "open"
  /\ phase' = IF fd >= 0 THEN "open" ELSE "aborted"
  /\ UNCHANGED << files, fd, reopenFailed >>

Close ==
  /\ phase = "open" /\ phase' = "closed"
  /\ Becomes(Closed(Socket))
  /\ UNCHANGED reopenFailed

\* run() is called again with a new object.
Renew ==
  /\ phase \in {"closed", "failed"} /\ phase' = "new"
  /\ fd' = NoFd /\ reopenFailed' = FALSE
  /\ UNCHANGED files

\* Other parts of the process open and close descriptors, not always theirs.
OthersOpen ==
  /\ phase # "aborted"
  /\ \E n \in FreeFds(files), kind \in {"socket", "file"} : files' = OpenedAt(files, n, kind)
  /\ UNCHANGED << phase, fd, reopenFailed >>

OthersClose ==
  /\ phase # "aborted"
  /\ \E n \in Fds : files[n] # Free /\ files' = ClosedAt(files, n)
  /\ UNCHANGED << phase, fd, reopenFailed >>

Next == Open \/ Read \/ Write \/ Close \/ Renew \/ OthersOpen \/ OthersClose

Spec == Init /\ [][Next]_vars
-----------------------------------------------------------------------------
(***************************************************************************)
(* Properties                                                              *)
(***************************************************************************)
TypeOK ==
  /\ phase \in {"new", "open", "failed", "closed", "aborted"}
  /\ files \in [Fds -> {Free} \union Kinds]
  /\ fd \in Fds \union {NoFd}
  /\ reopenFailed \in BOOLEAN

\* No path through open(), its failures and the reopening in read() loses a
\* socket: one that the object has created and that nobody has closed is the
\* one in m_fd (UDPSocket.cpp:189-218, 281-285).
NoSocketLost == \A n \in Fds : files[n] = "mine" => fd = n

\* The assertion of write() (UDPSocket.cpp:302) fails only because open()
\* failed in read(), whose result is not looked at (UDPSocket.cpp:284).
AbortsOnlyAfterReopen == phase = "open" /\ fd = NoFd => reopenFailed
=============================================================================
