---------------------------- MODULE Descriptors -----------------------------
(***************************************************************************)
(* The table of open descriptors of the process, which the operating       *)
(* system keeps: a function from numbers to whoever opened them.  The code *)
(* in src/ holds nothing but numbers.                                      *)
(***************************************************************************)
EXTENDS Integers

CONSTANT MaxFd      \* bound: the greatest number of a descriptor

Fds == 0 .. MaxFd

NoFd == -1          \* what the code stores for "not open"

Free == "free"

FreeFds(files) == { n \in Fds : files[n] = Free }

\* open(), socket() and the like give out a number that is free ...
OpenedAt(files, n, owner) == [files EXCEPT ![n] = owner]

\* ... in fact the lowest.
LowestFds(files) == { n \in FreeFds(files) : \A m \in FreeFds(files) : n <= m }

\* close() closes whatever the number stands for.
ClosedAt(files, n) == [files EXCEPT ![n] = Free]
=============================================================================
