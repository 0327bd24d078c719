------------------------------- MODULE Sockets -------------------------------
(***************************************************************************)
(* listen and connect (Network.cc): the system calls in order, each of     *)
(* which may fail, and what is left open then.  A port of zero means a     *)
(* socket in the file system, at one path.                                 *)
(***************************************************************************)
EXTENDS Integers

VARIABLES
  sock,                   \* the call: [op, port, backlog, nonblocking, pc, cause]; cause is the call that failed
  fd,                     \* "none", "open" or "closed"
  modes,                  \* what has been set on the descriptor
  path                    \* what the path names: "nothing", "file", "directory" (not empty) or "socket"

socketVars == <<sock, fd, modes, path>>

SocketInit ==
  /\ \E op \in {"listen", "connect"}, port, backlog \in 0..1, nonblocking \in BOOLEAN :
       sock = [op |-> op, port |-> port, backlog |-> backlog, nonblocking |-> nonblocking, pc |-> "address", cause |-> "none"]
  /\ fd = "none"
  /\ modes = {}
  /\ path \in {"nothing", "file", "directory", "socket"}

Goes(pc) == sock' = [sock EXCEPT !.pc = pc]

\* Mutant: nothing is closed.
ThrowsOpen(cause, closes) == sock' = [sock EXCEPT !.pc = "thrown", !.cause = cause] /\ UNCHANGED fd

\* The call throws; fd is closed only where the code does it by hand.
Throws(cause, closes) ==
  /\ sock' = [sock EXCEPT !.pc = "thrown", !.cause = cause]
  /\ fd' = IF closes THEN "closed" ELSE fd

\* The system call succeeds and the code goes on, or it fails and the code throws.
Call(name, next, closes) ==
  /\ sock.pc = name
  /\ \/ Goes(next) /\ UNCHANGED fd
     \/ Throws(name, closes)

\* make_sockaddr_storage: the path is too long, or the name has no address.
address == Call("address", "socket", FALSE) /\ UNCHANGED <<modes, path>>

socket ==
  /\ sock.pc = "socket"
  /\ \/ /\ fd' = "open"
        /\ Goes(IF sock.op = "listen" THEN "setsockopt" ELSE IF sock.nonblocking THEN "make_fd_nonblocking" ELSE "connect")
     \/ Throws("socket", FALSE)
  /\ UNCHANGED <<modes, path>>

setsockopt == Call("setsockopt", IF sock.port = 0 THEN "remove" ELSE "bind", TRUE) /\ UNCHANGED <<modes, path>>

\* std::filesystem::remove throws when there is something that it cannot remove.
remove ==
  /\ sock.pc = "remove"
  /\ \/ path # "directory" /\ path' = "nothing" /\ Goes("bind") /\ UNCHANGED fd
     \/ path # "nothing" /\ Throws("remove", FALSE) /\ UNCHANGED path
  /\ UNCHANGED modes

\* bind makes the file; a result of chmod is not looked at.
bind ==
  /\ sock.pc = "bind"
  /\ \/ /\ sock.port = 0 => path = "nothing"
        /\ path' = IF sock.port = 0 THEN "socket" ELSE path
        /\ modes' = modes \cup {"bound"} \cup (IF sock.port = 0 THEN {"0777"} ELSE {})
        /\ Goes(IF sock.backlog # 0 THEN "listen" ELSE IF sock.nonblocking THEN "make_fd_nonblocking" ELSE "returned")
        /\ UNCHANGED fd
     \/ Throws("bind", TRUE) /\ UNCHANGED <<modes, path>>

listen ==
  /\ Call("listen", IF sock.nonblocking THEN "make_fd_nonblocking" ELSE "returned", TRUE)
  /\ modes' = IF sock'.pc = "thrown" THEN modes ELSE modes \cup {"listening"}
  /\ UNCHANGED path

\* fcntl fails: the exception passes listen and connect by.
make_fd_nonblocking ==
  /\ Call("make_fd_nonblocking", IF sock.op = "listen" THEN "returned" ELSE "connect", FALSE)
  /\ modes' = IF sock'.pc = "thrown" THEN modes ELSE modes \cup {"nonblocking"}
  /\ UNCHANGED path

\* On a nonblocking socket EINPROGRESS is no failure.
connect ==
  /\ sock.pc = "connect"
  /\ \E answer \in {"connected", "in progress", "refused"} :
       /\ answer = "in progress" => "nonblocking" \in modes
       /\ IF answer = "refused"
          THEN Throws("connect", TRUE) /\ UNCHANGED modes
          ELSE Goes("returned") /\ modes' = modes \cup {answer} /\ UNCHANGED fd
  /\ UNCHANGED path
-----------------------------------------------------------------------------
SocketNext ==
  address \/ socket \/ setsockopt \/ remove \/ bind \/ listen \/ make_fd_nonblocking \/ connect

SocketSpec == SocketInit /\ [][SocketNext]_socketVars
-----------------------------------------------------------------------------
(* When listen or connect throws, the descriptor it made is closed again, except when it was        *)
(* make_fd_nonblocking or the removal of the path that threw: nobody catches these two.              *)
ClosedOnError ==
  sock.pc = "thrown" => (fd = "open" <=> sock.cause \in {"make_fd_nonblocking", "remove"})

(* What is returned is open and as it was asked for: bound, listening when there is a backlog, and   *)
(* blocking only if so wanted; a connection still under way is handed out on a nonblocking one only. *)
ReadyToUse ==
  sock.pc = "returned" =>
    /\ fd = "open"
    /\ sock.nonblocking <=> "nonblocking" \in modes
    /\ sock.op = "listen" => "bound" \in modes /\ ("listening" \in modes <=> sock.backlog # 0)
    /\ "in progress" \in modes => sock.nonblocking

(* Only a listen on a path takes away what was there, and a listen that fails before it reaches bind *)
(* leaves it; one that fails at bind has removed it and put nothing in its place.                    *)
PathChanges ==
  path' # path => /\ sock.op = "listen" /\ sock.port = 0
                  /\ path' = (IF sock'.pc = "bind" THEN "nothing" ELSE "socket")
                  /\ "bind" \in {sock.pc, sock'.pc}

(* Every step of listen and connect keeps to the three.                                              *)
SocketsAreSettled == [][ClosedOnError' /\ ReadyToUse' /\ PathChanges]_socketVars
-----------------------------------------------------------------------------
(* The inductive invariant. *)

Before == {"address", "socket"}
Setup == {"setsockopt", "remove", "bind"}
Places == Before \cup Setup \cup {"listen", "make_fd_nonblocking", "connect", "returned", "thrown"}
Calls == [op : {"listen", "connect"}, port : 0..1, backlog : 0..1, nonblocking : BOOLEAN, pc : Places, cause : Places \cup {"none"}]

\* The descriptor is there from socket on, and only an exception closes it.
DescriptorInv ==
  /\ sock.pc \in Before => fd = "none"
  /\ sock.pc \notin Before \cup {"thrown"} => fd = "open"

\* Which calls reach a point, and which modes they have set before it.
ModesInv ==
  /\ sock.pc \in Before \cup Setup => modes = {}
  /\ sock.pc \in Setup \cup {"listen"} => sock.op = "listen"
  /\ sock.pc = "remove" => sock.port = 0
  /\ sock.pc = "listen" => sock.backlog # 0 /\ "bound" \in modes /\ modes \cap {"listening", "nonblocking", "in progress"} = {}
  /\ sock.pc = "make_fd_nonblocking" =>
       /\ sock.nonblocking /\ modes \cap {"nonblocking", "in progress"} = {}
       /\ sock.op = "listen" => "bound" \in modes /\ ("listening" \in modes <=> sock.backlog # 0)
  /\ sock.pc = "connect" =>
       /\ sock.op = "connect" /\ "in progress" \notin modes
       /\ sock.nonblocking <=> "nonblocking" \in modes

SocketInv == sock \in Calls /\ DescriptorInv /\ ModesInv /\ ClosedOnError /\ ReadyToUse
=============================================================================
