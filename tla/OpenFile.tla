------------------------------ MODULE OpenFile ------------------------------
(***************************************************************************)
(* Passing a descriptor between processes: my_open and readfd of           *)
(* unix-network-programming/ourc/msg_main.c (the parent, mycat) and main   *)
(* and writefd of ourc/msg.c (the child, openfile).  The child opens the   *)
(* file, sends the descriptor over one end of a socketpair and exits; the  *)
(* parent waits for it and receives the descriptor from the other end.     *)
(* An open file lives as long as a process or a message in flight holds a  *)
(* descriptor of it.                                                       *)
(***************************************************************************)
EXTENDS Integers, FiniteSets

CONSTANTS Size,        \* reads' worth of data in the file, and bound of what is
                       \* read from a descriptor that is not of it
          Errors       \* errno values that a failing call leaves

ASSUME OpenFileAssumption == /\ Size \in Nat
                             /\ Errors \subseteq 1 .. 255 /\ Errors # {}

Signalled == -1        \* a status for which WIFEXITED is false
Unset == -2            \* an uninitialised variable

VARIABLES
    pc,          \* next step of the parent, or how it ended
    childpc,     \* next step of the child: "none" before, "gone" after its exit
    end0,        \* who holds sockfd[0]
    end1,        \* who holds sockfd[1]
    file,        \* who holds the open file: parent, child, "message"
    forked,      \* did fork succeed?
    exitStatus,  \* the child's: an exit code, or Signalled
    status,      \* the parent's local
    fd,          \* the parent's: a descriptor of the file, -1, or Unset
    copied       \* reads' worth of data written to the standard output

ends == <<end0, end1>>
child == <<childpc, exitStatus>>
locals == <<status, fd, copied>>
vars == <<pc, child, ends, file, forked, locals>>

Init == /\ pc = "socketpair" /\ childpc = "none"
        /\ end0 = {} /\ end1 = {} /\ file = {}
        /\ forked = FALSE
        /\ exitStatus = Unset /\ status = Unset /\ fd = Unset
        /\ copied = 0

FileFd == 3            \* the descriptor under which the parent gets the file

\* The last descriptor of sockfd[0] takes the message in its queue with it.
CloseEnd0(p) == /\ end0' = end0 \ {p}
                /\ file' = IF end0' = {} THEN file \ {"message"} ELSE file

\* A process that ends closes all its descriptors.
CloseAll(p) == /\ end0' = end0 \ {p} /\ end1' = end1 \ {p}
               /\ file' = (IF end0' = {} THEN file \ {"message"} ELSE file) \ {p}

----------------------------------------------------------------------------
(* The child                                                               *)

ChildStep(from, to) == childpc = from /\ childpc' = to

ChildExits(code) == /\ childpc' = "gone"
                    /\ exitStatus' = code
                    /\ CloseAll("child")
                    /\ UNCHANGED <<pc, forked, locals>>

\* close(sockfd[0])
ChildCloses == /\ ChildStep("close", "exec")
               /\ CloseEnd0("child")
               /\ UNCHANGED <<pc, exitStatus, end1, forked, locals>>

\* execl, after which the descriptors stay open.
Exec == /\ ChildStep("exec", "open")
        /\ UNCHANGED <<pc, exitStatus, ends, file, forked, locals>>

ExecFails == childpc = "exec" /\ ChildExits(255)

Open == /\ ChildStep("open", "writefd")
        /\ file' = file \cup {"child"}
        /\ UNCHANGED <<pc, exitStatus, ends, forked, locals>>

OpenFails == childpc = "open" /\ \E e \in Errors : ChildExits(e)

\* sendmsg with SCM_RIGHTS: the message holds the file from now on.
WriteFd == /\ ChildStep("writefd", "exit")
           /\ "child" \in end1 /\ end0 # {}
           /\ file' = file \cup {"message"}
           /\ UNCHANGED <<pc, exitStatus, ends, forked, locals>>

\* Fault: the result of writefd is not looked at.
WriteFdFailsUnseen == childpc = "writefd" /\ ChildExits(0)

WriteFdFails == childpc = "writefd" /\ \E e \in Errors : ChildExits(e)

Exit == childpc = "exit" /\ ChildExits(0)

ChildKilled == childpc \notin {"none", "gone"} /\ ChildExits(Signalled)

Child == \/ ChildCloses \/ Exec \/ ExecFails \/ Open \/ OpenFails
         \/ WriteFd \/ WriteFdFails \/ Exit

----------------------------------------------------------------------------
(* The parent                                                              *)

Step(from, to) == pc = from /\ pc' = to

Ends(how) == /\ pc' = how
             /\ CloseAll("parent")
             /\ UNCHANGED <<child, forked, status, copied>>

\* The results of socketpair and fork are not looked at.  An unset sockfd is taken
\* to name no descriptor of this program.
SocketPair == /\ Step("socketpair", "fork")
              /\ \/ end0' = {"parent"} /\ end1' = {"parent"}
                 \/ UNCHANGED ends
              /\ UNCHANGED <<child, file, forked, locals>>

Fork == /\ Step("fork", "close1")
        /\ forked' = TRUE /\ childpc' = "close"
        /\ end0' = IF end0 = {} THEN {} ELSE {"parent", "child"}
        /\ end1' = IF end1 = {} THEN {} ELSE {"parent", "child"}
        /\ UNCHANGED <<exitStatus, file, locals>>

ForkFails == /\ Step("fork", "close1")
             /\ UNCHANGED <<child, ends, file, forked, locals>>

\* Fault: the parent keeps its copy of the child's end.
CloseEnd1Not == /\ Step("close1", "waitpid")
                /\ UNCHANGED <<child, ends, file, forked, locals>>

\* close(sockfd[1])
CloseEnd1 == /\ Step("close1", "waitpid")
             /\ end1' = end1 \ {"parent"}
             /\ UNCHANGED <<child, end0, file, forked, locals>>

\* waitpid fails at once when there is no child, and leaves status as it is.
WaitPid == /\ Step("waitpid", "test")
           /\ forked => childpc = "gone"
           /\ status' = exitStatus
           /\ UNCHANGED <<child, ends, file, forked, fd, copied>>

\* What WIFEXITED and WEXITSTATUS may read.
Readings == IF status = Unset THEN {Signalled, 0} \cup Errors ELSE {status}

TestSignalled == /\ pc = "test" /\ Signalled \in Readings
                 /\ Ends("exited") /\ UNCHANGED fd

TestZero == /\ Step("test", "readfd") /\ 0 \in Readings
            /\ UNCHANGED <<child, ends, file, forked, locals>>

TestError == /\ Step("test", "close0") /\ Readings \ {Signalled, 0} # {}
             /\ fd' = -1
             /\ UNCHANGED <<child, ends, file, forked, status, copied>>

ReadFd == /\ Step("readfd", "close0")
          /\ "parent" \in end0 /\ "message" \in file
          /\ file' = (file \ {"message"}) \cup {"parent"}
          /\ fd' = FileFd
          /\ UNCHANGED <<child, ends, forked, status, copied>>

\* No descriptor is free: the message comes without it and recvfd is -1.
ReadFdNoRoom == /\ Step("readfd", "close0")
                /\ "parent" \in end0 /\ "message" \in file
                /\ file' = file \ {"message"}
                /\ fd' = -1
                /\ UNCHANGED <<child, ends, forked, status, copied>>

\* End of file, or no socket: readfd returns before it sets recvfd.
ReadFdFails == /\ Step("readfd", "close0")
               /\ "message" \notin file
               /\ "parent" \in end0 => end1 = {}
               /\ UNCHANGED <<child, ends, file, forked, locals>>

\* Fault: my_open returns without closing its end.
CloseEnd0Not == /\ Step("close0", "returned")
                /\ UNCHANGED <<child, ends, file, forked, locals>>

\* close(sockfd[0]); return fd
CloseEnd0AndReturn == /\ Step("close0", "returned")
                      /\ CloseEnd0("parent")
                      /\ UNCHANGED <<child, end1, forked, locals>>

\* fd < 0: exit(-1); what an unset fd holds is anybody's guess.
CannotOpen == /\ pc = "returned" /\ fd # FileFd
              /\ Ends("exited") /\ UNCHANGED fd

Opened == /\ Step("returned", "cat") /\ fd # -1
          /\ UNCHANGED <<child, ends, file, forked, locals>>

\* Fault: the loop goes on when read() returns 0.
CopyPastEnd == /\ Step("cat", "cat")
               /\ fd = FileFd
               /\ copied' = copied + 1
               /\ UNCHANGED <<child, ends, file, forked, status, fd>>

\* read and write, until the end of the file.
Copy == /\ Step("cat", "cat")
        /\ fd = FileFd /\ copied < Size
        /\ copied' = copied + 1
        /\ UNCHANGED <<child, ends, file, forked, status, fd>>

Finish == /\ pc = "cat" /\ fd = FileFd /\ copied = Size
          /\ Ends("exited") /\ UNCHANGED fd

\* An unset fd that is not negative names any descriptor or none: read and write
\* go on as long as there is data, and end at once, later, or, if it is the
\* terminal's, perhaps never.
CopyUnset == /\ Step("cat", "cat")
             /\ fd = Unset /\ copied < Size
             /\ copied' = copied + 1
             /\ UNCHANGED <<child, ends, file, forked, status, fd>>

FinishUnset == /\ pc = "cat" /\ fd = Unset
               /\ Ends("exited") /\ UNCHANGED fd

ReadUnset == CopyUnset \/ FinishUnset

Parent == \/ SocketPair \/ Fork \/ ForkFails \/ CloseEnd1 \/ WaitPid
          \/ TestSignalled \/ TestZero \/ TestError
          \/ ReadFd \/ ReadFdNoRoom \/ ReadFdFails
          \/ CloseEnd0AndReturn \/ CannotOpen \/ Opened \/ Copy \/ Finish

ParentKilled == pc # "exited" /\ Ends("exited") /\ UNCHANGED fd

----------------------------------------------------------------------------

Next == Parent \/ ReadUnset \/ Child \/ ChildKilled \/ ParentKilled

Safety == Init /\ [][Next]_vars

\* Both processes run when they can; nobody has to be killed, and what is read
\* from a descriptor that is not of the file need not come.
Spec == Safety /\ WF_vars(Parent) /\ WF_vars(Child)

----------------------------------------------------------------------------
(* Properties                                                              *)

Processes == {"parent", "child"}
ParentPCs == {"socketpair", "fork", "close1", "waitpid", "test", "readfd",
              "close0", "returned", "cat", "exited"}
ChildPCs == {"none", "close", "exec", "open", "writefd", "exit", "gone"}

\* Every variable has its type.
TypeOK == /\ pc \in ParentPCs /\ childpc \in ChildPCs
          /\ end0 \subseteq Processes /\ end1 \subseteq Processes
          /\ file \subseteq Processes \cup {"message"}
          /\ "message" \in file => end0 # {}
          /\ forked \in BOOLEAN
          /\ exitStatus \in -2 .. 255 /\ status \in -2 .. 255
          /\ fd \in {Unset, -1, FileFd}
          /\ copied \in 0 .. Size

\* A child that exits with 0 leaves its descriptor in flight: the kernel keeps
\* the file open although its sender is gone ("the sender may close it before it
\* lands", the notes on passing descriptors), so that readfd neither waits nor
\* returns with recvfd unset, and mycat reads the file it asked for.
DescriptorArrives ==
    forked => /\ pc = "readfd" => "message" \in file /\ file \cap Processes = {}
              /\ pc = "cat" => fd = FileFd /\ "parent" \in file

\* However my_open ends, it leaves nothing behind: no end of the socketpair, no
\* message, and the file open once if its descriptor was received.
NothingLeftOpen ==
    pc \in {"returned", "cat"} =>
        /\ end0 = {} /\ end1 = {}
        /\ file = IF fd = FileFd THEN {"parent"} ELSE {}

\* The parent waits for the child before it reads what the child sent, and still
\* nobody is left waiting: mycat ends, and so does openfile.  Only where fork
\* failed may mycat come to read a descriptor that my_open never set
\* (msg_main.c:24), which may keep it waiting for ever.
BothEnd == <>(\/ pc = "exited" /\ childpc \in {"none", "gone"}
              \/ ~forked /\ pc = "cat" /\ fd = Unset)
=============================================================================
