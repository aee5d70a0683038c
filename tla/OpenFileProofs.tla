--------------------------- MODULE OpenFileProofs ---------------------------
(***************************************************************************)
(* Safety of OpenFile for files of any size and any errno values: type     *)
(* correctness, the descriptor of a child that succeeded arrives, and      *)
(* my_open leaves nothing open.                                            *)
(***************************************************************************)
EXTENDS OpenFile, TLAPS

USE DEF Signalled, Unset, FileFd

----------------------------------------------------------------------------
(* The inductive invariant                                                 *)

BeforeFork == {"socketpair", "fork"}
BeforeRead == BeforeFork \cup {"close1", "waitpid", "test", "readfd"}
AfterWait == {"test", "readfd", "close0", "returned", "cat"}

\* There is a child when fork succeeded, and it is gone once it was waited for.
ChildIsKnown == /\ forked <=> childpc # "none"
                /\ pc \in BeforeFork => ~forked
                /\ forked /\ pc \in AfterWait => childpc = "gone"
                /\ exitStatus = Unset <=> childpc # "gone"
                /\ forked /\ pc \in AfterWait => status = exitStatus

\* What each process has closed by the step it is at.
ClosedByParent == /\ "parent" \in end0 => pc \in BeforeRead \cup {"close0"}
                  /\ "parent" \in end1 => pc \in {"fork", "close1"}
ClosedByChild == /\ "child" \in end0 => childpc = "close"
                 /\ "child" \in end1 \cup file => childpc \notin {"none", "gone"}

\* The parent has the file from the moment it received its descriptor.
FileIsKnown == /\ pc \in BeforeRead => fd = Unset
               /\ pc # "exited" => ("parent" \in file <=> fd = FileFd)
               /\ pc = "exited" => "parent" \notin file

\* Who sends is a child; what it sent stays in flight until it is read.
MessageIsKept == /\ "message" \in file => childpc \in {"exit", "gone"}
                 /\ pc \in {"close1", "waitpid", "test", "readfd"} =>
                       (childpc = "exit" \/ exitStatus = 0 => "message" \in file)

\* readfd runs with a child that exited with 0, and otherwise sets fd.
ReadAfterSuccess == /\ forked /\ pc = "readfd" => exitStatus = 0
                    /\ forked /\ pc \in {"close0", "returned"} => fd # Unset
                    /\ forked /\ pc = "cat" => fd = FileFd

IInv == /\ TypeOK
        /\ ChildIsKnown
        /\ ClosedByParent /\ ClosedByChild
        /\ FileIsKnown
        /\ MessageIsKept
        /\ ReadAfterSuccess

----------------------------------------------------------------------------
(* The invariant is inductive                                              *)

\* The initial states satisfy the invariant.
LEMMA InitEstablishes == Init => IInv
<1>. SUFFICES ASSUME Init PROVE IInv OBVIOUS
<1>. USE DEF Init
<1>1. forked \in BOOLEAN OBVIOUS
<1>2. TypeOK BY <1>1, OpenFileAssumption DEF OpenFileAssumption, TypeOK, Processes, ParentPCs,
                                                   ChildPCs
<1>. QED BY <1>2 DEF IInv, ChildIsKnown, ClosedByParent, ClosedByChild, FileIsKnown,
                     MessageIsKept, ReadAfterSuccess, BeforeFork, BeforeRead,
                     AfterWait

\* Only a process or a message comes to hold the file.
LEMMA HoldersOfTheFile ==
    ASSUME file \subseteq Processes \cup {"message"}, [Next]_vars
    PROVE  file' \subseteq Processes \cup {"message"}
<1>. USE DEF ends, child, locals
<1>1. CASE ChildCloses \/ CloseEnd0AndReturn
  BY <1>1 DEF ChildCloses, CloseEnd0AndReturn, CloseEnd0
<1>2. CASE ExecFails \/ OpenFails \/ WriteFdFails \/ Exit \/ ChildKilled
  BY <1>2 DEF ExecFails, OpenFails, WriteFdFails, Exit, ChildKilled, ChildExits, CloseAll
<1>3. CASE TestSignalled \/ CannotOpen \/ Finish \/ FinishUnset \/ ParentKilled
  BY <1>3 DEF TestSignalled, CannotOpen, Finish, FinishUnset, ParentKilled, Ends, CloseAll
<1>4. CASE Open \/ WriteFd \/ ReadFd \/ ReadFdNoRoom
  BY <1>4 DEF Open, WriteFd, ReadFd, ReadFdNoRoom, Processes
<1>5. CASE Exec \/ SocketPair \/ Fork \/ ForkFails \/ CloseEnd1 \/ WaitPid
  BY <1>5 DEF Exec, SocketPair, Fork, ForkFails, CloseEnd1, WaitPid
<1>6. CASE TestZero \/ TestError \/ ReadFdFails \/ Opened \/ Copy \/ CopyUnset
  BY <1>6 DEF TestZero, TestError, ReadFdFails, Opened, Copy, CopyUnset
<1>7. CASE UNCHANGED vars BY <1>7 DEF vars
<1>. QED BY <1>1, <1>2, <1>3, <1>4, <1>5, <1>6, <1>7
         DEF Next, Parent, Child, ReadUnset

\* Every step keeps the variables' types.
LEMMA TypesPreserved == TypeOK /\ [Next]_vars => TypeOK'
<1>. SUFFICES ASSUME TypeOK, [Next]_vars PROVE TypeOK' OBVIOUS
<1>. USE OpenFileAssumption
     DEF OpenFileAssumption, TypeOK, Processes, vars, ends, child, locals,
         Next, Parent, Child, Step, Ends, ChildStep, ChildExits, CloseEnd0, CloseAll,
         ChildCloses, Exec, ExecFails, Open, OpenFails, WriteFd, WriteFdFails, Exit,
         ChildKilled, SocketPair, Fork, ForkFails, CloseEnd1, WaitPid, Readings,
         TestSignalled, TestZero, TestError, ReadFd, ReadFdNoRoom, ReadFdFails,
         CloseEnd0AndReturn, CannotOpen, Opened, Copy, Finish, ReadUnset, CopyUnset,
         FinishUnset, ParentKilled
<1>1. pc' \in ParentPCs BY DEF ParentPCs
<1>2. childpc' \in ChildPCs BY DEF ChildPCs
<1>3. end0' \subseteq Processes /\ end1' \subseteq Processes OBVIOUS
<1>4. file' \subseteq Processes \cup {"message"} BY HoldersOfTheFile
<1>5. ("message" \in file => end0 # {})' OBVIOUS
<1>6. forked' \in BOOLEAN OBVIOUS
<1>7. exitStatus' \in -2 .. 255 /\ status' \in -2 .. 255 OBVIOUS
<1>8. fd' \in {Unset, -1, FileFd} OBVIOUS
<1>9. copied' \in 0 .. Size OBVIOUS
<1>. QED BY <1>1, <1>2, <1>3, <1>4, <1>5, <1>6, <1>7, <1>8, <1>9

\* Every step keeps it.
LEMMA StepPreserves == IInv /\ [Next]_vars => IInv'
<1>. SUFFICES ASSUME IInv, [Next]_vars PROVE IInv' OBVIOUS
<1>. USE OpenFileAssumption
     DEF OpenFileAssumption, IInv, TypeOK, ChildIsKnown, ClosedByParent,
         ClosedByChild, FileIsKnown, MessageIsKept, ReadAfterSuccess,
         BeforeFork, BeforeRead, AfterWait, Processes, ParentPCs, ChildPCs,
         vars, ends, child, locals
<1>. DEFINE Others == /\ ChildIsKnown /\ ClosedByParent /\ ClosedByChild
                      /\ FileIsKnown /\ MessageIsKept /\ ReadAfterSuccess
<1>. SUFFICES Others' BY TypesPreserved
<1>1. CASE ChildCloses \/ Exec \/ Open
  BY <1>1 DEF ChildCloses, Exec, Open, ChildStep, CloseEnd0
<1>2. CASE WriteFd \/ Exit
  BY <1>2 DEF WriteFd, Exit, ChildStep, ChildExits, CloseAll
<1>3. CASE ExecFails \/ OpenFails \/ WriteFdFails \/ ChildKilled
  BY <1>3 DEF ExecFails, OpenFails, WriteFdFails, ChildKilled, ChildExits, CloseAll
<1>4. CASE SocketPair \/ Fork \/ ForkFails
  BY <1>4 DEF SocketPair, Fork, ForkFails, Step
<1>5. CASE CloseEnd1 \/ WaitPid
  BY <1>5 DEF CloseEnd1, WaitPid, Step
<1>6. CASE TestSignalled \/ TestZero \/ TestError
  BY <1>6 DEF TestSignalled, TestZero, TestError, Readings, Step, Ends, CloseAll
<1>7. CASE ReadFd \/ ReadFdNoRoom \/ ReadFdFails
  BY <1>7 DEF ReadFd, ReadFdNoRoom, ReadFdFails, Step
<1>8. CASE CloseEnd0AndReturn
  BY <1>8 DEF CloseEnd0AndReturn, Step, CloseEnd0
<1>9. CASE CannotOpen \/ Finish \/ FinishUnset \/ ParentKilled
  BY <1>9 DEF CannotOpen, Finish, FinishUnset, ParentKilled, Ends, CloseAll
<1>10. CASE Opened \/ Copy \/ CopyUnset
  BY <1>10 DEF Opened, Copy, CopyUnset, Step
<1>11. CASE UNCHANGED vars BY <1>11
<1>. QED BY <1>1, <1>2, <1>3, <1>4, <1>5, <1>6, <1>7, <1>8, <1>9, <1>10, <1>11
         DEF Next, Parent, Child, ReadUnset

\* The invariant holds in every behaviour.
THEOREM Invariance == Safety => []IInv
BY InitEstablishes, StepPreserves, PTL DEF Safety

----------------------------------------------------------------------------
(* Theorems                                                                *)

\* Every variable has its type in every reachable state.
THEOREM TypeCorrect == Safety => []TypeOK
<1>1. IInv => TypeOK BY DEF IInv
<1>. QED BY <1>1, Invariance, PTL

\* A child that exits with 0 has sent its descriptor, and the file stays open in
\* flight: readfd of msg_main.c finds the message, and mycat reads that file.
THEOREM MessageArrives == Safety => []DescriptorArrives
<1>1. ASSUME IInv PROVE DescriptorArrives
  <2>. USE <1>1 DEF IInv, TypeOK, ChildIsKnown, FileIsKnown, ReadAfterSuccess
  <2>1. forked /\ pc = "readfd" => "message" \in file
    BY DEF MessageIsKept
  <2>2. forked /\ pc = "readfd" => file \cap Processes = {}
    BY DEF ClosedByChild, AfterWait, BeforeRead, BeforeFork, Processes
  <2>3. forked /\ pc = "cat" => fd = FileFd /\ "parent" \in file
    OBVIOUS
  <2>. QED BY <2>1, <2>2, <2>3 DEF DescriptorArrives
<1>. QED BY <1>1, Invariance, PTL

\* my_open returns with both ends of the socketpair closed, no message left in
\* its queue, and the file open once when its descriptor was received.
THEOREM NothingIsLeft == Safety => []NothingLeftOpen
<1>1. ASSUME IInv, pc \in {"returned", "cat"}
      PROVE  /\ end0 = {} /\ end1 = {}
             /\ file = IF fd = FileFd THEN {"parent"} ELSE {}
  <2>. USE <1>1 DEF IInv, TypeOK, Processes
  <2>1. childpc \in {"none", "gone"} BY DEF ChildIsKnown, AfterWait
  <2>2. end0 = {} /\ end1 = {}
    BY <2>1 DEF ClosedByParent, ClosedByChild, BeforeRead, BeforeFork
  <2>3. "message" \notin file /\ "child" \notin file
    BY <2>1, <2>2 DEF ClosedByChild
  <2>. QED BY <2>2, <2>3 DEF FileIsKnown
<1>2. IInv => NothingLeftOpen BY <1>1 DEF NothingLeftOpen
<1>. QED BY <1>2, Invariance, PTL
=============================================================================
