-------------------------- MODULE ForkServerProofs --------------------------
(***************************************************************************)
(* Safety of ForkServer for any number of clients: type correctness, no    *)
(* zombie forgotten, no descriptor leaked where accept is restarted, and   *)
(* an end of the server by an aborted connection only.                     *)
(***************************************************************************)
EXTENDS ForkServer, TLAPS

----------------------------------------------------------------------------
(* The inductive invariant                                                 *)

\* Once the handler was reset no SIGCHLD is kept for it, so that it cannot run
\* again; while it runs on a glibc or BSD platform it stays installed.
ResetForGood == /\ ~installed => systemV /\ ~pending
                /\ handling /\ systemV => ~installed

\* EINTR comes from an accept that the handler interrupted, which only System V
\* does not restart; and the handler does not run again.
InterruptedBySystemV == errno = "EINTR" => systemV /\ ~installed /\ ~handling

\* Which connection the parent has open, at each of its statements.
OpenAtStatement ==
    /\ pc = "accept" => open = {}
    /\ pc = "test" => open = {clifd} \ {Failed}
    /\ pc \in {"fork", "close"} => open = {clifd}
    /\ pc = "exited" => open = {}

\* A failed accept that is no interruption is an aborted connection.
FailedByAbort ==
    pc \in {"test", "exited"} /\ clifd = Failed =>
        \/ pc = "test" /\ errno = "EINTR"
        \/ \E c \in Clients : state[c] = "dropped"

IInv == /\ TypeOK
        /\ ResetForGood
        /\ InterruptedBySystemV
        /\ ~systemV => OpenAtStatement
        /\ FailedByAbort
        /\ pc = "exited" => clifd = Failed
        /\ NoZombieForgotten

----------------------------------------------------------------------------
(* The invariant is inductive                                              *)

\* The initial states satisfy the invariant.
LEMMA InitEstablishes == Init => IInv
BY DEF Init, IInv, TypeOK, ResetForGood, InterruptedBySystemV, OpenAtStatement,
       FailedByAbort, NoZombieForgotten, Running

\* Every step keeps the variables' types.
LEMMA TypesPreserved == TypeOK /\ [Next]_vars => TypeOK'
<1>. SUFFICES ASSUME TypeOK, [Next]_vars PROVE TypeOK' OBVIOUS
<1>. USE DEF TypeOK, Goto, signals
<1>1. ASSUME NEW c \in Clients, Connect(c) \/ Abort(c) \/ ChildExit(c)
      PROVE  TypeOK'
  <2>1. CASE Connect(c) \/ Abort(c) BY <2>1 DEF Connect, Abort
  <2>2. CASE ChildExit(c) BY <2>2 DEF ChildExit
  <2>. QED BY <1>1, <2>1, <2>2
<1>2. ASSUME NEW c \in Clients, Accept(c) \/ AcceptAborted(c)
      PROVE  TypeOK'
  BY <1>2 DEF Accept, AcceptAborted
<1>3. CASE TestErrno BY <1>3 DEF TestErrno, AcceptFailed
<1>4. CASE Fork \/ Close BY <1>4 DEF Fork, Close, OpenAfterClose
<1>5. CASE Deliver BY <1>5 DEF Deliver
<1>6. ASSUME NEW c \in Clients, Reap(c)
      PROVE  TypeOK'
  BY <1>6 DEF Reap
<1>7. CASE HandlerReturns BY <1>7 DEF HandlerReturns
<1>8. CASE UNCHANGED vars BY <1>8 DEF vars
<1>. QED BY <1>1, <1>2, <1>3, <1>4, <1>5, <1>6, <1>7, <1>8 DEF Next, Parent, Handler

\* The signals: who has SIGCHLD pending, the handler, its reset and its errno.
LEMMA SignalsPreserved ==
    ASSUME IInv, [Next]_vars
    PROVE  ResetForGood' /\ InterruptedBySystemV' /\ NoZombieForgotten'
<1>. USE DEF IInv, TypeOK, ResetForGood, InterruptedBySystemV, NoZombieForgotten,
             Running, Goto, signals
<1>1. ASSUME NEW c \in Clients, Connect(c) \/ Abort(c) \/ Accept(c) \/ AcceptAborted(c)
      PROVE  ResetForGood' /\ InterruptedBySystemV' /\ NoZombieForgotten'
  BY <1>1 DEF Connect, Abort, Accept, AcceptAborted
<1>2. ASSUME NEW c \in Clients, ChildExit(c)
      PROVE  ResetForGood' /\ InterruptedBySystemV' /\ NoZombieForgotten'
  BY <1>2 DEF ChildExit
<1>3. CASE TestErrno \/ Close BY <1>3 DEF TestErrno, Close
<1>4. CASE Fork BY <1>4 DEF Fork
<1>5. CASE Deliver BY <1>5 DEF Deliver
<1>6. ASSUME NEW c \in Clients, Reap(c)
      PROVE  ResetForGood' /\ InterruptedBySystemV' /\ NoZombieForgotten'
  BY <1>6 DEF Reap
<1>7. CASE HandlerReturns BY <1>7 DEF HandlerReturns, NoZombie
<1>8. CASE UNCHANGED vars BY <1>8 DEF vars
<1>. QED BY <1>1, <1>2, <1>3, <1>4, <1>5, <1>6, <1>7, <1>8 DEF Next, Parent, Handler

\* The accept loop: what is open, and what a failed accept means.
LEMMA LoopPreserved ==
    ASSUME IInv, [Next]_vars
    PROVE  /\ (~systemV => OpenAtStatement)'
           /\ FailedByAbort'
           /\ (pc = "exited" => clifd = Failed)'
<1>. DEFINE Loop == /\ ~systemV => OpenAtStatement
                    /\ FailedByAbort
                    /\ pc = "exited" => clifd = Failed
<1>. SUFFICES Loop' OBVIOUS
<1>. USE ForkAssumption
     DEF ForkAssumption, IInv, TypeOK, InterruptedBySystemV, OpenAtStatement,
         FailedByAbort, Goto, signals
<1>1. ASSUME NEW c \in Clients, Connect(c) \/ Abort(c)
      PROVE  Loop'
  BY <1>1 DEF Connect, Abort
<1>2. ASSUME NEW c \in Clients, Accept(c)
      PROVE  Loop'
  BY <1>2 DEF Accept
<1>3. ASSUME NEW c \in Clients, AcceptAborted(c)
      PROVE  Loop'
  BY <1>3 DEF AcceptAborted
<1>4. CASE TestErrno BY <1>4 DEF TestErrno, Interrupted, AcceptFailed
<1>5. CASE Fork BY <1>5 DEF Fork
<1>6. CASE Close BY <1>6 DEF Close, OpenAfterClose
<1>7. ASSUME NEW c \in Clients, ChildExit(c) \/ Reap(c)
      PROVE  Loop'
  BY <1>7 DEF ChildExit, Reap
<1>8. CASE Deliver BY <1>8 DEF Deliver
<1>9. CASE HandlerReturns BY <1>9 DEF HandlerReturns
<1>10. CASE UNCHANGED vars BY <1>10 DEF vars
<1>. QED
  BY <1>1, <1>2, <1>3, <1>4, <1>5, <1>6, <1>7, <1>8, <1>9, <1>10
  DEF Next, Parent, Handler

\* Every reachable state satisfies the inductive invariant.
THEOREM Invariance == Safety => []IInv
<1>1. IInv /\ [Next]_vars => IInv'
  BY TypesPreserved, SignalsPreserved, LoopPreserved DEF IInv
<1>. QED BY <1>1, InitEstablishes, PTL DEF Safety

----------------------------------------------------------------------------
(* The properties                                                          *)

\* Every variable keeps its type, and what is forked for and closed is a
\* connection, for any number of clients.
THEOREM TypeCorrect == Safety => []TypeOK
BY Invariance, PTL DEF IInv

\* However many SIGCHLDs merge into one, the handler or a pending signal answers
\* for every zombie, as long as the handler is installed.
THEOREM ZombiesAreRemembered == Safety => []NoZombieForgotten
BY Invariance, PTL DEF IInv

\* Where accept is restarted after the handler, the parent has at most the
\* descriptor it is handling, and none when it accepts.
THEOREM DescriptorsAreClosed == Safety => []NoLeakWhenRestarted
<1>1. IInv => NoLeakWhenRestarted
  BY DEF IInv, TypeOK, OpenAtStatement, NoLeakWhenRestarted, NoDescriptorLeak
<1>. QED BY <1>1, Invariance, PTL

\* The server ends for no other reason than an aborted connection: no signal, no
\* errno that the handler leaves and no interrupted accept ends it (server.c:31-42).
THEOREM OnlyAbortsEndIt == Safety => [](~Running => EndedByAbort)
<1>1. IInv => (~Running => EndedByAbort)
  BY DEF IInv, TypeOK, FailedByAbort, Running, EndedByAbort
<1>. QED BY <1>1, Invariance, PTL
=============================================================================
