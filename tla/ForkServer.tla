----------------------------- MODULE ForkServer -----------------------------
(***************************************************************************)
(* The forking echo server of unix-network-programming/ourc/server.c: the  *)
(* accept loop of the parent, its SIGCHLD handler, which may run between   *)
(* any two of its steps, and the life of its children.  A connection, its  *)
(* descriptor and the child that serves it are named after the client.     *)
(***************************************************************************)
EXTENDS Naturals, FiniteSets

CONSTANTS Clients,     \* each connects once
          Failed       \* accept's result -1

ASSUME ForkAssumption == /\ IsFiniteSet(Clients)
                         /\ Failed \notin Clients

VARIABLES state,       \* each connection: "new", "queued", "accepted",
                       \* "aborted" by the client, then "dropped" by accept
          child,       \* its child: "none", "running", "zombie", "reaped"
          pc,          \* next statement of the parent
          clifd,       \* accept's result
          errno,
          open,        \* the connections the parent has a descriptor of
          pending,     \* is SIGCHLD pending for the parent?
          installed,   \* is deal_sig_handel its disposition?
          handling,    \* is deal_sig_handel running?
          systemV      \* signal() as in System V: accept is not restarted, and
                       \* the handler is reset when it runs; or as in glibc
                       \* and BSD?  The platform's choice; it never changes.

vars == <<state, child, pc, clifd, errno, open, pending, installed,
          handling, systemV>>
signals == <<pending, installed, handling, systemV>>

Init == /\ state = [c \in Clients |-> "new"]
        /\ child = [c \in Clients |-> "none"]
        /\ pc = "accept"
        /\ clifd = Failed
        /\ errno = "0"
        /\ open = {}
        /\ pending = FALSE
        /\ installed = TRUE
        /\ handling = FALSE
        /\ systemV \in BOOLEAN

Goto(from, to) == ~handling /\ pc = from /\ pc' = to

----------------------------------------------------------------------------
(* The clients                                                             *)

Connect(c) == /\ state[c] = "new"
              /\ state' = [state EXCEPT ![c] = "queued"]
              /\ UNCHANGED <<child, pc, clifd, errno, open, signals>>

\* A client resets its connection before it is accepted.
Abort(c) == /\ state[c] = "queued"
            /\ state' = [state EXCEPT ![c] = "aborted"]
            /\ UNCHANGED <<child, pc, clifd, errno, open, signals>>

----------------------------------------------------------------------------
(* The accept loop                                                         *)

Accept(c) == /\ Goto("accept", "test")
             /\ state[c] = "queued"
             /\ state' = [state EXCEPT ![c] = "accepted"]
             /\ clifd' = c
             /\ open' = open \cup {c}
             /\ UNCHANGED <<child, errno, signals>>

AcceptAborted(c) == /\ Goto("accept", "test")
                    /\ state[c] = "aborted"
                    /\ state' = [state EXCEPT ![c] = "dropped"]
                    /\ clifd' = Failed
                    /\ errno' = "ECONNABORTED"
                    /\ UNCHANGED <<child, open, signals>>

\* Fault: EINTR is an error like any other.
InterruptedNever == FALSE

\* Tested first, whatever accept returned: a success leaves errno as it was.
Interrupted == errno = "EINTR"

\* Fault: the result of accept is not tested, as in server_new.c.
AcceptFailedUnseen == FALSE

AcceptFailed == clifd = Failed

TestErrno == /\ Goto("test", IF Interrupted THEN "accept"
                             ELSE IF AcceptFailed THEN "exited"
                             ELSE "fork")
             /\ UNCHANGED <<state, child, clifd, errno, open, signals>>

\* The child serves the client; when fork fails nobody does.
Fork == /\ Goto("fork", "close")
        /\ child' \in {child, [child EXCEPT ![clifd] = "running"]}
        /\ UNCHANGED <<state, clifd, errno, open, signals>>

\* Fault: the parent does not close the child's connection.
OpenAfterNoClose == open

OpenAfterClose == open \ {clifd}

Close == /\ Goto("close", "accept")
         /\ open' = OpenAfterClose
         /\ UNCHANGED <<state, child, clifd, errno, signals>>

Parent == \/ \E c \in Clients : Accept(c) \/ AcceptAborted(c)
          \/ TestErrno \/ Fork \/ Close

----------------------------------------------------------------------------
(* The children and SIGCHLD                                                *)

\* str_echo returns and the child exits.  SIGCHLD does not queue, and is
\* discarded when its disposition is the default one.
ChildExit(c) == /\ child[c] = "running"
                /\ child' = [child EXCEPT ![c] = "zombie"]
                /\ pending' = (installed /\ pc # "exited")
                /\ UNCHANGED <<state, pc, clifd, errno, open, installed,
                               handling, systemV>>

Deliver == /\ pending /\ ~handling /\ pc # "exited"
           /\ pending' = FALSE
           /\ handling' = TRUE
           /\ installed' = ~systemV
           /\ UNCHANGED <<state, child, pc, clifd, errno, open, systemV>>

\* while (waitpid(-1, &stat, WNOHANG) > 0)
Reap(c) == /\ handling
           /\ child[c] = "zombie"
           /\ child' = [child EXCEPT ![c] = "reaped"]
           /\ UNCHANGED <<state, pc, clifd, errno, open, signals>>

\* Fault: `if' instead of `while' around waitpid.
NoZombieLooked == TRUE

NoZombie == \A c \in Clients : child[c] # "zombie"

\* waitpid found no zombie; it fails when there is no child at all.  Back in
\* the loop, an accept that was blocked goes on waiting or, under System V,
\* returns -1.
HandlerReturns ==
    /\ handling
    /\ NoZombie
    /\ handling' = FALSE
    /\ \/ /\ errno' = IF \E c \in Clients : child[c] = "running"
                      THEN errno ELSE "ECHILD"
          /\ UNCHANGED <<pc, clifd>>
       \/ /\ systemV /\ pc = "accept"
          /\ pc' = "test" /\ clifd' = Failed /\ errno' = "EINTR"
    /\ UNCHANGED <<state, child, open, pending, installed, systemV>>

Handler == Deliver \/ HandlerReturns \/ \E c \in Clients : Reap(c)

----------------------------------------------------------------------------

Next == \/ Parent
        \/ Handler
        \/ \E c \in Clients : Connect(c) \/ Abort(c) \/ ChildExit(c)

Safety == Init /\ [][Next]_vars

\* The parent and its handler run when they can; every client ends its session
\* some day, and its child with it.
Spec == /\ Safety
        /\ WF_vars(Parent) /\ WF_vars(Handler)
        /\ \A c \in Clients : WF_vars(ChildExit(c))

----------------------------------------------------------------------------
(* Properties                                                              *)

Running == pc # "exited"

\* Every variable has its type; what is forked for and closed is a connection.
TypeOK == /\ state \in [Clients -> {"new", "queued", "accepted", "aborted", "dropped"}]
          /\ child \in [Clients -> {"none", "running", "zombie", "reaped"}]
          /\ pc \in {"accept", "test", "fork", "close", "exited"}
          /\ clifd \in Clients \cup {Failed}
          /\ pc \in {"fork", "close"} => clifd \in Clients
          /\ errno \in {"0", "EINTR", "ECHILD", "ECONNABORTED"}
          /\ open \subseteq Clients
          /\ pending \in BOOLEAN /\ installed \in BOOLEAN /\ handling \in BOOLEAN
          /\ systemV \in BOOLEAN

\* SIGCHLDs of several children merge into one, yet no zombie is forgotten: as
\* long as one exists a SIGCHLD is pending or the handler has not finished.
\* Where signal() resets the handler, only the first SIGCHLD is ever handled.
NoZombieForgotten ==
    Running /\ installed => \A c \in Clients : child[c] = "zombie" => pending \/ handling

\* The parent keeps a descriptor of the connection it is handling only: each
\* one is closed in the parent before the next accept ("beware of the close
\* trap, so that no socket leaks", the notes' chapter 5, line 62).
NoDescriptorLeak ==
    /\ open \subseteq {clifd}
    /\ pc = "accept" => open = {}

\* The same where accept is restarted after the handler: errno, which line 31
\* tests after a success as well, can then never hold a stale EINTR.
NoLeakWhenRestarted == ~systemV => NoDescriptorLeak

\* Of all that the clients, the children and the signals do, only a connection
\* aborted before its accept ends the server (server.c:37); in particular an
\* accept that SIGCHLD interrupted does not, whatever the handler left in errno.
EndedByAbort == ~Running /\ \E c \in Clients : state[c] = "dropped"

\* A client that connects is accepted, and a child that ends is reaped, unless
\* an aborted connection ends the server or signal() has reset the handler.
EveryChildIsReaped ==
    \A c \in Clients :
        /\ state[c] = "queued" ~> state[c] # "queued" \/ EndedByAbort
        /\ child[c] = "running" ~> child[c] = "reaped" \/ ~installed \/ EndedByAbort
=============================================================================
