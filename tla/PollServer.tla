----------------------------- MODULE PollServer -----------------------------
(***************************************************************************)
(* The poll echo server of unix-network-programming/ourc/server_new.c and  *)
(* the clients that connect to it.  Every descriptor but the listening one *)
(* belongs to one client's connection and is named after it.  All sockets  *)
(* block: a step that reads waits until there is something to read, one    *)
(* that writes until there is room in the connection's send buffer.        *)
(***************************************************************************)
EXTENDS Integers, Sequences, FiniteSets, FiniteSetsExt

CONSTANTS Clients,       \* each connects once
          None,          \* fd -1: a free slot
          OpenMax,       \* OPEN_MAX: slots of client[], slot 0 listens
          MaxChunks,     \* bound: reads' worth of data that each client sends
          SendBuf,       \* chunks of echo a connection holds until the client reads
          RudeClients    \* those that may reset, close before their echo came, or
                         \* never read it

ASSUME PollAssumption == /\ IsFiniteSet(Clients)
                         /\ None \notin Clients
                         /\ OpenMax \in Nat \ {0, 1}
                         /\ MaxChunks \in [Clients -> Nat]
                         /\ SendBuf \in Nat \ {0}
                         /\ RudeClients \subseteq Clients

Slots == 1 .. OpenMax - 1

VARIABLES
    \* the connections, as the kernel keeps them
    link,        \* what the server's TCP knows of the client's end
    backlog,     \* connections not accepted yet
    unread,      \* chunks received and not read
    \* the server
    slot,        \* client[1..].fd
    revents,     \* client[].revents, slot 0 included: nonzero?
    maxi, i, nready,
    chunks,      \* of n, the result of the last read, those not written yet
    pc,          \* next step of the server, or how it ended
    \* history
    sent,        \* chunks each client sent
    echoed,      \* chunks written back to it
    received     \* those of them that it read

kernel == <<link, backlog, unread>>
server == <<slot, revents, maxi, i, nready, chunks, pc>>
vars == <<kernel, server, sent, echoed, received>>

Init == /\ link = [c \in Clients |-> "none"]
        /\ backlog = <<>>
        /\ unread = [c \in Clients |-> 0]
        /\ slot = [s \in Slots |-> None]
        /\ revents \in [{0} \cup Slots -> BOOLEAN]      \* never initialised
        /\ maxi = 0 /\ i = 1 /\ nready = 0 /\ chunks = 0
        /\ pc = "poll"
        /\ sent = [c \in Clients |-> 0]
        /\ echoed = [c \in Clients |-> 0]
        /\ received = [c \in Clients |-> 0]

----------------------------------------------------------------------------
(* The clients and the network.  A link is                                 *)
(*   open    both ends are up                                              *)
(*   shut    the client sent FIN and still reads (the notes' shutdown)     *)
(*   gone    the client sent FIN and closed: data sent to it draws an RST  *)
(*   reset   an RST came, and its ECONNRESET has not been reported         *)
(*   broken  an RST came and was reported, or came after the FIN           *)
(*   closed  the server closed its descriptor                              *)

Become(c, state) == link' = [link EXCEPT ![c] = state]

Connect(c) == /\ link[c] = "none"
              /\ Become(c, "open")
              /\ backlog' = Append(backlog, c)
              /\ UNCHANGED <<unread, server, sent, echoed, received>>

Send(c) == /\ link[c] = "open"
           /\ sent[c] < MaxChunks[c]
           /\ sent' = [sent EXCEPT ![c] = @ + 1]
           /\ unread' = [unread EXCEPT ![c] = @ + 1]
           /\ UNCHANGED <<link, backlog, server, echoed, received>>

\* After the server's FIN, too; whether a rude client is still there to do so
\* makes no difference then.
ReadEcho(c) == /\ \/ link[c] \in {"open", "shut"}
                  \/ link[c] = "closed" /\ c \notin RudeClients
               /\ received[c] < echoed[c]
               /\ received' = [received EXCEPT ![c] = @ + 1]
               /\ UNCHANGED <<kernel, server, sent, echoed>>

\* shutdown(SHUT_WR), after which the client reads the rest of its echo.
Shutdown(c) == /\ link[c] = "open"
               /\ Become(c, "shut")
               /\ UNCHANGED <<backlog, unread, server, sent, echoed, received>>

\* The client closes with its echo unread, or aborts the connection.
Rude(c) == /\ c \in RudeClients
           /\ \/ link[c] \in {"open", "shut"} /\ Become(c, "gone")
              \/ link[c] = "open" /\ Become(c, "reset")
           /\ UNCHANGED <<backlog, unread, server, sent, echoed, received>>

----------------------------------------------------------------------------
(* The server                                                              *)

Readable(c) == unread[c] > 0 \/ link[c] # "open"

Ready(s) == IF s = 0 THEN backlog # <<>>
            ELSE slot[s] # None /\ Readable(slot[s])

Watched == {0} \cup (1 .. maxi)

\* poll(client, maxi + 1, INFTIM): the slots beyond maxi keep their revents.
Poll == /\ pc = "poll"
        /\ \E s \in Watched : Ready(s)
        /\ revents' = [s \in DOMAIN revents |->
                          IF s \in Watched THEN Ready(s) ELSE revents[s]]
        /\ nready' = Cardinality({s \in Watched : Ready(s)})
        /\ pc' = IF Ready(0) THEN "accept" ELSE "scan"
        /\ i' = 1
        /\ UNCHANGED <<kernel, slot, maxi, chunks, sent, echoed, received>>

\* Fault: the search stops one slot early.
FreeSlotsButLast == {s \in Slots : s < OpenMax - 1 /\ slot[s] = None}

FreeSlots == {s \in Slots : slot[s] = None}

\* Fault: no test of nready, as in the listing of the notes.
CountDownUntested(s) == nready' = nready - 1 /\ i' = s /\ pc' = "scan"

\* --nready <= 0: back to poll, else on to the client at s.
CountDown(s) == /\ nready' = nready - 1
                /\ i' = s
                /\ pc' = IF nready <= 1 THEN "poll" ELSE "scan"

\* Fault: maxi is not raised.
MaxiKept(s) == maxi

MaxiWith(s) == Max({maxi, s})

\* accept, into the first free slot; revents of that slot is left as it is.
Accept == /\ pc = "accept"
          /\ FreeSlots # {}
          /\ LET s == Min(FreeSlots)
             IN  /\ slot' = [slot EXCEPT ![s] = Head(backlog)]
                 /\ maxi' = MaxiWith(s)
          /\ backlog' = Tail(backlog)
          /\ CountDown(1)
          /\ UNCHANGED <<link, unread, revents, chunks, sent, echoed, received>>

\* accept reports an aborted connection: -1 goes into the first free slot,
\* which stays free, and maxi is raised to it.
AcceptAborted == /\ pc = "accept"
                 /\ FreeSlots # {}
                 /\ link[Head(backlog)] = "reset"
                 /\ Become(Head(backlog), "closed")
                 /\ maxi' = MaxiWith(Min(FreeSlots))
                 /\ backlog' = Tail(backlog)
                 /\ CountDown(1)
                 /\ UNCHANGED <<unread, slot, revents, chunks, sent, echoed, received>>

\* No slot is free: exit(-1), and every connection with it.
AcceptTooMany == /\ pc = "accept"
                 /\ FreeSlots = {}
                 /\ pc' = "exited"
                 /\ backlog' = Tail(backlog)
                 /\ UNCHANGED <<link, unread, slot, revents, maxi, i, nready,
                                chunks, sent, echoed, received>>

\* The loop head and its two tests, for the slot at i.
Scan == /\ pc = "scan"
        /\ IF i > maxi THEN pc' = "poll" /\ UNCHANGED i
           ELSE IF slot[i] # None /\ revents[i] THEN pc' = "read" /\ UNCHANGED i
           ELSE i' = i + 1 /\ UNCHANGED pc
        /\ UNCHANGED <<kernel, slot, revents, maxi, nready, chunks, sent, echoed, received>>

\* read() returns data: MAXLINE bytes at most, all there is at least.
ReadData == /\ pc = "read"
            /\ LET c == slot[i]
               IN  /\ chunks' \in 1 .. unread[c]
                   /\ unread' = [unread EXCEPT ![c] = @ - chunks']
            /\ pc' = "write"
            /\ UNCHANGED <<link, backlog, slot, revents, maxi, i, nready,
                           sent, echoed, received>>

\* read() returns 0: the slot is free again.
ReadEnd == /\ pc = "read"
           /\ LET c == slot[i]
              IN  /\ unread[c] = 0 /\ link[c] \in {"shut", "gone", "broken"}
                  /\ Become(c, "closed")
           /\ slot' = [slot EXCEPT ![i] = None]
           /\ CountDown(i + 1)
           /\ UNCHANGED <<backlog, unread, revents, maxi, chunks, sent, echoed, received>>

\* read() returns -1 with ECONNRESET.  n is a size_t, so n < 0 is false and so
\* is n == 0: the server calls writen(new_fd, buf, SIZE_MAX), which the kernel
\* refuses and writen ignores.  The slot stays.
ReadReset == /\ pc = "read"
             /\ LET c == slot[i]
                IN  unread[c] = 0 /\ link[c] = "reset" /\ Become(c, "broken")
             /\ CountDown(i + 1)
             /\ UNCHANGED <<backlog, unread, slot, revents, maxi, chunks,
                            sent, echoed, received>>

\* Fault: write() returns with what there was room for, as it would on a
\* nonblocking socket, and writen does not loop.
WriteOnce == CountDown(i + 1)

WriteOn == IF chunks = 1 THEN CountDown(i + 1)
                         ELSE pc' = "writing" /\ UNCHANGED <<i, nready>>

HasRoom(c) == echoed[c] - received[c] < SendBuf

\* writen(new_fd, buf, n), one write(): it returns when all is in the send
\* buffer.  A client that is gone answers with an RST, sooner or later.
Write == /\ pc \in {"write", "writing"}
         /\ LET c == slot[i]
            IN  /\ \/ link[c] \in {"open", "shut"} /\ HasRoom(c) /\ UNCHANGED link
                   \/ link[c] = "gone" /\ link' \in {link, [link EXCEPT ![c] = "broken"]}
                /\ echoed' = [echoed EXCEPT ![c] = @ + 1]
         /\ chunks' = chunks - 1
         /\ WriteOn
         /\ UNCHANGED <<backlog, unread, slot, revents, maxi, sent, received>>

\* An RST: with some of the data copied, write() returns how much; else the
\* error, which is then reported.  writen passes both off as success.
WriteFails == /\ \/ /\ pc = "write" /\ link[slot[i]] = "reset"
                    /\ Become(slot[i], "broken")
                 \/ /\ pc = "writing" /\ link[slot[i]] \in {"reset", "broken"}
                    /\ UNCHANGED link
              /\ chunks' = 0
              /\ CountDown(i + 1)
              /\ UNCHANGED <<backlog, unread, slot, revents, maxi, sent, echoed, received>>

\* A write to a connection that is known to be broken raises SIGPIPE, whose
\* default ends the process.
WriteBroken == /\ pc = "write"
               /\ link[slot[i]] = "broken"
               /\ pc' = "killed"
               /\ UNCHANGED <<kernel, slot, revents, maxi, i, nready, chunks,
                              sent, echoed, received>>

Server == \/ Poll \/ Accept \/ AcceptAborted \/ AcceptTooMany \/ Scan
          \/ ReadData \/ ReadEnd \/ ReadReset \/ Write \/ WriteFails \/ WriteBroken

Client(c) == Connect(c) \/ Send(c) \/ ReadEcho(c) \/ Shutdown(c) \/ Rude(c)

Next == Server \/ \E c \in Clients : Client(c)

Safety == Init /\ [][Next]_vars

\* The server runs when it can, and a client that is not rude reads its echo;
\* the clients are not obliged to anything else.
Spec == /\ Safety
        /\ WF_vars(Server)
        /\ \A c \in Clients \ RudeClients : WF_vars(ReadEcho(c))

----------------------------------------------------------------------------
(* Properties                                                              *)

Running == pc \notin {"exited", "killed"}
Links == {"none", "open", "shut", "gone", "reset", "broken", "closed"}
Queued == {backlog[k] : k \in DOMAIN backlog}
Accepted == {slot[s] : s \in Slots} \ {None}

\* Every variable has its type.
TypeOK == /\ link \in [Clients -> Links]
          /\ backlog \in Seq(Clients)
          /\ unread \in [Clients -> Nat] /\ chunks \in Nat
          /\ sent \in [Clients -> Nat] /\ echoed \in [Clients -> Nat]
          /\ received \in [Clients -> Nat]
          /\ slot \in [Slots -> Clients \cup {None}]
          /\ revents \in [{0} \cup Slots -> BOOLEAN]
          /\ maxi \in 0 .. OpenMax - 1
          /\ i \in 1 .. OpenMax
          /\ nready \in 0 .. OpenMax
          /\ pc \in {"poll", "accept", "scan", "read", "write", "writing", "exited", "killed"}

\* The table is exact: every connection the kernel holds for the server is
\* waiting or in one slot that poll will watch (its index at most maxi), no
\* slot holds a closed descriptor, and none is lost when slots are reused.
TableIsExact ==
    Running =>
        /\ Queued \cup Accepted = {c \in Clients : link[c] \notin {"none", "closed"}}
        /\ Queued \cap Accepted = {}
        /\ \A s, r \in Slots : slot[s] = slot[r] /\ slot[s] # None => s = r
        /\ \A s \in Slots : slot[s] # None => s <= maxi

\* What a client sent is in its socket, in the server's hands or echoed, whole:
\* no chunk is echoed twice, to another client, or dropped while the server
\* serves others.  writen (common.h:74) has no loop, and needs none as long as
\* only a broken connection cuts a write short.
EchoIsExact ==
    Running => \A c \in Clients :
        LET known == unread[c] + echoed[c]
                     + (IF pc \in {"write", "writing"} /\ slot[i] = c THEN chunks ELSE 0)
        IN  /\ known <= sent[c]
            /\ c \notin RudeClients \/ link[c] \in {"open", "shut"} => known = sent[c]

\* The server never waits in read(): "it must never block in a function that
\* concerns one client" (the notes' chapter 6, line 510).  The slot just filled
\* has garbage in revents when it lies beyond the slots polled so far; only the
\* count of ready descriptors (lines 74, 106) keeps the loop from reaching it.
NeverBlocksInRead == pc = "read" => Readable(slot[i])

\* What ends the server: a client that finds every slot taken, or one that went
\* away while the server still wrote to it.
EndedForCause ==
    \/ pc = "exited" /\ Cardinality(Accepted) = OpenMax - 1
    \/ pc = "killed" /\ slot[i] \in RudeClients /\ link[slot[i]] = "broken"

\* The server waits in write() for a client that does not read its echo.
HeldUp == /\ pc \in {"write", "writing"}
          /\ slot[i] \in RudeClients
          /\ link[slot[i]] \in {"open", "shut"} /\ ~HasRoom(slot[i])

\* What a client sent comes back to it, and a finished connection gives its slot
\* back, whatever the others do; but a client that never reads holds the server
\* up for ever in writen (server_new.c:103), and a full table (server_new.c:62)
\* or a write to a client that broke its connection can end it.
EveryClientIsServed ==
    \A c \in Clients \ RudeClients :
        \/ <>[]HeldUp
        \/ /\ sent[c] > 0 ~> received[c] = sent[c] \/ EndedForCause
           /\ link[c] = "shut" ~> link[c] = "closed" \/ EndedForCause
=============================================================================
