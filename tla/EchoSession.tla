---------------------------- MODULE EchoSession ----------------------------
(***************************************************************************)
(* One session between an echo client and an echo server of                *)
(* unix-network-programming/ourc: client.c or client2.c, whose str_cli is a *)
(* select over the standard input and the socket, and server.c, whose      *)
(* child runs str_echo, or server_new.c.  Lines are numbered as they are   *)
(* entered, and travel as the two pieces of their bytes, so that a read    *)
(* may end in the middle of one.  Sockets block and take a write whole.    *)
(* client2.c names port 3000, where no server of the directory listens: it *)
(* is modelled as one that was given the port of the server it talks to.   *)
(***************************************************************************)
EXTENDS Integers, Sequences, SequencesExt, FiniteSetsExt

CONSTANTS MaxLines,    \* bound: lines entered
          ServerBuf,   \* the server's buf (255 bytes), in pieces
          ClientBuf    \* recvline (255) and recvbuf (1024), in pieces

ASSUME SessionAssumption == /\ MaxLines \in Nat
                            /\ {ServerBuf, ClientBuf} \subseteq Nat \ {0, 1}

VARIABLES
    client,      \* "client" or "client2"
    server,      \* "server" or "server_new"
    terminal,    \* TRUE: a read of the standard input returns one line; FALSE:
                 \* a pipe or file, which returns what there is.
                 \* These three never change.
    entered,     \* lines entered so far
    input,       \* those not read by the client, in order
    inputEnded,  \* end of file after them?
    stdio,       \* lines read into the buffer of stdin and not yet returned
    rset,        \* what select reported
    recvline,    \* the client's buffer, with one place more for its zero byte: what
                 \* earlier lines, or nobody, left in it
    partial,     \* the pieces that readline has put over its beginning
    pc,          \* next step of the client, or how it ended
    uplink,      \* pieces sent and not read by the server
    downlink,    \* pieces echoed and not read by the client
    link,        \* "up"; the server's "fin" or "reset" follows what is in
                 \* downlink; "broken": reset, and the client was told
    buf,         \* the server's buffer: pieces, or zero bytes
    n,           \* pieces in it that were read and not echoed
    sent,        \* history: lines written to the socket
    printed,     \* history: the pieces of lines shown, old bytes left out
    repeated     \* history: those shown after them that recvline still held

programs == <<client, server, terminal>>
user == <<entered, input, inputEnded>>
serving == <<uplink, buf, n>>
reading == <<recvline, partial>>
shown == <<printed, repeated>>
vars == <<programs, user, stdio, rset, reading, pc, downlink, link, serving, sent, shown>>

Pieces(line) == <<[line |-> line, last |-> FALSE], [line |-> line, last |-> TRUE]>>

\* What a buffer holds besides: zero bytes; old bytes, with or without the end of
\* a line; and memory nobody initialised, which is taken to hold no end of a line.
Zero == [line |-> -1, last |-> FALSE]
Old(last) == [line |-> 0, last |-> last]
Garbage == Old(FALSE)

OfLine(piece) == piece.line > 0

\* The pieces that belong to a line, without the old bytes among them.
Fresh(pieces) ==
    LET fresh[k \in 0 .. Len(pieces)] ==      \* those of the first k
            IF k = 0 THEN <<>>
            ELSE IF OfLine(pieces[k]) THEN Append(fresh[k - 1], pieces[k])
            ELSE fresh[k - 1]
    IN  fresh[Len(pieces)]

\* client2.c sets its recvbuf to zero.  What nobody wrote in the recvline of
\* client.c lies behind all that was written: a zero byte there would hide nothing.
Unwritten == [k \in 1 .. ClientBuf + 1 |-> IF client = "client2" THEN Zero ELSE Garbage]

Init == /\ client \in {"client", "client2"}
        /\ server \in {"server", "server_new"}
        /\ terminal \in BOOLEAN
        /\ entered = 0 /\ input = <<>> /\ inputEnded = FALSE
        /\ stdio = <<>> /\ rset = {} /\ partial = <<>>
        /\ recvline = Unwritten
        /\ pc = "select"
        /\ uplink = <<>> /\ downlink = <<>> /\ link = "up"
        /\ buf \in [1 .. ServerBuf -> {Garbage, Zero}] /\ n = 0
        /\ server = "server_new" => Garbage \notin Range(buf)     \* it is never seen there
        /\ sent = <<>> /\ printed = <<>> /\ repeated = <<>>

----------------------------------------------------------------------------
(* The user                                                                *)

EnterLine == /\ ~inputEnded /\ entered < MaxLines
             /\ entered' = entered + 1
             /\ input' = Append(input, entered')
             /\ UNCHANGED <<programs, inputEnded, stdio, rset, reading, pc, downlink, link,
                            serving, sent, shown>>

EndInput == /\ ~inputEnded
            /\ inputEnded' = TRUE
            /\ UNCHANGED <<programs, entered, input, stdio, rset, reading, pc, downlink, link,
                           serving, sent, shown>>

----------------------------------------------------------------------------
(* The server                                                              *)

\* read(clifd, buf, 255) overwrites the beginning of buf.
Read(count) == /\ link = "up" /\ n = 0
               /\ count \in 1 .. Min({ServerBuf, Len(uplink)})
               /\ buf' = [k \in DOMAIN buf |-> IF k <= count THEN uplink[k]
                                              ELSE IF buf[k] = Zero THEN Zero ELSE Old(buf[k].last)]
               /\ n' = count
               /\ uplink' = SubSeq(uplink, count + 1, Len(uplink))
               /\ UNCHANGED <<programs, user, stdio, rset, reading, pc, downlink, link, sent, shown>>

\* strlen(buf), which may find its zero byte behind the buffer only.
Strings == LET zeros == {k \in DOMAIN buf : buf[k] = Zero}
           IN  IF zeros = {} THEN {buf, Append(buf, Garbage)}
               ELSE {SubSeq(buf, 1, Min(zeros) - 1)}

\* Fault: the zero byte is assumed at the place before the last.
ReplyShort(text) == Front(text)

\* str_echo writes strlen(buf) bytes, server_new.c the n that it read.
Reply(text) == IF server = "server" THEN text ELSE SubSeq(text, 1, n)

Write == /\ link = "up" /\ n > 0
         /\ \E text \in IF server = "server" THEN Strings ELSE {buf} :
                downlink' = downlink \o Reply(text)
         /\ n' = 0
         /\ UNCHANGED <<programs, user, stdio, rset, reading, pc, link, uplink, buf, sent, shown>>

\* str_echo returns, or the server ends: an RST if it leaves something unread.
ServerEnds == /\ link = "up"
              /\ link' = IF uplink = <<>> THEN "fin" ELSE "reset"
              /\ uplink' = <<>> /\ n' = 0
              /\ UNCHANGED <<programs, user, stdio, rset, reading, pc, downlink, buf, sent, shown>>

Server == Write \/ \E count \in 1 .. ServerBuf : Read(count)

----------------------------------------------------------------------------
(* str_cli                                                                 *)

InputReady == input # <<>> \/ inputEnded
SocketReady == downlink # <<>> \/ link # "up"

\* Fault: FD_SET(clifd) before the loop only.
ReportedInputOnly == IF InputReady THEN {"stdin"} ELSE {}

\* select() looks at the descriptors; it does not see the buffer of stdin.
Reported == (IF InputReady THEN {"stdin"} ELSE {}) \cup (IF SocketReady THEN {"socket"} ELSE {})

AfterSocket == IF "stdin" \in rset THEN "fgets" ELSE "select"

Select == /\ pc = "select"
          /\ rset' = Reported /\ rset' # {}
          /\ pc' = IF "socket" \in rset' THEN "receive" ELSE "fgets"
          /\ UNCHANGED <<programs, user, stdio, reading, downlink, link, serving, sent, shown>>

\* Fault: readline does not look at maxlen.
LineEndsAtNewlineOnly(piece) == piece.last

LineEnds(piece) == piece.last \/ Len(partial) + 1 = ClientBuf

\* readline puts a zero byte behind the text it returns.
Terminated(text) == [k \in DOMAIN recvline |-> IF k <= Len(text) THEN text[k]
                                               ELSE IF k = Len(text) + 1 THEN Zero
                                               ELSE recvline[k]]

\* The text that printf finds in a buffer from its k-th place on.
TextFrom(held, k) == LET zeros == {i \in k .. Len(held) : held[i] = Zero}
                     IN  SubSeq(held, k, IF zeros = {} THEN Len(held) ELSE Min(zeros) - 1)

\* client.c: readline reads on until the end of the line or of recvline, waiting
\* for it if need be.
ReadPiece == /\ pc = "receive" /\ client = "client"
             /\ downlink # <<>>
             /\ downlink' = Tail(downlink)
             /\ LET line == Append(partial, Head(downlink))
                IN  IF LineEnds(Head(downlink))
                    THEN /\ printed' = printed \o Fresh(line)
                         /\ recvline' = Terminated(line)
                         /\ partial' = <<>> /\ pc' = AfterSocket
                    ELSE partial' = line /\ UNCHANGED <<printed, recvline, pc>>
             /\ UNCHANGED <<programs, user, stdio, rset, link, serving, sent, repeated>>

\* client2.c: read() what there is into the zeroed recvbuf.  When it is filled,
\* fputs shows what lies behind it, too.
ReadAll == /\ pc = "receive" /\ client = "client2"
           /\ \E count \in 1 .. Min({ClientBuf, Len(downlink)}) :
                /\ downlink' = SubSeq(downlink, count + 1, Len(downlink))
                /\ printed' = printed \o Fresh(SubSeq(downlink, 1, count))
           /\ pc' = AfterSocket
           /\ UNCHANGED <<programs, user, stdio, rset, reading, link, serving, sent, repeated>>

\* End of file: with nothing read before, the client exits; else readline
\* returns what it has, and it is printed as if it were a line.
ReadEnd == /\ pc = "receive"
           /\ downlink = <<>> /\ link \in {"fin", "broken"}
           /\ IF partial = <<>> THEN pc' = "server error" /\ UNCHANGED printed
              ELSE pc' = AfterSocket /\ printed' = printed \o Fresh(partial)
           /\ recvline' = Terminated(partial) /\ partial' = <<>>
           /\ UNCHANGED <<programs, user, stdio, rset, downlink, link, serving, sent, repeated>>

\* ECONNRESET: readline returns -1 and sets no zero byte, and only 0 is tested.
\* client.c prints recvline, where an earlier line lies behind what was read, if
\* anything was; client2.c prints its empty recvbuf; and both go on.
ReadReset == /\ pc = "receive"
             /\ downlink = <<>> /\ link = "reset"
             /\ link' = "broken"
             /\ printed' = printed \o Fresh(partial)
             /\ repeated' = Fresh(TextFrom(recvline, Len(partial) + 1))
             /\ recvline' = partial \o SubSeq(recvline, Len(partial) + 1, Len(recvline))
             /\ partial' = <<>>
             /\ pc' = AfterSocket
             /\ UNCHANGED <<programs, user, stdio, rset, downlink, serving, sent>>

\* Fault: what else was in the pipe is dropped.
FillOne == <<Head(input)>>

FillWith == IF terminal THEN <<Head(input)>> ELSE input

\* fgets with nothing buffered reads the descriptor first.
Fill == /\ pc = "fgets"
        /\ stdio = <<>> /\ input # <<>>
        /\ stdio' = FillWith
        /\ input' = IF terminal THEN Tail(input) ELSE <<>>
        /\ pc' = "writen"
        /\ UNCHANGED <<programs, entered, inputEnded, rset, reading, downlink, link, serving,
                       sent, shown>>

Buffered == /\ pc = "fgets"
            /\ stdio # <<>>
            /\ pc' = "writen"
            /\ UNCHANGED <<programs, user, stdio, rset, reading, downlink, link, serving, sent, shown>>

\* fgets returns NULL: the client ends, whatever is still to be read.
InputEnds == /\ pc = "fgets"
             /\ stdio = <<>> /\ input = <<>> /\ inputEnded
             /\ pc' = "end of input"
             /\ UNCHANGED <<programs, user, stdio, rset, reading, downlink, link, serving, sent, shown>>

\* A server that ended draws an RST; a reset that was not reported is now.
LinkAfterWrite == CASE link = "up" -> {"up"}
                    [] link = "fin" -> {"fin", "broken"}
                    [] link = "reset" -> {"broken"}

\* writen of the line that fgets returned, its result not looked at.
Writen == /\ pc = "writen" /\ link # "broken"
          /\ uplink' = IF link = "up" THEN uplink \o Pieces(Head(stdio)) ELSE uplink
          /\ link' \in LinkAfterWrite
          /\ sent' = Append(sent, Head(stdio))
          /\ stdio' = Tail(stdio)
          /\ pc' = "select"
          /\ UNCHANGED <<programs, user, rset, reading, downlink, buf, n, shown>>

\* The next write raises SIGPIPE.
WritenBroken == /\ pc = "writen" /\ link = "broken"
                /\ pc' = "killed"
                /\ UNCHANGED <<programs, user, stdio, rset, reading, downlink, link, serving,
                               sent, shown>>

Client == \/ Select \/ ReadPiece \/ ReadAll \/ ReadEnd \/ ReadReset
          \/ Fill \/ Buffered \/ InputEnds
          \/ Writen \/ WritenBroken

----------------------------------------------------------------------------

Next == Client \/ Server \/ EnterLine \/ EndInput \/ ServerEnds

Safety == Init /\ [][Next]_vars

\* Client and server run when they can; the user owes nothing.
Spec == Safety /\ WF_vars(Client) /\ WF_vars(Server)

----------------------------------------------------------------------------
(* Properties                                                              *)

Ended == pc \in {"end of input", "server error", "killed"}

States == {"select", "receive", "fgets", "writen", "end of input", "server error", "killed"}
AnyPiece == [line : -1 .. MaxLines, last : BOOLEAN]

\* Every variable has its type; a line is in the client's hands when it writes,
\* and recvline is never overrun.
TypeOK == /\ client \in {"client", "client2"} /\ server \in {"server", "server_new"}
          /\ terminal \in BOOLEAN /\ inputEnded \in BOOLEAN
          /\ link \in {"up", "fin", "reset", "broken"}
          /\ entered \in 0 .. MaxLines
          /\ {input, stdio, sent} \subseteq Seq(1 .. MaxLines)
          /\ rset \subseteq {"stdin", "socket"}
          /\ {recvline, partial, uplink, downlink, buf, printed, repeated} \subseteq Seq(AnyPiece)
          /\ Len(recvline) = ClientBuf + 1 /\ Len(partial) < ClientBuf
          /\ Len(buf) = ServerBuf /\ n \in 0 .. ServerBuf
          /\ pc \in States
          /\ pc = "writen" => stdio # <<>>

\* What was entered is written to the socket in that order and none is lost on
\* the way through the buffer of stdin, although select and fgets disagree
\* about what there is to read (client.c:42-60, client2.c:44-56).
InputInOrder == sent \o stdio \o input = [k \in 1 .. entered |-> k]

Split(lines) == [k \in 1 .. 2 * Len(lines) |->
                    [line |-> lines[(k + 1) \div 2], last |-> k % 2 = 0]]

Occurs(run, pieces) == \E k \in 0 .. Len(pieces) - Len(run) :
                           run = SubSeq(pieces, k + 1, k + Len(run))

\* The client shows what it sent, once and in order, whatever the pieces it
\* comes back in: readline (client.c:47) does not lose what it has read of a
\* line, and the strlen of a buffer with old bytes in it (server.c:66) does not
\* cut what was read.  Besides it, only old bytes that str_echo repeats and what
\* lies behind a receive buffer without its zero byte; between client.c and
\* server_new.c, whole lines.  The one thing that is shown twice is what client.c
\* takes for a line after a reset (client.c:52): the last it shows, and a part of
\* what it has shown, with no other line, piece or order in it.
EchoInOrder ==
    LET known == printed \o Fresh(partial)
    IN  /\ IsPrefix(known, Split(sent))
        /\ link = "up" =>
              known \o Fresh(downlink) \o SubSeq(buf, 1, n) \o uplink = Split(sent)
        /\ link = "up" /\ client = "client" /\ server = "server_new" =>
              Len(printed) % 2 = 0
        /\ repeated # <<>> =>
              /\ client = "client" /\ link = "broken"
              /\ partial = <<>> /\ downlink = <<>>
              /\ Occurs(repeated, printed)

WaitsForNobody == partial # <<>> /\ Fresh(partial) = <<>>

\* A line that was sent comes back and is printed; at a terminal every line that
\* is entered is sent ("when the standard input is readable, read a line with
\* fgets, then write it to the socket", the notes' chapter 6, line 181); unless
\* an end comes first.  On a pipe, fgets may leave lines in the buffer of stdin,
\* which select (client.c:42) does not look at; and bytes that str_echo adds after
\* a line make readline wait for the end of a line that nobody sent.
EveryLineComesBack ==
    \A k \in 1 .. MaxLines :
        /\ Len(sent) >= k ~> Len(printed) >= 2 * k \/ Ended \/ link # "up"
        /\ terminal /\ entered >= k ~> Len(sent) >= k \/ Ended \/ link # "up" \/ WaitsForNobody
=============================================================================
