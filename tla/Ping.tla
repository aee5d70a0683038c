-------------------------------- MODULE Ping --------------------------------
(***************************************************************************)
(* unix-network-programming/ourc/ping.c: the receiving loop of the process *)
(* and sig_alrm, which sends a request and sets the next alarm and may run *)
(* between any two steps of the loop, against a network that loses,        *)
(* duplicates and reorders and hands a raw socket every ICMP message.      *)
(* Requests carry their sending time, replies bring it back.               *)
(***************************************************************************)
EXTENDS Integers, Sequences, SequencesExt

CONSTANTS B,           \* a word has B values (2^16); icmp_seq is one word
          Second,      \* ticks of the clock in a second (10^6)
          Header,      \* the word of icmp_type and icmp_code
          pid,         \* getpid() & 0xffff
          Foreign,     \* messages that do not answer this process's requests
          NoMessage,   \* no message, or no line printed yet
          MaxSent,     \* bound: requests
          MaxClock,    \* bound: ticks
          MaxInbox     \* messages the socket's receive buffer holds

Word == 0 .. B - 1
Message == [type : {"reply", "other"}, id : Word, seq : Word, len : Nat,
            tv : [sec : Nat, usec : 0 .. Second - 1]]

ASSUME PingAssumption ==
    /\ B \in Nat \ {0, 1} /\ Second \in Nat \ {0}
    /\ Header \in Word /\ pid \in Word
    /\ Foreign \subseteq Message
    /\ \A m \in Foreign : m.type = "reply" /\ m.id = pid => m.len < 16
    /\ NoMessage \notin Message
    /\ MaxSent \in Nat /\ MaxClock \in Nat /\ MaxInbox \in Nat

VARIABLES
    pc,          \* next step of the loop, or how the process ended
    handler,     \* next step of sig_alrm; "none" while it does not run
    systemV,     \* signal() as in System V, or as in glibc?  Never changes.
    installed,   \* is sig_alrm the disposition of SIGALRM?
    timer,       \* is an alarm set?
    pending,     \* is SIGALRM pending?
    errno,
    sockfd,      \* did socket() succeed?
    family,      \* of the address that host_serv found
    nsent,
    sendbuf,     \* the words of the ICMP message in it
    n,           \* what recvmsg returned: a message, or NoMessage for -1
    tval,        \* when it was returned
    clock,       \* gettimeofday
    inbox,       \* messages received and not read
    sent,        \* history: the requests, their times, their words
    report       \* history: the last line printed for a reply

process == <<pc, handler, systemV, installed, timer, pending, errno>>
buffers == <<sockfd, family, nsent, sendbuf, n, tval>>
vars == <<process, buffers, clock, inbox, sent, report>>

Timeval(t) == [sec |-> t \div Second, usec |-> t % Second]
Ticks(tv) == tv.sec * Second + tv.usec

Init == /\ pc = "resolve" /\ handler = "none"
        /\ systemV \in BOOLEAN /\ installed = TRUE
        /\ timer = FALSE /\ pending = FALSE /\ errno = "0"
        /\ sockfd \in BOOLEAN
        /\ family \in {"none", "v4", "v6"}
        /\ nsent = 0
        /\ sendbuf = <<0, 0, 0, 0, 0, 0>>
        /\ n = NoMessage /\ tval = Timeval(0)
        /\ clock = 0 /\ inbox = <<>> /\ sent = <<>> /\ report = NoMessage

Running == pc \notin {"crashed", "exited", "killed"}

----------------------------------------------------------------------------
(* in_cksum and tv_sub                                                     *)

SumOf(words) == FoldSeq(LAMBDA w, sum : w + sum, 0, words)

\* sum = (sum >> 16) + (sum & 0xffff)
Fold(sum) == (sum \div B) + (sum % B)

\* Fault: the answer is not cut to a word.
InCksumWide(words) == LET sum == Fold(SumOf(words))
                      IN  B - 1 - (sum + (sum \div B))

\* ... sum += (sum >> 16), and the complement of its low word
InCksum(words) == LET sum == Fold(SumOf(words))
                  IN  B - 1 - ((sum + (sum \div B)) % B)

\* Fault: the second is not borrowed.
TvSubNoBorrow(out, in) == [sec |-> out.sec - in.sec,
                           usec |-> (out.usec - in.usec) % Second]

\* tv_sub(out, in): a negative difference of microseconds borrows a second.
TvSub(out, in) ==
    LET usec == out.usec - in.usec
    IN  IF usec < 0 THEN [sec |-> out.sec - 1 - in.sec, usec |-> usec + Second]
                    ELSE [sec |-> out.sec - in.sec, usec |-> usec]

----------------------------------------------------------------------------
(* main and readloop; sig_alrm suspends them                               *)

Step(from, to) == handler = "none" /\ pc = from /\ pc' = to

\* host_serv returns NULL for a name it cannot resolve, and main follows it.
\* An address of any family is taken for one of IPv4.
Resolve == /\ Step("resolve", IF family = "none" THEN "crashed" ELSE "start")
           /\ UNCHANGED <<handler, systemV, installed, timer, pending, errno,
                          buffers, clock, inbox, sent, report>>

\* sig_alrm(SIGALRM), called as a function
FirstAlarm == /\ Step("start", "first")
              /\ handler' = "send"
              /\ UNCHANGED <<systemV, installed, timer, pending, errno,
                             buffers, clock, inbox, sent, report>>

Receive == /\ Step("recvmsg", "test")
           /\ sockfd /\ inbox # <<>>
           /\ n' = Head(inbox)
           /\ inbox' = Tail(inbox)
           /\ UNCHANGED <<handler, systemV, installed, timer, pending, errno,
                          sockfd, family, nsent, sendbuf, tval, clock, sent, report>>

\* Without a socket (no privilege for a raw one) recvmsg fails.
ReceiveFails == /\ Step("recvmsg", "test")
                /\ ~sockfd
                /\ n' = NoMessage
                /\ errno' = "EBADF"
                /\ UNCHANGED <<handler, systemV, installed, timer, pending, sockfd,
                               family, nsent, sendbuf, tval, clock, inbox, sent, report>>

\* n < 0: again when interrupted, else sys_err.  A raw message is never empty.
Test == /\ Step("test", IF n # NoMessage THEN "gettimeofday"
                        ELSE IF errno = "EINTR" THEN "recvmsg" ELSE "exited")
        /\ UNCHANGED <<handler, systemV, installed, timer, pending, errno,
                       buffers, clock, inbox, sent, report>>

GetTimeOfDay == /\ Step("gettimeofday", "proc_v4")
                /\ tval' = Timeval(clock)
                /\ UNCHANGED <<handler, systemV, installed, timer, pending, errno, sockfd,
                               family, nsent, sendbuf, n, clock, inbox, sent, report>>

\* What proc_v4 prints a round trip for; the rest it drops, or lists if verbose.
Answers(m) == m.len >= 8 /\ m.type = "reply" /\ m.id = pid /\ m.len >= 16

\* proc_v4, after which the message and tval are not looked at again.
ProcV4 == /\ Step("proc_v4", "recvmsg")
          /\ report' = IF Answers(n)
                       THEN [seq |-> n.seq, rtt |-> TvSub(tval, n.tv), at |-> Ticks(tval)]
                       ELSE report
          /\ n' = NoMessage /\ tval' = Timeval(0)
          /\ UNCHANGED <<handler, systemV, installed, timer, pending, errno, sockfd,
                         family, nsent, sendbuf, clock, inbox, sent>>

Main == \/ Resolve \/ FirstAlarm \/ Receive \/ ReceiveFails
        \/ Test \/ GetTimeOfDay \/ ProcV4

----------------------------------------------------------------------------
(* sig_alrm, with SIGALRM blocked                                          *)

\* Fault: icmp_cksum still holds the checksum sent before.
RequestOverOld == LET words == <<Header, sendbuf[2], pid, nsent % B,
                                 (clock \div Second) % B, (clock % Second) % B>>
                  IN  [words EXCEPT ![2] = InCksum(words)]

\* The message that send_v4 lays out in sendbuf (its constant filling left out):
\* the checksum is computed over all of it with icmp_cksum zero.
Request == LET words == <<Header, 0, pid, nsent % B,
                          (clock \div Second) % B, (clock % Second) % B>>
           IN  [words EXCEPT ![2] = InCksum(words)]

\* send_v4; the result of sendto is ignored, its errno stays.
Send == /\ handler = "send" /\ handler' = "alarm"
        /\ sendbuf' = Request
        /\ nsent' = nsent + 1
        /\ sent' = Append(sent, [tv |-> Timeval(clock), words |-> sendbuf'])
        /\ errno' \in IF sockfd THEN {errno, "ENETUNREACH"} ELSE {"EBADF"}
        /\ UNCHANGED <<pc, systemV, installed, timer, pending,
                       sockfd, family, n, tval, clock, inbox, report>>

\* Fault: the alarm is set once, by the first call.
SetAlarmOnce == /\ handler = "alarm" /\ handler' = "return"
                /\ timer' = (pc = "first")
                /\ UNCHANGED <<pc, systemV, installed, pending, errno,
                               buffers, clock, inbox, sent, report>>

\* alarm(1)
SetAlarm == /\ handler = "alarm" /\ handler' = "return"
            /\ timer' = TRUE
            /\ UNCHANGED <<pc, systemV, installed, pending, errno,
                           buffers, clock, inbox, sent, report>>

\* Under System V a recvmsg that waited returns -1 with EINTR.
Return == /\ handler = "return" /\ handler' = "none"
          /\ \/ /\ pc' = IF pc = "first" THEN "recvmsg" ELSE pc
                /\ UNCHANGED <<n, errno>>
             \/ /\ systemV /\ sockfd /\ pc = "recvmsg" /\ inbox = <<>>
                /\ pc' = "test" /\ n' = NoMessage /\ errno' = "EINTR"
          /\ UNCHANGED <<systemV, installed, timer, pending, sockfd, family,
                         nsent, sendbuf, tval, clock, inbox, sent, report>>

\* The second goes by; an alarm that was set again replaces the one before.
Ring == /\ Running /\ timer /\ nsent < MaxSent
        /\ timer' = FALSE
        /\ pending' = TRUE
        /\ UNCHANGED <<pc, handler, systemV, installed, errno,
                       buffers, clock, inbox, sent, report>>

Deliver == /\ Running /\ pending /\ handler = "none"
           /\ pending' = FALSE
           /\ IF installed THEN handler' = "send" /\ UNCHANGED pc
                           ELSE pc' = "killed" /\ UNCHANGED handler
           /\ installed' = ~systemV
           /\ UNCHANGED <<systemV, timer, errno, buffers, clock, inbox, sent, report>>

Handler == Send \/ SetAlarm \/ Return \/ Deliver

----------------------------------------------------------------------------
(* The clock, the host and the network                                     *)

Tick == /\ Running /\ clock < MaxClock
        /\ clock' = clock + 1
        /\ UNCHANGED <<process, buffers, inbox, sent, report>>

Arrive(m) == /\ Running /\ sockfd /\ Len(inbox) < MaxInbox
             /\ inbox' = Append(inbox, m)
             /\ UNCHANGED <<process, buffers, clock, sent, report>>

\* A host accepts a message whose words, the checksum among them, add up to all
\* ones in ones' complement arithmetic.
IsValid(words) == SumOf(words) > 0 /\ SumOf(words) % (B - 1) = 0

\* The answer to a request comes never, late or twice; an IPv6 host gives none.
Echo(request) ==
    /\ family = "v4" /\ IsValid(request.words)
    /\ Arrive([type |-> "reply", id |-> request.words[3], seq |-> request.words[4],
               len |-> 64, tv |-> request.tv])

Network == \/ \E k \in DOMAIN sent : Echo(sent[k])
           \/ \E m \in Foreign : Arrive(m)

Next == Main \/ Handler \/ Ring \/ Tick \/ Network

Safety == Init /\ [][Next]_vars

\* The process runs when it can, and an alarm that is set rings.
Spec == Safety /\ WF_vars(Main) /\ WF_vars(Handler) /\ WF_vars(Ring)

----------------------------------------------------------------------------
(* Properties                                                              *)

\* Every variable has its type; an alarm is set, pending or on its
\* way to be set again, once.
TypeOK == /\ pc \in {"resolve", "start", "first", "recvmsg", "test", "gettimeofday",
                     "proc_v4", "crashed", "exited", "killed"}
          /\ handler \in {"none", "send", "alarm", "return"}
          /\ systemV \in BOOLEAN /\ installed \in BOOLEAN
          /\ timer \in BOOLEAN /\ pending \in BOOLEAN
          /\ ~(timer /\ pending)
          /\ (timer \/ pending => handler \in {"none", "return"})
          /\ errno \in {"0", "EINTR", "EBADF", "ENETUNREACH"}
          /\ sockfd \in BOOLEAN /\ family \in {"none", "v4", "v6"}
          /\ nsent \in Nat /\ clock \in Nat
          /\ sendbuf \in Seq(Word) /\ Len(sendbuf) = 6
          /\ n \in Message \cup {NoMessage} /\ inbox \in Seq(Message)
          /\ tval.sec \in Nat /\ tval.usec \in 0 .. Second - 1
          /\ Len(sent) = nsent

\* Every request passes the receiver's test of its checksum, whatever words the
\* sum overflows by and whatever the buffer held before (ping.c:176-178).
ChecksumsAreValid == \A k \in DOMAIN sent : IsValid(sent[k].words)

\* What is printed for a reply belongs to a request of this process, and its
\* round trip is the time since that request was sent, whatever comes late,
\* twice or in between and whatever sig_alrm sends meanwhile (lines 249-268).
RttIsElapsed ==
    report # NoMessage =>
        \E k \in DOMAIN sent :
            /\ report.seq = (k - 1) % B
            /\ report.rtt.sec \in Nat /\ report.rtt.usec \in 0 .. Second - 1
            /\ Ticks(report.rtt) = report.at - Ticks(sent[k].tv)

\* Requests go out for ever, replies or no replies: every sig_alrm sets the
\* alarm of the next, and no signal ends the loop (where signal() stays installed).
KeepsPinging ==
    family # "none" /\ sockfd /\ ~systemV ~> Running /\ nsent = MaxSent
=============================================================================
