-------------------------- MODULE PollServerProofs --------------------------
(***************************************************************************)
(* Safety of PollServer for any number of clients, slots and chunks: type  *)
(* correctness, an exact table of connections, an echo without loss or     *)
(* mixture, no read() that waits, and an end for cause only.               *)
(***************************************************************************)
EXTENDS PollServer, SequenceTheorems, FiniteSetTheorems, TLAPS

----------------------------------------------------------------------------
(* The inductive invariant                                                 *)

\* Only a rude client goes away, and a client without a link sent nothing.
LinksAreKnown ==
    \A c \in Clients :
        /\ link[c] \in {"gone", "reset", "broken"} => c \in RudeClients
        /\ link[c] = "none" => unread[c] = 0 /\ sent[c] = 0 /\ echoed[c] = 0

\* No connection waits twice.
QueueIsDistinct ==
    Running => \A j, k \in DOMAIN backlog : backlog[j] = backlog[k] => j = k

\* What the server knows at each of its statements.
AtStatement ==
    /\ pc = "accept" => backlog # <<>>
    /\ Running => i <= maxi + 1
    /\ pc \in {"read", "write", "writing"} => i <= maxi /\ slot[i] # None
    /\ chunks = 0 <=> pc \notin {"write", "writing", "killed"}
    /\ pc = "killed" => chunks # 0 /\ i <= maxi /\ slot[i] \in RudeClients
                        /\ link[slot[i]] = "broken"
    /\ pc = "exited" => FreeSlots = {} /\ \A s, r \in Slots : slot[s] = slot[r] => s = r

\* The slots from ready on are those that poll found ready and that the loop has
\* not served; a client accepted since may look ready, but lies beyond them.
ToServe(ready) ==
    /\ \A s \in ready : /\ i <= s /\ s <= maxi
                        /\ slot[s] # None /\ revents[s]
                        /\ Readable(slot[s]) \/ (s = i /\ pc \in {"write", "writing"})
    /\ \A s \in Slots : i <= s /\ s <= maxi /\ slot[s] # None /\ revents[s] =>
            s \in ready \/ \A r \in ready : r < s

\* The count of ready descriptors counts them.
ReadyIsExact ==
    /\ pc = "accept" =>
          \E ready \in SUBSET Slots :
             /\ i = 1 /\ nready = Cardinality(ready) + 1
             /\ ToServe(ready)
             /\ \A s \in 1 .. maxi : revents[s] => s \in ready
    /\ pc \in {"scan", "read", "write", "writing"} =>
          \E ready \in SUBSET Slots :
             /\ nready = Cardinality(ready) /\ ready # {}
             /\ ToServe(ready)
             /\ pc # "scan" => i \in ready

IInv == /\ TypeOK
        /\ LinksAreKnown
        /\ QueueIsDistinct
        /\ TableIsExact
        /\ AtStatement
        /\ EchoIsExact
        /\ ReadyIsExact

----------------------------------------------------------------------------
(* Minima, maxima and queues                                               *)

\* The for loop of server_new.c that looks for a free slot finds the first one.
LEMMA MinIsFirst ==
    ASSUME NEW S \in SUBSET Int, IsFiniteSet(S), S # {}
    PROVE  Min(S) \in S /\ \A k \in S : Min(S) <= k
<1>. DEFINE Below(x) == {y \in S : y < x}
            T == {Below(x) : x \in S}
            R == StrictSubsetOrdering(S)
<1>1. IsWellFoundedOn(R, SUBSET S)
  BY FS_StrictSubsetOrderingWellFounded, FS_FiniteSubsetsOfFinite
<1>2. \E U \in T : \A V \in T : <<V, U>> \notin R
  <2>1. T \subseteq SUBSET S /\ T # {} OBVIOUS
  <2>. HIDE DEF T, R
  <2>. QED BY <1>1, <2>1, WFMin
<1>3. PICK m \in S : \A V \in T : <<V, Below(m)>> \notin R BY <1>2
<1>4. ASSUME NEW k \in S PROVE m <= k
  <2>1. SUFFICES ASSUME k < m PROVE FALSE OBVIOUS
  <2>2. Below(k) \subseteq Below(m)
    <3>1. ASSUME NEW y \in S, y < k PROVE y < m
      <4>1. y \in Int /\ k \in Int /\ m \in Int OBVIOUS
      <4>. QED BY <2>1, <3>1, <4>1
    <3>. QED BY <3>1
  <2>3. k \in Below(m) /\ k \notin Below(k) BY <2>1
  <2>4. <<Below(k), Below(m)>> \in R BY <2>2, <2>3 DEF StrictSubsetOrdering
  <2>. QED BY <1>3, <2>4
<1>. QED BY <1>4 DEF Min

\* maxi is raised when the slot lies beyond it.
LEMMA MaxiIsRaised ==
    ASSUME maxi \in Int, NEW s \in Int
    PROVE  MaxiWith(s) = IF s > maxi THEN s ELSE maxi
<1>1. CASE s > maxi
  <2>1. \A m \in {maxi, s} : (\A k \in {maxi, s} : m >= k) <=> m = s BY <1>1
  <2>. QED BY <1>1, <2>1 DEF MaxiWith, Max
<1>2. CASE ~(s > maxi)
  <2>1. \A m \in {maxi, s} : (\A k \in {maxi, s} : m >= k) <=> m = maxi BY <1>2
  <2>. QED BY <1>2, <2>1 DEF MaxiWith, Max
<1>. QED BY <1>1, <1>2

\* A connection that comes waits behind the others.
LEMMA AppendQueues ==
    ASSUME backlog \in Seq(Clients), NEW c \in Clients \ Queued,
           backlog' = Append(backlog, c),
           \A j, k \in DOMAIN backlog : backlog[j] = backlog[k] => j = k
    PROVE  /\ backlog' \in Seq(Clients) /\ backlog' # <<>>
           /\ Queued' = Queued \cup {c}
           /\ \A j, k \in DOMAIN backlog' : backlog'[j] = backlog'[k] => j = k
<1>1. /\ Len(backlog) \in Nat /\ DOMAIN backlog = 1 .. Len(backlog)
      /\ backlog' \in Seq(Clients) /\ Len(backlog') = Len(backlog) + 1
      /\ \A k \in 1 .. Len(backlog) : backlog'[k] = backlog[k]
      /\ backlog'[Len(backlog) + 1] = c
  BY AppendProperties, LenProperties
<1>2. DOMAIN backlog' = 1 .. Len(backlog) + 1 BY <1>1, LenProperties
<1>3. Queued' = Queued \cup {c} BY <1>1, <1>2 DEF Queued
<1>4. \A j, k \in DOMAIN backlog' : backlog'[j] = backlog'[k] => j = k
  BY <1>1, <1>2 DEF Queued
<1>5. backlog' # <<>> BY <1>1, EmptySeq
<1>. QED BY <1>1, <1>3, <1>4, <1>5

\* accept takes the first of them.
LEMMA TailTakesHead ==
    ASSUME backlog \in Seq(Clients), backlog # <<>>, backlog' = Tail(backlog),
           \A j, k \in DOMAIN backlog : backlog[j] = backlog[k] => j = k
    PROVE  /\ backlog' \in Seq(Clients)
           /\ Head(backlog) \in Queued /\ Queued' = Queued \ {Head(backlog)}
           /\ \A j, k \in DOMAIN backlog' : backlog'[j] = backlog'[k] => j = k
<1>1. /\ Len(backlog) \in Nat \ {0} /\ DOMAIN backlog = 1 .. Len(backlog)
      /\ backlog' \in Seq(Clients) /\ Len(backlog') = Len(backlog) - 1
      /\ \A k \in 1 .. Len(backlog) - 1 : backlog'[k] = backlog[k + 1]
      /\ Head(backlog) = backlog[1]
  BY HeadTailProperties, LenProperties, EmptySeq
<1>2. DOMAIN backlog' = 1 .. Len(backlog) - 1 BY <1>1, LenProperties
<1>3. Head(backlog) \in Queued BY <1>1 DEF Queued
<1>4. Queued' = Queued \ {Head(backlog)}
  <2>1. ASSUME NEW c \in Queued', c \notin Queued \ {Head(backlog)} PROVE FALSE
    BY <1>1, <1>2, <2>1 DEF Queued
  <2>2. ASSUME NEW c \in Queued \ {Head(backlog)} PROVE c \in Queued'
    <3>1. PICK k \in 2 .. Len(backlog) : backlog[k] = c BY <1>1, <2>2 DEF Queued
    <3>2. k - 1 \in DOMAIN backlog' /\ backlog'[k - 1] = c BY <1>1, <1>2, <3>1
    <3>. QED BY <3>2 DEF Queued
  <2>. QED BY <2>1, <2>2
<1>5. ASSUME NEW j \in DOMAIN backlog', NEW k \in DOMAIN backlog', backlog'[j] = backlog'[k]
      PROVE  j = k
  BY <1>1, <1>2, <1>5
<1>. QED BY <1>1, <1>3, <1>4, <1>5

\* The slot that accept takes: a free one, and every one before it is taken.
LEMMA FirstFreeSlot ==
    ASSUME FreeSlots # {}
    PROVE  /\ Min(FreeSlots) \in Slots /\ slot[Min(FreeSlots)] = None
           /\ \A s \in Slots : s < Min(FreeSlots) => slot[s] # None
<1>1. FreeSlots \in SUBSET Int BY DEF FreeSlots, Slots
<1>2. IsFiniteSet(FreeSlots)
  <2>1. IsFiniteSet(Slots) BY PollAssumption, FS_Interval DEF PollAssumption, Slots
  <2>. QED BY <2>1, FS_Subset DEF FreeSlots
<1>. DEFINE m == Min(FreeSlots)
<1>3. m \in FreeSlots /\ \A k \in FreeSlots : m <= k BY <1>1, <1>2, MinIsFirst
<1>. HIDE DEF m
<1>4. ASSUME NEW s \in Slots, s < m PROVE slot[s] # None
  <2>1. s \notin FreeSlots BY <1>1, <1>3, <1>4 DEF Slots
  <2>. QED BY <2>1 DEF FreeSlots
<1>5. m \in Slots /\ slot[m] = None BY <1>3 DEF FreeSlots
<1>. QED BY <1>4, <1>5 DEF m

\* poll counts some of the descriptors that it watches.
LEMMA WatchedAreFinite ==
    ASSUME maxi \in 0 .. OpenMax - 1
    PROVE  /\ IsFiniteSet({s \in Watched : Ready(s)})
           /\ Cardinality({s \in Watched : Ready(s)}) \in 0 .. OpenMax
<1>. DEFINE ready == {s \in Watched : Ready(s)}
<1>1. maxi \in Int /\ 0 \in Int /\ ~(0 > maxi) /\ maxi - 0 + 1 <= OpenMax
  BY PollAssumption DEF PollAssumption
<1>2. IsFiniteSet(0 .. maxi) /\ Cardinality(0 .. maxi) = maxi - 0 + 1 BY <1>1, FS_Interval
<1>3. ready \in SUBSET (0 .. maxi) BY <1>1 DEF Watched
<1>. HIDE DEF ready
<1>4. IsFiniteSet(ready) /\ Cardinality(ready) <= Cardinality(0 .. maxi)
  BY <1>2, <1>3, FS_Subset
<1>5. Cardinality(ready) \in Nat BY <1>4, FS_CardinalityType
<1>6. Cardinality(ready) \in 0 .. OpenMax
  BY <1>1, <1>2, <1>4, <1>5, PollAssumption DEF PollAssumption
<1>. QED BY <1>4, <1>6 DEF ready

\* In the middle of a round there is a descriptor left to serve.
LEMMA SomethingIsReady ==
    ASSUME TypeOK, ReadyIsExact, pc \in {"accept", "scan", "read", "write", "writing"}
    PROVE  nready \in 1 .. OpenMax
<1>0. nready \in 0 .. OpenMax BY DEF TypeOK
<1>1. ASSUME NEW ready \in SUBSET Slots
      PROVE  IsFiniteSet(ready) /\ Cardinality(ready) \in Nat
  <2>1. IsFiniteSet(Slots) BY PollAssumption, FS_Interval DEF PollAssumption, Slots
  <2>2. IsFiniteSet(ready) BY <2>1, FS_Subset
  <2>. QED BY <2>2, FS_CardinalityType
<1>2. CASE pc = "accept"
  <2>1. PICK ready \in SUBSET Slots : nready = Cardinality(ready) + 1
    BY <1>2 DEF ReadyIsExact
  <2>. QED BY <1>0, <1>1, <2>1
<1>3. CASE pc \in {"scan", "read", "write", "writing"}
  <2>1. PICK ready \in SUBSET Slots : nready = Cardinality(ready) /\ ready # {}
    BY <1>3 DEF ReadyIsExact
  <2>2. Cardinality(ready) # 0 BY <1>1, <2>1, FS_EmptySet
  <2>. QED BY <1>0, <1>1, <2>1, <2>2
<1>. QED BY <1>2, <1>3

----------------------------------------------------------------------------
(* The invariant is inductive                                              *)

\* The connection that the server reads from or writes to.
LEMMA ServedIsConnected ==
    ASSUME TypeOK, TableIsExact, AtStatement, pc \in {"read", "write", "writing"}
    PROVE  /\ i \in Slots /\ i <= maxi /\ slot[i] \in Clients
           /\ link[slot[i]] \notin {"none", "closed"} /\ slot[i] \notin Queued
<1>1. i \in Slots /\ i <= maxi /\ slot[i] # None
  BY PollAssumption DEF PollAssumption, TypeOK, AtStatement, Slots
<1>2. slot[i] \in Accepted /\ slot[i] \in Clients BY <1>1 DEF Accepted, TypeOK
<1>. QED BY <1>1, <1>2 DEF TableIsExact, Running

\* A counter of chunks stays one when it is raised.
LEMMA OneMore ==
    ASSUME NEW f \in [Clients -> Nat], NEW c \in Clients,
           NEW g, g = f \/ g = [f EXCEPT ![c] = @ + 1]
    PROVE  g \in [Clients -> Nat]
OBVIOUS

\* Every step keeps the variables' types.
LEMMA TypesPreserved == IInv /\ [Next]_vars => TypeOK'
<1>. SUFFICES ASSUME IInv, [Next]_vars PROVE TypeOK' OBVIOUS
<1>. USE PollAssumption DEF PollAssumption, IInv, TypeOK, kernel, server
<1>1. ASSUME NEW c \in Clients, Connect(c)
      PROVE  TypeOK'
  BY <1>1, AppendProperties DEF Connect, Become, Links
<1>2. ASSUME NEW c \in Clients, Send(c) \/ ReadEcho(c)
      PROVE  TypeOK'
  <2>1. /\ sent' \in [Clients -> Nat] /\ unread' \in [Clients -> Nat]
        /\ received' \in [Clients -> Nat]
    <3>1. /\ sent' = sent \/ sent' = [sent EXCEPT ![c] = @ + 1]
          /\ unread' = unread \/ unread' = [unread EXCEPT ![c] = @ + 1]
          /\ received' = received \/ received' = [received EXCEPT ![c] = @ + 1]
      BY <1>2 DEF Send, ReadEcho
    <3>. QED BY <3>1, OneMore
  <2>2. UNCHANGED <<link, backlog, server, echoed>> BY <1>2 DEF Send, ReadEcho
  <2>. QED BY <2>1, <2>2
<1>3. ASSUME NEW c \in Clients, Shutdown(c) \/ Rude(c)
      PROVE  TypeOK'
  BY <1>3 DEF Shutdown, Rude, Become, Links
<1>4. CASE Poll
  <2>1. nready' \in 0 .. OpenMax BY <1>4, WatchedAreFinite DEF Poll
  <2>2. revents' \in [{0} \cup Slots -> BOOLEAN] BY <1>4 DEF Poll, Ready
  <2>. QED BY <1>4, <2>1, <2>2 DEF Poll
<1>5. CASE Accept \/ AcceptAborted
  <2>. DEFINE s == Min(FreeSlots)
  <2>1. s \in Slots BY <1>5, FirstFreeSlot DEF Accept, AcceptAborted
  <2>2. Head(backlog) \in Clients /\ Tail(backlog) \in Seq(Clients)
    BY <1>5, HeadTailProperties DEF Accept, AcceptAborted, AtStatement
  <2>3. nready - 1 \in 0 .. OpenMax BY <1>5, SomethingIsReady DEF Accept, AcceptAborted
  <2>4. MaxiWith(s) \in 0 .. OpenMax - 1
    <3>1. maxi \in Int /\ s \in Int BY <2>1 DEF Slots
    <3>. HIDE DEF s
    <3>2. MaxiWith(s) = IF s > maxi THEN s ELSE maxi BY <3>1, MaxiIsRaised
    <3>. QED BY <2>1, <3>2 DEF Slots
  <2>5. slot' \in [Slots -> Clients \cup {None}]
    <3>. HIDE DEF s
    <3>1. slot' = [slot EXCEPT ![s] = Head(backlog)] \/ slot' = slot
      BY <1>5 DEF Accept, AcceptAborted, s
    <3>. QED BY <2>2, <3>1
  <2>6. link' \in [Clients -> Links] BY <1>5, <2>2 DEF Accept, AcceptAborted, Become, Links
  <2>7. maxi' = MaxiWith(s) BY <1>5 DEF Accept, AcceptAborted
  <2>8. nready' \in 0 .. OpenMax /\ i' \in 1 .. OpenMax /\ pc' \in {"poll", "scan"}
    <3>1. CountDown(1) BY <1>5 DEF Accept, AcceptAborted
    <3>. QED BY <2>3, <3>1 DEF CountDown
  <2>9. /\ backlog' = Tail(backlog)
        /\ UNCHANGED <<unread, revents, chunks, sent, echoed, received>>
    BY <1>5 DEF Accept, AcceptAborted
  <2>. HIDE DEF s
  <2>. QED BY <2>2, <2>4, <2>5, <2>6, <2>7, <2>8, <2>9
<1>6. CASE AcceptTooMany
  <2>1. Tail(backlog) \in Seq(Clients)
    BY <1>6, HeadTailProperties DEF AcceptTooMany, AtStatement
  <2>. QED BY <1>6, <2>1 DEF AcceptTooMany
<1>7. CASE Scan
  BY <1>7 DEF Scan, AtStatement, Running
<1>8. CASE ReadData
  <2>1. pc = "read" /\ slot[i] \in Clients BY <1>8, ServedIsConnected DEF ReadData
  <2>2. chunks' \in Nat /\ unread' \in [Clients -> Nat] BY <1>8, <2>1 DEF ReadData
  <2>. QED BY <1>8, <2>2 DEF ReadData
<1>9. CASE ReadEnd \/ ReadReset
  <2>0. pc = "read" /\ CountDown(i + 1) BY <1>9 DEF ReadEnd, ReadReset
  <2>1. nready - 1 \in 0 .. OpenMax /\ i + 1 \in 1 .. OpenMax
    <3>1. nready - 1 \in 0 .. OpenMax BY <2>0, SomethingIsReady
    <3>2. i <= maxi BY <2>0, ServedIsConnected
    <3>. QED BY <3>1, <3>2
  <2>2. slot[i] \in Clients BY <2>0, ServedIsConnected
  <2>3. link' \in [Clients -> Links]
    <3>. DEFINE c == slot[i]
    <3>1. \E state \in Links : link' = [link EXCEPT ![c] = state]
      BY <1>9 DEF ReadEnd, ReadReset, Become, Links
    <3>. HIDE DEF c
    <3>. QED BY <3>1
  <2>4. slot' \in [Slots -> Clients \cup {None}] BY <1>9 DEF ReadEnd, ReadReset
  <2>5. nready' \in 0 .. OpenMax /\ i' \in 1 .. OpenMax /\ pc' \in {"poll", "scan"}
    BY <2>0, <2>1 DEF CountDown
  <2>6. UNCHANGED <<backlog, unread, revents, maxi, chunks, sent, echoed, received>>
    BY <1>9 DEF ReadEnd, ReadReset
  <2>. QED BY <2>3, <2>4, <2>5, <2>6
<1>10. CASE Write \/ WriteFails
  <2>0. pc \in {"write", "writing"} BY <1>10 DEF Write, WriteFails
  <2>1. nready - 1 \in 0 .. OpenMax /\ i + 1 \in 1 .. OpenMax
    <3>1. nready - 1 \in 0 .. OpenMax BY <2>0, SomethingIsReady
    <3>2. i <= maxi BY <2>0, ServedIsConnected
    <3>. QED BY <3>1, <3>2
  <2>2. slot[i] \in Clients BY <2>0, ServedIsConnected
  <2>3. link' \in [Clients -> Links]
    <3>. DEFINE c == slot[i]
    <3>1. link' = link \/ link' = [link EXCEPT ![c] = "broken"]
      BY <1>10 DEF Write, WriteFails, Become
    <3>. HIDE DEF c
    <3>. QED BY <3>1 DEF Links
  <2>4. chunks' \in Nat
    <3>1. chunks # 0 BY <2>0 DEF AtStatement
    <3>. QED BY <1>10, <3>1 DEF Write, WriteFails
  <2>5. echoed' \in [Clients -> Nat]
    <3>. DEFINE c == slot[i]
    <3>1. echoed' = echoed \/ echoed' = [echoed EXCEPT ![c] = @ + 1]
      BY <1>10 DEF Write, WriteFails
    <3>2. c \in Clients /\ echoed \in [Clients -> Nat] BY <2>2
    <3>. HIDE DEF c
    <3>. QED BY <3>1, <3>2, OneMore
  <2>6. nready' \in 0 .. OpenMax /\ i' \in 1 .. OpenMax /\ pc' \in {"poll", "scan", "writing"}
    BY <1>10, <2>1 DEF Write, WriteFails, WriteOn, CountDown
  <2>7. UNCHANGED <<backlog, unread, slot, revents, maxi, sent, received>>
    BY <1>10 DEF Write, WriteFails
  <2>. QED BY <2>3, <2>4, <2>5, <2>6, <2>7
<1>11. CASE WriteBroken BY <1>11 DEF WriteBroken
<1>12. CASE UNCHANGED vars BY <1>12 DEF vars
<1>. QED BY <1>1, <1>2, <1>3, <1>4, <1>5, <1>6, <1>7, <1>8, <1>9, <1>10, <1>11, <1>12
         DEF Next, Server, Client

\* Every step keeps what is known of the links.
LEMMA LinksPreserved ==
    ASSUME IInv, [Next]_vars
    PROVE  LinksAreKnown'
<1>. USE DEF LinksAreKnown, Become
<1>0. /\ link \in [Clients -> Links] /\ unread \in [Clients -> Nat]
      /\ sent \in [Clients -> Nat] /\ echoed \in [Clients -> Nat]
      /\ LinksAreKnown
  BY DEF IInv, TypeOK
<1>1. ASSUME NEW c \in Clients, Connect(c) \/ Send(c) \/ ReadEcho(c)
      PROVE  LinksAreKnown'
  BY <1>0, <1>1 DEF Connect, Send, ReadEcho, kernel
<1>2. ASSUME NEW c \in Clients, Shutdown(c) \/ Rude(c)
      PROVE  LinksAreKnown'
  BY <1>0, <1>2 DEF Shutdown, Rude
<1>3. CASE Poll \/ Accept \/ AcceptTooMany \/ Scan \/ WriteBroken
  BY <1>0, <1>3 DEF Poll, Accept, AcceptTooMany, Scan, WriteBroken, kernel
<1>4. CASE AcceptAborted
  BY <1>0, <1>4 DEF AcceptAborted
<1>5. CASE ReadData \/ ReadEnd \/ ReadReset \/ Write \/ WriteFails
  <2>1. slot[i] \in Clients /\ link[slot[i]] # "none"
    BY <1>5, ServedIsConnected DEF IInv, ReadData, ReadEnd, ReadReset, Write, WriteFails
  <2>. DEFINE c == slot[i]
  <2>2. CASE ReadData BY <1>0, <2>1, <2>2 DEF ReadData
  <2>3. CASE ReadEnd BY <1>0, <2>1, <2>3 DEF ReadEnd
  <2>4. CASE ReadReset BY <1>0, <2>1, <2>4 DEF ReadReset
  <2>5. CASE Write BY <1>0, <2>1, <2>5 DEF Write
  <2>6. CASE WriteFails BY <1>0, <2>1, <2>6 DEF WriteFails
  <2>. QED BY <1>5, <2>2, <2>3, <2>4, <2>5, <2>6
<1>6. CASE UNCHANGED vars BY <1>0, <1>6 DEF vars, kernel
<1>. QED BY <1>1, <1>2, <1>3, <1>4, <1>5, <1>6 DEF Next, Server, Client

\* Every step keeps what the server knows at its statements.
LEMMA StatementPreserved ==
    ASSUME IInv, [Next]_vars
    PROVE  AtStatement'
<1>. USE DEF AtStatement, Running, CountDown
<1>0. /\ AtStatement /\ LinksAreKnown
      /\ link \in [Clients -> Links] /\ backlog \in Seq(Clients)
      /\ chunks \in Nat /\ i \in 1 .. OpenMax /\ maxi \in 0 .. OpenMax - 1
      /\ unread \in [Clients -> Nat] /\ slot \in [Slots -> Clients \cup {None}]
      /\ pc \in {"poll", "accept", "scan", "read", "write", "writing", "exited", "killed"}
  BY DEF IInv, TypeOK
<1>1. ASSUME NEW c \in Clients, Connect(c)
      PROVE  AtStatement'
  <2>1. backlog' # <<>> BY <1>0, <1>1, AppendProperties, EmptySeq DEF Connect
  <2>2. \A d \in Clients : link[d] = "broken" => link'[d] = "broken"
    BY <1>0, <1>1 DEF Connect, Become
  <2>3. UNCHANGED server BY <1>1 DEF Connect
  <2>. QED BY <1>0, <2>1, <2>2, <2>3, PollAssumption DEF PollAssumption, server, FreeSlots
<1>2. ASSUME NEW c \in Clients, Send(c) \/ ReadEcho(c) \/ Shutdown(c) \/ Rude(c)
      PROVE  AtStatement'
  <2>1. \A d \in Clients : link[d] = "broken" => link'[d] = "broken"
    BY <1>0, <1>2 DEF Send, ReadEcho, Shutdown, Rude, Become, kernel
  <2>2. UNCHANGED <<backlog, server>>
    BY <1>2 DEF Send, ReadEcho, Shutdown, Rude, kernel, server
  <2>. QED BY <1>0, <2>1, <2>2, PollAssumption DEF PollAssumption, server, FreeSlots
<1>3. CASE Poll
  <2>1. pc' = "accept" => backlog # <<>> BY <1>3 DEF Poll, Ready
  <2>2. /\ pc' \in {"accept", "scan"} /\ i' = 1 /\ pc = "poll"
        /\ UNCHANGED <<kernel, slot, maxi, chunks>>
    BY <1>3 DEF Poll
  <2>. QED BY <1>0, <2>1, <2>2 DEF kernel
<1>4. CASE Accept \/ AcceptAborted
  <2>. DEFINE s == Min(FreeSlots)
  <2>1. s \in Int BY <1>4, FirstFreeSlot DEF Accept, AcceptAborted, Slots
  <2>2. MaxiWith(s) >= maxi /\ MaxiWith(s) \in Int BY <1>0, <2>1, MaxiIsRaised
  <2>. HIDE DEF s
  <2>3. maxi' >= maxi /\ maxi' \in Int BY <1>4, <2>2 DEF Accept, AcceptAborted, s
  <2>. QED BY <1>0, <1>4, <2>3 DEF Accept, AcceptAborted
<1>5. CASE AcceptTooMany
  BY <1>0, <1>5 DEF AcceptTooMany, FreeSlots, IInv, TableIsExact
<1>6. CASE Scan BY <1>0, <1>6 DEF Scan
<1>7. CASE ReadData \/ ReadEnd \/ ReadReset
  <2>1. slot[i] \in Clients /\ i <= maxi
    BY <1>7, ServedIsConnected DEF IInv, ReadData, ReadEnd, ReadReset
  <2>. QED BY <1>0, <1>7, <2>1 DEF ReadData, ReadEnd, ReadReset
<1>8. CASE Write \/ WriteFails BY <1>0, <1>8 DEF Write, WriteFails, WriteOn
<1>9. CASE WriteBroken
  <2>1. slot[i] \in Clients BY <1>9, ServedIsConnected DEF IInv, WriteBroken
  <2>. QED BY <1>0, <1>9, <2>1 DEF WriteBroken, LinksAreKnown, kernel
<1>10. CASE UNCHANGED vars BY <1>0, <1>10 DEF vars, kernel, server, FreeSlots
<1>. QED BY <1>1, <1>2, <1>3, <1>4, <1>5, <1>6, <1>7, <1>8, <1>9, <1>10
         DEF Next, Server, Client

\* Every step keeps the table of connections exact.
LEMMA TablePreserved ==
    ASSUME IInv, [Next]_vars
    PROVE  TableIsExact' /\ QueueIsDistinct'
<1>. DEFINE Connected == {c \in Clients : link[c] \notin {"none", "closed"}}
            Distinct == \A j, k \in DOMAIN backlog : backlog[j] = backlog[k] => j = k
            Exact == /\ Queued \cup Accepted = Connected
                     /\ Queued \cap Accepted = {}
                     /\ \A s, r \in Slots : slot[s] = slot[r] /\ slot[s] # None => s = r
                     /\ \A s \in Slots : slot[s] # None => s <= maxi
<1>. SUFFICES ASSUME Running' PROVE Exact' /\ Distinct'
  BY DEF TableIsExact, QueueIsDistinct
<1>0. /\ Running
      /\ link \in [Clients -> Links] /\ backlog \in Seq(Clients)
      /\ slot \in [Slots -> Clients \cup {None}] /\ maxi \in 0 .. OpenMax - 1
      /\ pc \in {"poll", "accept", "scan", "read", "write", "writing"}
      /\ None \notin Clients
  <2>1. Running
    BY DEF Running, Next, Server, Client, Connect, Send, ReadEcho, Shutdown, Rude, Poll,
           Accept, AcceptAborted, AcceptTooMany, Scan, ReadData, ReadEnd, ReadReset, Write,
           WriteFails, WriteBroken, vars, server
  <2>. QED BY <2>1, PollAssumption DEF PollAssumption, IInv, TypeOK, Running
<1>1. Exact /\ Distinct BY <1>0 DEF IInv, TableIsExact, QueueIsDistinct
<1>2. ASSUME backlog' = backlog, slot' = slot, maxi' = maxi, Connected' = Connected
      PROVE  Exact' /\ Distinct'
  <2>1. Queued' = Queued /\ Accepted' = Accepted BY <1>2 DEF Queued, Accepted
  <2>. HIDE DEF Connected
  <2>. QED BY <1>1, <1>2, <2>1
<1>3. ASSUME NEW c \in Clients, Connect(c)
      PROVE  Exact' /\ Distinct'
  <2>1. c \notin Queued /\ c \notin Accepted BY <1>1, <1>3 DEF Connect
  <2>2. Connected' = Connected \cup {c} BY <1>0, <1>3 DEF Connect, Become
  <2>3. Accepted' = Accepted /\ slot' = slot /\ maxi' = maxi
    BY <1>3 DEF Connect, server, Accepted
  <2>4. Queued' = Queued \cup {c} /\ Distinct'
    BY <1>0, <1>1, <1>3, <2>1, AppendQueues DEF Connect
  <2>. HIDE DEF Connected, Distinct
  <2>. QED BY <1>1, <2>1, <2>2, <2>3, <2>4
<1>4. ASSUME NEW c \in Clients, Send(c) \/ ReadEcho(c) \/ Shutdown(c) \/ Rude(c)
      PROVE  Exact' /\ Distinct'
  <2>1. UNCHANGED <<backlog, slot, maxi>>
    BY <1>4 DEF Send, ReadEcho, Shutdown, Rude, kernel, server
  <2>2. \A d \in Clients : link'[d] \in {"none", "closed"} <=> link[d] \in {"none", "closed"}
    BY <1>0, <1>4 DEF Send, ReadEcho, Shutdown, Rude, kernel, Become
  <2>. QED BY <1>2, <2>1, <2>2
<1>5. CASE Poll \/ Scan \/ ReadData
  BY <1>2, <1>5 DEF Poll, Scan, ReadData, kernel
<1>6. CASE AcceptTooMany \/ WriteBroken BY <1>6 DEF AcceptTooMany, WriteBroken, Running
<1>7. CASE Accept
  <2>. DEFINE m == Min(FreeSlots)
              h == Head(backlog)
  <2>1. /\ m \in Slots /\ slot[m] = None BY <1>7, FirstFreeSlot DEF Accept
  <2>2. /\ h \in Queued /\ Queued' = Queued \ {h} /\ Distinct'
    BY <1>0, <1>1, <1>7, TailTakesHead DEF Accept, IInv, AtStatement
  <2>3. h \in Clients /\ h \notin Accepted BY <1>1, <2>2
  <2>4. slot' = [slot EXCEPT ![m] = h] /\ maxi' = MaxiWith(m) /\ Connected' = Connected
    BY <1>7 DEF Accept
  <2>5. maxi' >= maxi /\ maxi' >= m /\ maxi' \in Int
    <3>1. maxi \in Int /\ m \in Int BY <1>0, <2>1 DEF Slots
    <3>. HIDE DEF m
    <3>2. MaxiWith(m) = IF m > maxi THEN m ELSE maxi BY <3>1, MaxiIsRaised
    <3>. QED BY <2>4, <3>1, <3>2
  <2>. HIDE DEF m, h, Connected, Distinct
  <2>6. Accepted' = Accepted \cup {h} BY <1>0, <2>1, <2>3, <2>4 DEF Accepted
  <2>7. \A s \in Slots : slot[s] # h BY <1>0, <2>3 DEF Accepted
  <2>8. \A s, r \in Slots : slot'[s] = slot'[r] /\ slot'[s] # None => s = r
    BY <1>0, <1>1, <2>1, <2>4, <2>7
  <2>9. \A s \in Slots : slot'[s] # None => s <= maxi'
    BY <1>0, <1>1, <2>1, <2>4, <2>5 DEF Slots
  <2>. QED BY <1>1, <2>2, <2>3, <2>4, <2>6, <2>8, <2>9
<1>8. CASE AcceptAborted
  <2>. DEFINE m == Min(FreeSlots)
              h == Head(backlog)
  <2>1. /\ m \in Slots BY <1>8, FirstFreeSlot DEF AcceptAborted
  <2>2. /\ h \in Queued /\ Queued' = Queued \ {h} /\ Distinct'
    BY <1>0, <1>1, <1>8, TailTakesHead DEF AcceptAborted, IInv, AtStatement
  <2>3. h \in Clients /\ h \notin Accepted BY <1>1, <2>2
  <2>4. link' = [link EXCEPT ![h] = "closed"] /\ slot' = slot /\ maxi' = MaxiWith(m)
    BY <1>8 DEF AcceptAborted, Become
  <2>5. maxi' >= maxi /\ maxi' \in Int
    <3>1. maxi \in Int /\ m \in Int BY <1>0, <2>1 DEF Slots
    <3>. HIDE DEF m
    <3>2. MaxiWith(m) = IF m > maxi THEN m ELSE maxi BY <3>1, MaxiIsRaised
    <3>. QED BY <2>4, <3>1, <3>2
  <2>. HIDE DEF m, h
  <2>6. Accepted' = Accepted BY <2>4 DEF Accepted
  <2>7. Connected' = Connected \ {h} BY <1>0, <2>3, <2>4
  <2>. HIDE DEF Connected, Distinct
  <2>8. \A s \in Slots : slot'[s] # None => s <= maxi' BY <1>0, <1>1, <2>4, <2>5 DEF Slots
  <2>. QED BY <1>1, <2>2, <2>3, <2>4, <2>6, <2>7, <2>8
<1>9. CASE ReadEnd
  <2>. DEFINE c == slot[i]
  <2>1. i \in Slots /\ c \in Clients /\ c \notin Queued
    BY <1>9, ServedIsConnected DEF IInv, ReadEnd
  <2>2. /\ slot' = [slot EXCEPT ![i] = None] /\ UNCHANGED <<backlog, maxi>>
        /\ link' = [link EXCEPT ![c] = "closed"]
    BY <1>9 DEF ReadEnd, Become
  <2>3. \A s \in Slots : s # i => slot[s] # c BY <1>0, <1>1, <2>1
  <2>4. c = slot[i] /\ c # None BY <1>0, <2>1
  <2>. HIDE DEF c
  <2>5. Accepted' = Accepted \ {c} BY <1>0, <2>1, <2>2, <2>3, <2>4 DEF Accepted
  <2>6. Queued' = Queued /\ Distinct' BY <1>1, <2>2 DEF Queued
  <2>7. Connected' = Connected \ {c} BY <1>0, <2>1, <2>2
  <2>. HIDE DEF Connected, Distinct
  <2>8. /\ \A s, r \in Slots : slot'[s] = slot'[r] /\ slot'[s] # None => s = r
        /\ \A s \in Slots : slot'[s] # None => s <= maxi'
    BY <1>0, <1>1, <2>1, <2>2
  <2>. QED BY <1>1, <2>1, <2>5, <2>6, <2>7, <2>8
<1>10. CASE ReadReset \/ Write \/ WriteFails
  <2>1. UNCHANGED <<backlog, slot, maxi>> BY <1>10 DEF ReadReset, Write, WriteFails
  <2>2. \A d \in Clients : link'[d] \in {"none", "closed"} <=> link[d] \in {"none", "closed"}
    <3>1. CASE ReadReset BY <1>0, <3>1 DEF ReadReset, Become
    <3>2. CASE Write BY <1>0, <3>2 DEF Write
    <3>3. CASE WriteFails BY <1>0, <3>3 DEF WriteFails, Become
    <3>. QED BY <1>10, <3>1, <3>2, <3>3
  <2>. QED BY <1>2, <2>1, <2>2
<1>11. CASE UNCHANGED vars BY <1>2, <1>11 DEF vars, kernel, server
<1>. QED BY <1>3, <1>4, <1>5, <1>6, <1>7, <1>8, <1>9, <1>10, <1>11
         DEF Next, Server, Client

\* Every step keeps account of what each client sent.
LEMMA EchoPreserved ==
    ASSUME IInv, [Next]_vars
    PROVE  EchoIsExact'
<1>. DEFINE Hand(c) == IF pc \in {"write", "writing"} /\ slot[i] = c THEN chunks ELSE 0
            Known(c) == unread[c] + echoed[c] + Hand(c)
            Whole(c) == c \notin RudeClients \/ link[c] \in {"open", "shut"}
            Exact(c) == Known(c) <= sent[c] /\ (Whole(c) => Known(c) = sent[c])
<1>. SUFFICES ASSUME Running', NEW c \in Clients PROVE Exact(c)'
  BY DEF EchoIsExact
<1>0. /\ Running
      /\ link \in [Clients -> Links] /\ slot \in [Slots -> Clients \cup {None}]
      /\ unread[c] \in Nat /\ echoed[c] \in Nat /\ sent[c] \in Nat /\ chunks \in Nat
      /\ unread \in [Clients -> Nat] /\ echoed \in [Clients -> Nat] /\ sent \in [Clients -> Nat]
  <2>1. Running
    BY DEF Running, Next, Server, Client, Connect, Send, ReadEcho, Shutdown, Rude, Poll,
           Accept, AcceptAborted, AcceptTooMany, Scan, ReadData, ReadEnd, ReadReset, Write,
           WriteFails, WriteBroken, vars, server
  <2>. QED BY <2>1 DEF IInv, TypeOK
<1>1. Exact(c) BY <1>0 DEF IInv, EchoIsExact
<1>2. ASSUME UNCHANGED <<unread, echoed, sent>>, Hand(c)' = Hand(c), Whole(c)' => Whole(c)
      PROVE  Exact(c)'
  <2>. HIDE DEF Hand, Whole
  <2>. QED BY <1>1, <1>2
<1>3. ASSUME NEW d \in Clients, Connect(d)
      PROVE  Exact(c)'
  <2>1. Hand(c)' = Hand(c) /\ UNCHANGED <<unread, echoed, sent>> BY <1>3 DEF Connect, server
  <2>2. CASE d # c
    <3>1. Whole(c)' => Whole(c) BY <1>0, <1>3, <2>2 DEF Connect, Become
    <3>. QED BY <1>2, <2>1, <3>1
  <2>3. CASE d = c
    <3>1. unread[c] = 0 /\ sent[c] = 0 /\ echoed[c] = 0 /\ link[c] = "none"
      BY <1>3, <2>3 DEF Connect, IInv, LinksAreKnown
    <3>2. Hand(c) = 0 BY <3>1, ServedIsConnected DEF IInv
    <3>. HIDE DEF Hand
    <3>. QED BY <2>1, <3>1, <3>2
  <2>. QED BY <2>2, <2>3
<1>4. ASSUME NEW d \in Clients, Send(d)
      PROVE  Exact(c)'
  <2>1. Hand(c)' = Hand(c) /\ echoed' = echoed /\ link' = link BY <1>4 DEF Send, server
  <2>2. /\ sent'[c] = IF c = d THEN sent[c] + 1 ELSE sent[c]
        /\ unread'[c] = IF c = d THEN unread[c] + 1 ELSE unread[c]
    BY <1>0, <1>4 DEF Send
  <2>3. Hand(c) \in Nat BY <1>0
  <2>. HIDE DEF Hand
  <2>. QED BY <1>0, <1>1, <2>1, <2>2, <2>3
<1>5. ASSUME NEW d \in Clients, ReadEcho(d) \/ Shutdown(d) \/ Rude(d)
      PROVE  Exact(c)'
  <2>1. Hand(c)' = Hand(c) /\ UNCHANGED <<unread, echoed, sent>>
    BY <1>5 DEF ReadEcho, Shutdown, Rude, kernel, server
  <2>2. Whole(c)' => Whole(c) BY <1>0, <1>5 DEF ReadEcho, Shutdown, Rude, Become, kernel
  <2>. QED BY <1>2, <2>1, <2>2
<1>6. CASE Poll \/ Accept \/ AcceptTooMany \/ Scan \/ WriteBroken
  <2>1. Hand(c)' = Hand(c) /\ UNCHANGED <<link, unread, echoed, sent>>
    BY <1>6 DEF Poll, Accept, AcceptTooMany, Scan, WriteBroken, CountDown, Running, kernel
  <2>. QED BY <1>2, <2>1
<1>7. CASE AcceptAborted \/ ReadEnd \/ ReadReset
  <2>1. Hand(c)' = Hand(c) /\ UNCHANGED <<unread, echoed, sent>>
    BY <1>7 DEF AcceptAborted, ReadEnd, ReadReset, CountDown
  <2>2. Whole(c)' => Whole(c) BY <1>0, <1>7 DEF AcceptAborted, ReadEnd, ReadReset, Become
  <2>. QED BY <1>2, <2>1, <2>2
<1>8. CASE ReadData
  <2>1. UNCHANGED <<link, echoed, sent>> /\ Hand(c) = 0 BY <1>8 DEF ReadData
  <2>2. CASE slot[i] # c
    <3>1. unread'[c] = unread[c] /\ Hand(c)' = 0 BY <1>0, <1>8, <2>2 DEF ReadData
    <3>. HIDE DEF Hand
    <3>. QED BY <1>1, <2>1, <3>1
  <2>3. CASE slot[i] = c
    <3>1. /\ unread'[c] = unread[c] - chunks' /\ Hand(c)' = chunks'
          /\ chunks' \in 1 .. unread[c]
      BY <1>0, <1>8, <2>3 DEF ReadData
    <3>. HIDE DEF Hand
    <3>. QED BY <1>0, <1>1, <2>1, <3>1
  <2>. QED BY <2>2, <2>3
<1>9. CASE Write
  <2>1. UNCHANGED <<unread, sent>> /\ chunks # 0 BY <1>9 DEF Write, IInv, AtStatement
  <2>2. Whole(c)' => Whole(c) BY <1>0, <1>9 DEF Write
  <2>3. CASE slot[i] # c
    <3>1. echoed'[c] = echoed[c] /\ Hand(c)' = 0 /\ Hand(c) = 0
      BY <1>0, <1>9, <2>3 DEF Write, WriteOn, CountDown
    <3>. HIDE DEF Hand, Whole
    <3>. QED BY <1>1, <2>1, <2>2, <3>1
  <2>4. CASE slot[i] = c
    <3>1. echoed'[c] = echoed[c] + 1 /\ Hand(c) = chunks BY <1>0, <1>9, <2>4 DEF Write
    <3>2. Hand(c)' = chunks - 1
      BY <1>0, <1>9, <2>1, <2>4 DEF Write, WriteOn, CountDown
    <3>. HIDE DEF Hand, Whole
    <3>. QED BY <1>0, <1>1, <2>1, <2>2, <3>1, <3>2
  <2>. QED BY <2>3, <2>4
<1>10. CASE WriteFails
  <2>1. UNCHANGED <<unread, sent, echoed>> /\ Hand(c)' = 0
    BY <1>10 DEF WriteFails, CountDown
  <2>2. CASE slot[i] # c
    <3>1. Hand(c) = 0 /\ (Whole(c)' => Whole(c)) BY <1>0, <1>10, <2>2 DEF WriteFails, Become
    <3>. QED BY <1>2, <2>1, <3>1
  <2>3. CASE slot[i] = c
    <3>1. ~Whole(c)'
      BY <1>0, <1>10, <2>3 DEF WriteFails, Become, IInv, LinksAreKnown
    <3>2. Hand(c) \in Nat BY <1>0
    <3>. HIDE DEF Hand, Whole
    <3>. QED BY <1>0, <1>1, <2>1, <3>1, <3>2
  <2>. QED BY <2>2, <2>3
<1>11. CASE UNCHANGED vars BY <1>2, <1>11 DEF vars, kernel, server
<1>. QED BY <1>3, <1>4, <1>5, <1>6, <1>7, <1>8, <1>9, <1>10, <1>11
         DEF Next, Server, Client

\* Each set of slots has a size, and serving one of them leaves one fewer.
LEMMA ServeOne ==
    ASSUME NEW ready \in SUBSET Slots
    PROVE  /\ Cardinality(ready) \in Nat
           /\ Cardinality(ready) = 0 <=> ready = {}
           /\ \A s \in ready : Cardinality(ready \ {s}) = Cardinality(ready) - 1
<1>1. IsFiniteSet(Slots) BY PollAssumption, FS_Interval DEF PollAssumption, Slots
<1>2. IsFiniteSet(ready) BY <1>1, FS_Subset
<1>. QED BY <1>2, FS_CardinalityType, FS_EmptySet, FS_RemoveElement

\* A step that moves no slot leaves the round as it is, as long as what was
\* readable stays so, or is what the server has just read.
LEMMA StillToServe ==
    ASSUME IInv, UNCHANGED <<slot, revents, maxi, i, nready>>,
           pc' = pc \/ (pc \in {"read", "write", "writing"} /\ pc' \in {"write", "writing"}),
           \A s \in Slots : slot[s] # None /\ Readable(slot[s]) =>
              \/ unread'[slot[s]] > 0 \/ link'[slot[s]] # "open"
              \/ s = i /\ pc' \in {"write", "writing"}
    PROVE  ReadyIsExact'
<1>1. ASSUME NEW ready \in SUBSET Slots, ToServe(ready)
      PROVE  ToServe(ready)'
  BY <1>1 DEF ToServe, Readable
<1>2. CASE pc' = "accept"
  <2>1. PICK ready \in SUBSET Slots :
           /\ i = 1 /\ nready = Cardinality(ready) + 1
           /\ ToServe(ready)
           /\ \A s \in 1 .. maxi : revents[s] => s \in ready
    BY <1>2 DEF IInv, ReadyIsExact
  <2>2. ToServe(ready)' BY <1>1, <2>1
  <2>. QED BY <1>2, <2>1, <2>2 DEF ReadyIsExact
<1>3. CASE pc' \in {"scan", "read", "write", "writing"}
  <2>1. PICK ready \in SUBSET Slots :
           /\ nready = Cardinality(ready) /\ ready # {}
           /\ ToServe(ready)
           /\ pc # "scan" => i \in ready
    BY <1>3 DEF IInv, ReadyIsExact
  <2>2. ToServe(ready)' BY <1>1, <2>1
  <2>. QED BY <1>3, <2>1, <2>2 DEF ReadyIsExact
<1>. QED BY <1>2, <1>3 DEF ReadyIsExact

\* When the client at i is served, the others are left to serve.
LEMMA OneServed ==
    ASSUME IInv, pc \in {"read", "write", "writing"}, CountDown(i + 1),
           UNCHANGED <<revents, maxi>>,
           \A s \in Slots : s # i => slot'[s] = slot[s],
           \A s \in Slots : s # i /\ slot[s] # None /\ Readable(slot[s]) =>
              unread'[slot[s]] > 0 \/ link'[slot[s]] # "open"
    PROVE  ReadyIsExact'
<1>1. PICK ready \in SUBSET Slots :
         nready = Cardinality(ready) /\ ToServe(ready) /\ i \in ready
  BY DEF IInv, ReadyIsExact
<1>0. PICK rest \in SUBSET Slots : rest = ready \ {i} OBVIOUS
<1>2. nready' = Cardinality(rest) /\ (pc' = "scan" => rest # {})
  <2>1. /\ Cardinality(ready) \in Nat
        /\ Cardinality(rest) = Cardinality(ready) - 1
        /\ Cardinality(rest) = 0 <=> rest = {}
    BY <1>0, <1>1, ServeOne
  <2>. QED BY <1>1, <2>1 DEF CountDown
<1>3. i \in Int /\ maxi \in Int /\ i' = i + 1 /\ pc' \in {"poll", "scan"}
  BY DEF IInv, TypeOK, CountDown
<1>4. ASSUME NEW s \in rest
      PROVE  /\ i' <= s /\ s <= maxi'
             /\ slot'[s] # None /\ revents'[s]
             /\ Readable(slot[s])'
  <2>1. /\ s \in Slots /\ s # i /\ i <= s /\ s <= maxi
        /\ slot[s] # None /\ revents[s] /\ Readable(slot[s])
    BY <1>0, <1>1 DEF ToServe
  <2>2. i' <= s BY <1>3, <2>1 DEF Slots
  <2>. QED BY <2>1, <2>2 DEF Readable
<1>5. ASSUME NEW s \in Slots, i' <= s, s <= maxi', slot'[s] # None, revents'[s]
      PROVE  s \in rest \/ \A r \in rest : r < s
  <2>1. s # i /\ i <= s BY <1>3, <1>5 DEF Slots
  <2>2. s \in ready \/ \A r \in ready : r < s BY <1>1, <1>5, <2>1 DEF ToServe
  <2>. QED BY <1>0, <2>1, <2>2
<1>6. ToServe(rest)' BY <1>4, <1>5 DEF ToServe
<1>. QED BY <1>2, <1>3, <1>6 DEF ReadyIsExact

\* The client that accept takes in waits for the next round: its slot lies
\* beyond those to serve, or was free, and not ready, when poll looked at it.
LEMMA NewcomerWaits ==
    ASSUME IInv, Accept \/ AcceptAborted
    PROVE  ReadyIsExact'
<1>. DEFINE m == Min(FreeSlots)
<1>1. m \in Slots /\ slot[m] = None BY FirstFreeSlot DEF Accept, AcceptAborted
<1>2. \A s \in Slots : s # m => slot'[s] = slot[s]
  BY <1>1 DEF Accept, AcceptAborted, IInv, TypeOK
<1>3. maxi \in Int /\ maxi' = (IF m > maxi THEN m ELSE maxi)
  <2>1. maxi \in Int /\ m \in Int BY <1>1 DEF Slots, IInv, TypeOK
  <2>2. maxi' = MaxiWith(m) BY DEF Accept, AcceptAborted
  <2>. HIDE DEF m
  <2>. QED BY <2>1, <2>2, MaxiIsRaised
<1>4. \A c \in Clients : Readable(c) => Readable(c)'
  <2>1. unread' = unread
        /\ (link' = link \/ link' = [link EXCEPT ![Head(backlog)] = "closed"])
    BY DEF Accept, AcceptAborted, Become
  <2>. QED BY <2>1 DEF Readable, IInv, TypeOK
<1>5. revents' = revents /\ CountDown(1) /\ pc = "accept" BY DEF Accept, AcceptAborted
<1>6. PICK ready \in SUBSET Slots :
         /\ i = 1 /\ nready = Cardinality(ready) + 1
         /\ ToServe(ready)
         /\ \A s \in 1 .. maxi : revents[s] => s \in ready
  BY <1>5 DEF IInv, ReadyIsExact
<1>7. nready' = Cardinality(ready) /\ i' = 1 /\ (pc' = "scan" => ready # {})
  BY <1>5, <1>6, ServeOne DEF CountDown
<1>8. slot \in [Slots -> Clients \cup {None}] BY DEF IInv, TypeOK
<1>. HIDE DEF m
<1>9. ASSUME NEW s \in ready
      PROVE  /\ i' <= s /\ s <= maxi'
             /\ slot'[s] # None /\ revents'[s]
             /\ Readable(slot[s])'
  <2>1. /\ s \in Slots /\ i <= s /\ s <= maxi /\ slot[s] # None /\ revents[s]
        /\ Readable(slot[s])
    BY <1>5, <1>6 DEF ToServe
  <2>2. s # m /\ slot'[s] = slot[s] /\ slot[s] \in Clients BY <1>1, <1>2, <1>8, <2>1
  <2>3. s <= maxi' BY <1>1, <1>3, <2>1 DEF Slots
  <2>4. Readable(slot[s])' BY <1>4, <2>1, <2>2 DEF Readable
  <2>. QED BY <1>5, <1>6, <1>7, <2>1, <2>2, <2>3, <2>4
<1>10. ASSUME NEW s \in Slots, s <= maxi', slot'[s] # None, revents'[s]
       PROVE  s \in ready \/ \A r \in ready : r < s
  <2>1. CASE s <= maxi BY <1>5, <1>6, <1>10, <2>1 DEF Slots
  <2>2. CASE ~(s <= maxi)
    <3>1. \A r \in ready : r \in Slots /\ r <= maxi BY <1>6 DEF ToServe
    <3>. QED BY <1>3, <2>2, <3>1 DEF Slots
  <2>. QED BY <2>1, <2>2
<1>11. ToServe(ready)' BY <1>9, <1>10 DEF ToServe
<1>. QED BY <1>5, <1>7, <1>11 DEF ReadyIsExact, CountDown

\* Every step keeps the count of ready descriptors exact.
LEMMA ReadyPreserved ==
    ASSUME IInv, [Next]_vars
    PROVE  ReadyIsExact'
<1>0. /\ link \in [Clients -> Links] /\ unread \in [Clients -> Nat]
      /\ slot \in [Slots -> Clients \cup {None}] /\ maxi \in 0 .. OpenMax - 1
      /\ revents \in [{0} \cup Slots -> BOOLEAN] /\ OpenMax \in Nat /\ i \in 1 .. OpenMax
  BY PollAssumption DEF PollAssumption, IInv, TypeOK
<1>1. ASSUME NEW c \in Clients, Client(c)
      PROVE  ReadyIsExact'
  <2>1. UNCHANGED server
    BY <1>1 DEF Client, Connect, Send, ReadEcho, Shutdown, Rude
  <2>2. CASE pc \in {"exited", "killed"} BY <2>1, <2>2 DEF ReadyIsExact, server
  <2>3. CASE Running
    <3>1. ASSUME NEW s \in Slots, slot[s] # None, Readable(slot[s])
          PROVE  unread'[slot[s]] > 0 \/ link'[slot[s]] # "open"
      <4>1. slot[s] \in Clients /\ link[slot[s]] # "none"
        <5>1. slot[s] \in Accepted BY <3>1 DEF Accepted
        <5>. QED BY <2>3, <5>1 DEF IInv, TableIsExact
      <4>2. CASE Connect(c) BY <1>0, <3>1, <4>1, <4>2 DEF Connect, Become, Readable
      <4>3. CASE Send(c) BY <1>0, <3>1, <4>1, <4>3 DEF Send, Readable
      <4>4. CASE ReadEcho(c) \/ Shutdown(c) \/ Rude(c)
        BY <1>0, <3>1, <4>1, <4>4 DEF ReadEcho, Shutdown, Rude, Become, Readable, kernel
      <4>. QED BY <1>1, <4>2, <4>3, <4>4 DEF Client
    <3>. QED BY <2>1, <3>1, StillToServe DEF server
  <2>. QED BY <2>2, <2>3 DEF Running
<1>2. CASE Poll
  <2>1. PICK ready \in SUBSET Slots : ready = {s \in 1 .. maxi : Ready(s)}
    <3>1. \A s \in 1 .. maxi : s \in Slots BY <1>0 DEF Slots
    <3>. QED BY <3>1
  <2>2. {s \in Watched : Ready(s)} = IF Ready(0) THEN ready \cup {0} ELSE ready
    BY <1>0, <2>1 DEF Watched
  <2>3. nready' = IF Ready(0) THEN Cardinality(ready) + 1 ELSE Cardinality(ready)
    <3>1. IsFiniteSet(ready)
      <4>1. IsFiniteSet(Slots) BY PollAssumption, FS_Interval DEF PollAssumption, Slots
      <4>. QED BY <4>1, FS_Subset
    <3>2. 0 \notin ready BY DEF Slots
    <3>3. nready' = Cardinality({s \in Watched : Ready(s)}) BY <1>2 DEF Poll
    <3>. QED BY <2>2, <3>1, <3>2, <3>3, FS_AddElement
  <2>4. ready # {} \/ Ready(0) BY <1>2, <2>1 DEF Poll, Watched
  <2>5. \A s \in 1 .. maxi : revents'[s] <=> s \in ready
    <3>1. \A s \in 1 .. maxi : s \in DOMAIN revents /\ s \in Watched
      BY <1>0 DEF Slots, Watched
    <3>. QED BY <1>2, <2>1, <3>1 DEF Poll
  <2>6. /\ i' = 1 /\ UNCHANGED <<link, unread, slot, maxi>>
        /\ pc' = IF Ready(0) THEN "accept" ELSE "scan"
    BY <1>2 DEF Poll, kernel
  <2>7. \A s \in ready : 1 <= s /\ s <= maxi /\ slot[s] # None /\ Readable(slot[s])
    BY <1>0, <2>1 DEF Ready
  <2>8. ToServe(ready)'
    <3>1. \A s \in ready : revents'[s] BY <1>0, <2>5, <2>7 DEF Slots
    <3>2. \A s \in Slots : s <= maxi /\ revents'[s] => s \in ready BY <1>0, <2>5 DEF Slots
    <3>. QED BY <2>6, <2>7, <3>1, <3>2 DEF ToServe, Readable
  <2>. QED BY <2>3, <2>4, <2>5, <2>6, <2>8 DEF ReadyIsExact
<1>3. CASE Accept \/ AcceptAborted BY <1>3, NewcomerWaits
<1>4. CASE AcceptTooMany \/ WriteBroken BY <1>4 DEF AcceptTooMany, WriteBroken, ReadyIsExact
<1>5. CASE Scan
  <2>1. PICK ready \in SUBSET Slots :
           nready = Cardinality(ready) /\ ready # {} /\ ToServe(ready)
    BY <1>5 DEF Scan, IInv, ReadyIsExact
  <2>2. UNCHANGED <<link, unread, slot, revents, maxi, nready>> /\ pc = "scan"
    BY <1>5 DEF Scan, kernel
  <2>3. i \in Slots /\ i <= maxi /\ i \in Int
    <3>1. PICK s \in ready : s \in Slots BY <2>1
    <3>2. i <= s /\ s <= maxi BY <2>1, <3>1 DEF ToServe
    <3>. QED BY <1>0, <3>1, <3>2 DEF Slots
  <2>4. CASE slot[i] # None /\ revents[i]
    <3>1. pc' = "read" /\ i' = i BY <1>0, <1>5, <2>3, <2>4 DEF Scan
    <3>2. i \in ready
      <4>1. i \in ready \/ \A r \in ready : r < i BY <2>1, <2>3, <2>4 DEF ToServe
      <4>2. PICK s \in ready : s \in Slots BY <2>1
      <4>3. i <= s /\ s \in Int BY <2>1, <4>2 DEF ToServe, Slots
      <4>. QED BY <2>3, <4>1, <4>3
    <3>3. ToServe(ready)' BY <2>1, <2>2, <3>1 DEF ToServe, Readable
    <3>. QED BY <2>1, <2>2, <3>1, <3>2, <3>3 DEF ReadyIsExact
  <2>5. CASE ~(slot[i] # None /\ revents[i])
    <3>1. pc' = "scan" /\ i' = i + 1 BY <1>0, <1>5, <2>2, <2>3, <2>5 DEF Scan
    <3>2. i \notin ready BY <2>1, <2>5 DEF ToServe
    <3>3. \A s \in Slots : i + 1 <= s <=> i <= s /\ s # i BY <2>3 DEF Slots
    <3>4. ToServe(ready)' BY <2>1, <2>2, <3>1, <3>2, <3>3 DEF ToServe, Readable
    <3>. QED BY <2>1, <2>2, <3>1, <3>4 DEF ReadyIsExact
  <2>. QED BY <2>4, <2>5
<1>6. CASE ReadData \/ ReadEnd \/ ReadReset \/ Write \/ WriteFails
  <2>1. pc \in {"read", "write", "writing"}
    BY <1>6 DEF ReadData, ReadEnd, ReadReset, Write, WriteFails
  <2>2. i \in Slots /\ slot[i] \in Clients BY <2>1, ServedIsConnected DEF IInv
  <2>3. \A s \in Slots : s # i => slot[s] # slot[i]
    BY <1>0, <2>1, <2>2, PollAssumption DEF PollAssumption, IInv, TableIsExact, Running
  <2>4. \A c \in Clients \ {slot[i]} : unread'[c] = unread[c] /\ link'[c] = link[c]
    <3>. DEFINE d == slot[i]
    <3>1. \/ unread' = unread
          \/ unread' = [unread EXCEPT ![d] = @ - chunks']
      BY <1>6 DEF ReadData, ReadEnd, ReadReset, Write, WriteFails
    <3>2. \/ link' = link
          \/ \E state \in {"closed", "broken"} : link' = [link EXCEPT ![d] = state]
      BY <1>6 DEF ReadData, ReadEnd, ReadReset, Write, WriteFails, Become
    <3>. HIDE DEF d
    <3>3. \A c \in Clients \ {d} : unread'[c] = unread[c] BY <1>0, <3>1
    <3>4. \A c \in Clients \ {d} : link'[c] = link[c] BY <1>0, <3>2
    <3>. QED BY <3>3, <3>4 DEF d
  <2>5. ASSUME NEW s \in Slots, s # i, slot[s] # None, Readable(slot[s])
        PROVE  unread'[slot[s]] > 0 \/ link'[slot[s]] # "open"
    BY <1>0, <2>3, <2>4, <2>5 DEF Readable
  <2>6. UNCHANGED <<revents, maxi>> /\ \A s \in Slots : s # i => slot'[s] = slot[s]
    BY <1>0, <1>6 DEF ReadData, ReadEnd, ReadReset, Write, WriteFails
  <2>7. CASE CountDown(i + 1) BY <2>1, <2>5, <2>6, <2>7, OneServed
  <2>8. CASE ~CountDown(i + 1)
    <3>1. slot' = slot /\ UNCHANGED <<i, nready>> /\ pc' \in {"write", "writing"}
      BY <1>6, <2>8 DEF ReadData, ReadEnd, ReadReset, Write, WriteFails, WriteOn
    <3>. QED BY <2>1, <2>5, <2>6, <3>1, StillToServe
  <2>. QED BY <2>7, <2>8
<1>7. CASE UNCHANGED vars
  <2>1. UNCHANGED <<slot, revents, maxi, i, nready, pc, link, unread>>
    BY <1>7 DEF vars, kernel, server
  <2>. QED BY <2>1, StillToServe DEF Readable
<1>. QED BY <1>1, <1>2, <1>3, <1>4, <1>5, <1>6, <1>7 DEF Next, Server

\* The initial states satisfy the invariant.
LEMMA InitEstablishes == Init => IInv
<1>. SUFFICES ASSUME Init PROVE IInv OBVIOUS
<1>. USE PollAssumption DEF PollAssumption, Init
<1>1. TypeOK
  <2>1. backlog \in Seq(Clients) BY EmptySeq
  <2>2. i \in 1 .. OpenMax /\ maxi \in 0 .. OpenMax - 1 /\ nready \in 0 .. OpenMax OBVIOUS
  <2>3. link \in [Clients -> Links] BY DEF Links
  <2>. QED BY <2>1, <2>2, <2>3 DEF TypeOK
<1>2. LinksAreKnown BY DEF LinksAreKnown
<1>3. DOMAIN backlog = {} BY EmptySeq, LenProperties
<1>4. Queued = {} /\ Accepted = {} BY <1>3 DEF Queued, Accepted
<1>5. QueueIsDistinct BY <1>3 DEF QueueIsDistinct
<1>6. TableIsExact BY <1>4 DEF TableIsExact
<1>7. AtStatement BY DEF AtStatement
<1>8. EchoIsExact BY DEF EchoIsExact
<1>9. ReadyIsExact BY DEF ReadyIsExact
<1>. QED BY <1>1, <1>2, <1>5, <1>6, <1>7, <1>8, <1>9 DEF IInv

\* The invariant holds of every state that the server and its clients reach.
THEOREM Invariance == Safety => []IInv
<1>1. IInv /\ [Next]_vars => IInv'
  BY TypesPreserved, LinksPreserved, TablePreserved, StatementPreserved, EchoPreserved,
     ReadyPreserved DEF IInv
<1>. QED BY InitEstablishes, <1>1, PTL DEF Safety

----------------------------------------------------------------------------
(* The properties                                                          *)

\* Every variable of the server and of its connections keeps its type: i never
\* leaves client[] (lines 78-111), and the count of ready descriptors never
\* goes below zero.
THEOREM TypeCorrect == Safety => []TypeOK
<1>1. IInv => TypeOK BY DEF IInv
<1>. QED BY Invariance, <1>1, PTL

\* However slots are freed and filled again (lines 49-70 and 97-99), client[]
\* holds each accepted connection once, at an index that poll watches.
THEOREM TableExact == Safety => []TableIsExact
<1>1. IInv => TableIsExact BY DEF IInv
<1>. QED BY Invariance, <1>1, PTL

\* What is read from a client is written back to it and to no other (lines 87
\* to 103), nothing twice and nothing lost as long as the client stays.
THEOREM EchoExact == Safety => []EchoIsExact
<1>1. IInv => EchoIsExact BY DEF IInv
<1>. QED BY Invariance, <1>1, PTL

\* The loop calls read() only for a client that poll found ready in this round,
\* although client[].revents is never initialised nor cleared when a slot is
\* filled: the count of ready descriptors ends the loop before it gets there.
THEOREM ReadNeverBlocks == Safety => []NeverBlocksInRead
<1>1. ASSUME IInv PROVE NeverBlocksInRead
  <2>1. SUFFICES ASSUME pc = "read" PROVE Readable(slot[i]) BY DEF NeverBlocksInRead
  <2>2. PICK ready \in SUBSET Slots : ToServe(ready) /\ i \in ready
    BY <1>1, <2>1 DEF IInv, ReadyIsExact
  <2>. QED BY <2>1, <2>2 DEF ToServe
<1>. QED BY Invariance, <1>1, PTL

\* The server ends only with every slot taken, at line 66, or by the SIGPIPE of
\* a write to a client that went away.
THEOREM EndsForCause == Safety => [](~Running => EndedForCause)
<1>1. ASSUME IInv, ~Running PROVE EndedForCause
  <2>1. CASE pc = "exited"
    <3>1. FreeSlots = {} /\ \A s, r \in Slots : slot[s] = slot[r] => s = r
      BY <1>1, <2>1 DEF IInv, AtStatement
    <3>2. slot \in Bijection(Slots, Accepted)
      <4>1. slot \in [Slots -> Accepted]
        BY <1>1, <3>1 DEF IInv, TypeOK, FreeSlots, Accepted
      <4>2. \A c \in Accepted : \E s \in Slots : slot[s] = c BY DEF Accepted
      <4>. QED BY <3>1, <4>1, <4>2 DEF Bijection, Injection, Surjection, IsInjective
    <3>3. OpenMax - 1 \in Int /\ ~(1 > OpenMax - 1) /\ OpenMax - 1 - 1 + 1 = OpenMax - 1
      BY PollAssumption DEF PollAssumption
    <3>4. IsFiniteSet(Slots) /\ Cardinality(Slots) = OpenMax - 1
      BY <3>3, FS_Interval DEF Slots
    <3>5. Cardinality(Accepted) = Cardinality(Slots)
      BY <3>2, <3>4, FS_Bijection DEF ExistsBijection
    <3>. QED BY <2>1, <3>4, <3>5 DEF EndedForCause
  <2>2. CASE pc = "killed" BY <1>1, <2>2 DEF IInv, AtStatement, EndedForCause
  <2>. QED BY <1>1, <2>1, <2>2 DEF Running
<1>. QED BY Invariance, <1>1, PTL
=============================================================================
