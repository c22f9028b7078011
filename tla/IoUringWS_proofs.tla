--------------------------- MODULE IoUringWS_proofs ---------------------------
(***************************************************************************)
(* Theorems about IoUringWS for any assets, queue depth of at least three, *)
(* and bounds: the operation that will tell the end of the connection, and *)
(* what the server sends.                                                  *)
(***************************************************************************)
EXTENDS IoUringWS, SequenceTheorems, TLAPS

AllOps == Ops({"Connect", "Recv", "Send"}, Messages)

Results ==
    [op : {"Connect", "Send"}, conn : 1..MaxConnections, res : {"ok", "error"}, more : {FALSE}]
      \cup [op : {"Recv"}, conn : 1..MaxConnections, res : {"end", "nobufs"}, more : {FALSE}]
      \cup [op : {"Recv"}, conn : 1..MaxConnections,
            res : {"finished", "upgraded", "rejected", "bytes"}, more : BOOLEAN]

\* No element, or just one, of a sequence is in a set.
None(q, S) == \A i \in DOMAIN q : q[i] \notin S
One(q, S) == \E i \in DOMAIN q : q[i] \in S /\ \A j \in DOMAIN q : q[j] \in S => j = i

Watches == {op \in AllOps : Watching(op)}
Sends == {op \in AllOps : IsSend(op)}
Beyond(n) == {op \in AllOps : op.conn > n}
Own(n) == {op \in Sends : op.conn = n /\ op.data # Garbage}
UpgradeOf(n) == {op \in Sends : op.conn = n /\ op.data = Upgrade}
Changes(n, kind, a) == {op \in Sends : op.conn = n /\ op.data.kind = kind /\ a \in op.data.assets}

WatchResults == {e \in Results : Watching(e)}
EndResults == {e \in Results : Ends(e)}
UpResults == {e \in Results : e.res = "upgraded"}

\* Nothing that watches comes after the end.
EndIsLast(q) ==
    \A i, j \in DOMAIN q : q[i] \in EndResults /\ i < j => q[j] \notin WatchResults

ServerType ==
    [stage : {"gone", "accepted", "greeted", "secure", "asked", "open", "refused", "broken"},
     subs : SUBSET Assets]

\* The types of all but the queues.
Scalars ==
    /\ use_tls \in BOOLEAN /\ running \in BOOLEAN /\ due \in BOOLEAN
    /\ pc \in {"start", "loop", "ping", "submit", "wait", "reap", "subscribe", "reconnect",
               "done", "failed", "killed"}
    /\ phase \in {"Disconnected", "TcpConnecting", "TlsHandshaking", "WsUpgrading", "Connected"}
    /\ conn \in 0..MaxConnections
    /\ connected = (phase = "Connected" /\ pc # "done") /\ overwritten \in BOOLEAN
    /\ subscriptions \subseteq Assets /\ asked \subseteq Assets /\ request \in Messages
    /\ epc \in {"idle", "check", "enqueue"}
    /\ server \in ServerType

\* The types of the queues; nothing is of a connection that was not tried yet.
Queues ==
    /\ sq \in Seq(AllOps) /\ inflight \in Seq(AllOps) /\ cq \in Seq(Results)
    /\ send_queue \in Seq(Messages) /\ Len(sq) <= QueueDepth
    /\ pc = "start" => conn = 0
    /\ conn = 0 => phase = "Disconnected" /\ sq = <<>> /\ inflight = <<>> /\ cq = <<>>
    /\ None(sq, Beyond(conn)) /\ None(inflight, Beyond(conn))

\* The operation that watches the connection, and what the kernel says of it.
TheOp == IF phase = "TcpConnecting" THEN "Connect" ELSE "Recv"
TheWatch == Op(TheOp, conn, Nothing)
TheResults == {e \in WatchResults : e.op = TheOp /\ e.conn = conn}

WatchPrepared == One(sq, Watches) /\ None(inflight, Watches) /\ None(cq, WatchResults)
WatchInFlight == None(sq, Watches) /\ One(inflight, Watches) /\ None(cq, EndResults)
WatchEnded == None(sq, Watches) /\ None(inflight, Watches) /\ One(cq, EndResults)

\* Where it is; nothing is said after its end.
WatchInv ==
    IF phase = "Disconnected"
      THEN None(sq, Watches) /\ None(inflight, Watches) /\ None(cq, WatchResults)
      ELSE /\ WatchPrepared \/ WatchInFlight \/ WatchEnded
           /\ None(sq, Watches \ {TheWatch}) /\ None(inflight, Watches \ {TheWatch})
           /\ None(cq, WatchResults \ TheResults)
           /\ EndIsLast(cq)

\* A queue with room for what watches the connection, if it does not hold it.
HasRoom(q) == Len(q) <= 3 /\ (Len(q) = 3 => q[3] \in Watches)

\* While completions are looked at there is room for what is prepared next.
RoomInv ==
    /\ pc = "wait" => sq = <<>>
    /\ pc \in {"reap", "subscribe", "reconnect", "loop"} =>
          HasRoom(sq)
    /\ pc = "reap" /\ phase = "TcpConnecting" => sq = <<>>
    /\ pc = "reap" /\ phase = "TlsHandshaking" /\ None(sq, Watches) => sq = <<>>
    /\ pc = "reap" /\ phase = "WsUpgrading" /\ None(sq, Watches) /\ sq # <<>> =>
          ~None(sq, UpgradeOf(conn))
    /\ pc = "subscribe" =>
          /\ sq = <<>> /\ phase = "Connected"
          /\ cq # <<>> /\ Head(cq).op = "Recv" /\ Head(cq).res = "upgraded"

\* The upgrade is asked for once, and answered after it was asked for.
NotAsked == server.stage \notin {"asked", "open", "refused"} /\ None(cq, UpResults)
NoneAsks == None(sq, UpgradeOf(conn)) /\ None(inflight, UpgradeOf(conn))

AskInv ==
    /\ phase \in {"TcpConnecting", "TlsHandshaking"} => NotAsked /\ NoneAsks
    /\ phase = "WsUpgrading" =>
          \/ NoneAsks
          \/ NotAsked /\ One(sq, UpgradeOf(conn)) /\ None(inflight, UpgradeOf(conn))
          \/ NotAsked /\ None(sq, UpgradeOf(conn)) /\ One(inflight, UpgradeOf(conn))

LossInv == Scalars /\ Queues /\ (pc # "done" => WatchInv /\ RoomInv /\ AskInv)

\* As long as no send was overwritten there is one at most, of this connection.
OneSendInv ==
    ~overwritten /\ phase \notin {"Disconnected", "TcpConnecting"} =>
        /\ None(sq, Sends \ Own(conn)) /\ None(inflight, Sends \ Own(conn))
        /\ None(sq, Sends) \/ None(inflight, Sends)
        /\ None(sq, Sends) \/ One(sq, Sends)
        /\ None(inflight, Sends) \/ One(inflight, Sends)
        /\ phase = "WsUpgrading" =>
              None(sq, Sends \ UpgradeOf(conn)) /\ None(inflight, Sends \ UpgradeOf(conn))
        /\ pc = "subscribe" => None(sq, Sends) /\ None(inflight, Sends)

OnItsWay(kind, a) == ~None(sq, Changes(conn, kind, a)) \/ ~None(inflight, Changes(conn, kind, a))
Queued(a) ==
    \/ epc # "idle" /\ a \in request.assets
    \/ \E i \in DOMAIN send_queue : a \in send_queue[i].assets

\* A connection begins without subscriptions.
FreshInv ==
    phase \notin {"Disconnected", "Connected"} \/ pc = "subscribe" =>
        server.subs = {} /\ \A a \in Assets : ~OnItsWay("subscribe", a)

\* What the engine asked for and was not sent yet is what the set holds now.
Agrees(m) ==
    /\ m.assets \subseteq asked
    /\ \/ m.kind = "subscribe" /\ m.assets \subseteq subscriptions
       \/ m.kind = "unsubscribe" /\ m.assets \cap subscriptions = {}

RequestInv ==
    /\ epc # "idle" => Agrees(request)
    /\ \A i \in DOMAIN send_queue : Agrees(send_queue[i])

Serving ==
    /\ use_tls /\ phase = "Connected" /\ ~overwritten /\ pc # "subscribe"
    /\ server.stage \notin {"gone", "broken"}

\* What the server sends once it has what is on its way to it is what the set
\* holds, but for the assets that a message is still to be sent about.
WillServe(a) ==
    IF a \in subscriptions
      THEN ~OnItsWay("unsubscribe", a) /\ (OnItsWay("subscribe", a) \/ a \in server.subs)
      ELSE ~OnItsWay("subscribe", a) /\ (OnItsWay("unsubscribe", a) \/ a \notin server.subs)

ServedInv == Serving => \A a \in Assets : Queued(a) \/ WillServe(a)

AgreeInv ==
    RequestInv /\ (pc # "done" => OneSendInv /\ FreshInv /\ ServedInv)

\* Concatenation is associative: stated with quantifiers, for Zenon to use.
LEMMA ConcatThree ==
    \A c \in Seq(AllOps) : \A a, b \in Seq(AllOps) : (a \o b) \o c = a \o (b \o c)
<1>1. \A T : \A a, b, c \in Seq(T) : (a \o b) \o c = a \o (b \o c)
    BY ConcatAssociative, Zenon
<1>2. QED
    BY <1>1, SMTT(30)

USE AssetsAssumption, QueueDepthAssumption, BoundsAssumption

-----------------------------------------------------------------------------
(* How many elements of a sequence are in a set.                           *)

LEMMA CountEmpty ==
    ASSUME NEW S
    PROVE  None(<<>>, S) /\ ~One(<<>>, S)
BY DEF None, One

LEMMA CountSingle ==
    ASSUME NEW S, NEW x
    PROVE  /\ None(<<x>>, S) <=> x \notin S
           /\ One(<<x>>, S) <=> x \in S
BY DEF None, One

LEMMA NoneIsNotOne ==
    ASSUME NEW q, NEW S, None(q, S)
    PROVE  ~One(q, S)
BY DEF None, One

LEMMA NoneInFewer ==
    ASSUME NEW q, NEW S, NEW R, None(q, S), R \subseteq S
    PROVE  None(q, R)
BY DEF None

\* The elements of a concatenation are those of its parts.
LEMMA ConcatElements ==
    ASSUME NEW T, NEW q \in Seq(T), NEW r \in Seq(T)
    PROVE  LET c == q \o r
           IN  /\ c \in Seq(T) /\ Len(c) = Len(q) + Len(r)
               /\ Len(q) \in Nat /\ Len(r) \in Nat
               /\ DOMAIN q = 1 .. Len(q) /\ DOMAIN r = 1 .. Len(r)
               /\ DOMAIN c = 1 .. Len(q) + Len(r)
               /\ \A i \in DOMAIN q : i \in DOMAIN c /\ c[i] = q[i]
               /\ \A i \in DOMAIN r : Len(q) + i \in DOMAIN c /\ c[Len(q) + i] = r[i]
               /\ \A i \in DOMAIN c : \/ i \in DOMAIN q
                                      \/ i - Len(q) \in DOMAIN r /\ c[i] = r[i - Len(q)]
<1> DEFINE c == q \o r
<1>1. Len(q) \in Nat /\ Len(r) \in Nat /\ DOMAIN q = 1 .. Len(q) /\ DOMAIN r = 1 .. Len(r)
    BY LenProperties
<1>2. /\ c \in Seq(T) /\ Len(c) = Len(q) + Len(r)
      /\ \A i \in 1 .. Len(q) + Len(r) : c[i] = IF i <= Len(q) THEN q[i] ELSE r[i - Len(q)]
    BY ConcatProperties
<1>3. DOMAIN c = 1 .. Len(q) + Len(r)
    <2>1. DOMAIN c = 1 .. Len(c)
        BY <1>2, LenProperties
    <2>2. QED
        BY <1>2, <2>1
<1> HIDE DEF c
<1>4. \A i \in DOMAIN q : i \in DOMAIN c /\ c[i] = q[i]
    BY <1>1, <1>2, <1>3
<1>5. ASSUME NEW i \in DOMAIN r PROVE Len(q) + i \in DOMAIN c /\ c[Len(q) + i] = r[i]
    <2>1. Len(q) + i \in 1 .. Len(q) + Len(r) /\ ~(Len(q) + i <= Len(q))
          /\ (Len(q) + i) - Len(q) = i
        BY <1>1
    <2>2. QED
        BY <1>2, <1>3, <2>1
<1>6. \A i \in DOMAIN c : \/ i \in DOMAIN q
                          \/ i - Len(q) \in DOMAIN r /\ c[i] = r[i - Len(q)]
    BY <1>1, <1>2, <1>3
<1>7. QED
    BY <1>1, <1>2, <1>3, <1>4, <1>5, <1>6 DEF c

LEMMA CountConcat ==
    ASSUME NEW T, NEW q \in Seq(T), NEW r \in Seq(T), NEW S
    PROVE  /\ None(q \o r, S) <=> None(q, S) /\ None(r, S)
           /\ One(q \o r, S) <=> \/ One(q, S) /\ None(r, S)
                                 \/ None(q, S) /\ One(r, S)
<1>1. PICK c : c = q \o r
    OBVIOUS
<1>2. /\ Len(q) \in Nat /\ DOMAIN q = 1 .. Len(q) /\ DOMAIN r = 1 .. Len(r)
      /\ \A i \in DOMAIN q : i \in DOMAIN c /\ c[i] = q[i]
      /\ \A i \in DOMAIN r : Len(q) + i \in DOMAIN c /\ c[Len(q) + i] = r[i]
      /\ \A i \in DOMAIN c : \/ i \in DOMAIN q
                             \/ i - Len(q) \in DOMAIN r /\ c[i] = r[i - Len(q)]
    BY <1>1, ConcatElements
<1>3. None(c, S) <=> None(q, S) /\ None(r, S)
    BY <1>2 DEF None
<1>4. ASSUME One(q, S), None(r, S) PROVE One(c, S)
    BY <1>2, <1>4 DEF None, One
<1>5. ASSUME None(q, S), One(r, S) PROVE One(c, S)
    <2>1. PICK i \in DOMAIN r : r[i] \in S /\ \A j \in DOMAIN r : r[j] \in S => j = i
        BY <1>5 DEF One
    <2>2. Len(q) + i \in DOMAIN c /\ c[Len(q) + i] \in S
        BY <1>2, <2>1
    <2>3. ASSUME NEW j \in DOMAIN c, c[j] \in S PROVE j = Len(q) + i
        <3>1. j - Len(q) \in DOMAIN r /\ c[j] = r[j - Len(q)]
            BY <1>2, <1>5, <2>3 DEF None
        <3>2. j - Len(q) = i
            BY <2>1, <2>3, <3>1
        <3>3. j \in Int
            BY <1>2, <2>3, <1>1, ConcatElements
        <3>4. QED
            BY <1>2, <3>2, <3>3
    <2>4. QED
        BY <2>2, <2>3 DEF One
<1>6. ASSUME One(c, S) PROVE (One(q, S) /\ None(r, S)) \/ (None(q, S) /\ One(r, S))
    <2>1. PICK i \in DOMAIN c : c[i] \in S /\ \A j \in DOMAIN c : c[j] \in S => j = i
        BY <1>6 DEF One
    <2>2. CASE i \in DOMAIN q
        <3>1. One(q, S)
            BY <1>2, <2>1, <2>2 DEF One
        <3>2. ASSUME NEW k \in DOMAIN r, r[k] \in S PROVE FALSE
            <4>1. Len(q) + k = i
                BY <1>2, <2>1, <3>2
            <4>2. QED
                BY <1>2, <2>2, <4>1
        <3>3. QED
            BY <3>1, <3>2 DEF None
    <2>3. CASE i \notin DOMAIN q
        <3>1. i - Len(q) \in DOMAIN r /\ r[i - Len(q)] \in S
            BY <1>2, <2>1, <2>3
        <3>2. ASSUME NEW k \in DOMAIN r, r[k] \in S PROVE k = i - Len(q)
            <4>1. Len(q) + k = i
                BY <1>2, <2>1, <3>2
            <4>2. QED
                BY <1>2, <4>1
        <3>3. None(q, S)
            BY <1>2, <2>1, <2>3 DEF None
        <3>4. QED
            BY <3>1, <3>2, <3>3 DEF One
    <2>4. QED
        BY <2>2, <2>3
<1>7. QED
    BY <1>1, <1>3, <1>4, <1>5, <1>6

LEMMA CountAppend ==
    ASSUME NEW T, NEW q \in Seq(T), NEW x \in T, NEW S
    PROVE  /\ Append(q, x) \in Seq(T)
           /\ None(Append(q, x), S) <=> None(q, S) /\ x \notin S
           /\ One(Append(q, x), S) <=> \/ One(q, S) /\ x \notin S
                                       \/ None(q, S) /\ x \in S
<1>1. PICK r : r = <<x>>
    OBVIOUS
<1>2. Append(q, x) = q \o r /\ r \in Seq(T) /\ Append(q, x) \in Seq(T)
    BY <1>1, AppendIsConcat, AppendProperties
<1>3. (None(r, S) <=> x \notin S) /\ (One(r, S) <=> x \in S)
    BY <1>1, CountSingle
<1>4. /\ None(q \o r, S) <=> None(q, S) /\ None(r, S)
      /\ One(q \o r, S) <=> \/ One(q, S) /\ None(r, S)
                            \/ None(q, S) /\ One(r, S)
    BY <1>2, CountConcat
<1>5. QED
    BY <1>2, <1>3, <1>4

\* An element is taken out.
LEMMA RemoveElements ==
    ASSUME NEW T, NEW q \in Seq(T), NEW i \in DOMAIN q
    PROVE  LET r == RemoveAt(q, i)
           IN  /\ r \in Seq(T) /\ Len(q) \in Nat /\ DOMAIN q = 1 .. Len(q)
               /\ DOMAIN r = 1 .. Len(q) - 1 /\ i \in 1 .. Len(q)
               /\ \A j \in DOMAIN r : r[j] = IF j < i THEN q[j] ELSE q[j + 1]
<1>1. Len(q) \in Nat /\ DOMAIN q = 1 .. Len(q) /\ i \in 1 .. Len(q)
      /\ \A j \in 1 .. Len(q) : q[j] \in T
    BY LenProperties, ElementOfSeq
<1> DEFINE a == SubSeq(q, 1, i - 1)
           b == SubSeq(q, i + 1, Len(q))
<1>2. a \in Seq(T) /\ Len(a) = i - 1 /\ \A j \in 1 .. i - 1 : a[j] = q[j]
    <2>1. 1 \in Int /\ i - 1 \in Int /\ \A j \in 1 .. i - 1 : q[j] \in T
        BY <1>1
    <2>2. /\ a \in Seq(T) /\ Len(a) = (IF 1 <= i - 1 THEN (i - 1) - 1 + 1 ELSE 0)
          /\ \A j \in 1 .. (i - 1) - 1 + 1 : a[j] = q[1 + j - 1]
        BY <2>1, SubSeqProperties
    <2> HIDE DEF a
    <2>3. \A j \in 1 .. i - 1 : a[j] = q[j]
        <3> SUFFICES ASSUME NEW j \in 1 .. i - 1 PROVE a[j] = q[j]
            OBVIOUS
        <3>1. j \in 1 .. (i - 1) - 1 + 1 /\ 1 + j - 1 = j
            BY <1>1
        <3>2. QED
            BY <2>2, <3>1
    <2>4. QED
        BY <1>1, <2>2, <2>3
<1>3. b \in Seq(T) /\ Len(b) = Len(q) - i /\ \A j \in 1 .. Len(q) - i : b[j] = q[i + j]
    <2>1. i + 1 \in Int /\ Len(q) \in Int /\ \A j \in i + 1 .. Len(q) : q[j] \in T
        BY <1>1
    <2>2. /\ b \in Seq(T) /\ Len(b) = (IF i + 1 <= Len(q) THEN Len(q) - (i + 1) + 1 ELSE 0)
          /\ \A j \in 1 .. Len(q) - (i + 1) + 1 : b[j] = q[(i + 1) + j - 1]
        BY <2>1, SubSeqProperties
    <2> HIDE DEF b
    <2>3. \A j \in 1 .. Len(q) - i : b[j] = q[i + j]
        <3> SUFFICES ASSUME NEW j \in 1 .. Len(q) - i PROVE b[j] = q[i + j]
            OBVIOUS
        <3>1. j \in 1 .. Len(q) - (i + 1) + 1 /\ (i + 1) + j - 1 = i + j
            BY <1>1
        <3>2. QED
            BY <2>2, <3>1
    <2>4. QED
        BY <1>1, <2>2, <2>3
<1> HIDE DEF a, b
<1>4. PICK r : r = a \o b
    OBVIOUS
<1>5. /\ r \in Seq(T) /\ DOMAIN r = 1 .. Len(a) + Len(b)
      /\ DOMAIN a = 1 .. Len(a)
      /\ \A j \in DOMAIN a : r[j] = a[j]
      /\ \A j \in DOMAIN r : j \in DOMAIN a \/ r[j] = b[j - Len(a)]
    BY <1>2, <1>3, <1>4, ConcatElements
<1>6. DOMAIN r = 1 .. Len(q) - 1
    BY <1>1, <1>2, <1>3, <1>5
<1>7. ASSUME NEW j \in DOMAIN r PROVE r[j] = IF j < i THEN q[j] ELSE q[j + 1]
    <2>1. CASE j < i
        <3>1. j \in 1 .. i - 1
            BY <1>1, <1>6, <2>1
        <3>2. QED
            BY <1>2, <1>5, <2>1, <3>1
    <2>2. CASE ~(j < i)
        <3>1. j \notin DOMAIN a /\ j - Len(a) \in 1 .. Len(q) - i /\ i + (j - Len(a)) = j + 1
            BY <1>1, <1>2, <1>5, <1>6, <2>2
        <3>2. QED
            BY <1>3, <1>5, <2>2, <3>1
    <2>3. QED
        BY <2>1, <2>2
<1>8. QED
    BY <1>1, <1>4, <1>5, <1>6, <1>7 DEF RemoveAt, a, b

LEMMA CountRemoved ==
    ASSUME NEW T, NEW q \in Seq(T), NEW i \in DOMAIN q, NEW S
    PROVE  /\ RemoveAt(q, i) \in Seq(T)
           /\ None(q, S) => None(RemoveAt(q, i), S)
           /\ One(q, S) /\ q[i] \in S => None(RemoveAt(q, i), S)
           /\ One(q, S) /\ q[i] \notin S => One(RemoveAt(q, i), S)
           /\ None(RemoveAt(q, i), S) /\ q[i] \notin S => None(q, S)
           /\ One(RemoveAt(q, i), S) /\ q[i] \notin S => One(q, S)
<1>1. PICK r : r = RemoveAt(q, i)
    OBVIOUS
<1>2. /\ r \in Seq(T) /\ Len(q) \in Nat /\ DOMAIN q = 1 .. Len(q)
      /\ DOMAIN r = 1 .. Len(q) - 1 /\ i \in 1 .. Len(q)
      /\ \A j \in DOMAIN r : r[j] = IF j < i THEN q[j] ELSE q[j + 1]
    BY <1>1, RemoveElements
<1>3. \A j \in DOMAIN r : \E k \in DOMAIN q :
          k # i /\ r[j] = q[k] /\ k = IF j < i THEN j ELSE j + 1
    BY <1>2
<1>4. \A k \in DOMAIN q : k # i => \E j \in DOMAIN r :
          r[j] = q[k] /\ j = IF k < i THEN k ELSE k - 1
    <2> SUFFICES ASSUME NEW k \in DOMAIN q, k # i
                 PROVE  \E j \in DOMAIN r : r[j] = q[k] /\ j = IF k < i THEN k ELSE k - 1
        OBVIOUS
    <2>1. CASE k < i
        BY <1>2, <2>1
    <2>2. CASE ~(k < i)
        <3>1. k - 1 \in DOMAIN r /\ ~(k - 1 < i) /\ (k - 1) + 1 = k
            BY <1>2, <2>2
        <3>2. QED
            BY <1>2, <2>2, <3>1
    <2>3. QED
        BY <2>1, <2>2
<1>5. None(q, S) => None(r, S)
    BY <1>3 DEF None
<1>6. One(q, S) /\ q[i] \in S => None(r, S)
    BY <1>3 DEF None, One
<1>7. ASSUME One(q, S), q[i] \notin S PROVE One(r, S)
    <2>1. PICK k \in DOMAIN q : q[k] \in S /\ \A j \in DOMAIN q : q[j] \in S => j = k
        BY <1>7 DEF One
    <2>2. PICK j \in DOMAIN r : r[j] = q[k] /\ j = IF k < i THEN k ELSE k - 1
        BY <1>4, <1>7, <2>1
    <2>3. ASSUME NEW l \in DOMAIN r, r[l] \in S PROVE l = j
        <3>1. k # i /\ k = IF l < i THEN l ELSE l + 1
            BY <1>3, <1>7, <2>1, <2>3
        <3>2. QED
            BY <1>2, <2>2, <3>1
    <2>4. QED
        BY <2>1, <2>2, <2>3 DEF One
<1>8. None(r, S) /\ q[i] \notin S => None(q, S)
    BY <1>4 DEF None
<1>9. ASSUME One(r, S), q[i] \notin S PROVE One(q, S)
    <2>1. PICK j \in DOMAIN r : r[j] \in S /\ \A l \in DOMAIN r : r[l] \in S => l = j
        BY <1>9 DEF One
    <2>2. PICK k \in DOMAIN q : r[j] = q[k] /\ k = IF j < i THEN j ELSE j + 1
        BY <1>3
    <2>3. ASSUME NEW l \in DOMAIN q, q[l] \in S PROVE l = k
        <3>1. j = IF l < i THEN l ELSE l - 1
            BY <1>4, <1>9, <2>1, <2>3
        <3>2. l # i
            BY <1>9, <2>3
        <3>3. QED
            BY <1>2, <2>2, <3>1, <3>2
    <2>4. QED
        BY <2>1, <2>2, <2>3 DEF One
<1>10. QED
    BY <1>1, <1>2, <1>5, <1>6, <1>7, <1>8, <1>9

LEMMA CountTail ==
    ASSUME NEW T, NEW q \in Seq(T), q # <<>>, NEW S
    PROVE  /\ Tail(q) \in Seq(T) /\ Head(q) \in T
           /\ None(q, S) => None(Tail(q), S) /\ Head(q) \notin S
           /\ One(q, S) /\ Head(q) \in S => None(Tail(q), S)
           /\ One(q, S) /\ Head(q) \notin S => One(Tail(q), S)
<1>1. PICK r : r = Tail(q)
    OBVIOUS
<1>2. /\ r \in Seq(T) /\ Len(r) = Len(q) - 1 /\ Head(q) \in T
      /\ \A i \in 1 .. Len(r) : r[i] = q[i + 1]
    BY <1>1, HeadTailProperties
<1>3. /\ Len(q) \in Nat /\ Len(q) # 0 /\ DOMAIN q = 1 .. Len(q) /\ DOMAIN r = 1 .. Len(q) - 1
      /\ Head(q) = q[1] /\ 1 \in DOMAIN q
    BY <1>2, LenProperties, EmptySeq
<1>4. \A i \in DOMAIN r : i + 1 \in DOMAIN q /\ i + 1 # 1 /\ r[i] = q[i + 1]
    BY <1>2, <1>3
<1>5. \A k \in DOMAIN q : k # 1 => k - 1 \in DOMAIN r /\ r[k - 1] = q[k]
    <2> SUFFICES ASSUME NEW k \in DOMAIN q, k # 1
                 PROVE  k - 1 \in DOMAIN r /\ r[k - 1] = q[k]
        OBVIOUS
    <2>1. k - 1 \in DOMAIN r /\ (k - 1) + 1 = k
        BY <1>3
    <2>2. QED
        BY <1>4, <2>1
<1>6. None(q, S) => None(r, S) /\ Head(q) \notin S
    BY <1>3, <1>4 DEF None
<1>7. One(q, S) /\ Head(q) \in S => None(r, S)
    BY <1>3, <1>4 DEF None, One
<1>8. ASSUME One(q, S), Head(q) \notin S PROVE One(r, S)
    <2>1. PICK k \in DOMAIN q : q[k] \in S /\ \A j \in DOMAIN q : q[j] \in S => j = k
        BY <1>8 DEF One
    <2>2. k - 1 \in DOMAIN r /\ r[k - 1] \in S
        BY <1>3, <1>5, <1>8, <2>1
    <2>3. ASSUME NEW l \in DOMAIN r, r[l] \in S PROVE l = k - 1
        <3>1. l + 1 = k
            BY <1>4, <2>1, <2>3
        <3>2. QED
            BY <1>3, <2>3, <3>1
    <2>4. QED
        BY <2>2, <2>3 DEF One
<1>9. QED
    BY <1>1, <1>2, <1>6, <1>7, <1>8

LEMMA EndIsLastKept ==
    ASSUME NEW q \in Seq(Results), EndIsLast(q)
    PROVE  /\ q # <<>> => EndIsLast(Tail(q))
           /\ q # <<>> /\ Head(q) \in EndResults => None(Tail(q), WatchResults)
           /\ \A e \in Results :
                 e \notin WatchResults \/ None(q, EndResults) => EndIsLast(Append(q, e))
<1>1. Len(q) \in Nat /\ DOMAIN q = 1 .. Len(q)
    BY LenProperties
<1>2. ASSUME q # <<>>
      PROVE  EndIsLast(Tail(q)) /\ (Head(q) \in EndResults => None(Tail(q), WatchResults))
    <2>1. PICK r : r = Tail(q)
        OBVIOUS
    <2>2. /\ r \in Seq(Results) /\ Len(r) = Len(q) - 1 /\ Head(q) = q[1]
          /\ \A i \in 1 .. Len(r) : r[i] = q[i + 1]
        BY <1>2, <2>1, HeadTailProperties
    <2>3. DOMAIN r = 1 .. Len(r) /\ Len(q) # 0
        BY <1>2, <2>2, LenProperties, EmptySeq
    <2>4. \A i \in DOMAIN r : i + 1 \in DOMAIN q /\ 1 \in DOMAIN q /\ 1 < i + 1
        BY <1>1, <2>2, <2>3
    <2>5. \A i, j \in DOMAIN r : i < j => i + 1 < j + 1
        BY <2>2, <2>3, <1>1
    <2>6. QED
        BY <2>1, <2>2, <2>3, <2>4, <2>5 DEF EndIsLast, None
<1>3. ASSUME NEW e \in Results, e \notin WatchResults \/ None(q, EndResults)
      PROVE  EndIsLast(Append(q, e))
    <2>1. PICK r : r = Append(q, e)
        OBVIOUS
    <2>2. /\ r \in Seq(Results) /\ Len(r) = Len(q) + 1
          /\ \A i \in 1 .. Len(q) : r[i] = q[i]
          /\ r[Len(q) + 1] = e
        BY <2>1, AppendProperties
    <2>3. DOMAIN r = 1 .. Len(q) + 1
        BY <2>2, LenProperties
    <2>4. ASSUME NEW i \in DOMAIN r, NEW j \in DOMAIN r, r[i] \in EndResults, i < j
          PROVE  r[j] \notin WatchResults
        <3>1. i \in DOMAIN q /\ r[i] = q[i]
            BY <1>1, <2>2, <2>3, <2>4
        <3>2. CASE j \in DOMAIN q
            BY <1>1, <2>2, <2>4, <3>1, <3>2 DEF EndIsLast
        <3>3. CASE j = Len(q) + 1
            BY <1>3, <2>2, <2>4, <3>1, <3>3 DEF None
        <3>4. QED
            BY <1>1, <2>3, <3>2, <3>3
    <2>5. QED
        BY <2>1, <2>4 DEF EndIsLast
<1>4. QED
    BY <1>2, <1>3

-----------------------------------------------------------------------------
(* The submission queue.                                                   *)

Spoilt(op) == [op EXCEPT !.data = Garbage]

LEMMA SpoiltOps ==
    ASSUME NEW op \in AllOps
    PROVE  /\ Spoilt(op) \in AllOps /\ Spoilt(op).op = op.op /\ Spoilt(op).conn = op.conn
           /\ Spoilt(op).data = Garbage
<1>1. Garbage \in Messages
    BY DEF Messages
<1>2. QED
    BY <1>1 DEF Spoilt, AllOps, Ops

\* Overwriting spoils the sends, and is noticed in those sets only that tell
\* spoilt sends from others.
LEMMA OverwriteCounts ==
    ASSUME NEW q \in Seq(AllOps), NEW S
    PROVE  /\ Overwrite(q) \in Seq(AllOps) /\ Len(Overwrite(q)) = Len(q)
           /\ (\A op \in AllOps : IsSend(op) /\ Spoilt(op) \in S => op \in S) =>
                 (None(q, S) => None(Overwrite(q), S))
           /\ (\A op \in AllOps : IsSend(op) => (Spoilt(op) \in S <=> op \in S)) =>
                 /\ None(q, S) <=> None(Overwrite(q), S)
                 /\ One(q, S) <=> One(Overwrite(q), S)
           /\ None(q, Sends) => Overwrite(q) = q
<1>1. /\ Len(q) \in Nat /\ DOMAIN q = 1 .. Len(q) /\ q = [i \in DOMAIN q |-> q[i]]
      /\ \A i \in DOMAIN q : q[i] \in AllOps
    BY LenProperties, ElementOfSeq
<1>2. PICK r : r = Overwrite(q)
    OBVIOUS
<1>3. r = [i \in DOMAIN q |-> IF IsSend(q[i]) THEN Spoilt(q[i]) ELSE q[i]]
    BY <1>2 DEF Overwrite, Spoilt
<1>4. /\ DOMAIN r = DOMAIN q
      /\ \A i \in DOMAIN q : r[i] = IF IsSend(q[i]) THEN Spoilt(q[i]) ELSE q[i]
    BY <1>3
<1>5. \A i \in DOMAIN q : r[i] \in AllOps
    BY <1>1, <1>4, SpoiltOps
<1>6. r \in Seq(AllOps) /\ Len(r) = Len(q)
    <2>1. r \in [1 .. Len(q) -> AllOps]
        BY <1>1, <1>3, <1>5
    <2>2. r \in Seq(AllOps)
        BY <1>1, <2>1, SeqDef
    <2>3. DOMAIN r = 1 .. Len(r) /\ Len(r) \in Nat
        BY <2>2, LenProperties
    <2>4. QED
        BY <1>1, <1>4, <2>2, <2>3
<1>7. (\A op \in AllOps : IsSend(op) /\ Spoilt(op) \in S => op \in S) =>
          (None(q, S) => None(r, S))
    BY <1>1, <1>4 DEF None
<1>8. (\A op \in AllOps : IsSend(op) => (Spoilt(op) \in S <=> op \in S)) =>
          /\ None(q, S) <=> None(r, S)
          /\ One(q, S) <=> One(r, S)
    <2> SUFFICES ASSUME \A op \in AllOps : IsSend(op) => (Spoilt(op) \in S <=> op \in S)
                 PROVE  (None(q, S) <=> None(r, S)) /\ (One(q, S) <=> One(r, S))
        OBVIOUS
    <2>1. \A i \in DOMAIN q : r[i] \in S <=> q[i] \in S
        BY <1>1, <1>4
    <2>2. QED
        BY <1>4, <2>1 DEF None, One
<1>9. None(q, Sends) => r = q
    <2> SUFFICES ASSUME None(q, Sends) PROVE r = q
        OBVIOUS
    <2>1. \A i \in DOMAIN q : ~IsSend(q[i])
        BY <1>1 DEF None, Sends
    <2>2. \A i \in 1 .. Len(r) : r[i] = q[i]
        BY <1>1, <1>4, <1>6, <2>1
    <2>3. QED
        BY <1>6, <2>2, SeqEqual
<1>10. QED
    BY <1>2, <1>6, <1>7, <1>8, <1>9

LEMMA OverwriteConcat ==
    ASSUME NEW q \in Seq(AllOps), NEW r \in Seq(AllOps)
    PROVE  Overwrite(q \o r) = Overwrite(q) \o Overwrite(r)
<1>1. PICK c, oc, oq, or, d : /\ c = q \o r /\ oc = Overwrite(c) /\ oq = Overwrite(q)
                              /\ or = Overwrite(r) /\ d = oq \o or
    OBVIOUS
<1>2. /\ c \in Seq(AllOps) /\ Len(c) = Len(q) + Len(r)
      /\ Len(q) \in Nat /\ Len(r) \in Nat
      /\ DOMAIN q = 1 .. Len(q) /\ DOMAIN r = 1 .. Len(r) /\ DOMAIN c = 1 .. Len(q) + Len(r)
      /\ \A i \in DOMAIN q : c[i] = q[i]
      /\ \A i \in DOMAIN c : \/ i \in DOMAIN q
                             \/ i - Len(q) \in DOMAIN r /\ c[i] = r[i - Len(q)]
    BY <1>1, ConcatElements
<1>3. /\ oq \in Seq(AllOps) /\ Len(oq) = Len(q) /\ or \in Seq(AllOps) /\ Len(or) = Len(r)
      /\ oc \in Seq(AllOps) /\ Len(oc) = Len(c)
    BY <1>1, <1>2, OverwriteCounts
<1>4. /\ d \in Seq(AllOps) /\ Len(d) = Len(q) + Len(r)
      /\ \A i \in 1 .. Len(q) + Len(r) : d[i] = IF i <= Len(q) THEN oq[i] ELSE or[i - Len(q)]
    <2>1. d = oq \o or /\ oq \in Seq(AllOps) /\ or \in Seq(AllOps)
        BY <1>1, <1>3
    <2>2. /\ d \in Seq(AllOps) /\ Len(d) = Len(oq) + Len(or)
          /\ \A i \in 1 .. Len(oq) + Len(or) :
                d[i] = IF i <= Len(oq) THEN oq[i] ELSE or[i - Len(oq)]
        BY <2>1, ConcatProperties
    <2>3. QED
        BY <1>3, <2>2
<1>5. /\ \A i \in DOMAIN q : oq[i] = IF IsSend(q[i]) THEN Spoilt(q[i]) ELSE q[i]
      /\ \A i \in DOMAIN r : or[i] = IF IsSend(r[i]) THEN Spoilt(r[i]) ELSE r[i]
      /\ \A i \in DOMAIN c : oc[i] = IF IsSend(c[i]) THEN Spoilt(c[i]) ELSE c[i]
    BY <1>1 DEF Overwrite, Spoilt
<1>6. ASSUME NEW i \in 1 .. Len(oc) PROVE oc[i] = d[i]
    <2>1. i \in DOMAIN c /\ i \in 1 .. Len(q) + Len(r)
        BY <1>2, <1>3
    <2>2. CASE i \in DOMAIN q
        <3>1. i <= Len(q)
            BY <1>2, <2>2
        <3>2. QED
            BY <1>2, <1>4, <1>5, <2>1, <2>2, <3>1
    <2>3. CASE i \notin DOMAIN q
        <3>1. ~(i <= Len(q)) /\ i - Len(q) \in DOMAIN r /\ c[i] = r[i - Len(q)]
            BY <1>2, <2>1, <2>3
        <3>2. QED
            BY <1>4, <1>5, <2>1, <3>1
    <2>4. QED
        BY <2>2, <2>3
<1>7. oc = d
    BY <1>2, <1>3, <1>4, <1>6, SeqEqual
<1>8. QED
    BY <1>1, <1>7

LEMMA MinOfTwo ==
    ASSUME NEW x \in Nat, NEW y \in Nat
    PROVE  Min({x, y}) = IF x <= y THEN x ELSE y
<1>1. PICK m \in {x, y} : m = IF x <= y THEN x ELSE y
    OBVIOUS
<1>2. \A z \in {x, y} : m <= z
    BY <1>1
<1>3. \A n \in {x, y} : (\A z \in {x, y} : n <= z) => n = m
    BY <1>1
<1>4. Min({x, y}) \in {x, y} /\ \A z \in {x, y} : Min({x, y}) <= z
    BY <1>1, <1>2 DEF Min
<1>5. QED
    BY <1>1, <1>3, <1>4

\* What is in the queue stays there; what does not fit is cut off.
LEMMA PreparedKeeps ==
    ASSUME NEW q \in Seq(AllOps), NEW r \in Seq(AllOps), Len(q) <= QueueDepth
    PROVE  \E p \in Seq(AllOps) :
               /\ Prepared(q \o r) = q \o p
               /\ Len(q \o p) <= QueueDepth
               /\ \A S : None(r, S) => None(p, S)
               /\ Len(q) + Len(r) <= QueueDepth => p = r
<1>1. PICK c : c = q \o r
    OBVIOUS
<1>2. /\ c \in Seq(AllOps) /\ Len(c) = Len(q) + Len(r)
      /\ Len(q) \in Nat /\ Len(r) \in Nat
      /\ DOMAIN q = 1 .. Len(q) /\ DOMAIN r = 1 .. Len(r) /\ DOMAIN c = 1 .. Len(q) + Len(r)
      /\ \A i \in DOMAIN q : i \in DOMAIN c /\ c[i] = q[i]
      /\ \A i \in DOMAIN r : Len(q) + i \in DOMAIN c /\ c[Len(q) + i] = r[i]
    BY <1>1, ConcatElements
<1>3. \A i \in 1 .. Len(r) : r[i] \in AllOps
    BY ElementOfSeq
<1>4. PICK n \in Nat : n = IF Len(c) <= QueueDepth THEN Len(c) ELSE QueueDepth
    BY <1>2
<1>5. Prepared(c) = SubSeq(c, 1, n)
    <2>1. Min({Len(c), QueueDepth}) = n
        BY <1>2, <1>4, MinOfTwo
    <2>2. QED
        BY <2>1 DEF Prepared
<1>6. PICK k \in Nat : k = n - Len(q) /\ k <= Len(r)
    <2>1. n - Len(q) \in Nat /\ n - Len(q) <= Len(r)
        BY <1>2, <1>4
    <2>2. QED
        BY <2>1
<1>7. PICK p : p = SubSeq(r, 1, k)
    OBVIOUS
<1>8. p \in Seq(AllOps) /\ Len(p) = k /\ \A i \in 1 .. k : p[i] = r[i]
    <2>1. 1 \in Int /\ k \in Int /\ \A i \in 1 .. k : r[i] \in AllOps
        BY <1>2, <1>3, <1>6
    <2>2. /\ p \in Seq(AllOps) /\ Len(p) = (IF 1 <= k THEN k - 1 + 1 ELSE 0)
          /\ \A i \in 1 .. k - 1 + 1 : p[i] = r[1 + i - 1]
        BY <1>7, <2>1, SubSeqProperties
    <2>3. \A i \in 1 .. k : p[i] = r[i]
        <3> SUFFICES ASSUME NEW i \in 1 .. k PROVE p[i] = r[i]
            OBVIOUS
        <3>1. i \in 1 .. k - 1 + 1 /\ 1 + i - 1 = i
            BY <1>6
        <3>2. QED
            BY <2>2, <3>1
    <2>4. QED
        BY <1>6, <2>2, <2>3
<1>9. PICK s : s = SubSeq(c, 1, n)
    OBVIOUS
<1>10. s \in Seq(AllOps) /\ Len(s) = n /\ \A i \in 1 .. n : s[i] = c[i]
    <2>1. 1 \in Int /\ n \in Int /\ \A i \in 1 .. n : c[i] \in AllOps
        BY <1>2, <1>4, ElementOfSeq
    <2>2. /\ s \in Seq(AllOps) /\ Len(s) = (IF 1 <= n THEN n - 1 + 1 ELSE 0)
          /\ \A i \in 1 .. n - 1 + 1 : s[i] = c[1 + i - 1]
        BY <1>9, <2>1, SubSeqProperties
    <2>3. \A i \in 1 .. n : s[i] = c[i]
        <3> SUFFICES ASSUME NEW i \in 1 .. n PROVE s[i] = c[i]
            OBVIOUS
        <3>1. i \in 1 .. n - 1 + 1 /\ 1 + i - 1 = i
            BY <1>4
        <3>2. QED
            BY <2>2, <3>1
    <2>4. QED
        BY <1>4, <2>2, <2>3
<1>11. PICK d : d = q \o p
    OBVIOUS
<1>12. /\ d \in Seq(AllOps) /\ Len(d) = n
       /\ \A i \in 1 .. Len(q) + Len(p) : d[i] = IF i <= Len(q) THEN q[i] ELSE p[i - Len(q)]
    <2>1. /\ d \in Seq(AllOps) /\ Len(d) = Len(q) + Len(p)
          /\ \A i \in 1 .. Len(q) + Len(p) : d[i] = IF i <= Len(q) THEN q[i] ELSE p[i - Len(q)]
        BY <1>8, <1>11, ConcatProperties
    <2>2. QED
        BY <1>2, <1>6, <1>8, <2>1
<1>13. ASSUME NEW i \in 1 .. Len(s) PROVE s[i] = d[i]
    <2>1. i \in 1 .. n /\ i \in 1 .. Len(q) + Len(p) /\ s[i] = c[i]
        BY <1>2, <1>6, <1>8, <1>10
    <2>2. CASE i <= Len(q)
        <3>1. i \in DOMAIN q
            BY <1>2, <2>1, <2>2
        <3>2. QED
            BY <1>2, <1>12, <2>1, <2>2, <3>1
    <2>3. CASE ~(i <= Len(q))
        <3>1. i - Len(q) \in 1 .. k /\ i - Len(q) \in DOMAIN r /\ Len(q) + (i - Len(q)) = i
            BY <1>2, <1>6, <1>8, <2>1, <2>3
        <3>2. QED
            BY <1>2, <1>8, <1>12, <2>1, <2>3, <3>1
    <2>4. QED
        BY <2>2, <2>3
<1>14. s = d
    BY <1>10, <1>12, <1>13, SeqEqual
<1>15. ASSUME NEW S, None(r, S) PROVE None(p, S)
    <2>1. DOMAIN p = 1 .. k
        BY <1>8, LenProperties
    <2>2. QED
        BY <1>2, <1>6, <1>8, <1>15, <2>1 DEF None
<1>16. ASSUME Len(q) + Len(r) <= QueueDepth PROVE p = r
    <2>1. k = Len(r)
        BY <1>2, <1>4, <1>6, <1>16
    <2>2. QED
        BY <1>8, <2>1, SeqEqual
<1>17. n <= QueueDepth
    BY <1>2, <1>4
<1>18. QED
    BY <1>1, <1>5, <1>8, <1>9, <1>11, <1>12, <1>14, <1>15, <1>16, <1>17

\* What is and is not spoilt by the next send.
LEMMA OverwriteKeeps ==
    ASSUME NEW q \in Seq(AllOps)
    PROVE  /\ Overwrite(q) \in Seq(AllOps) /\ Len(Overwrite(q)) = Len(q)
           /\ None(q, Sends) => Overwrite(q) = q
           /\ \A w : /\ None(Overwrite(q), Watches \ {w}) <=> None(q, Watches \ {w})
                     /\ One(Overwrite(q), Watches \ {w}) <=> One(q, Watches \ {w})
           /\ None(Overwrite(q), Watches) <=> None(q, Watches)
           /\ One(Overwrite(q), Watches) <=> One(q, Watches)
           /\ None(Overwrite(q), Sends) <=> None(q, Sends)
           /\ One(Overwrite(q), Sends) <=> One(q, Sends)
           /\ \A n : None(Overwrite(q), Beyond(n)) <=> None(q, Beyond(n))
           /\ \A n : None(q, UpgradeOf(n)) => None(Overwrite(q), UpgradeOf(n))
           /\ \A n, kind, a : None(Overwrite(q), Changes(n, kind, a))
<1>1. \A op \in AllOps : IsSend(op) => ~Watching(op) /\ ~Watching(Spoilt(op)) /\ IsSend(Spoilt(op))
    BY SpoiltOps DEF IsSend, Watching
<1>2. \A op \in AllOps : Spoilt(op) \in AllOps
    BY SpoiltOps
<1>3. \A w : \A op \in AllOps :
          IsSend(op) => (Spoilt(op) \in Watches \ {w} <=> op \in Watches \ {w})
    BY <1>1 DEF Watches
<1>4. \A op \in AllOps : IsSend(op) => (Spoilt(op) \in Watches <=> op \in Watches)
    BY <1>1 DEF Watches
<1>5. \A op \in AllOps : IsSend(op) => (Spoilt(op) \in Sends <=> op \in Sends)
    BY <1>1, <1>2 DEF Sends
<1>6. \A n : \A op \in AllOps : IsSend(op) => (Spoilt(op) \in Beyond(n) <=> op \in Beyond(n))
    BY <1>2, SpoiltOps DEF Beyond
<1>7. \A n : \A op \in AllOps : IsSend(op) /\ Spoilt(op) \in UpgradeOf(n) => op \in UpgradeOf(n)
    <2>1. Garbage # Upgrade
        BY DEF Garbage, Upgrade, Message
    <2>2. QED
        BY <2>1, SpoiltOps DEF UpgradeOf
<1>8. \A n, kind, a : None(Overwrite(q), Changes(n, kind, a))
    <2> SUFFICES ASSUME NEW n, NEW kind, NEW a, NEW i \in DOMAIN Overwrite(q),
                        Overwrite(q)[i] \in Changes(n, kind, a)
                 PROVE  FALSE
        BY DEF None
    <2>1. q[i] \in AllOps /\ i \in DOMAIN q
        BY ElementOfSeq, LenProperties DEF Overwrite
    <2>2. Overwrite(q)[i] = IF IsSend(q[i]) THEN Spoilt(q[i]) ELSE q[i]
        BY <2>1 DEF Overwrite, Spoilt
    <2>3. IsSend(Overwrite(q)[i]) /\ a \in Overwrite(q)[i].data.assets
        BY DEF Changes, Sends
    <2>4. Overwrite(q)[i].data = Garbage
        BY <2>1, <2>2, <2>3, SpoiltOps
    <2>5. QED
        BY <2>3, <2>4 DEF Garbage, Message
<1>9. QED
    BY <1>3, <1>4, <1>5, <1>6, <1>7, <1>8, OverwriteCounts

LEMMA OpTypes ==
    ASSUME NEW n \in 1 .. MaxConnections, NEW m \in Messages
    PROVE  /\ Op("Send", n, m) \in Sends /\ Op("Send", n, m) \notin Watches
           /\ Op("Recv", n, Nothing) \in Watches /\ Op("Connect", n, Nothing) \in Watches
           /\ Op("Recv", n, Nothing) \notin Sends /\ Op("Connect", n, Nothing) \notin Sends
           /\ \A kind \in {"Send", "Recv", "Connect"}, d \in {m, Nothing} :
                 Op(kind, n, d) \in AllOps /\ Op(kind, n, d) \notin Beyond(n)
<1>1. Nothing \in Messages
    BY DEF Messages
<1>2. \A kind \in {"Send", "Recv", "Connect"}, d \in {m, Nothing} :
          /\ Op(kind, n, d) \in AllOps /\ Op(kind, n, d).op = kind
          /\ Op(kind, n, d).conn = n /\ Op(kind, n, d).data = d
    BY <1>1 DEF AllOps, Ops, Op
<1>3. \A kind \in {"Send", "Recv", "Connect"}, d \in {m, Nothing} : Op(kind, n, d) \notin Beyond(n)
    BY <1>2 DEF Beyond
<1>4. QED
    BY <1>2, <1>3 DEF Watches, Sends, Watching, IsSend

\* Nothing is sent: the operations are put behind the others.
LEMMA SubmitOps ==
    ASSUME sq \in Seq(AllOps), NEW ops \in Seq(AllOps), Len(sq) + Len(ops) <= QueueDepth,
           Submit(<<>>, ops)
    PROVE  /\ sq' = sq \o ops /\ sq' \in Seq(AllOps) /\ Len(sq') = Len(sq) + Len(ops)
           /\ UNCHANGED <<inflight, overwritten>>
<1>1. sq' = Prepared(sq \o ops) /\ UNCHANGED <<inflight, overwritten>>
    BY DEF Submit
<1>2. Len(sq) \in Nat /\ Len(ops) \in Nat
    BY LenProperties
<1>3. Len(sq) <= QueueDepth
    BY <1>2
<1>4. Prepared(sq \o ops) = sq \o ops
    BY <1>3, PreparedKeeps
<1>5. QED
    BY <1>1, <1>4, ConcatProperties

\* A message is sent from an empty queue.
LEMMA SubmitFirst ==
    ASSUME sq = <<>>, inflight \in Seq(AllOps), NEW m \in Messages,
           NEW ops \in Seq(AllOps), Len(ops) <= 1, conn \in 1 .. MaxConnections,
           Submit(<<m>>, ops)
    PROVE  /\ sq' = <<Op("Send", conn, m)>> \o ops
           /\ sq' \in Seq(AllOps) /\ Len(sq') = 1 + Len(ops)
           /\ inflight' = Overwrite(inflight)
           /\ overwritten' = (overwritten \/ ~None(inflight, Sends))
<1>1. PICK s : s = <<Op("Send", conn, m)>>
    OBVIOUS
<1>2. s \in Seq(AllOps) /\ Len(s) = 1
    <2>1. Op("Send", conn, m) \in AllOps
        BY OpTypes
    <2>2. QED
        BY <1>1, <2>1
<1>3. [i \in DOMAIN <<m>> |-> Op("Send", conn, <<m>>[i])] = s
    BY <1>1
<1>4. Front(s) = <<>> /\ Last(s) = Op("Send", conn, m)
    BY <1>1 DEF Front, Last
<1>5. Overwrite(sq \o Front(s)) = <<>>
    BY <1>4 DEF Overwrite
<1>6. /\ sq' = Prepared(<<>> \o s \o ops) /\ inflight' = Overwrite(inflight)
      /\ overwritten' = (\/ overwritten \/ Len(s) > 1
                         \/ \E op \in ToSet(sq \o inflight) : IsSend(op))
    <2>1. <<m>> # <<>>
        OBVIOUS
    <2>2. /\ sq' = Prepared(Overwrite(sq \o Front(s)) \o <<Last(s)>> \o ops)
          /\ inflight' = Overwrite(inflight)
          /\ overwritten' = (\/ overwritten \/ Len(s) > 1
                             \/ \E op \in ToSet(sq \o inflight) : IsSend(op))
        BY <1>3, <2>1 DEF Submit
    <2>3. QED
        BY <1>1, <1>4, <1>5, <2>2
<1>7. <<>> \o s = s /\ sq \o inflight = inflight
    BY <1>2, ConcatEmptySeq
<1>8. Len(ops) \in Nat /\ Len(s) + Len(ops) <= QueueDepth /\ Len(s) <= QueueDepth
    BY <1>2, LenProperties
<1>9. Prepared(s \o ops) = s \o ops
    BY <1>2, <1>8, PreparedKeeps
<1>10. (\E op \in ToSet(inflight) : IsSend(op)) <=> ~None(inflight, Sends)
    <2>1. \A i \in DOMAIN inflight : inflight[i] \in AllOps
        BY ElementOfSeq, LenProperties
    <2>2. QED
        BY <2>1 DEF ToSet, None, Sends
<1>11. s \o ops \in Seq(AllOps) /\ Len(s \o ops) = 1 + Len(ops)
    BY <1>2, ConcatProperties
<1>12. sq' = s \o ops
    BY <1>6, <1>7, <1>9
<1>13. ~(Len(s) > 1) /\ ToSet(sq \o inflight) = ToSet(inflight)
    BY <1>2, <1>7
<1>14. overwritten' = (overwritten \/ \E op \in ToSet(inflight) : IsSend(op))
    BY <1>6, <1>13
<1>15. overwritten' = (overwritten \/ ~None(inflight, Sends))
    BY <1>10, <1>14
<1>16. QED
    BY <1>1, <1>6, <1>11, <1>12, <1>15

\* What follows an overwritten send may be counted to the later part of it.
LEMMA OverwriteThenMore ==
    ASSUME sq \in Seq(AllOps), NEW q \in Seq(AllOps), NEW r \in Seq(AllOps)
    PROVE  Overwrite(sq \o q) \o r = Overwrite(sq) \o (Overwrite(q) \o r)
<1> HIDE QueueDepthAssumption, AssetsAssumption, BoundsAssumption
<1>1. Overwrite(sq \o q) = Overwrite(sq) \o Overwrite(q)
    BY OverwriteConcat, Zenon
<1>2. Overwrite(sq) \in Seq(AllOps) /\ Overwrite(q) \in Seq(AllOps)
    BY OverwriteKeeps
<1>3. \A a, b \in Seq(AllOps) : (a \o b) \o r = a \o (b \o r)
    BY ConcatThree, Zenon
<1>4. (Overwrite(sq) \o Overwrite(q)) \o r = Overwrite(sq) \o (Overwrite(q) \o r)
    BY <1>2, <1>3, Zenon
<1>5. QED
    BY <1>1, <1>4, Zenon

\* Messages are sent, one by one, from a queue that may hold something; p is
\* what of them fits in.
LEMMA SubmitMany ==
    ASSUME sq \in Seq(AllOps), Len(sq) <= QueueDepth, inflight \in Seq(AllOps),
           NEW messages \in Seq(Messages), messages # <<>>, conn \in 1 .. MaxConnections,
           Submit(messages, <<>>)
    PROVE  \E p \in Seq(AllOps) :
              /\ sq' = Overwrite(sq) \o p /\ sq' \in Seq(AllOps) /\ Len(sq') <= QueueDepth
              /\ None(p, AllOps \ Sends) /\ None(p, Beyond(conn))
              /\ Len(messages) = 1 /\ Len(sq) < QueueDepth => p = <<Op("Send", conn, messages[1])>>
              /\ inflight' = Overwrite(inflight)
              /\ overwritten' = (\/ overwritten \/ Len(messages) > 1
                                 \/ ~None(sq, Sends) \/ ~None(inflight, Sends))
<1>1. PICK s : s = [i \in DOMAIN messages |-> Op("Send", conn, messages[i])]
    OBVIOUS
<1>2. Len(messages) \in Nat \ {0} /\ DOMAIN messages = 1 .. Len(messages)
      /\ \A i \in 1 .. Len(messages) : messages[i] \in Messages
    BY LenProperties, ElementOfSeq, EmptySeq
<1>3. DOMAIN s = 1 .. Len(messages)
      /\ \A i \in 1 .. Len(messages) : s[i] \in AllOps \cap Sends /\ s[i] \notin Beyond(conn)
    BY <1>1, <1>2, OpTypes
<1>4. s \in Seq(AllOps) /\ Len(s) = Len(messages) /\ s # <<>>
    <2>1. s = [i \in 1 .. Len(messages) |-> Op("Send", conn, messages[i])]
        BY <1>1, <1>2
    <2>2. s \in [1 .. Len(messages) -> AllOps]
        BY <1>3, <2>1
    <2>3. s \in Seq(AllOps)
        BY <1>2, <2>2, SeqDef
    <2>4. DOMAIN s = 1 .. Len(s) /\ Len(s) \in Nat
        BY <2>3, LenProperties
    <2>5. Len(s) = Len(messages)
        BY <1>2, <1>3, <2>4
    <2>6. QED
        BY <1>2, <2>3, <2>5, EmptySeq
<1>5. PICK f : f = Front(s)
    OBVIOUS
<1>6. f \in Seq(AllOps) /\ Len(f) = Len(s) - 1 /\ \A i \in 1 .. Len(f) : f[i] = s[i]
    <2>1. PICK k \in Nat : k = Len(s) - 1
        <3>1. Len(s) - 1 \in Nat
            BY <1>2, <1>4
        <3>2. QED
            BY <3>1
    <2>2. f = SubSeq(s, 1, k)
        BY <1>5, <2>1 DEF Front
    <2>3. 1 \in Int /\ k \in Int /\ \A i \in 1 .. k : s[i] \in AllOps
        BY <1>2, <1>3, <1>4, <2>1
    <2>4. /\ f \in Seq(AllOps) /\ Len(f) = (IF 1 <= k THEN k - 1 + 1 ELSE 0)
          /\ \A i \in 1 .. k - 1 + 1 : f[i] = s[1 + i - 1]
        BY <2>2, <2>3, SubSeqProperties
    <2>5. Len(f) = k
        BY <2>1, <2>4
    <2>6. ASSUME NEW i \in 1 .. Len(f) PROVE f[i] = s[i]
        <3>1. i \in 1 .. k - 1 + 1 /\ 1 + i - 1 = i
            BY <2>1, <2>5
        <3>2. QED
            BY <2>4, <3>1
    <2>7. QED
        BY <2>1, <2>4, <2>5, <2>6
<1>7. PICK l : l = <<Last(s)>>
    OBVIOUS
<1>8. Last(s) \in AllOps \cap Sends /\ Last(s) \notin Beyond(conn) /\ l \in Seq(AllOps) /\ Len(l) = 1
    BY <1>2, <1>3, <1>4, <1>7 DEF Last
<1>9. /\ sq' = Prepared(Overwrite(sq \o f) \o l)
      /\ inflight' = Overwrite(inflight)
      /\ overwritten' = (\/ overwritten \/ Len(s) > 1
                         \/ \E op \in ToSet(sq \o inflight) : IsSend(op))
    <2>1. /\ sq' = Prepared(Overwrite(sq \o f) \o l \o <<>>)
          /\ inflight' = Overwrite(inflight)
          /\ overwritten' = (\/ overwritten \/ Len(s) > 1
                             \/ \E op \in ToSet(sq \o inflight) : IsSend(op))
        BY <1>1, <1>5, <1>7 DEF Submit
    <2>2. sq \o f \in Seq(AllOps)
        BY <1>6, ConcatProperties
    <2>3. Overwrite(sq \o f) \in Seq(AllOps)
        BY <2>2, OverwriteKeeps
    <2>4. Overwrite(sq \o f) \o l \in Seq(AllOps)
        BY <1>8, <2>3, ConcatProperties
    <2>5. Overwrite(sq \o f) \o l \o <<>> = Overwrite(sq \o f) \o l
        BY <2>4, ConcatEmptySeq
    <2>6. QED
        BY <2>1, <2>5
<1>10. PICK os, of, r : os = Overwrite(sq) /\ of = Overwrite(f) /\ r = of \o l
    OBVIOUS
<1>11. os \in Seq(AllOps) /\ Len(os) = Len(sq) /\ of \in Seq(AllOps) /\ Len(of) = Len(f)
    BY <1>6, <1>10, OverwriteKeeps
<1>12. r \in Seq(AllOps)
    BY <1>8, <1>10, <1>11, ConcatProperties
<1>13. Overwrite(sq \o f) \o l = os \o r
    BY <1>6, <1>8, <1>10, OverwriteThenMore
<1>14. PICK p \in Seq(AllOps) :
               /\ Prepared(os \o r) = os \o p
               /\ Len(os \o p) <= QueueDepth
               /\ \A S : None(r, S) => None(p, S)
               /\ Len(os) + Len(r) <= QueueDepth => p = r
    BY <1>11, <1>12, PreparedKeeps
<1>15. sq' = os \o p
    BY <1>9, <1>13, <1>14
<1>16. None(f, AllOps \ Sends) /\ None(f, Beyond(conn))
    <2>1. DOMAIN f = 1 .. Len(f) /\ \A i \in 1 .. Len(f) : i \in 1 .. Len(messages)
        BY <1>2, <1>4, <1>6, LenProperties
    <2>2. QED
        BY <1>3, <1>6, <2>1 DEF None
<1>17. None(of, AllOps \ Sends) /\ None(of, Beyond(conn))
    <2>1. \A op \in AllOps : IsSend(op) /\ Spoilt(op) \in AllOps \ Sends => op \in AllOps \ Sends
        BY SpoiltOps DEF Sends, IsSend
    <2>2. None(of, AllOps \ Sends)
        BY <1>6, <1>10, <1>16, <2>1, OverwriteCounts
    <2>3. QED
        BY <1>6, <1>10, <1>16, <2>2, OverwriteKeeps
<1>18. None(l, AllOps \ Sends) /\ None(l, Beyond(conn))
    BY <1>7, <1>8, CountSingle
<1>19. None(r, AllOps \ Sends) /\ None(r, Beyond(conn))
    BY <1>8, <1>10, <1>11, <1>17, <1>18, CountConcat
<1>20. ASSUME Len(messages) = 1, Len(sq) < QueueDepth
       PROVE  p = <<Op("Send", conn, messages[1])>>
    <2>1. Len(f) = 0 /\ Last(s) = Op("Send", conn, messages[1])
        BY <1>1, <1>2, <1>4, <1>6, <1>20 DEF Last
    <2>2. of = <<>>
        BY <1>11, <2>1, EmptySeq
    <2>3. r = l
        BY <1>8, <1>10, <2>2, ConcatEmptySeq
    <2>4. Len(os) + Len(r) <= QueueDepth
        <3>1. Len(os) \in Nat /\ Len(os) < QueueDepth /\ Len(r) = 1
            BY <1>8, <1>11, <1>20, <2>3, LenProperties
        <3>2. QED
            BY <3>1
    <2>5. QED
        BY <1>7, <1>14, <2>1, <2>3, <2>4
<1>21. (\E op \in ToSet(sq \o inflight) : IsSend(op))
          <=> ~None(sq, Sends) \/ ~None(inflight, Sends)
    <2>1. PICK c : c = sq \o inflight
        OBVIOUS
    <2>2. c \in Seq(AllOps)
        BY <2>1, ConcatProperties
    <2>3. \A i \in DOMAIN c : c[i] \in AllOps
        BY <2>2, ElementOfSeq, LenProperties
    <2>4. (\E op \in ToSet(c) : IsSend(op)) <=> ~None(c, Sends)
        BY <2>3 DEF ToSet, None, Sends
    <2>5. None(c, Sends) <=> None(sq, Sends) /\ None(inflight, Sends)
        BY <2>1, CountConcat
    <2>6. QED
        BY <2>1, <2>4, <2>5
<1>22. overwritten' = (\/ overwritten \/ Len(messages) > 1
                       \/ ~None(sq, Sends) \/ ~None(inflight, Sends))
    BY <1>4, <1>9, <1>21
<1>23. /\ sq' = Overwrite(sq) \o p /\ sq' \in Seq(AllOps) /\ Len(sq') <= QueueDepth
       /\ inflight' = Overwrite(inflight)
    BY <1>9, <1>10, <1>11, <1>14, <1>15, ConcatProperties
<1>24. None(p, AllOps \ Sends) /\ None(p, Beyond(conn))
    BY <1>14, <1>19
<1>25. QED
    BY <1>20, <1>22, <1>23, <1>24

-----------------------------------------------------------------------------
(* LossInv holds at first and after every step.                            *)

LEMMA LossInit ==
    ASSUME Init
    PROVE  LossInv
<1>1. Scalars
    <2>1. conn \in 0 .. MaxConnections /\ subscriptions \subseteq Assets /\ asked \subseteq Assets
        BY DEF Init, Assets
    <2>2. request \in Messages
        BY DEF Init, Messages
    <2>3. server \in ServerType
        BY DEF Init, NoServer, ServerType
    <2>4. QED
        BY <2>1, <2>2, <2>3 DEF Init, Scalars
<1>2. /\ <<>> \in Seq(AllOps) /\ <<>> \in Seq(Results) /\ <<>> \in Seq(Messages) /\ Len(<<>>) = 0
      /\ \A S : None(<<>>, S)
    BY CountEmpty
<1>3. Queues
    BY <1>2 DEF Init, Queues
<1>4. WatchInv /\ RoomInv /\ AskInv
    BY <1>2 DEF Init, WatchInv, RoomInv, AskInv
<1>5. QED
    BY <1>1, <1>3, <1>4 DEF LossInv

\* The steps that leave the queues and the connection as they are.
LEMMA LossIdle ==
    ASSUME LossInv,
           \/ ResolveFails \/ NoSocket \/ NoReconnect \/ Wait \/ ReapEnds \/ TimeIsUp
           \/ WritesToNoSession \/ Ask \/ Check \/ Enqueue \/ Stop \/ UNCHANGED vars
    PROVE  LossInv'
<1> USE DEF ResolveFails, NoSocket, NoReconnect, Wait, ReapEnds, TimeIsUp, WritesToNoSession,
            Ask, Check, Enqueue, Stop, vars, ringVars, engineVars
<1>1. UNCHANGED <<use_tls, phase, conn, sq, inflight, cq, overwritten, connected, server>>
    OBVIOUS
<1>2. Scalars'
    <2>1. subscriptions' \subseteq Assets /\ asked' \subseteq Assets
        BY DEF LossInv, Scalars, Assets
    <2>2. request' \in Messages
        <3>1. Nothing \in Messages
            BY DEF Messages
        <3>2. \A a \in Assets : Message("subscribe", {a}) \in Messages
                                /\ Message("unsubscribe", {a}) \in Messages
            BY DEF Messages, Message
        <3>3. QED
            BY <3>1, <3>2 DEF LossInv, Scalars, Assets
    <2>3. /\ running' \in BOOLEAN /\ due' \in BOOLEAN /\ epc' \in {"idle", "check", "enqueue"}
          /\ pc' \in {"start", "loop", "ping", "submit", "wait", "reap", "subscribe", "reconnect",
                      "done", "failed", "killed"}
          /\ (pc' = "done") = (pc = "done")
        BY DEF LossInv, Scalars
    <2>4. QED
        BY <1>1, <2>1, <2>2, <2>3 DEF LossInv, Scalars
<1>3. Queues'
    <2>1. send_queue' \in Seq(Messages)
        <3>1. CASE Enqueue
            BY <3>1, AppendProperties DEF LossInv, Scalars, Queues
        <3>2. CASE ~Enqueue
            BY <3>2 DEF LossInv, Queues
        <3>3. QED
            BY <3>1, <3>2
    <2>2. pc' = "start" => pc = "start"
        OBVIOUS
    <2>3. QED
        BY <1>1, <2>1, <2>2 DEF LossInv, Queues
<1>4. pc' # "done" => pc # "done"
    OBVIOUS
<1>5. pc' # "done" => WatchInv'
    BY <1>1, <1>4 DEF LossInv, WatchInv, WatchPrepared, WatchInFlight, WatchEnded, TheWatch,
                      TheResults, TheOp
<1>6. pc' # "done" => AskInv'
    BY <1>1, <1>4 DEF LossInv, AskInv, NoneAsks, NotAsked
<1>7. pc' # "done" => RoomInv'
    <2>1. Len(<<>>) = 0 /\ (pc = "start" => sq = <<>>)
        BY DEF LossInv, Queues
    <2>2. QED
        BY <1>1, <1>4, <2>1 DEF LossInv, RoomInv, HasRoom
<1>8. QED
    BY <1>2, <1>3, <1>5, <1>6, <1>7 DEF LossInv

LEMMA Subsets ==
    ASSUME NEW n \in Nat
    PROVE  /\ UpResults \subseteq WatchResults /\ EndResults \subseteq WatchResults
           /\ UpgradeOf(n) \subseteq Sends /\ UpgradeOf(n) \cap Watches = {}
           /\ Sends \cap Watches = {}
           /\ UpgradeOf(n + 1) \subseteq Beyond(n) /\ Own(n + 1) \subseteq Beyond(n)
           /\ Beyond(n + 1) \subseteq Beyond(n)
<1>1. Sends \cap Watches = {}
    BY DEF Sends, Watches, IsSend, Watching
<1>2. UpResults \subseteq WatchResults /\ EndResults \subseteq WatchResults
    BY DEF UpResults, EndResults, WatchResults, Results, Ends, Watching
<1>3. UpgradeOf(n) \subseteq Sends
    BY DEF UpgradeOf
<1>4. \A op \in AllOps : op.conn \in Nat
    BY DEF AllOps, Ops
<1>5. UpgradeOf(n + 1) \subseteq Beyond(n) /\ Own(n + 1) \subseteq Beyond(n)
    BY DEF UpgradeOf, Own, Sends, Beyond
<1>6. Beyond(n + 1) \subseteq Beyond(n)
    BY <1>4 DEF Beyond
<1>7. QED
    BY <1>1, <1>2, <1>3, <1>5, <1>6

LEMMA RoomForThree == QueueDepth \in Nat /\ QueueDepth >= 3
BY QueueDepthAssumption

\* A queue without watches has room for one.
LEMMA RoomForOne ==
    ASSUME sq \in Seq(AllOps), None(sq, Watches), HasRoom(sq)
    PROVE  Len(sq) \in Nat /\ Len(sq) <= 2
<1>1. Len(sq) \in Nat /\ DOMAIN sq = 1 .. Len(sq)
    BY LenProperties
<1>2. Len(sq) # 3
    BY <1>1 DEF None, HasRoom
<1>3. QED
    BY <1>1, <1>2 DEF HasRoom

LEMMA LossConnects ==
    ASSUME LossInv, Connects
    PROVE  LossInv'
<1> DEFINE c == Op("Connect", conn + 1, Nothing)
<1>1. /\ Scalars /\ Queues /\ pc # "done" /\ phase = "Disconnected" /\ connected = FALSE
      /\ conn \in Nat /\ conn + 1 \in 1 .. MaxConnections
      /\ None(sq, Watches) /\ None(inflight, Watches) /\ None(cq, WatchResults)
    <2>1. Scalars /\ Queues /\ pc # "done" /\ phase = "Disconnected"
        BY DEF LossInv, Queues, Connects
    <2>2. WatchInv
        BY <2>1 DEF LossInv
    <2>3. connected = FALSE
        BY <2>1 DEF Scalars
    <2>4. conn \in Nat /\ conn + 1 \in 1 .. MaxConnections
        BY <2>1 DEF Scalars, Connects
    <2>5. QED
        BY <2>1, <2>2, <2>3, <2>4 DEF WatchInv
<1>2. Len(sq) \in Nat /\ Len(sq) <= 2
    <2>1. CASE pc = "start"
        BY <1>1, <2>1 DEF Queues
    <2>2. CASE pc = "reconnect"
        <3>1. HasRoom(sq)
            BY <1>1, <2>2 DEF LossInv, RoomInv
        <3>2. QED
            BY <1>1, <3>1, RoomForOne DEF Queues
    <2>3. QED
        BY <2>1, <2>2 DEF Connects
<1>3. c \in Watches /\ c \in AllOps /\ c \notin Beyond(conn + 1) /\ c \notin Sends
    <2>1. Nothing \in Messages
        BY DEF Messages
    <2>2. QED
        BY <1>1, <2>1, OpTypes
<1> HIDE DEF c
<1>4. PICK r : r = <<c>>
    OBVIOUS
<1>5. r \in Seq(AllOps) /\ Len(r) = 1
    BY <1>3, <1>4
<1>6. PICK a : a = sq \o r
    OBVIOUS
<1>7. Prepared(a) = a /\ a \in Seq(AllOps)
    <2>1. Len(sq) <= QueueDepth /\ Len(sq) + Len(r) <= QueueDepth
        BY <1>2, <1>5, RoomForThree
    <2>2. QED
        BY <1>1, <1>5, <1>6, <2>1, PreparedKeeps, ConcatProperties DEF Queues
<1>8. /\ pc' = "loop" /\ conn' = conn + 1 /\ phase' = "TcpConnecting" /\ server' = NoServer
      /\ sq' = <<>> /\ inflight' = inflight \o a /\ overwritten' = FALSE
      /\ UNCHANGED <<use_tls, running, due, cq, connected, send_queue, subscriptions, request,
                     asked, epc>>
    BY <1>4, <1>6, <1>7 DEF Connects, c, engineVars
<1>9. \A S : /\ None(inflight', S) <=> None(inflight, S) /\ None(sq, S) /\ c \notin S
             /\ None(inflight, S) /\ None(sq, S) /\ c \in S => One(inflight', S)
    <2> SUFFICES ASSUME NEW S
                 PROVE  /\ None(inflight', S) <=> None(inflight, S) /\ None(sq, S) /\ c \notin S
                        /\ None(inflight, S) /\ None(sq, S) /\ c \in S => One(inflight', S)
        OBVIOUS
    <2>1. /\ None(a, S) <=> None(sq, S) /\ c \notin S
          /\ None(sq, S) /\ c \in S => One(a, S)
        BY <1>1, <1>4, <1>5, <1>6, CountConcat, CountSingle, ZenonT(60) DEF Queues
    <2>2. /\ None(inflight', S) <=> None(inflight, S) /\ None(a, S)
          /\ None(inflight, S) /\ One(a, S) => One(inflight', S)
        BY <1>1, <1>7, <1>8, CountConcat DEF Queues
    <2>3. QED
        BY <2>1, <2>2
<1>10. inflight' \in Seq(AllOps) /\ sq' \in Seq(AllOps)
    BY <1>1, <1>7, <1>8, ConcatProperties DEF Queues
<1>11. Scalars'
    <2>1. conn' \in 0 .. MaxConnections /\ connected' = (phase' = "Connected" /\ pc' # "done")
        <3>1. conn' \in 0 .. MaxConnections
            BY <1>1, <1>8
        <3>2. QED
            BY <1>1, <1>8, <3>1
    <2>2. server' \in ServerType
        BY <1>8 DEF NoServer, ServerType
    <2>3. QED
        BY <1>1, <1>8, <2>1, <2>2 DEF Scalars
<1>12. \A S : None(sq', S)
    BY <1>8, CountEmpty
<1>13. Queues'
    <2>1. None(inflight', Beyond(conn + 1))
        BY <1>1, <1>3, <1>9, Subsets, NoneInFewer DEF Queues
    <2>2. Len(sq') <= QueueDepth /\ conn' # 0
        BY <1>1, <1>8
    <2>3. QED
        BY <1>1, <1>8, <1>10, <1>12, <2>1, <2>2 DEF Queues
<1>14. WatchInv'
    <2>1. None(inflight', Watches \ {c}) /\ One(inflight', Watches)
        BY <1>1, <1>3, <1>9, NoneInFewer
    <2>2. None(cq, EndResults) /\ None(cq, WatchResults \ TheResults') /\ EndIsLast(cq)
        BY <1>1, Subsets, NoneInFewer DEF EndIsLast, None
    <2>3. TheWatch' = c
        BY <1>8 DEF TheWatch, TheOp, c
    <2>4. QED
        BY <1>8, <1>12, <2>1, <2>2, <2>3 DEF WatchInv, WatchInFlight
<1>15. RoomInv'
    BY <1>8 DEF RoomInv, HasRoom
<1>16. AskInv'
    <2>1. None(inflight, UpgradeOf(conn + 1)) /\ None(sq, UpgradeOf(conn + 1))
        BY <1>1, Subsets, NoneInFewer DEF Queues
    <2>2. None(inflight', UpgradeOf(conn + 1))
        <3>1. c \notin UpgradeOf(conn + 1)
            BY <1>3 DEF UpgradeOf
        <3>2. QED
            BY <1>9, <2>1, <3>1
    <2>3. None(cq, UpResults) /\ server'.stage = "gone"
        BY <1>1, <1>8, Subsets, NoneInFewer DEF NoServer
    <2>4. QED
        BY <1>8, <1>12, <2>2, <2>3 DEF AskInv, NotAsked, NoneAsks
<1>17. QED
    BY <1>11, <1>13, <1>14, <1>15, <1>16 DEF LossInv

\* Messages that are sent leave what watches the connection where it is.
LEMMA SendsKeepWatches ==
    ASSUME LossInv, NEW messages \in Seq(Messages), messages # <<>>, conn # 0,
           Submit(messages, <<>>)
    PROVE  /\ sq' \in Seq(AllOps) /\ inflight' \in Seq(AllOps) /\ Len(sq') <= QueueDepth
           /\ overwritten' \in BOOLEAN
           /\ None(sq', Watches) <=> None(sq, Watches)
           /\ One(sq', Watches) <=> One(sq, Watches)
           /\ None(inflight', Watches) <=> None(inflight, Watches)
           /\ One(inflight', Watches) <=> One(inflight, Watches)
           /\ \A w : /\ None(sq, Watches \ {w}) => None(sq', Watches \ {w})
                     /\ None(inflight, Watches \ {w}) => None(inflight', Watches \ {w})
           /\ None(sq', Beyond(conn)) /\ None(inflight', Beyond(conn))
<1>1. /\ sq \in Seq(AllOps) /\ Len(sq) <= QueueDepth /\ inflight \in Seq(AllOps)
      /\ conn \in 1 .. MaxConnections
      /\ None(sq, Beyond(conn)) /\ None(inflight, Beyond(conn))
    BY DEF LossInv, Scalars, Queues
<1>2. PICK p \in Seq(AllOps) :
              /\ sq' = Overwrite(sq) \o p /\ sq' \in Seq(AllOps) /\ Len(sq') <= QueueDepth
              /\ None(p, AllOps \ Sends) /\ None(p, Beyond(conn))
              /\ inflight' = Overwrite(inflight)
              /\ overwritten' = (\/ overwritten \/ Len(messages) > 1
                                 \/ ~None(sq, Sends) \/ ~None(inflight, Sends))
    BY <1>1, SubmitMany
<1>3. PICK o : o = Overwrite(sq)
    OBVIOUS
<1>4. /\ o \in Seq(AllOps)
      /\ None(o, Watches) <=> None(sq, Watches)
      /\ One(o, Watches) <=> One(sq, Watches)
      /\ \A w : None(o, Watches \ {w}) <=> None(sq, Watches \ {w})
      /\ None(o, Beyond(conn)) <=> None(sq, Beyond(conn))
    BY <1>1, <1>3, OverwriteKeeps
<1>5. /\ inflight' \in Seq(AllOps)
      /\ None(inflight', Watches) <=> None(inflight, Watches)
      /\ One(inflight', Watches) <=> One(inflight, Watches)
      /\ \A w : None(inflight', Watches \ {w}) <=> None(inflight, Watches \ {w})
      /\ None(inflight', Beyond(conn))
    BY <1>1, <1>2, OverwriteKeeps
<1>6. None(p, Watches) /\ (\A w : None(p, Watches \ {w})) /\ ~One(p, Watches)
    <2>1. Watches \subseteq AllOps \ Sends
        BY DEF Watches, Sends, Watching, IsSend
    <2>2. None(p, Watches)
        BY <1>2, <2>1, NoneInFewer
    <2>3. QED
        BY <2>2, NoneInFewer, NoneIsNotOne
<1>7. sq' = o \o p
    BY <1>2, <1>3
<1>8. \A S : /\ None(sq', S) <=> None(o, S) /\ None(p, S)
             /\ One(sq', S) <=> \/ One(o, S) /\ None(p, S)
                                \/ None(o, S) /\ One(p, S)
    BY <1>2, <1>4, <1>7, CountConcat
<1>9. overwritten' \in BOOLEAN
    BY <1>2
<1>10. QED
    BY <1>1, <1>2, <1>4, <1>5, <1>6, <1>8, <1>9

LEMMA LossSends ==
    ASSUME LossInv, NEW messages \in Seq(Messages), messages # <<>>, Submit(messages, <<>>),
           phase = "Connected", pc # "done", pc' \in {"ping", "submit"},
           send_queue' \in Seq(Messages),
           UNCHANGED <<use_tls, running, phase, conn, due, cq, connected, engineVars, server>>
    PROVE  LossInv'
<1>1. conn # 0
    BY DEF LossInv, Queues
<1>2. /\ sq' \in Seq(AllOps) /\ inflight' \in Seq(AllOps) /\ Len(sq') <= QueueDepth
      /\ overwritten' \in BOOLEAN
      /\ None(sq', Watches) <=> None(sq, Watches)
      /\ One(sq', Watches) <=> One(sq, Watches)
      /\ None(inflight', Watches) <=> None(inflight, Watches)
      /\ One(inflight', Watches) <=> One(inflight, Watches)
      /\ \A w : /\ None(sq, Watches \ {w}) => None(sq', Watches \ {w})
                /\ None(inflight, Watches \ {w}) => None(inflight', Watches \ {w})
      /\ None(sq', Beyond(conn)) /\ None(inflight', Beyond(conn))
    BY <1>1, SendsKeepWatches
<1>3. Scalars'
    BY <1>2 DEF LossInv, Scalars, engineVars
<1>4. Queues'
    BY <1>1, <1>2 DEF LossInv, Queues
<1>5. WatchInv'
    <2>1. WatchInv
        BY DEF LossInv
    <2>2. TheWatch' = TheWatch /\ TheResults' = TheResults
        BY DEF TheWatch, TheResults, TheOp
    <2>3. QED
        BY <1>2, <2>1, <2>2 DEF WatchInv, WatchPrepared, WatchInFlight, WatchEnded
<1>6. RoomInv' /\ AskInv'
    BY DEF RoomInv, AskInv
<1>7. QED
    BY <1>3, <1>4, <1>5, <1>6 DEF LossInv

LEMMA LossDrain ==
    ASSUME LossInv, Drain
    PROVE  LossInv'
<1>1. CASE phase = "Connected" /\ send_queue # <<>>
    <2>1. Submit(send_queue, <<>>) /\ send_queue \in Seq(Messages) /\ send_queue' \in Seq(Messages)
        BY <1>1 DEF LossInv, Queues, Drain
    <2>2. QED
        BY <1>1, <2>1, LossSends DEF Drain
<1>2. CASE ~(phase = "Connected" /\ send_queue # <<>>)
    <2>1. Submit(<<>>, <<>>)
        BY <1>2 DEF Drain
    <2>2. /\ sq \in Seq(AllOps) /\ <<>> \in Seq(AllOps)
          /\ Len(sq) + Len(<<>>) <= QueueDepth
        <3>1. sq \in Seq(AllOps) /\ Len(sq) <= QueueDepth /\ Len(sq) \in Nat
            BY LenProperties DEF LossInv, Queues
        <3>2. QED
            BY <3>1
    <2>3. sq' = sq \o <<>> /\ UNCHANGED <<inflight, overwritten>>
        BY <2>1, <2>2, SubmitOps
    <2>4. sq' = sq
        BY <2>2, <2>3, ConcatEmptySeq
    <2>5. Scalars'
        BY <2>3 DEF LossInv, Scalars, Drain, engineVars
    <2>6. Queues'
        BY <2>3, <2>4 DEF LossInv, Queues, Drain
    <2>7. WatchInv' /\ AskInv' /\ RoomInv'
        BY <2>3, <2>4 DEF LossInv, WatchInv, WatchPrepared, WatchInFlight, WatchEnded, TheWatch,
                          TheResults, TheOp, AskInv, NotAsked, NoneAsks, RoomInv, Drain
    <2>8. QED
        BY <2>5, <2>6, <2>7 DEF LossInv
<1>3. QED
    BY <1>1, <1>2

LEMMA LossPing ==
    ASSUME LossInv, Ping
    PROVE  LossInv'
<1>1. CASE phase = "Connected" /\ Submit(<<Keepalive>>, <<>>)
    <2>1. <<Keepalive>> \in Seq(Messages) /\ <<Keepalive>> # <<>>
        BY DEF Messages
    <2>2. QED
        BY <1>1, <2>1, LossSends DEF LossInv, Queues, Ping
<1>2. CASE UNCHANGED ringVars
    <2>1. Scalars' /\ Queues'
        BY <1>2 DEF LossInv, Scalars, Queues, Ping, ringVars, engineVars
    <2>2. WatchInv' /\ AskInv' /\ RoomInv'
        BY <1>2 DEF LossInv, WatchInv, WatchPrepared, WatchInFlight, WatchEnded, TheWatch,
                    TheResults, TheOp, AskInv, NotAsked, NoneAsks, RoomInv, Ping, ringVars
    <2>3. QED
        BY <2>1, <2>2 DEF LossInv
<1>3. QED
    BY <1>1, <1>2 DEF Ping

LEMMA LossCleanup ==
    ASSUME LossInv, Cleanup
    PROVE  LossInv'
<1>1. Scalars'
    <2>1. server' \in ServerType
        BY DEF Cleanup, NoServer, ServerType
    <2>2. QED
        BY <2>1 DEF LossInv, Scalars, Cleanup, engineVars
<1>2. Queues'
    <2>1. /\ <<>> \in Seq(AllOps) /\ <<>> \in Seq(Results) /\ \A S : None(<<>>, S)
          /\ Len(<<>>) = 0
        BY CountEmpty
    <2>2. QED
        BY <2>1, RoomForThree DEF LossInv, Queues, Cleanup
<1>3. QED
    BY <1>1, <1>2 DEF LossInv, Cleanup

LEMMA LossSubmitAll ==
    ASSUME LossInv, SubmitAll
    PROVE  LossInv'
<1>1. /\ sq \in Seq(AllOps) /\ inflight \in Seq(AllOps) /\ pc # "done" /\ pc' = "wait"
      /\ inflight' = inflight \o sq /\ sq' = <<>>
    BY DEF LossInv, Queues, SubmitAll
<1>2. \A S : /\ None(inflight', S) <=> None(inflight, S) /\ None(sq, S)
             /\ One(inflight', S) <=> \/ One(inflight, S) /\ None(sq, S)
                                      \/ None(inflight, S) /\ One(sq, S)
    BY <1>1, CountConcat
<1>3. \A S : None(sq', S)
    BY <1>1, CountEmpty
<1>4. Scalars'
    BY DEF LossInv, Scalars, SubmitAll, engineVars
<1>5. Queues'
    <2>1. sq' \in Seq(AllOps) /\ inflight' \in Seq(AllOps) /\ Len(sq') <= QueueDepth
        BY <1>1, ConcatProperties, RoomForThree
    <2>2. conn = 0 => inflight' = <<>>
        <3>1. <<>> \o <<>> = <<>>
            BY ConcatEmptySeq
        <3>2. QED
            BY <1>1, <3>1 DEF LossInv, Queues
    <2>3. QED
        BY <1>1, <1>2, <1>3, <2>1, <2>2 DEF LossInv, Queues, SubmitAll
<1>6. WatchInv'
    <2>1. WatchInv /\ (None(cq, WatchResults) => None(cq, EndResults))
        BY <1>1, Subsets, NoneInFewer DEF LossInv, Scalars
    <2>2. UNCHANGED <<phase, conn, cq>>
        BY DEF SubmitAll
    <2>3. TheWatch' = TheWatch /\ TheResults' = TheResults
        BY <2>2 DEF TheWatch, TheResults, TheOp
    <2>4. QED
        BY <1>2, <1>3, <2>1, <2>2, <2>3, NoneIsNotOne
        DEF WatchInv, WatchPrepared, WatchInFlight, WatchEnded
<1>7. RoomInv'
    BY <1>1 DEF RoomInv
<1>8. AskInv'
    <2>1. UNCHANGED <<phase, conn, cq, server>>
        BY DEF SubmitAll
    <2>2. AskInv
        BY <1>1 DEF LossInv
    <2>3. QED
        BY <1>2, <1>3, <2>1, <2>2, NoneIsNotOne DEF AskInv, NotAsked, NoneAsks
<1>9. QED
    BY <1>4, <1>5, <1>6, <1>7, <1>8 DEF LossInv

\* What the completion that is looked at says of the watch.
LEMMA Reaped ==
    ASSUME LossInv, pc # "done", cq # <<>>
    PROVE  /\ Tail(cq) \in Seq(Results) /\ Head(cq) \in Results /\ conn \in 1 .. MaxConnections
           /\ \A S : None(cq, S) => None(Tail(cq), S)
           /\ Head(cq) \in WatchResults =>
                 /\ phase # "Disconnected" /\ Head(cq).op = TheOp
                 /\ None(sq, Watches)
                 /\ None(inflight, Watches) \/ None(cq, EndResults)
           /\ Head(cq) \in EndResults =>
                 None(inflight, Watches) /\ None(Tail(cq), WatchResults)
           /\ Head(cq) \notin EndResults =>
                 /\ None(cq, EndResults) <=> None(Tail(cq), EndResults)
                 /\ One(cq, EndResults) => One(Tail(cq), EndResults)
           /\ EndIsLast(cq) => EndIsLast(Tail(cq))
<1>1. cq \in Seq(Results) /\ conn \in 1 .. MaxConnections
    BY DEF LossInv, Scalars, Queues
<1>2. \A S : /\ Tail(cq) \in Seq(Results) /\ Head(cq) \in Results
             /\ None(cq, S) => None(Tail(cq), S) /\ Head(cq) \notin S
             /\ One(cq, S) /\ Head(cq) \in S => None(Tail(cq), S)
             /\ One(cq, S) /\ Head(cq) \notin S => One(Tail(cq), S)
    BY <1>1, CountTail
<1>3. WatchInv
    BY DEF LossInv
<1>4. ASSUME Head(cq) \in WatchResults
      PROVE  /\ phase # "Disconnected" /\ Head(cq).op = TheOp
             /\ None(sq, Watches)
             /\ None(inflight, Watches) \/ None(cq, EndResults)
    <2>1. ~None(cq, WatchResults)
        BY <1>2, <1>4
    <2>2. phase # "Disconnected" /\ None(cq, WatchResults \ TheResults)
        BY <1>3, <2>1 DEF WatchInv
    <2>3. Head(cq) \in TheResults
        BY <1>2, <1>4, <2>2
    <2>4. WatchInFlight \/ WatchEnded
        BY <1>3, <2>1, <2>2 DEF WatchInv, WatchPrepared
    <2>5. QED
        BY <2>2, <2>3, <2>4 DEF TheResults, WatchInFlight, WatchEnded
<1>5. ASSUME Head(cq) \in EndResults
      PROVE  None(inflight, Watches) /\ None(Tail(cq), WatchResults)
    <2>1. Head(cq) \in WatchResults
        BY <1>1, <1>5, Subsets
    <2>2. ~None(cq, EndResults) /\ ~None(cq, WatchResults)
        BY <1>2, <1>5, <2>1
    <2>3. EndIsLast(cq)
        BY <1>3, <1>4, <2>1 DEF WatchInv
    <2>4. QED
        BY <1>1, <1>4, <1>5, <2>1, <2>2, <2>3, EndIsLastKept
<1>6. ASSUME Head(cq) \notin EndResults
      PROVE  /\ None(cq, EndResults) <=> None(Tail(cq), EndResults)
             /\ One(cq, EndResults) => One(Tail(cq), EndResults)
    <2>1. None(Tail(cq), EndResults) => None(cq, EndResults)
        <3> SUFFICES ASSUME None(Tail(cq), EndResults), NEW i \in DOMAIN cq, cq[i] \in EndResults
                     PROVE  FALSE
            BY DEF None
        <3>1. DOMAIN cq = 1 .. Len(cq) /\ Len(cq) \in Nat /\ i # 1
            BY <1>1, <1>6, LenProperties, HeadTailProperties
        <3>2. PICK t : t = Tail(cq)
            OBVIOUS
        <3>3. Len(t) = Len(cq) - 1 /\ t \in Seq(Results) /\ \A j \in 1 .. Len(t) : t[j] = cq[j + 1]
            BY <1>1, <3>2, HeadTailProperties
        <3>4. i - 1 \in DOMAIN t /\ i - 1 \in 1 .. Len(t) /\ (i - 1) + 1 = i
            BY <3>1, <3>3, LenProperties
        <3>5. t[i - 1] = cq[i]
            BY <3>3, <3>4
        <3>6. QED
            BY <3>2, <3>4, <3>5 DEF None
    <2>2. QED
        BY <1>2, <1>6, <2>1
<1>7. EndIsLast(cq) => EndIsLast(Tail(cq))
    BY <1>1, EndIsLastKept
<1>8. QED
    BY <1>1, <1>2, <1>4, <1>5, <1>6, <1>7

\* The completion was not the last of the watch.
LEMMA WatchKept ==
    ASSUME LossInv, pc # "done", cq # <<>>, cq' = Tail(cq), Head(cq) \notin EndResults,
           UNCHANGED conn, phase = "Disconnected" <=> phase' = "Disconnected", TheOp' = TheOp,
           None(sq', Watches) <=> None(sq, Watches), One(sq', Watches) <=> One(sq, Watches),
           None(inflight', Watches) <=> None(inflight, Watches),
           One(inflight', Watches) <=> One(inflight, Watches),
           \A w : /\ None(sq, Watches \ {w}) => None(sq', Watches \ {w})
                  /\ None(inflight, Watches \ {w}) => None(inflight', Watches \ {w})
    PROVE  WatchInv'
<1>1. WatchInv
    BY DEF LossInv
<1>2. /\ \A S : None(cq, S) => None(Tail(cq), S)
      /\ None(cq, EndResults) <=> None(Tail(cq), EndResults)
      /\ One(cq, EndResults) => One(Tail(cq), EndResults)
      /\ EndIsLast(cq) => EndIsLast(Tail(cq))
    BY Reaped
<1>3. TheWatch' = TheWatch /\ TheResults' = TheResults
    BY DEF TheWatch, TheResults
<1>4. QED
    BY <1>1, <1>2, <1>3 DEF WatchInv, WatchPrepared, WatchInFlight, WatchEnded

\* It was, and the receive is prepared again.
LEMMA WatchRearmed ==
    ASSUME LossInv, pc # "done", cq # <<>>, cq' = Tail(cq), Head(cq) \in EndResults,
           UNCHANGED conn, phase' \notin {"Disconnected", "TcpConnecting"},
           None(sq', Watches \ {Op("Recv", conn, Nothing)}), One(sq', Watches),
           None(inflight, Watches) => None(inflight', Watches)
    PROVE  WatchInv'
<1>1. None(inflight', Watches) /\ None(Tail(cq), WatchResults)
    BY Reaped
<1>2. TheWatch' = Op("Recv", conn, Nothing)
    BY DEF TheWatch, TheOp
<1>3. None(cq', WatchResults \ TheResults') /\ None(inflight', Watches \ {TheWatch'})
    BY <1>1, NoneInFewer
<1>4. EndIsLast(cq')
    BY <1>1, Subsets DEF EndIsLast, None, EndResults
<1>5. QED
    BY <1>1, <1>2, <1>3, <1>4 DEF WatchInv, WatchPrepared

\* The connection is over: nothing watches any more.
LEMMA LossOver ==
    ASSUME LossInv, pc = "reap", cq # <<>>, cq' = Tail(cq), Head(cq) \in EndResults,
           phase' = "Disconnected", connected' = FALSE, due' = FALSE,
           UNCHANGED <<use_tls, running, pc, conn, ringVars, send_queue, engineVars, server>>
    PROVE  LossInv'
<1>1. Tail(cq) \in Seq(Results) /\ None(inflight, Watches) /\ None(Tail(cq), WatchResults)
      /\ None(sq, Watches) /\ conn # 0
    BY Reaped, Subsets DEF LossInv, Scalars
<1>2. Scalars'
    BY DEF LossInv, Scalars, ringVars, engineVars
<1>3. Queues'
    BY <1>1 DEF LossInv, Queues, ringVars
<1>4. WatchInv' /\ AskInv'
    BY <1>1 DEF WatchInv, AskInv, ringVars
<1>5. RoomInv'
    BY DEF LossInv, RoomInv, ringVars
<1>6. QED
    BY <1>2, <1>3, <1>4, <1>5 DEF LossInv

LEMMA LossConnectFails ==
    ASSUME LossInv, ConnectFails
    PROVE  LossInv'
<1>1. Head(cq) \in Results /\ Head(cq).op = "Connect" /\ pc = "reap" /\ cq # <<>>
    BY Reaped DEF ConnectFails, Reaping
<1>2. Head(cq) \in EndResults /\ Head(cq) \in WatchResults
    BY <1>1 DEF EndResults, WatchResults, Ends, Watching, Results
<1>3. TheOp = "Connect"
    BY <1>1, <1>2, Reaped
<1>4. connected = FALSE
    BY <1>3 DEF LossInv, Scalars, TheOp
<1>5. QED
    BY <1>1, <1>2, <1>4, LossOver DEF ConnectFails

LEMMA LossRecvEnds ==
    ASSUME LossInv, RecvEnds
    PROVE  LossInv'
<1>1. Head(cq) \in Results /\ Head(cq).op = "Recv" /\ Head(cq).res = "end" /\ pc = "reap"
      /\ cq # <<>>
    BY Reaped DEF RecvEnds, Reaping
<1>2. Head(cq) \in EndResults
    BY <1>1 DEF EndResults, Ends, Watching, Results
<1>3. QED
    BY <1>1, <1>2, LossOver DEF RecvEnds

LEMMA LossSendDone ==
    ASSUME LossInv, SendDone
    PROVE  LossInv'
<1>1. Head(cq).op = "Send" /\ pc = "reap" /\ cq # <<>> /\ cq' = Tail(cq)
    BY DEF SendDone, Reaping
<1>2. Head(cq) \notin EndResults /\ Tail(cq) \in Seq(Results) /\ conn # 0
      /\ \A S : None(cq, S) => None(Tail(cq), S)
    BY <1>1, Reaped DEF EndResults, Ends, Watching
<1>3. UNCHANGED <<phase, conn, sq, inflight, pc, server>>
    BY DEF SendDone, ringVars
<1>4. Scalars'
    BY DEF LossInv, Scalars, SendDone, ringVars, engineVars
<1>5. Queues'
    BY <1>1, <1>2, <1>3 DEF LossInv, Queues, SendDone
<1>6. WatchInv'
    <2>1. TheOp' = TheOp
        BY <1>3 DEF TheOp
    <2>2. QED
        BY <1>1, <1>2, <1>3, <2>1, WatchKept
<1>7. RoomInv'
    BY <1>1, <1>3 DEF LossInv, RoomInv
<1>8. AskInv'
    BY <1>1, <1>2, <1>3 DEF LossInv, AskInv, NotAsked, NoneAsks
<1>9. QED
    BY <1>4, <1>5, <1>6, <1>7, <1>8 DEF LossInv

\* The receive is prepared again, and nothing else is done.
LEMMA LossRearm ==
    ASSUME LossInv, pc = "reap", cq # <<>>, cq' = Tail(cq), Head(cq) \in EndResults,
           Head(cq).op = "Recv", Submit(<<>>, <<Op("Recv", conn, Nothing)>>),
           UNCHANGED <<use_tls, running, pc, phase, conn, due, connected, send_queue,
                       engineVars, server>>
    PROVE  LossInv'
<1>1. /\ Tail(cq) \in Seq(Results) /\ None(inflight, Watches) /\ None(Tail(cq), WatchResults)
      /\ None(sq, Watches) /\ conn \in 1 .. MaxConnections /\ TheOp = "Recv"
      /\ phase # "Disconnected" /\ \A S : None(cq, S) => None(Tail(cq), S)
    BY Reaped, Subsets DEF LossInv, Scalars
<1>2. phase \notin {"Disconnected", "TcpConnecting"}
    BY <1>1 DEF TheOp
<1>3. Len(sq) \in Nat /\ Len(sq) <= 2 /\ sq \in Seq(AllOps)
    BY <1>1, RoomForOne DEF LossInv, Queues, RoomInv
<1>4. PICK c : c = Op("Recv", conn, Nothing)
    OBVIOUS
<1>5. c \in AllOps /\ c \in Watches /\ c \notin Beyond(conn) /\ c \notin Sends
    <2>1. Nothing \in Messages
        BY DEF Messages
    <2>2. QED
        BY <1>1, <1>4, <2>1, OpTypes
<1>6. PICK r : r = <<c>>
    OBVIOUS
<1>7. r \in Seq(AllOps) /\ Len(r) = 1
    BY <1>5, <1>6
<1>8. /\ sq' = sq \o r /\ sq' \in Seq(AllOps) /\ Len(sq') = Len(sq) + 1
      /\ UNCHANGED <<inflight, overwritten>>
    <2>1. Len(sq) + Len(r) <= QueueDepth
        BY <1>3, <1>7, RoomForThree
    <2>2. Submit(<<>>, r)
        BY <1>4, <1>6
    <2>3. QED
        BY <1>3, <1>7, <2>1, <2>2, SubmitOps
<1>9. \A S : /\ None(sq', S) <=> None(sq, S) /\ c \notin S
             /\ One(sq', S) <=> \/ One(sq, S) /\ c \notin S
                                \/ None(sq, S) /\ c \in S
    <2>1. \A S : (None(r, S) <=> c \notin S) /\ (One(r, S) <=> c \in S)
        BY <1>6, CountSingle
    <2>2. \A S : /\ None(sq', S) <=> None(sq, S) /\ None(r, S)
                 /\ One(sq', S) <=> \/ One(sq, S) /\ None(r, S)
                                    \/ None(sq, S) /\ One(r, S)
        BY <1>3, <1>7, <1>8, CountConcat
    <2>3. QED
        BY <2>1, <2>2
<1>10. Scalars'
    BY <1>8 DEF LossInv, Scalars, engineVars
<1>11. Queues'
    <2>1. Len(sq') <= QueueDepth /\ conn # 0
        BY <1>1, <1>3, <1>8, RoomForThree
    <2>2. QED
        BY <1>1, <1>5, <1>8, <1>9, <2>1 DEF LossInv, Queues
<1>12. WatchInv'
    <2>1. One(sq', Watches) /\ None(sq', Watches \ {Op("Recv", conn, Nothing)})
        BY <1>1, <1>4, <1>5, <1>9, NoneInFewer
    <2>2. QED
        BY <1>2, <1>8, <2>1, WatchRearmed
<1>13. RoomInv'
    <2>1. ~None(sq', Watches)
        BY <1>5, <1>9
    <2>2. HasRoom(sq')
        <3>1. DOMAIN r = 1 .. 1
            BY <1>7, LenProperties
        <3>2. sq'[Len(sq) + 1] = r[1]
            BY <1>3, <1>7, <1>8, <3>1, ConcatElements
        <3>3. QED
            BY <1>3, <1>5, <1>6, <1>8, <3>2 DEF HasRoom
    <2>3. QED
        BY <1>2, <1>3, <1>8, <2>1, <2>2 DEF RoomInv
<1>14. AskInv'
    <2>1. c \notin UpgradeOf(conn)
        BY <1>5 DEF UpgradeOf
    <2>2. QED
        BY <1>1, <1>8, <1>9, <2>1 DEF LossInv, AskInv, NotAsked, NoneAsks
<1>15. QED
    BY <1>10, <1>11, <1>12, <1>13, <1>14 DEF LossInv

\* A message is sent from an empty queue, and the receive prepared behind it.
LEMMA SendsFirst ==
    ASSUME LossInv, sq = <<>>, conn \in 1 .. MaxConnections, NEW m \in Messages,
           NEW ops \in {<<>>, <<Op("Recv", conn, Nothing)>>}, Submit(<<m>>, ops)
    PROVE  /\ sq' \in Seq(AllOps) /\ inflight' \in Seq(AllOps) /\ overwritten' \in BOOLEAN
           /\ Len(sq') <= QueueDepth /\ HasRoom(sq')
           /\ \A S : /\ None(sq', S) <=> Op("Send", conn, m) \notin S /\ None(ops, S)
                     /\ One(sq', S) <=> \/ Op("Send", conn, m) \in S /\ None(ops, S)
                                        \/ Op("Send", conn, m) \notin S /\ One(ops, S)
           /\ inflight' = Overwrite(inflight)
           /\ overwritten' = (overwritten \/ ~None(inflight, Sends))
           /\ ops = <<>> => None(sq', Watches)
           /\ ops # <<>> => One(sq', Watches) /\ None(sq', Watches \ {Op("Recv", conn, Nothing)})
           /\ None(sq', Beyond(conn)) /\ None(inflight', Beyond(conn))
<1>1. inflight \in Seq(AllOps) /\ None(inflight, Beyond(conn)) /\ Nothing \in Messages
    BY DEF LossInv, Queues, Messages
<1>2. PICK c, s : c = Op("Recv", conn, Nothing) /\ s = Op("Send", conn, m)
    OBVIOUS
<1>3. /\ c \in AllOps /\ c \in Watches /\ c \notin Beyond(conn)
      /\ s \in AllOps /\ s \in Sends /\ s \notin Watches /\ s \notin Beyond(conn)
    BY <1>1, <1>2, OpTypes
<1>4. ops \in Seq(AllOps) /\ Len(ops) <= 1 /\ (ops = <<>> \/ ops = <<c>>) /\ Len(ops) \in {0, 1}
      /\ (Len(ops) = 1 => ops = <<c>>)
    <2>1. <<>> \in Seq(AllOps) /\ Len(<<>>) = 0
        OBVIOUS
    <2>2. <<c>> \in Seq(AllOps) /\ Len(<<c>>) = 1
        BY <1>3
    <2>3. ops = <<>> \/ ops = <<c>>
        BY <1>2
    <2>4. CASE ops = <<>>
        BY <2>1, <2>4
    <2>5. CASE ops = <<c>>
        BY <2>2, <2>5
    <2>6. QED
        BY <2>3, <2>4, <2>5
<1>5. PICK r : r = <<s>>
    OBVIOUS
<1>6. r \in Seq(AllOps) /\ Len(r) = 1
    BY <1>3, <1>5
<1>7. /\ sq' = r \o ops /\ sq' \in Seq(AllOps) /\ Len(sq') = 1 + Len(ops)
      /\ inflight' = Overwrite(inflight)
      /\ overwritten' = (overwritten \/ ~None(inflight, Sends))
    <2>1. ops \in Seq(AllOps) /\ Len(ops) <= 1 /\ inflight \in Seq(AllOps)
        BY <1>1, <1>4
    <2>2. /\ sq' = <<Op("Send", conn, m)>> \o ops /\ sq' \in Seq(AllOps)
          /\ Len(sq') = 1 + Len(ops) /\ inflight' = Overwrite(inflight)
          /\ overwritten' = (overwritten \/ ~None(inflight, Sends))
        BY <2>1, SubmitFirst
    <2>3. QED
        BY <1>2, <1>5, <2>2
<1>8. \A S : /\ None(sq', S) <=> s \notin S /\ None(ops, S)
             /\ One(sq', S) <=> \/ s \in S /\ None(ops, S)
                                \/ s \notin S /\ One(ops, S)
    <2>1. \A S : (None(r, S) <=> s \notin S) /\ (One(r, S) <=> s \in S)
        BY <1>5, CountSingle
    <2>2. \A S : /\ None(sq', S) <=> None(r, S) /\ None(ops, S)
                 /\ One(sq', S) <=> \/ One(r, S) /\ None(ops, S)
                                    \/ None(r, S) /\ One(ops, S)
        BY <1>4, <1>6, <1>7, CountConcat
    <2>3. QED
        BY <2>1, <2>2
<1>9. \A S : /\ ops = <<>> => None(ops, S) /\ ~One(ops, S)
             /\ ops # <<>> => (None(ops, S) <=> c \notin S) /\ (One(ops, S) <=> c \in S)
    BY <1>4, CountEmpty, CountSingle
<1>10. Len(sq') <= QueueDepth /\ HasRoom(sq')
    BY <1>4, <1>7, RoomForThree DEF HasRoom
<1>11. /\ inflight' \in Seq(AllOps) /\ None(inflight', Beyond(conn))
    BY <1>1, <1>7, OverwriteKeeps
<1>12. /\ ops = <<>> => None(sq', Watches)
       /\ ops # <<>> => One(sq', Watches) /\ None(sq', Watches \ {c})
       /\ None(sq', Beyond(conn))
    BY <1>3, <1>8, <1>9
<1>13. overwritten' \in BOOLEAN
    BY <1>7
<1>14. QED
    BY <1>2, <1>7, <1>8, <1>10, <1>11, <1>12, <1>13

\* A sequence of one element, followed by itself.
LEMMA Twice ==
    ASSUME NEW T, NEW e \in T
    PROVE  <<e>> \o <<e>> = <<e, e>>
<1>1. PICK g, h, r : g = <<e>> /\ h = g \o g /\ r = <<e, e>>
    OBVIOUS
<1>2. g \in Seq(T) /\ Len(g) = 1 /\ g[1] = e
    BY <1>1
<1>3. r \in Seq(T) /\ Len(r) = 2 /\ r[1] = e /\ r[2] = e
    BY <1>1
<1>4. h \in Seq(T) /\ Len(h) = Len(g) + Len(g)
    BY <1>1, <1>2, ConcatProperties
<1>5. \A i \in 1 .. Len(g) + Len(g) : h[i] = IF i <= Len(g) THEN g[i] ELSE g[i - Len(g)]
    BY <1>1, <1>2, ConcatProperties
<1>6. h[1] = e /\ h[2] = e
    <2>1. /\ 1 \in 1 .. Len(g) + Len(g) /\ 2 \in 1 .. Len(g) + Len(g)
          /\ 2 - Len(g) = 1 /\ ~(2 <= Len(g)) /\ 1 <= Len(g)
        BY <1>2
    <2>2. QED
        BY <1>2, <1>5, <2>1
<1>7. \A i \in 1 .. 2 : i = 1 \/ i = 2
    OBVIOUS
<1>8. Len(h) = Len(r)
    BY <1>2, <1>3, <1>4
<1>9. \A i \in 1 .. Len(h) : h[i] = r[i]
    BY <1>2, <1>3, <1>4, <1>6, <1>7
<1>10. h = r
    BY <1>3, <1>4, <1>8, <1>9, SeqEqual
<1>11. QED
    BY <1>1, <1>10

\* Two sends that overwrite each other are sent from an empty queue, and the
\* receive prepared behind them.
LEMMA SendsTorn ==
    ASSUME LossInv, sq = <<>>, conn \in 1 .. MaxConnections,
           NEW ops \in {<<>>, <<Op("Recv", conn, Nothing)>>}, Submit(<<Garbage, Garbage>>, ops)
    PROVE  /\ sq' \in Seq(AllOps) /\ inflight' = Overwrite(inflight) /\ overwritten' = TRUE
           /\ Len(sq') <= QueueDepth /\ HasRoom(sq')
           /\ ops = <<>> => None(sq', Watches)
           /\ ops # <<>> => One(sq', Watches) /\ None(sq', Watches \ {Op("Recv", conn, Nothing)})
           /\ None(sq', Beyond(conn)) /\ None(inflight', Beyond(conn))
<1>1. PICK c, s : c = Op("Recv", conn, Nothing) /\ s = Op("Send", conn, Garbage)
    OBVIOUS
<1>2. /\ c \in AllOps /\ c \in Watches /\ c \notin Beyond(conn)
      /\ s \in AllOps /\ s \in Sends /\ s \notin Watches /\ s \notin Beyond(conn)
    <2>1. Nothing \in Messages /\ Garbage \in Messages
        BY DEF Messages
    <2>2. QED
        BY <1>1, <2>1, OpTypes
<1>3. PICK r : r = <<s, s>>
    OBVIOUS
<1>4. r \in Seq(AllOps) /\ Len(r) = 2
    BY <1>2, <1>3
<1>5. /\ sq' = Prepared(<<s>> \o <<s>> \o ops) /\ inflight' = Overwrite(inflight)
      /\ overwritten' = TRUE
    <2>1. [i \in DOMAIN <<Garbage, Garbage>> |-> Op("Send", conn, <<Garbage, Garbage>>[i])] = r
        BY <1>1, <1>3
    <2>2. Front(r) = <<s>> /\ Last(r) = s /\ Len(r) > 1
        <3>1. Front(r) = SubSeq(r, 1, 1) /\ Last(r) = r[2] /\ Len(r) > 1
            BY <1>4 DEF Front, Last
        <3>2. SubSeq(r, 1, 1) = <<s>>
            <4>1. PICK f : f = SubSeq(r, 1, 1)
                OBVIOUS
            <4>2. \A i \in 1 .. 1 : r[i] \in AllOps
                BY <1>2, <1>3
            <4>3. f \in Seq(AllOps) /\ Len(f) = 1 /\ \A i \in 1 .. 1 : f[i] = r[1 + i - 1]
                BY <4>1, <4>2, SubSeqProperties
            <4>4. f[1] = s
                BY <1>3, <4>3
            <4>5. PICK g : g = <<s>>
                OBVIOUS
            <4>6. g \in Seq(AllOps) /\ Len(g) = 1 /\ g[1] = s
                BY <1>2, <4>5
            <4>7. f = g
                BY <4>3, <4>4, <4>6, SeqEqual
            <4>8. QED
                BY <4>1, <4>5, <4>7
        <3>3. r[2] = s
            BY <1>3
        <3>4. QED
            BY <3>1, <3>2, <3>3
    <2>3. Overwrite(sq \o <<s>>) = <<s>>
        <3>1. sq \o <<s>> = <<s>>
            BY <1>2
        <3>2. [s EXCEPT !.data = Garbage] = s
            BY <1>1 DEF Op
        <3>3. QED
            BY <3>1, <3>2 DEF Overwrite
    <2>4. <<Garbage, Garbage>> # <<>>
        OBVIOUS
    <2>5. /\ sq' = Prepared(Overwrite(sq \o Front(r)) \o <<Last(r)>> \o ops)
          /\ inflight' = Overwrite(inflight)
          /\ overwritten' = (\/ overwritten \/ Len(r) > 1
                             \/ \E op \in ToSet(sq \o inflight) : IsSend(op))
        BY <2>1, <2>4 DEF Submit
    <2>6. QED
        BY <2>2, <2>3, <2>5
<1>6. ops \in Seq(AllOps) /\ (ops = <<>> \/ ops = <<c>>) /\ Len(ops) \in {0, 1}
    <2>1. <<>> \in Seq(AllOps) /\ Len(<<>>) = 0
        OBVIOUS
    <2>2. <<c>> \in Seq(AllOps) /\ Len(<<c>>) = 1
        BY <1>2
    <2>3. QED
        BY <1>1, <2>1, <2>2
<1>7. sq' = r \o ops /\ sq' \in Seq(AllOps) /\ Len(sq') = 2 + Len(ops)
    <2>1. <<s>> \o <<s>> = r
        BY <1>2, <1>3, Twice
    <2>2. Len(r) + Len(ops) <= QueueDepth /\ Len(r) <= QueueDepth
        <3>1. Len(ops) = 0 \/ Len(ops) = 1
            BY <1>6
        <3>2. QueueDepth \in Nat /\ QueueDepth >= 3 /\ Len(r) = 2
            BY <1>4, RoomForThree
        <3>3. PICK m, n : m = Len(r) /\ n = Len(ops)
            OBVIOUS
        <3>4. m + n <= QueueDepth /\ m <= QueueDepth
            BY <3>1, <3>2, <3>3
        <3>5. QED
            BY <3>3, <3>4
    <2>3. Prepared(r \o ops) = r \o ops
        BY <1>4, <1>6, <2>2, PreparedKeeps
    <2>4. ops \in Seq(AllOps)
        BY <1>6
    <2>5. sq' = r \o ops
        BY <1>5, <2>1, <2>3
    <2>6. r \o ops \in Seq(AllOps) /\ Len(r \o ops) = Len(r) + Len(ops)
        BY <1>4, <2>4, ConcatProperties
    <2>7. QED
        BY <1>4, <2>5, <2>6
<1>8. \A S : /\ None(sq', S) <=> None(r, S) /\ None(ops, S)
             /\ One(sq', S) <=> \/ One(r, S) /\ None(ops, S)
                                \/ None(r, S) /\ One(ops, S)
    BY <1>4, <1>6, <1>7, CountConcat
<1>9. None(r, Watches) /\ None(r, Beyond(conn))
    BY <1>2, <1>3 DEF None
<1>10. \A S : /\ ops = <<>> => None(ops, S) /\ ~One(ops, S)
              /\ ops # <<>> => (None(ops, S) <=> c \notin S) /\ (One(ops, S) <=> c \in S)
    BY <1>6, CountEmpty, CountSingle
<1>11. HasRoom(sq') /\ Len(sq') <= QueueDepth
    <2>1. CASE Len(ops) = 0
        BY <1>7, <2>1, RoomForThree DEF HasRoom
    <2>2. CASE Len(ops) = 1
        <3>1. DOMAIN ops = 1 .. 1 /\ ops = <<c>>
            BY <1>6, <2>2
        <3>2. sq'[2 + 1] = ops[1]
            BY <1>4, <1>6, <1>7, <3>1, ConcatElements
        <3>3. QED
            BY <1>2, <1>7, <2>2, <3>1, <3>2, RoomForThree DEF HasRoom
    <2>3. QED
        BY <1>6, <2>1, <2>2
<1>12. None(inflight', Beyond(conn))
    BY <1>5, OverwriteKeeps DEF LossInv, Queues
<1>13. /\ ops = <<>> => None(sq', Watches)
       /\ ops # <<>> => One(sq', Watches) /\ None(sq', Watches \ {c})
       /\ None(sq', Beyond(conn))
    <2>1. None(r, Watches \ {c})
        BY <1>9, NoneInFewer
    <2>2. QED
        BY <1>2, <1>8, <1>9, <1>10, <2>1
<1>14. QED
    BY <1>1, <1>5, <1>7, <1>11, <1>12, <1>13

LEMMA LossRecvNoBufs ==
    ASSUME LossInv, RecvNoBufs
    PROVE  LossInv'
<1>1. Head(cq) \in Results /\ Head(cq).op = "Recv" /\ Head(cq).res = "nobufs" /\ pc = "reap"
      /\ cq # <<>>
    BY Reaped DEF RecvNoBufs, Reaping
<1>2. Head(cq) \in EndResults
    BY <1>1 DEF EndResults, Ends, Watching, Results
<1>3. QED
    BY <1>1, <1>2, LossRearm DEF RecvNoBufs

LEMMA LossOtherData ==
    ASSUME LossInv, OtherData
    PROVE  LossInv'
<1>1. /\ Head(cq) \in Results /\ Head(cq).op = "Recv" /\ pc = "reap" /\ cq # <<>>
      /\ cq' = Tail(cq) /\ Submit(<<>>, Rearm(Head(cq)))
      /\ UNCHANGED <<use_tls, running, pc, phase, conn, due, connected, send_queue,
                     engineVars, server>>
    BY Reaped DEF OtherData, Reaping
<1>2. CASE ~Head(cq).more
    <2>1. Head(cq) \in EndResults
        BY <1>1, <1>2 DEF EndResults, Ends, Watching
    <2>2. QED
        BY <1>1, <1>2, <2>1, LossRearm DEF Rearm
<1>3. CASE Head(cq).more
    <2>1. Head(cq) \notin EndResults
        BY <1>3 DEF EndResults, Ends
    <2>2. Submit(<<>>, <<>>)
        BY <1>1, <1>3 DEF Rearm
    <2>3. /\ sq \in Seq(AllOps) /\ <<>> \in Seq(AllOps)
          /\ Len(sq) + Len(<<>>) <= QueueDepth
        <3>1. sq \in Seq(AllOps) /\ Len(sq) <= QueueDepth /\ Len(sq) \in Nat
            BY LenProperties DEF LossInv, Queues
        <3>2. QED
            BY <3>1
    <2>4. sq' = sq \o <<>> /\ UNCHANGED <<inflight, overwritten>>
        BY <2>2, <2>3, SubmitOps
    <2>5. sq' = sq
        BY <2>3, <2>4, ConcatEmptySeq
    <2>6. Tail(cq) \in Seq(Results) /\ conn # 0 /\ \A S : None(cq, S) => None(Tail(cq), S)
        BY <1>1, Reaped
    <2>7. Scalars'
        BY <1>1, <2>4 DEF LossInv, Scalars, engineVars
    <2>8. Queues'
        BY <1>1, <2>4, <2>5, <2>6 DEF LossInv, Queues
    <2>9. WatchInv'
        <3>1. TheOp' = TheOp
            BY <1>1 DEF TheOp
        <3>2. QED
            BY <1>1, <2>1, <2>4, <2>5, <3>1, WatchKept
    <2>10. RoomInv'
        BY <1>1, <2>4, <2>5 DEF LossInv, RoomInv
    <2>11. AskInv'
        BY <1>1, <2>4, <2>5, <2>6 DEF LossInv, AskInv, NotAsked, NoneAsks
    <2>12. QED
        BY <2>7, <2>8, <2>9, <2>10, <2>11 DEF LossInv
<1>4. QED
    BY <1>2, <1>3

LEMMA LossConnectSucceeds ==
    ASSUME LossInv, ConnectSucceeds
    PROVE  LossInv'
<1> DEFINE m == IF use_tls THEN Hello ELSE Upgrade
           c == Op("Recv", conn, Nothing)
<1>1. /\ Head(cq) \in Results /\ Head(cq).op = "Connect" /\ pc = "reap" /\ cq # <<>>
      /\ cq' = Tail(cq) /\ Submit(<<m>>, <<c>>)
      /\ phase' = (IF use_tls THEN "TlsHandshaking" ELSE "WsUpgrading")
      /\ UNCHANGED <<use_tls, running, pc, conn, due, connected, send_queue, engineVars, server>>
    BY Reaped DEF ConnectSucceeds, Reaping
<1>2. Head(cq) \in EndResults /\ Head(cq) \in WatchResults
    BY <1>1 DEF EndResults, WatchResults, Ends, Watching, Results
<1>3. /\ TheOp = "Connect" /\ conn \in 1 .. MaxConnections /\ Tail(cq) \in Seq(Results)
      /\ \A S : None(cq, S) => None(Tail(cq), S)
      /\ None(inflight, Watches)
    BY <1>1, <1>2, Reaped
<1>4. phase = "TcpConnecting" /\ sq = <<>> /\ NotAsked /\ NoneAsks /\ inflight \in Seq(AllOps)
    BY <1>1, <1>3 DEF TheOp, LossInv, RoomInv, AskInv, Queues
<1>5. m \in Messages
    BY DEF Messages
<1> HIDE DEF m
<1>6. PICK ops \in {<<>>, <<Op("Recv", conn, Nothing)>>} : ops = <<c>> /\ ops # <<>>
    OBVIOUS
<1>7. /\ sq' \in Seq(AllOps) /\ inflight' \in Seq(AllOps) /\ overwritten' \in BOOLEAN
      /\ Len(sq') <= QueueDepth /\ HasRoom(sq')
      /\ \A S : /\ None(sq', S) <=> Op("Send", conn, m) \notin S /\ None(ops, S)
                /\ One(sq', S) <=> \/ Op("Send", conn, m) \in S /\ None(ops, S)
                                   \/ Op("Send", conn, m) \notin S /\ One(ops, S)
      /\ inflight' = Overwrite(inflight)
      /\ One(sq', Watches) /\ None(sq', Watches \ {Op("Recv", conn, Nothing)})
      /\ None(sq', Beyond(conn)) /\ None(inflight', Beyond(conn))
    <2>1. Submit(<<m>>, ops)
        BY <1>1, <1>6
    <2>2. QED
        BY <1>3, <1>4, <1>5, <1>6, <2>1, SendsFirst
<1>8. /\ None(inflight, Watches) => None(inflight', Watches)
      /\ \A n : None(inflight, UpgradeOf(n)) => None(inflight', UpgradeOf(n))
    BY <1>4, <1>7, OverwriteKeeps
<1>9. Scalars'
    <2>1. connected = FALSE
        BY <1>4 DEF LossInv, Scalars
    <2>2. connected' = (phase' = "Connected" /\ pc' # "done")
        BY <1>1, <2>1
    <2>3. QED
        BY <1>1, <1>7, <2>2 DEF LossInv, Scalars, engineVars
<1>10. Queues'
    BY <1>1, <1>3, <1>7, RoomForThree, LenProperties DEF LossInv, Queues
<1>11. WatchInv'
    BY <1>1, <1>2, <1>7, <1>8, WatchRearmed
<1>12. RoomInv'
    BY <1>1, <1>7, NoneIsNotOne DEF RoomInv
<1>13. AskInv'
    <2>1. NotAsked' /\ None(inflight', UpgradeOf(conn))
        BY <1>1, <1>3, <1>4, <1>8 DEF NotAsked, NoneAsks
    <2>2. None(ops, UpgradeOf(conn))
        <3>1. c \notin UpgradeOf(conn)
            <4>1. Nothing \in Messages
                BY DEF Messages
            <4>2. c \notin Sends
                BY <1>3, <4>1, OpTypes
            <4>3. QED
                BY <4>2 DEF UpgradeOf
        <3>2. QED
            BY <1>6, <3>1, CountSingle
    <2>3. CASE use_tls
        <3>1. Op("Send", conn, m) \notin UpgradeOf(conn)
            BY <2>3 DEF m, UpgradeOf, Op, Hello, Upgrade, Message
        <3>2. QED
            BY <1>1, <1>7, <2>1, <2>2, <2>3, <3>1 DEF AskInv, NoneAsks
    <2>4. CASE ~use_tls
        <3>1. Op("Send", conn, m) \in UpgradeOf(conn)
            <4>1. Op("Send", conn, m) \in Sends
                BY <1>3, <1>5, OpTypes
            <4>2. QED
                BY <2>4, <4>1 DEF m, UpgradeOf, Op
        <3>2. QED
            BY <1>1, <1>7, <2>1, <2>2, <2>4, <3>1 DEF AskInv
    <2>5. QED
        BY <2>3, <2>4
<1>14. QED
    BY <1>9, <1>10, <1>11, <1>12, <1>13 DEF LossInv

LEMMA LossHandshaken ==
    ASSUME LossInv, Handshaken
    PROVE  LossInv'
<1> DEFINE u == Op("Send", conn, Upgrade)
<1>1. /\ Head(cq) \in Results /\ Head(cq).op = "Recv" /\ pc = "reap" /\ cq # <<>>
      /\ cq' = Tail(cq) /\ Submit(<<Upgrade>>, Rearm(Head(cq)))
      /\ phase = "TlsHandshaking" /\ phase' = "WsUpgrading"
      /\ UNCHANGED <<use_tls, running, pc, conn, due, connected, send_queue, engineVars, server>>
    BY Reaped DEF Handshaken, Reaping
<1>2. Head(cq) \in WatchResults
    BY <1>1 DEF WatchResults, Watching
<1>3. /\ conn \in 1 .. MaxConnections /\ Tail(cq) \in Seq(Results) /\ None(sq, Watches)
      /\ \A S : None(cq, S) => None(Tail(cq), S)
    BY <1>1, <1>2, Reaped
<1>4. sq = <<>> /\ NotAsked /\ NoneAsks /\ inflight \in Seq(AllOps)
    BY <1>1, <1>3 DEF LossInv, RoomInv, AskInv, Queues
<1>5. Upgrade \in Messages
    BY DEF Messages
<1>6. PICK ops \in {<<>>, <<Op("Recv", conn, Nothing)>>} : ops = Rearm(Head(cq))
    BY DEF Rearm
<1>7. /\ sq' \in Seq(AllOps) /\ inflight' \in Seq(AllOps) /\ overwritten' \in BOOLEAN
      /\ Len(sq') <= QueueDepth /\ HasRoom(sq')
      /\ \A S : /\ None(sq', S) <=> u \notin S /\ None(ops, S)
                /\ One(sq', S) <=> \/ u \in S /\ None(ops, S)
                                   \/ u \notin S /\ One(ops, S)
      /\ inflight' = Overwrite(inflight)
      /\ ops = <<>> => None(sq', Watches)
      /\ ops # <<>> => One(sq', Watches) /\ None(sq', Watches \ {Op("Recv", conn, Nothing)})
      /\ None(sq', Beyond(conn)) /\ None(inflight', Beyond(conn))
    <2>1. Submit(<<Upgrade>>, ops)
        BY <1>1, <1>6
    <2>2. QED
        BY <1>3, <1>4, <1>5, <2>1, SendsFirst
<1>8. /\ None(inflight', Watches) <=> None(inflight, Watches)
      /\ One(inflight', Watches) <=> One(inflight, Watches)
      /\ \A w : None(inflight, Watches \ {w}) => None(inflight', Watches \ {w})
      /\ \A n : None(inflight, UpgradeOf(n)) => None(inflight', UpgradeOf(n))
    BY <1>4, <1>7, OverwriteKeeps
<1>9. Scalars'
    <2>1. connected = FALSE
        BY <1>1 DEF LossInv, Scalars
    <2>2. connected' = (phase' = "Connected" /\ pc' # "done")
        BY <1>1, <2>1
    <2>3. QED
        BY <1>1, <1>7, <2>2 DEF LossInv, Scalars, engineVars
<1>10. Queues'
    BY <1>1, <1>3, <1>7, RoomForThree, LenProperties DEF LossInv, Queues
<1>11. WatchInv'
    <2>1. CASE Head(cq).more
        <3>1. Head(cq) \notin EndResults /\ ops = <<>>
            BY <1>6, <2>1 DEF EndResults, Ends, Rearm
        <3>2. None(sq', Watches) /\ \A w : None(sq', Watches \ {w})
            BY <1>7, <3>1, NoneInFewer
        <3>3. ~One(sq, Watches) /\ ~One(sq', Watches)
            BY <1>3, <3>2, NoneIsNotOne
        <3>4. TheOp' = TheOp
            BY <1>1 DEF TheOp
        <3>5. QED
            BY <1>1, <1>3, <1>8, <3>1, <3>2, <3>3, <3>4, WatchKept
    <2>2. CASE ~Head(cq).more
        <3>1. Head(cq) \in EndResults /\ ops # <<>>
            BY <1>1, <1>6, <2>2 DEF EndResults, Ends, Watching, Rearm
        <3>2. QED
            BY <1>1, <1>7, <1>8, <3>1, WatchRearmed
    <2>3. QED
        BY <2>1, <2>2
<1>12. u \in UpgradeOf(conn) /\ None(ops, UpgradeOf(conn))
    <2>1. /\ u \in Sends /\ Op("Recv", conn, Nothing) \notin Sends
        BY <1>3, <1>5, OpTypes
    <2>2. u \in UpgradeOf(conn) /\ Op("Recv", conn, Nothing) \notin UpgradeOf(conn)
        BY <2>1 DEF UpgradeOf, Op
    <2>3. QED
        BY <2>2, CountEmpty, CountSingle
<1>13. RoomInv'
    BY <1>1, <1>7, <1>12 DEF RoomInv
<1>14. AskInv'
    BY <1>1, <1>3, <1>4, <1>7, <1>8, <1>12 DEF AskInv, NotAsked, NoneAsks
<1>15. QED
    BY <1>9, <1>10, <1>11, <1>13, <1>14 DEF LossInv

LEMMA LossUpgraded ==
    ASSUME LossInv, Upgraded
    PROVE  LossInv'
<1>1. /\ Head(cq) \in Results /\ Head(cq).op = "Recv" /\ Head(cq).res = "upgraded" /\ pc = "reap"
      /\ cq # <<>> /\ phase = "WsUpgrading" /\ phase' = "Connected" /\ connected' = TRUE
      /\ pc' = "subscribe"
      /\ UNCHANGED <<use_tls, running, conn, due, sq, inflight, overwritten, cq, send_queue,
                     engineVars, server>>
    BY Reaped DEF Upgraded, Reaping, ringVars
<1>2. Head(cq) \in WatchResults /\ Head(cq) \in UpResults /\ cq \in Seq(Results)
    BY <1>1 DEF WatchResults, UpResults, Watching, LossInv, Queues
<1>3. None(sq, Watches) /\ conn # 0
    BY <1>1, <1>2, Reaped
<1>4. sq = <<>>
    <2>1. ~None(cq, UpResults)
        BY <1>1, <1>2, CountTail
    <2>2. None(sq, UpgradeOf(conn))
        BY <1>1, <2>1 DEF LossInv, AskInv, NotAsked, NoneAsks
    <2>3. QED
        BY <1>1, <1>3, <2>2 DEF LossInv, RoomInv
<1>5. Scalars'
    <2>1. connected' = (phase' = "Connected" /\ pc' # "done")
        BY <1>1
    <2>2. QED
        BY <1>1, <2>1 DEF LossInv, Scalars, engineVars
<1>6. Queues'
    BY <1>1, <1>3 DEF LossInv, Queues
<1>7. WatchInv'
    BY <1>1 DEF LossInv, WatchInv, WatchPrepared, WatchInFlight, WatchEnded, TheWatch,
                TheResults, TheOp
<1>8. RoomInv'
    BY <1>1, <1>4 DEF RoomInv, HasRoom
<1>9. AskInv'
    BY <1>1 DEF AskInv
<1>10. QED
    BY <1>5, <1>6, <1>7, <1>8, <1>9 DEF LossInv

\* What may be sent to subscribe: nothing, the message, or what is torn.
LEMMA SubscriptionType ==
    ASSUME subscriptions \subseteq Assets, NEW messages \in Subscription
    PROVE  /\ Message("subscribe", subscriptions) \in Messages
           /\ \/ messages = <<>> /\ (use_tls => subscriptions = {})
              \/ messages = <<Message("subscribe", subscriptions)>>
              \/ messages = <<Garbage, Garbage>>
BY DEF Messages, Message, Subscription, Cut

\* The queue after the subscription.
LEMMA Subscribes ==
    ASSUME LossInv, Subscribe
    PROVE  LET ops == Rearm(Head(cq)) IN
           /\ pc = "subscribe" /\ phase = "Connected" /\ sq = <<>> /\ cq # <<>>
           /\ Head(cq) \in Results /\ Head(cq).op = "Recv"
           /\ conn \in 1 .. MaxConnections
           /\ ops \in {<<>>, <<Op("Recv", conn, Nothing)>>}
           /\ Message("subscribe", subscriptions) \in Messages
           /\ \/ /\ use_tls => subscriptions = {}
                 /\ sq' = ops /\ UNCHANGED <<inflight, overwritten>>
              \/ Submit(<<Message("subscribe", subscriptions)>>, ops)
              \/ Submit(<<Garbage, Garbage>>, ops)
<1>1. /\ pc = "subscribe" /\ sq = <<>> /\ phase = "Connected"
      /\ cq # <<>> /\ Head(cq).op = "Recv"
    BY DEF Subscribe, LossInv, RoomInv
<1>2. Head(cq) \in Results /\ conn \in 1 .. MaxConnections
    BY <1>1, Reaped
<1>3. PICK ops \in {<<>>, <<Op("Recv", conn, Nothing)>>} : ops = Rearm(Head(cq))
    BY DEF Rearm
<1>4. PICK messages \in Subscription : Submit(messages, ops)
    BY <1>3 DEF Subscribe
<1>5. /\ Message("subscribe", subscriptions) \in Messages
      /\ \/ messages = <<>> /\ (use_tls => subscriptions = {})
         \/ messages = <<Message("subscribe", subscriptions)>>
         \/ messages = <<Garbage, Garbage>>
    BY SubscriptionType DEF LossInv, Scalars
<1>6. ASSUME messages = <<>> PROVE sq' = ops /\ UNCHANGED <<inflight, overwritten>>
    <2>1. Nothing \in Messages
        BY DEF Messages
    <2>2. Op("Recv", conn, Nothing) \in AllOps
        BY <1>2, <2>1, OpTypes
    <2>3. ops \in Seq(AllOps) /\ Len(ops) <= 1 /\ Len(ops) \in Nat
        <3>1. CASE ops = <<>>
            BY <3>1
        <3>2. CASE ops = <<Op("Recv", conn, Nothing)>>
            BY <2>2, <3>2
        <3>3. QED
            BY <3>1, <3>2
    <2>4. Submit(<<>>, ops)
        BY <1>4, <1>6
    <2>5. sq \in Seq(AllOps) /\ Len(sq) + Len(ops) <= QueueDepth
        BY <1>1, <2>3, RoomForThree
    <2>6. sq' = sq \o ops /\ UNCHANGED <<inflight, overwritten>>
        BY <2>3, <2>4, <2>5, SubmitOps
    <2>7. sq \o ops = ops
        BY <1>1, <2>3, ConcatEmptySeq
    <2>8. QED
        BY <2>6, <2>7
<1>7. QED
    BY <1>1, <1>2, <1>3, <1>4, <1>5, <1>6

LEMMA LossSubscribe ==
    ASSUME LossInv, Subscribe
    PROVE  LossInv'
<1>1. /\ pc = "subscribe" /\ phase = "Connected" /\ sq = <<>> /\ cq # <<>>
      /\ Head(cq) \in Results /\ Head(cq).op = "Recv" /\ conn \in 1 .. MaxConnections
      /\ Rearm(Head(cq)) \in {<<>>, <<Op("Recv", conn, Nothing)>>}
      /\ Message("subscribe", subscriptions) \in Messages
      /\ \/ sq' = Rearm(Head(cq)) /\ UNCHANGED <<inflight, overwritten>>
         \/ Submit(<<Message("subscribe", subscriptions)>>, Rearm(Head(cq)))
         \/ Submit(<<Garbage, Garbage>>, Rearm(Head(cq)))
    BY Subscribes
<1>2. /\ pc' = "reap" /\ cq' = Tail(cq)
      /\ UNCHANGED <<use_tls, running, phase, conn, due, connected, send_queue, engineVars, server>>
    BY DEF Subscribe
<1>3. PICK ops \in {<<>>, <<Op("Recv", conn, Nothing)>>} : ops = Rearm(Head(cq))
    BY <1>1
<1>4. /\ Tail(cq) \in Seq(Results) /\ inflight \in Seq(AllOps) /\ None(inflight, Beyond(conn))
      /\ overwritten \in BOOLEAN /\ \A S : None(cq, S) => None(Tail(cq), S)
    BY <1>1, Reaped DEF LossInv, Queues, Scalars
<1>5. /\ sq' \in Seq(AllOps) /\ inflight' \in Seq(AllOps) /\ overwritten' \in BOOLEAN
      /\ Len(sq') <= QueueDepth /\ HasRoom(sq')
      /\ None(inflight', Watches) <=> None(inflight, Watches)
      /\ One(inflight', Watches) <=> One(inflight, Watches)
      /\ \A w : None(inflight, Watches \ {w}) => None(inflight', Watches \ {w})
      /\ ops = <<>> => None(sq', Watches)
      /\ ops # <<>> => One(sq', Watches) /\ None(sq', Watches \ {Op("Recv", conn, Nothing)})
      /\ None(sq', Beyond(conn)) /\ None(inflight', Beyond(conn))
    <2>1. CASE \/ Submit(<<Message("subscribe", subscriptions)>>, ops)
               \/ Submit(<<Garbage, Garbage>>, ops)
        <3>1. PICK m \in Messages : Submit(<<m>>, ops) \/ Submit(<<Garbage, Garbage>>, ops)
            BY <1>1, <2>1
        <3>2. inflight' = Overwrite(inflight)
            BY <1>1, <3>1, SendsFirst, SendsTorn
        <3>3. /\ sq' \in Seq(AllOps) /\ overwritten' \in BOOLEAN
              /\ Len(sq') <= QueueDepth /\ HasRoom(sq')
              /\ ops = <<>> => None(sq', Watches)
              /\ ops # <<>> => One(sq', Watches) /\ None(sq', Watches \ {Op("Recv", conn, Nothing)})
              /\ None(sq', Beyond(conn)) /\ None(inflight', Beyond(conn))
            BY <1>1, <3>1, SendsFirst, SendsTorn
        <3>4. /\ inflight' \in Seq(AllOps)
              /\ None(inflight', Watches) <=> None(inflight, Watches)
              /\ One(inflight', Watches) <=> One(inflight, Watches)
              /\ \A w : None(inflight, Watches \ {w}) => None(inflight', Watches \ {w})
            BY <1>4, <3>2, OverwriteKeeps
        <3>5. QED
            BY <3>3, <3>4
    <2>2. CASE sq' = ops /\ UNCHANGED <<inflight, overwritten>>
        <3>1. Nothing \in Messages
            BY DEF Messages
        <3>2. PICK c : c = Op("Recv", conn, Nothing)
            OBVIOUS
        <3>3. c \in AllOps /\ c \in Watches /\ c \notin Beyond(conn)
            BY <1>1, <3>1, <3>2, OpTypes
        <3>4. sq' = ops /\ UNCHANGED <<inflight, overwritten>>
            BY <2>2
        <3>5. CASE ops = <<>>
            BY <1>4, <3>4, <3>5, CountEmpty, RoomForThree DEF HasRoom
        <3>6. CASE ops = <<c>>
            <4>1. ops \in Seq(AllOps) /\ Len(ops) = 1 /\ ops # <<>>
                BY <3>3, <3>6
            <4>2. One(ops, Watches) /\ None(ops, Watches \ {c}) /\ None(ops, Beyond(conn))
                BY <3>3, <3>6, CountSingle
            <4>3. QED
                BY <1>4, <3>2, <3>4, <4>1, <4>2, RoomForThree DEF HasRoom
        <3>7. QED
            BY <1>3, <3>2, <3>5, <3>6
    <2>3. QED
        BY <1>1, <1>3, <2>1, <2>2
<1>6. Scalars'
    <2>1. connected' = (phase' = "Connected" /\ pc' # "done")
        BY <1>1, <1>2 DEF LossInv, Scalars
    <2>2. QED
        BY <1>2, <1>5, <2>1 DEF LossInv, Scalars, engineVars
<1>7. Queues'
    BY <1>1, <1>2, <1>4, <1>5, RoomForThree, LenProperties DEF LossInv, Queues
<1>8. WatchInv'
    <2>1. CASE Head(cq).more
        <3>1. Head(cq) \notin EndResults /\ ops = <<>>
            BY <1>3, <2>1 DEF EndResults, Ends, Rearm
        <3>2. None(sq', Watches) /\ (\A w : None(sq', Watches \ {w})) /\ None(sq, Watches)
            BY <1>1, <1>5, <3>1, NoneInFewer, CountEmpty
        <3>3. ~One(sq, Watches) /\ ~One(sq', Watches)
            BY <3>2, NoneIsNotOne
        <3>4. TheOp' = TheOp
            BY <1>2 DEF TheOp
        <3>5. QED
            BY <1>1, <1>2, <1>5, <3>1, <3>2, <3>3, <3>4, WatchKept
    <2>2. CASE ~Head(cq).more
        <3>1. Head(cq) \in EndResults /\ ops # <<>>
            BY <1>1, <1>3, <2>2 DEF EndResults, Ends, Watching, Rearm
        <3>2. QED
            BY <1>1, <1>2, <1>5, <3>1, WatchRearmed
    <2>3. QED
        BY <2>1, <2>2
<1>9. RoomInv'
    BY <1>1, <1>2, <1>5 DEF RoomInv
<1>10. AskInv'
    BY <1>1, <1>2 DEF AskInv
<1>11. QED
    BY <1>6, <1>7, <1>8, <1>9, <1>10 DEF LossInv

-----------------------------------------------------------------------------
(* The kernel's steps.                                                     *)

\* An operation that is not of the watch completes, or the watch goes on.
LEMMA Completed ==
    ASSUME LossInv, NEW i \in DOMAIN inflight, NEW res, Complete(i, res),
           Event(inflight[i], res, FALSE) \in Results
    PROVE  LET e == Event(inflight[i], res, FALSE) IN
           /\ inflight[i] \in AllOps
           /\ inflight' \in Seq(AllOps) /\ cq' \in Seq(Results) /\ conn # 0
           /\ \A S : /\ None(inflight, S) => None(inflight', S)
                     /\ One(inflight, S) /\ inflight[i] \in S => None(inflight', S)
                     /\ One(inflight, S) /\ inflight[i] \notin S => One(inflight', S)
                     /\ None(cq', S) <=> None(cq, S) /\ e \notin S
                     /\ One(cq', S) <=> \/ One(cq, S) /\ e \notin S
                                        \/ None(cq, S) /\ e \in S
           /\ EndIsLast(cq) => (e \notin WatchResults \/ None(cq, EndResults) => EndIsLast(cq'))
<1>1. /\ inflight \in Seq(AllOps) /\ cq \in Seq(Results)
      /\ (conn = 0 => inflight = <<>>)
    BY DEF LossInv, Queues
<1>2. inflight[i] \in AllOps /\ conn # 0
    BY <1>1, ElementOfSeq, LenProperties
<1>3. /\ inflight' = RemoveAt(inflight, i)
      /\ cq' = Append(cq, Event(inflight[i], res, FALSE))
    BY DEF Complete
<1>4. \A S : /\ inflight' \in Seq(AllOps)
             /\ None(inflight, S) => None(inflight', S)
             /\ One(inflight, S) /\ inflight[i] \in S => None(inflight', S)
             /\ One(inflight, S) /\ inflight[i] \notin S => One(inflight', S)
    BY <1>1, <1>3, CountRemoved
<1>5. PICK e \in Results : e = Event(inflight[i], res, FALSE)
    OBVIOUS
<1>6. \A S : /\ cq' \in Seq(Results)
             /\ None(cq', S) <=> None(cq, S) /\ e \notin S
             /\ One(cq', S) <=> \/ One(cq, S) /\ e \notin S
                                \/ None(cq, S) /\ e \in S
    <2>1. cq' = Append(cq, e)
        BY <1>3, <1>5
    <2>2. ASSUME NEW S
          PROVE  /\ Append(cq, e) \in Seq(Results)
                 /\ None(Append(cq, e), S) <=> None(cq, S) /\ e \notin S
                 /\ One(Append(cq, e), S) <=> \/ One(cq, S) /\ e \notin S
                                              \/ None(cq, S) /\ e \in S
        BY <1>1, CountAppend
    <2>3. QED
        BY <2>1, <2>2
<1>7. EndIsLast(cq) => (e \notin WatchResults \/ None(cq, EndResults) => EndIsLast(cq'))
    BY <1>1, <1>3, <1>5, EndIsLastKept
<1>8. QED
    BY <1>2, <1>4, <1>5, <1>6, <1>7

\* All of LossInv but for what the server was asked.
LEMMA LossCompleted ==
    ASSUME LossInv, pc # "done", NEW i \in DOMAIN inflight, NEW res, Complete(i, res),
           Event(inflight[i], res, FALSE) \in Results, server' \in ServerType,
           UNCHANGED <<use_tls, running, pc, phase, conn, due, connected, send_queue, engineVars>>
    PROVE  Scalars' /\ Queues' /\ WatchInv' /\ RoomInv'
<1>1. PICK e \in Results : e = Event(inflight[i], res, FALSE)
    OBVIOUS
<1>2. /\ inflight[i] \in AllOps
      /\ inflight' \in Seq(AllOps) /\ cq' \in Seq(Results) /\ conn # 0
      /\ \A S : /\ None(inflight, S) => None(inflight', S)
                /\ One(inflight, S) /\ inflight[i] \in S => None(inflight', S)
                /\ One(inflight, S) /\ inflight[i] \notin S => One(inflight', S)
                /\ None(cq', S) <=> None(cq, S) /\ e \notin S
                /\ One(cq', S) <=> \/ One(cq, S) /\ e \notin S
                                   \/ None(cq, S) /\ e \in S
      /\ EndIsLast(cq) => (e \notin WatchResults \/ None(cq, EndResults) => EndIsLast(cq'))
    BY <1>1, Completed
<1>3. e.op = inflight[i].op /\ e.conn = inflight[i].conn /\ e.more = FALSE
    BY <1>1 DEF Event
<1>4. UNCHANGED <<sq, overwritten>> /\ cq' = Append(cq, e)
    BY <1>1 DEF Complete
<1>5. Scalars'
    BY <1>4 DEF LossInv, Scalars, ServerType, engineVars
<1>6. Queues'
    BY <1>2, <1>4 DEF LossInv, Queues
<1>7. RoomInv'
    <2>1. cq # <<>> => cq' # <<>> /\ Head(cq') = Head(cq)
        <3>1. cq \in Seq(Results) /\ e \in Results
            BY DEF LossInv, Queues
        <3>2. QED
            BY <1>4, <3>1, HeadTailAppend, AppendProperties
    <2>2. QED
        BY <1>4, <2>1 DEF LossInv, RoomInv
<1>8. TheWatch' = TheWatch /\ TheResults' = TheResults
    BY DEF TheWatch, TheResults, TheOp
<1>9. CASE inflight[i] \notin Watches
    <2>1. e \notin WatchResults /\ e \notin EndResults
        BY <1>2, <1>3, <1>9 DEF WatchResults, EndResults, Watches, Ends, Watching
    <2>2. WatchInv'
        BY <1>2, <1>4, <1>8, <1>9, <2>1, NoneIsNotOne
        DEF LossInv, WatchInv, WatchPrepared, WatchInFlight, WatchEnded
    <2>3. QED
        BY <1>5, <1>6, <1>7, <2>2
<1>10. CASE inflight[i] \in Watches
    <2>1. ~None(inflight, Watches)
        BY <1>10 DEF None
    <2>2. /\ phase # "Disconnected" /\ None(sq, Watches) /\ One(inflight, Watches)
          /\ None(cq, EndResults) /\ None(sq, Watches \ {TheWatch})
          /\ None(inflight, Watches \ {TheWatch}) /\ None(cq, WatchResults \ TheResults)
          /\ EndIsLast(cq)
        BY <2>1 DEF LossInv, WatchInv, WatchPrepared, WatchInFlight, WatchEnded
    <2>3. inflight[i] = TheWatch
        BY <1>10, <2>2 DEF None
    <2>4. e \in EndResults /\ e \in TheResults
        <3>1. e.op = TheOp /\ e.conn = conn /\ TheOp \in {"Connect", "Recv"}
            BY <1>3, <2>3 DEF TheWatch, Op, TheOp
        <3>2. QED
            BY <1>3, <3>1 DEF EndResults, TheResults, WatchResults, Ends, Watching
    <2>5. WatchEnded' /\ None(cq', WatchResults \ TheResults') /\ EndIsLast(cq')
        BY <1>2, <1>4, <1>8, <1>10, <2>2, <2>4 DEF WatchEnded
    <2>6. WatchInv'
        BY <1>2, <1>4, <1>8, <2>2, <2>5 DEF WatchInv
    <2>7. QED
        BY <1>5, <1>6, <1>7, <2>6
<1>11. QED
    BY <1>9, <1>10

LEMMA LossConnectCompletes ==
    ASSUME LossInv, ConnectCompletes
    PROVE  LossInv'
<1>1. PICK i \in DOMAIN inflight, res \in {"ok", "error"} :
          /\ Pending(i, "Connect") /\ Complete(i, res)
          /\ server' = IF res = "ok" THEN [NoServer EXCEPT !.stage = "accepted"] ELSE server
    BY DEF ConnectCompletes
<1>2. /\ UNCHANGED <<use_tls, running, pc, phase, conn, due, connected, send_queue, engineVars>>
      /\ pc # "done" /\ inflight[i].op = "Connect"
    BY <1>1 DEF ConnectCompletes, Pending, Live
<1>3. Event(inflight[i], res, FALSE) \in Results
    <2>1. inflight[i] \in AllOps
        BY ElementOfSeq, LenProperties DEF LossInv, Queues
    <2>2. QED
        BY <1>2, <2>1 DEF Event, Results, AllOps, Ops
<1>4. server' \in ServerType
    BY <1>1 DEF LossInv, Scalars, ServerType, NoServer
<1>5. Scalars' /\ Queues' /\ WatchInv' /\ RoomInv'
    BY <1>1, <1>2, <1>3, <1>4, LossCompleted
<1>6. AskInv'
    <2>1. Event(inflight[i], res, FALSE) \notin UpResults
        BY <1>1 DEF Event, UpResults
    <2>2. /\ inflight[i] \notin UpgradeOf(conn)
          /\ None(inflight, UpgradeOf(conn)) => None(inflight', UpgradeOf(conn))
          /\ One(inflight, UpgradeOf(conn)) => One(inflight', UpgradeOf(conn))
        <3>1. inflight[i] \notin UpgradeOf(conn)
            BY <1>2 DEF UpgradeOf, Sends, IsSend
        <3>2. QED
            BY <1>1, <1>3, <3>1, Completed
    <2>3. NotAsked => NotAsked'
        BY <1>1, <1>3, <2>1, Completed DEF NotAsked, NoServer
    <2>4. sq' = sq
        BY <1>1 DEF Complete
    <2>5. QED
        BY <1>2, <2>2, <2>3, <2>4 DEF LossInv, AskInv, NoneAsks
<1>7. QED
    BY <1>5, <1>6 DEF LossInv

LEMMA LossRecvStops ==
    ASSUME LossInv, RecvStops
    PROVE  LossInv'
<1>1. PICK i \in DOMAIN inflight, res \in {"end", "nobufs"} :
          /\ Pending(i, "Recv") /\ Complete(i, res)
          /\ server' = IF res = "end" THEN NoServer ELSE server
    BY DEF RecvStops
<1>2. /\ UNCHANGED <<use_tls, running, pc, phase, conn, due, connected, send_queue, engineVars>>
      /\ pc # "done" /\ inflight[i].op = "Recv"
    BY <1>1 DEF RecvStops, Pending, Live
<1>3. Event(inflight[i], res, FALSE) \in Results
    <2>1. inflight[i] \in AllOps
        BY ElementOfSeq, LenProperties DEF LossInv, Queues
    <2>2. QED
        BY <1>2, <2>1 DEF Event, Results, AllOps, Ops
<1>4. server' \in ServerType
    BY <1>1 DEF LossInv, Scalars, ServerType, NoServer
<1>5. Scalars' /\ Queues' /\ WatchInv' /\ RoomInv'
    BY <1>1, <1>2, <1>3, <1>4, LossCompleted
<1>6. AskInv'
    <2>1. Event(inflight[i], res, FALSE) \notin UpResults
        BY <1>1 DEF Event, UpResults
    <2>2. /\ inflight[i] \notin UpgradeOf(conn)
          /\ None(inflight, UpgradeOf(conn)) => None(inflight', UpgradeOf(conn))
          /\ One(inflight, UpgradeOf(conn)) => One(inflight', UpgradeOf(conn))
        <3>1. inflight[i] \notin UpgradeOf(conn)
            BY <1>2 DEF UpgradeOf, Sends, IsSend
        <3>2. QED
            BY <1>1, <1>3, <3>1, Completed
    <2>3. NotAsked => NotAsked'
        BY <1>1, <1>3, <2>1, Completed DEF NotAsked, NoServer
    <2>4. sq' = sq
        BY <1>1 DEF Complete
    <2>5. QED
        BY <1>2, <2>2, <2>3, <2>4 DEF LossInv, AskInv, NoneAsks
<1>7. QED
    BY <1>5, <1>6 DEF LossInv

\* The server is asked to upgrade by the message that says so.
LEMMA AskedByUpgrade ==
    ASSUME NEW s \in ServerType, NEW m \in Messages
    PROVE  /\ Receives(s, m) \in ServerType
           /\ m # Upgrade /\ s.stage \notin {"asked", "open", "refused"} =>
                 Receives(s, m).stage \notin {"asked", "open", "refused"}
<1>1. m # Upgrade => m.kind # "upgrade"
    BY DEF Messages, Garbage, Nothing, Hello, Upgrade, Keepalive, Message
<1>2. m.kind \in {"subscribe", "unsubscribe"} => m.assets \subseteq Assets
    BY DEF Messages, Garbage, Nothing, Hello, Upgrade, Keepalive, Message
<1>3. s.subs \subseteq Assets
    BY DEF ServerType
<1>4. CASE m.kind = "subscribe"
    BY <1>2, <1>3, <1>4 DEF Receives, ServerType
<1>5. CASE m.kind = "unsubscribe"
    BY <1>2, <1>3, <1>5 DEF Receives, ServerType
<1>6. CASE m.kind \notin {"subscribe", "unsubscribe"}
    BY <1>1, <1>6 DEF Receives, ServerType
<1>7. QED
    BY <1>4, <1>5, <1>6

LEMMA LossSendCompletes ==
    ASSUME LossInv, SendCompletes
    PROVE  LossInv'
<1>1. PICK i \in DOMAIN inflight :
          /\ Pending(i, "Send")
          /\ \/ /\ inflight[i].conn = conn /\ server.stage \notin {"gone", "broken"}
                /\ Complete(i, "ok") /\ server' = Receives(server, inflight[i].data)
             \/ Complete(i, "error") /\ UNCHANGED server
    BY DEF SendCompletes
<1>2. PICK res \in {"ok", "error"} :
          /\ Complete(i, res)
          /\ \/ inflight[i].conn = conn /\ server' = Receives(server, inflight[i].data)
             \/ UNCHANGED server
    BY <1>1
<1>3. /\ UNCHANGED <<use_tls, running, pc, phase, conn, due, connected, send_queue, engineVars>>
      /\ pc # "done" /\ inflight[i].op = "Send"
    BY <1>1 DEF SendCompletes, Pending, Live
<1>4. inflight[i] \in AllOps
    BY ElementOfSeq, LenProperties DEF LossInv, Queues
<1>5. Event(inflight[i], res, FALSE) \in Results
    BY <1>3, <1>4 DEF Event, Results, AllOps, Ops
<1>6. inflight[i].data \in Messages /\ inflight[i] \in Sends
    BY <1>3, <1>4 DEF AllOps, Ops, Sends, IsSend
<1>7. server \in ServerType
    BY DEF LossInv, Scalars
<1>8. server' \in ServerType
    BY <1>2, <1>6, <1>7, AskedByUpgrade
<1>9. Scalars' /\ Queues' /\ WatchInv' /\ RoomInv'
    BY <1>2, <1>3, <1>5, <1>8, LossCompleted
<1>10. AskInv'
    <2>1. Event(inflight[i], res, FALSE) \notin UpResults
        BY <1>2 DEF Event, UpResults
    <2>2. NotAsked /\ inflight[i] \notin UpgradeOf(conn) => NotAsked'
        <3> SUFFICES ASSUME NotAsked, inflight[i] \notin UpgradeOf(conn) PROVE NotAsked'
            OBVIOUS
        <3>1. None(cq', UpResults)
            BY <1>2, <1>5, <2>1, Completed DEF NotAsked
        <3>2. inflight[i].conn = conn => inflight[i].data # Upgrade
            BY <1>6 DEF UpgradeOf
        <3>3. server'.stage \notin {"asked", "open", "refused"}
            BY <1>2, <1>6, <1>7, <3>2, AskedByUpgrade DEF NotAsked
        <3>4. QED
            BY <3>1, <3>3 DEF NotAsked
    <2>3. /\ None(inflight, UpgradeOf(conn)) => /\ None(inflight', UpgradeOf(conn))
                                                /\ inflight[i] \notin UpgradeOf(conn)
          /\ One(inflight, UpgradeOf(conn)) => IF inflight[i] \in UpgradeOf(conn)
                                                 THEN None(inflight', UpgradeOf(conn))
                                                 ELSE One(inflight', UpgradeOf(conn))
        BY <1>2, <1>5, Completed DEF None
    <2>4. sq' = sq
        BY <1>2 DEF Complete
    <2>5. QED
        BY <1>3, <2>2, <2>3, <2>4 DEF LossInv, AskInv, NoneAsks
<1>11. QED
    BY <1>9, <1>10 DEF LossInv

LEMMA LossRecvCompletes ==
    ASSUME LossInv, RecvCompletes
    PROVE  LossInv'
<1>1. PICK i \in DOMAIN inflight, answer \in Answers, more \in BOOLEAN :
          /\ Pending(i, "Recv") /\ inflight[i].conn = conn
          /\ server.stage = answer[1] /\ server' = [server EXCEPT !.stage = answer[3]]
          /\ cq' = Append(cq, Event(inflight[i], answer[2], more))
          /\ inflight' = IF more THEN inflight ELSE RemoveAt(inflight, i)
          /\ UNCHANGED <<sq, overwritten>>
    BY DEF RecvCompletes
<1>2. /\ UNCHANGED <<use_tls, running, pc, phase, conn, due, connected, send_queue, engineVars>>
      /\ pc # "done" /\ inflight[i].op = "Recv"
    BY <1>1 DEF RecvCompletes, Pending, Live
<1>3. PICK e : e = Event(inflight[i], answer[2], more)
    OBVIOUS
<1>4. /\ inflight \in Seq(AllOps) /\ cq \in Seq(Results) /\ inflight[i] \in AllOps
      /\ (conn = 0 => inflight = <<>>)
    BY ElementOfSeq, LenProperties DEF LossInv, Queues
<1>5. e \in Results /\ e.op = "Recv" /\ e.more = more /\ e.conn = conn /\ e.res = answer[2]
    <2>1. answer[2] \in {"finished", "upgraded", "rejected", "bytes"}
        BY DEF Answers
    <2>2. QED
        BY <1>1, <1>2, <1>3, <1>4, <2>1 DEF Event, Results, AllOps, Ops
<1>6. server' \in ServerType
    BY <1>1, SMTT(30) DEF LossInv, Scalars, ServerType, Answers
<1>7. /\ cq' = Append(cq, e) /\ cq' \in Seq(Results)
      /\ \A S : None(cq', S) <=> None(cq, S) /\ e \notin S
    <2>1. cq' = Append(cq, e)
        BY <1>1, <1>3
    <2>2. ASSUME NEW S
          PROVE  /\ Append(cq, e) \in Seq(Results)
                 /\ None(Append(cq, e), S) <=> None(cq, S) /\ e \notin S
        BY <1>4, <1>5, CountAppend
    <2>3. QED
        BY <2>1, <2>2
<1>8. Scalars' /\ Queues' /\ WatchInv' /\ RoomInv'
    <2>1. CASE ~more
        <3>1. Complete(i, answer[2]) /\ Event(inflight[i], answer[2], FALSE) \in Results
            BY <1>1, <1>3, <1>5, <2>1 DEF Complete
        <3>2. QED
            BY <1>2, <1>6, <3>1, LossCompleted
    <2>2. CASE more
        <3>1. inflight' = inflight /\ UNCHANGED <<sq, overwritten>>
            BY <1>1, <2>2
        <3>2. Scalars'
            BY <1>2, <1>6, <3>1 DEF LossInv, Scalars, engineVars
        <3>3. Queues'
            BY <1>2, <1>4, <1>7, <3>1 DEF LossInv, Queues
        <3>4. RoomInv'
            <4>1. cq # <<>> => cq' # <<>> /\ Head(cq') = Head(cq)
                BY <1>4, <1>5, <1>7, HeadTailAppend, AppendProperties
            <4>2. QED
                BY <1>2, <3>1, <4>1 DEF LossInv, RoomInv
        <3>5. inflight[i] \in Watches /\ e \in WatchResults /\ e \notin EndResults
            BY <1>2, <1>4, <1>5, <2>2 DEF Watches, Watching, WatchResults, EndResults, Ends
        <3>6. ~None(inflight, Watches)
            BY <3>5 DEF None
        <3>7. /\ phase # "Disconnected" /\ None(sq, Watches) /\ One(inflight, Watches)
              /\ None(cq, EndResults) /\ None(sq, Watches \ {TheWatch})
              /\ None(inflight, Watches \ {TheWatch}) /\ None(cq, WatchResults \ TheResults)
              /\ EndIsLast(cq)
            BY <1>2, <3>6 DEF LossInv, WatchInv, WatchPrepared, WatchInFlight, WatchEnded
        <3>8. inflight[i] = TheWatch
            BY <3>5, <3>7 DEF None
        <3>9. e \in TheResults
            BY <1>2, <1>5, <3>5, <3>8 DEF TheResults, TheWatch, Op
        <3>10. TheWatch' = TheWatch /\ TheResults' = TheResults
            BY <1>2 DEF TheWatch, TheResults, TheOp
        <3>11. EndIsLast(cq')
            BY <1>4, <1>5, <1>7, <3>7, EndIsLastKept
        <3>12. WatchInv'
            BY <1>2, <1>7, <3>1, <3>5, <3>7, <3>9, <3>10, <3>11 DEF WatchInv, WatchInFlight
        <3>13. QED
            BY <3>2, <3>3, <3>4, <3>12
    <2>3. QED
        BY <2>1, <2>2
<1>9. AskInv'
    <2>1. NotAsked => NotAsked'
        <3> SUFFICES ASSUME NotAsked PROVE NotAsked'
            OBVIOUS
        <3>1. answer[3] \notin {"asked", "open", "refused"} /\ answer[2] # "upgraded"
            BY <1>1 DEF NotAsked, Answers
        <3>2. server'.stage = answer[3]
            BY <1>1 DEF LossInv, Scalars, ServerType
        <3>3. e \notin UpResults
            BY <1>5, <3>1 DEF UpResults
        <3>4. QED
            BY <1>7, <3>1, <3>2, <3>3 DEF NotAsked
    <2>2. /\ None(inflight, UpgradeOf(conn)) => None(inflight', UpgradeOf(conn))
          /\ One(inflight, UpgradeOf(conn)) => One(inflight', UpgradeOf(conn))
        <3>1. inflight[i] \notin UpgradeOf(conn)
            BY <1>2 DEF UpgradeOf, Sends, IsSend
        <3>2. CASE more
            BY <1>1, <3>2
        <3>3. CASE ~more
            BY <1>1, <1>4, <3>1, <3>3, CountRemoved
        <3>4. QED
            BY <3>2, <3>3
    <2>3. QED
        BY <1>1, <1>2, <2>1, <2>2 DEF LossInv, AskInv, NoneAsks
<1>10. QED
    BY <1>8, <1>9 DEF LossInv

-----------------------------------------------------------------------------

LEMMA LossNext ==
    ASSUME LossInv, [Next]_vars
    PROVE  LossInv'
BY LossIdle, LossConnects, LossDrain, LossCleanup, LossPing, LossSubmitAll, LossSubscribe,
   LossConnectFails, LossConnectSucceeds, LossRecvEnds, LossRecvNoBufs, LossHandshaken,
   LossUpgraded, LossOtherData, LossSendDone,
   LossConnectCompletes, LossSendCompletes, LossRecvCompletes, LossRecvStops
DEF Next, Loop, Reap, Kernel, Engine

LEMMA LossAlways == Spec => []LossInv
<1>1. Init => LossInv
    BY LossInit
<1>2. LossInv /\ [Next]_vars => LossInv'
    BY LossNext
<1>3. QED
    BY <1>1, <1>2, PTL DEF Spec

LEMMA LossTypes ==
    ASSUME LossInv
    PROVE  TypeOK
<1>1. /\ sq \in Seq(AllOps) /\ inflight \in Seq(AllOps) /\ send_queue \in Seq(Messages)
      /\ Len(sq) <= QueueDepth /\ server \in ServerType /\ request \in Messages
    BY DEF LossInv, Scalars, Queues
<1>2. ToSet(sq \o inflight) \subseteq Ops({"Connect", "Recv", "Send"}, Messages)
    <2>1. PICK c \in Seq(AllOps) : c = sq \o inflight
        BY <1>1, ConcatProperties
    <2>2. \A i \in DOMAIN c : c[i] \in AllOps
        BY <2>1, ElementOfSeq, LenProperties
    <2>3. QED
        BY <2>1, <2>2 DEF ToSet, AllOps
<1>3. ToSet(send_queue) \cup {request} \subseteq Messages
    <2>1. \A i \in DOMAIN send_queue : send_queue[i] \in Messages
        BY <1>1, ElementOfSeq, LenProperties
    <2>2. QED
        BY <1>1, <2>1 DEF ToSet
<1>4. /\ server.stage \in {"gone", "accepted", "greeted", "secure", "asked", "open", "refused",
                           "broken"}
      /\ server.subs \subseteq Assets
    BY <1>1 DEF ServerType
<1>5. QED
    BY <1>1, <1>2, <1>3, <1>4 DEF LossInv, Scalars, TypeOK

\* The positions of what watches are counted.
LEMMA LossNoticed ==
    ASSUME LossInv
    PROVE  LossIsNoticed
<1> SUFFICES ASSUME pc # "done"
             PROVE  IF phase = "Disconnected"
                      THEN Watchers = {}
                      ELSE \E w \in Watchers :
                              /\ Watchers = {w} /\ Watcher(w).conn = conn
                              /\ Watcher(w).op = IF phase = "TcpConnecting" THEN "Connect" ELSE "Recv"
    BY DEF LossIsNoticed
<1> DEFINE A == {<<"sq", i>> : i \in {j \in DOMAIN sq : Watching(sq[j])}}
           B == {<<"inflight", i>> : i \in {j \in DOMAIN inflight : Watching(inflight[j])}}
           C == {<<"cq", i>> : i \in {j \in DOMAIN cq : Ends(cq[j])}}
<1>1. Watchers = A \cup B \cup C
    BY DEF Watchers
<1>2. /\ \A i \in DOMAIN sq : sq[i] \in AllOps
      /\ \A i \in DOMAIN inflight : inflight[i] \in AllOps
      /\ \A i \in DOMAIN cq : cq[i] \in Results
    BY ElementOfSeq, LenProperties DEF LossInv, Queues
<1>3. /\ \A i \in DOMAIN sq : Watching(sq[i]) <=> sq[i] \in Watches
      /\ \A i \in DOMAIN inflight : Watching(inflight[i]) <=> inflight[i] \in Watches
      /\ \A i \in DOMAIN cq : Ends(cq[i]) <=> cq[i] \in EndResults
    BY <1>2 DEF Watches, EndResults
<1>4. /\ None(sq, Watches) => A = {}
      /\ None(inflight, Watches) => B = {}
      /\ None(cq, EndResults) => C = {}
    BY <1>3 DEF None
<1>5. WatchInv
    BY DEF LossInv
<1>6. CASE phase = "Disconnected"
    <2>1. None(sq, Watches) /\ None(inflight, Watches) /\ None(cq, WatchResults)
        BY <1>5, <1>6 DEF WatchInv
    <2>2. None(cq, EndResults)
        <3>1. EndResults \subseteq WatchResults
            BY DEF EndResults, WatchResults, Ends
        <3>2. QED
            BY <2>1, <3>1, NoneInFewer
    <2>3. QED
        BY <1>1, <1>4, <1>6, <2>1, <2>2
<1>7. CASE phase # "Disconnected"
    <2>1. /\ WatchPrepared \/ WatchInFlight \/ WatchEnded
          /\ None(sq, Watches \ {TheWatch}) /\ None(inflight, Watches \ {TheWatch})
          /\ None(cq, WatchResults \ TheResults)
        BY <1>5, <1>7 DEF WatchInv
    <2>2. TheWatch.op = TheOp /\ TheWatch.conn = conn
        BY DEF TheWatch, Op
    <2>3. CASE WatchPrepared
        <3>1. B = {} /\ C = {}
            <4>1. EndResults \subseteq WatchResults
                BY DEF EndResults, WatchResults, Ends
            <4>2. QED
                BY <1>4, <2>3, <4>1, NoneInFewer DEF WatchPrepared
        <3>2. PICK i \in DOMAIN sq : sq[i] \in Watches /\ \A j \in DOMAIN sq : sq[j] \in Watches => j = i
            BY <2>3 DEF WatchPrepared, One
        <3>3. A = {<<"sq", i>>}
            BY <1>3, <3>2
        <3>4. sq[i] = TheWatch
            BY <2>1, <3>2 DEF None
        <3>5. Watcher(<<"sq", i>>) = sq[i]
            BY DEF Watcher
        <3>6. QED
            BY <1>1, <1>7, <2>2, <3>1, <3>3, <3>4, <3>5 DEF TheOp
    <2>4. CASE WatchInFlight
        <3>1. A = {} /\ C = {}
            BY <1>4, <2>4 DEF WatchInFlight
        <3>2. PICK i \in DOMAIN inflight :
                  inflight[i] \in Watches /\ \A j \in DOMAIN inflight : inflight[j] \in Watches => j = i
            BY <2>4 DEF WatchInFlight, One
        <3>3. B = {<<"inflight", i>>}
            BY <1>3, <3>2
        <3>4. inflight[i] = TheWatch
            BY <2>1, <3>2 DEF None
        <3>5. Watcher(<<"inflight", i>>) = inflight[i]
            BY DEF Watcher
        <3>6. QED
            BY <1>1, <1>7, <2>2, <3>1, <3>3, <3>4, <3>5 DEF TheOp
    <2>5. CASE WatchEnded
        <3>1. A = {} /\ B = {}
            BY <1>4, <2>5 DEF WatchEnded
        <3>2. PICK i \in DOMAIN cq :
                  cq[i] \in EndResults /\ \A j \in DOMAIN cq : cq[j] \in EndResults => j = i
            BY <2>5 DEF WatchEnded, One
        <3>3. C = {<<"cq", i>>}
            BY <1>3, <3>2
        <3>4. cq[i].op = TheOp /\ cq[i].conn = conn
            BY <2>1, <3>2 DEF None, TheResults, EndResults, WatchResults, Ends
        <3>5. Watcher(<<"cq", i>>) = cq[i]
            BY DEF Watcher
        <3>6. QED
            BY <1>1, <1>7, <3>1, <3>3, <3>4, <3>5 DEF TheOp
    <2>6. QED
        BY <2>1, <2>3, <2>4, <2>5
<1>8. QED
    BY <1>6, <1>7

\* The types of IoUringWS, and the queue for submissions never holds more
\* than io_uring_queue_depth.
THEOREM IoUringTypes == Spec => []TypeOK
<1>1. LossInv => TypeOK
    BY LossTypes
<1>2. QED
    BY <1>1, LossAlways, PTL

\* While the socket is open exactly one operation of its connection will tell
\* its end, and none when there is no socket.
THEOREM EveryLossIsNoticed == Spec => []LossIsNoticed
<1>1. LossInv => LossIsNoticed
    BY LossNoticed
<1>2. QED
    BY <1>1, LossAlways, PTL

-----------------------------------------------------------------------------
(* AgreeInv holds at first and after every step.                           *)

LEMMA SendSets ==
    ASSUME NEW n
    PROVE  /\ Sends \ Own(n) \subseteq Sends /\ Sends \ UpgradeOf(n) \subseteq Sends
           /\ Own(n) \subseteq Sends /\ UpgradeOf(n) \subseteq Own(n)
           /\ \A kind, a : Changes(n, kind, a) \subseteq Sends
<1>1. Upgrade # Garbage
    BY DEF Upgrade, Garbage, Message
<1>2. QED
    BY <1>1 DEF Own, UpgradeOf, Changes

\* The steps that leave the sends and the connection as they are.
LEMMA AgreeKept ==
    ASSUME AgreeInv, pc # "done", UNCHANGED <<use_tls, phase, conn, overwritten, engineVars, send_queue>>,
           (pc' = "subscribe") = (pc = "subscribe"),
           \A S : S \subseteq Sends => /\ None(sq', S) <=> None(sq, S)
                                       /\ One(sq', S) <=> One(sq, S)
                                       /\ None(inflight', S) <=> None(inflight, S)
                                       /\ One(inflight', S) <=> One(inflight, S),
           server'.subs = server.subs \/ (server'.subs = {} /\ server'.stage = "gone")
              \/ (server'.subs = {} /\ phase # "Connected"),
           server'.stage \notin {"gone", "broken"} =>
              server.stage \notin {"gone", "broken"} \/ phase # "Connected"
    PROVE  AgreeInv'
<1>1. RequestInv'
    BY DEF AgreeInv, RequestInv, Agrees, engineVars
<1>2. \A kind, a : OnItsWay(kind, a)' <=> OnItsWay(kind, a)
    BY SendSets DEF OnItsWay
<1>3. OneSendInv'
    BY SendSets DEF AgreeInv, OneSendInv
<1>4. FreshInv'
    BY <1>2 DEF AgreeInv, FreshInv
<1>5. ServedInv'
    <2> SUFFICES ASSUME Serving', NEW a \in Assets
                 PROVE  Queued(a)' \/ WillServe(a)'
        BY DEF ServedInv
    <2>1. Serving /\ server'.subs = server.subs
        BY DEF Serving
    <2>2. Queued(a)' <=> Queued(a)
        BY DEF Queued, engineVars
    <2>3. WillServe(a)' <=> WillServe(a)
        BY <1>2, <2>1 DEF WillServe, engineVars
    <2>4. QED
        BY <2>1, <2>2, <2>3 DEF AgreeInv, ServedInv
<1>6. QED
    BY <1>1, <1>3, <1>4, <1>5 DEF AgreeInv

LEMMA AgreeInit ==
    ASSUME Init
    PROVE  AgreeInv
<1>1. RequestInv
    BY DEF Init, RequestInv
<1>2. OneSendInv /\ FreshInv /\ ServedInv
    BY DEF Init, OneSendInv, FreshInv, ServedInv, Serving
<1>3. QED
    BY <1>1, <1>2 DEF AgreeInv

LEMMA AgreeIdle ==
    ASSUME AgreeInv, pc # "done",
           \/ ResolveFails \/ NoSocket \/ NoReconnect \/ Wait \/ ReapEnds \/ TimeIsUp
           \/ Stop \/ SendDone \/ UNCHANGED vars
    PROVE  AgreeInv'
<1> USE DEF ResolveFails, NoSocket, NoReconnect, Wait, ReapEnds, TimeIsUp, Stop, SendDone,
            Reaping, vars, ringVars
<1>1. UNCHANGED <<use_tls, phase, conn, overwritten, engineVars, send_queue, sq, inflight, server>>
    OBVIOUS
<1>2. (pc' = "subscribe") = (pc = "subscribe")
    OBVIOUS
<1>3. QED
    BY <1>1, <1>2, AgreeKept

\* The process is killed, and only without TLS.
LEMMA AgreeWritesToNoSession ==
    ASSUME AgreeInv, pc # "done", WritesToNoSession
    PROVE  AgreeInv'
<1>1. /\ pc = "subscribe" /\ pc' = "killed" /\ ~use_tls
      /\ UNCHANGED <<use_tls, phase, conn, overwritten, sq, inflight, engineVars, send_queue, server>>
    BY DEF WritesToNoSession, ringVars
<1>2. RequestInv'
    BY <1>1 DEF AgreeInv, RequestInv, Agrees, engineVars
<1>3. OneSendInv' /\ ServedInv'
    BY <1>1 DEF AgreeInv, OneSendInv, ServedInv, Serving
<1>4. FreshInv'
    BY <1>1 DEF AgreeInv, FreshInv, OnItsWay
<1>5. QED
    BY <1>2, <1>3, <1>4 DEF AgreeInv

LEMMA AgreeEngine ==
    ASSUME LossInv, AgreeInv, Ask \/ Check \/ Enqueue
    PROVE  AgreeInv'
<1> USE DEF Ask, Check, Enqueue, ringVars
<1>1. UNCHANGED <<use_tls, pc, phase, conn, overwritten, sq, inflight, server, connected>>
    OBVIOUS
<1>2. RequestInv'
    <2>1. CASE Ask
        <3>1. PICK a \in Assets \ asked :
                  /\ asked' = asked \cup {a}
                  /\ \/ /\ subscriptions' = subscriptions \ {a}
                        /\ request' = Message("unsubscribe", {a})
                     \/ /\ subscriptions' = subscriptions \cup {a}
                        /\ request' = Message("subscribe", {a})
            BY <2>1
        <3>2. Agrees(request)'
            BY <3>1 DEF Agrees, Message
        <3>3. \A m : Agrees(m) => /\ m.assets \subseteq asked'
                                  /\ \/ m.kind = "subscribe" /\ m.assets \subseteq subscriptions'
                                     \/ m.kind = "unsubscribe" /\ m.assets \cap subscriptions' = {}
            BY <3>1 DEF Agrees
        <3>4. send_queue' = send_queue
            BY <2>1
        <3>5. QED
            BY <3>2, <3>3, <3>4 DEF AgreeInv, RequestInv, Agrees
    <2>2. CASE Check
        <3>1. UNCHANGED <<subscriptions, asked, send_queue>>
            BY <2>2
        <3>2. epc' # "idle" => request' = request /\ epc # "idle"
            BY <2>2
        <3>3. QED
            BY <3>1, <3>2 DEF AgreeInv, RequestInv, Agrees
    <2>3. CASE Enqueue
        <3>1. UNCHANGED <<subscriptions, asked>> /\ epc' = "idle" /\ epc # "idle"
            BY <2>3
        <3>2. \A i \in DOMAIN send_queue' : \/ i \in DOMAIN send_queue /\ send_queue'[i] = send_queue[i]
                                            \/ send_queue'[i] = request
            <4>1. send_queue \in Seq(Messages) /\ request \in Messages
                BY DEF LossInv, Scalars, Queues
            <4>2. send_queue' = Append(send_queue, request)
                BY <2>3
            <4>3. /\ send_queue' \in Seq(Messages) /\ Len(send_queue') = Len(send_queue) + 1
                  /\ \A i \in 1 .. Len(send_queue) : send_queue'[i] = send_queue[i]
                  /\ send_queue'[Len(send_queue) + 1] = request
                BY <4>1, <4>2, AppendProperties
            <4>4. DOMAIN send_queue = 1 .. Len(send_queue) /\ DOMAIN send_queue' = 1 .. Len(send_queue')
                  /\ Len(send_queue) \in Nat
                BY <4>1, <4>3, LenProperties
            <4>5. QED
                BY <4>3, <4>4
        <3>3. QED
            BY <3>1, <3>2 DEF AgreeInv, RequestInv, Agrees
    <2>4. QED
        BY <2>1, <2>2, <2>3
<1>3. OneSendInv /\ FreshInv => (OneSendInv' /\ FreshInv')
    BY <1>1 DEF OneSendInv, FreshInv, OnItsWay
<1>4. ASSUME ServedInv, Serving', pc # "done", NEW a \in Assets
      PROVE  Queued(a)' \/ WillServe(a)'
    <2>1. Serving /\ connected = TRUE
        <3>1. Serving
            BY <1>1, <1>4 DEF Serving
        <3>2. QED
            BY <3>1, <1>4 DEF LossInv, Scalars, Serving
    <2>2. Queued(a) \/ WillServe(a)
        BY <1>4, <2>1 DEF ServedInv
    <2>3. \A kind, b : OnItsWay(kind, b)' <=> OnItsWay(kind, b)
        BY <1>1 DEF OnItsWay
    <2>4. CASE Ask
        <3>1. PICK b \in Assets \ asked :
                  /\ \/ subscriptions' = subscriptions \ {b}
                     \/ subscriptions' = subscriptions \cup {b}
                  /\ request'.assets = {b}
            BY <2>4 DEF Message
        <3>2. epc = "idle" /\ epc' # "idle" /\ send_queue' = send_queue
            BY <2>4
        <3>3. CASE a = b \/ Queued(a)
            BY <3>1, <3>2, <3>3 DEF Queued
        <3>4. CASE a # b /\ WillServe(a)
            <4>1. a \in subscriptions' <=> a \in subscriptions
                BY <3>1, <3>4
            <4>2. QED
                BY <1>1, <2>3, <3>4, <4>1 DEF WillServe
        <3>5. QED
            BY <2>2, <3>3, <3>4
    <2>5. CASE Check \/ Enqueue
        <3>1. subscriptions' = subscriptions
            BY <2>5
        <3>2. WillServe(a)' <=> WillServe(a)
            BY <1>1, <2>3, <3>1 DEF WillServe
        <3>3. ASSUME Check, Queued(a) PROVE Queued(a)'
            BY <2>1, <3>3 DEF Queued
        <3>4. ASSUME Enqueue, Queued(a) PROVE Queued(a)'
            <4>1. send_queue \in Seq(Messages) /\ request \in Messages
                BY DEF LossInv, Scalars, Queues
            <4>2. send_queue' = Append(send_queue, request)
                BY <3>4
            <4>3. /\ send_queue' \in Seq(Messages) /\ Len(send_queue') = Len(send_queue) + 1
                  /\ \A i \in 1 .. Len(send_queue) : send_queue'[i] = send_queue[i]
                  /\ send_queue'[Len(send_queue) + 1] = request
                BY <4>1, <4>2, AppendProperties
            <4>4. DOMAIN send_queue = 1 .. Len(send_queue) /\ DOMAIN send_queue' = 1 .. Len(send_queue')
                  /\ Len(send_queue) \in Nat
                BY <4>1, <4>3, LenProperties
            <4>5. /\ Len(send_queue) + 1 \in DOMAIN send_queue'
                  /\ DOMAIN send_queue \subseteq DOMAIN send_queue'
                BY <4>3, <4>4
            <4>6. CASE a \in request.assets
                BY <4>3, <4>5, <4>6 DEF Queued
            <4>7. CASE \E i \in DOMAIN send_queue : a \in send_queue[i].assets
                BY <4>3, <4>4, <4>5, <4>7 DEF Queued
            <4>8. QED
                BY <3>4, <4>6, <4>7 DEF Queued
        <3>5. QED
            BY <2>2, <2>5, <3>2, <3>3, <3>4
    <2>6. QED
        BY <2>4, <2>5
<1>5. QED
    BY <1>1, <1>2, <1>3, <1>4 DEF AgreeInv, ServedInv

\* What is prepared without a message disturbs no send.
LEMMA SubmitNone ==
    ASSUME LossInv, conn # 0, NEW ops \in {<<>>, <<Op("Recv", conn, Nothing)>>}, Submit(<<>>, ops)
    PROVE  /\ UNCHANGED <<inflight, overwritten>>
           /\ \A S : S \subseteq Sends => /\ None(sq', S) <=> None(sq, S)
                                          /\ One(sq', S) <=> One(sq, S)
<1>1. sq \in Seq(AllOps) /\ Len(sq) <= QueueDepth /\ conn \in 1 .. MaxConnections
    BY DEF LossInv, Queues, Scalars
<1>2. Op("Recv", conn, Nothing) \in AllOps /\ Op("Recv", conn, Nothing) \notin Sends
    <2>1. Nothing \in Messages
        BY DEF Messages
    <2>2. QED
        BY <1>1, <2>1, OpTypes
<1>3. ops \in Seq(AllOps) /\ None(ops, Sends)
    <2>1. CASE ops = <<>>
        BY <2>1, CountEmpty
    <2>2. CASE ops = <<Op("Recv", conn, Nothing)>>
        BY <1>2, <2>2, CountSingle
    <2>3. QED
        BY <2>1, <2>2
<1>4. PICK p \in Seq(AllOps) : Prepared(sq \o ops) = sq \o p /\ \A S : None(ops, S) => None(p, S)
    BY <1>1, <1>3, PreparedKeeps
<1>5. sq' = sq \o p /\ UNCHANGED <<inflight, overwritten>>
    BY <1>4 DEF Submit
<1>6. ASSUME NEW S, S \subseteq Sends
      PROVE  (None(sq', S) <=> None(sq, S)) /\ (One(sq', S) <=> One(sq, S))
    <2>1. None(p, S) /\ ~One(p, S)
        BY <1>3, <1>4, <1>6, NoneInFewer, NoneIsNotOne
    <2>2. QED
        BY <1>1, <1>5, <2>1, CountConcat
<1>7. QED
    BY <1>5, <1>6

LEMMA AgreeRearms ==
    ASSUME LossInv, AgreeInv, RecvNoBufs \/ OtherData
    PROVE  AgreeInv'
<1>1. /\ pc = "reap" /\ cq # <<>>
      /\ UNCHANGED <<use_tls, pc, phase, conn, send_queue, engineVars, server>>
    BY DEF RecvNoBufs, OtherData, Reaping
<1>2. conn # 0
    BY <1>1, Reaped
<1>3. PICK ops \in {<<>>, <<Op("Recv", conn, Nothing)>>} : Submit(<<>>, ops)
    BY DEF RecvNoBufs, OtherData, Rearm
<1>4. /\ UNCHANGED <<inflight, overwritten>>
      /\ \A S : S \subseteq Sends => /\ None(sq', S) <=> None(sq, S)
                                     /\ One(sq', S) <=> One(sq, S)
    BY <1>2, <1>3, SubmitNone
<1>5. QED
    BY <1>1, <1>4, AgreeKept

LEMMA AgreeSubmitAll ==
    ASSUME LossInv, AgreeInv, SubmitAll
    PROVE  AgreeInv'
<1>1. /\ sq \in Seq(AllOps) /\ inflight \in Seq(AllOps) /\ inflight' = inflight \o sq /\ sq' = <<>>
      /\ pc # "done" /\ pc # "subscribe" /\ pc' # "subscribe"
      /\ UNCHANGED <<use_tls, phase, conn, overwritten, cq, send_queue, engineVars, server>>
    BY DEF LossInv, Queues, SubmitAll
<1>2. \A S : /\ None(inflight', S) <=> None(inflight, S) /\ None(sq, S)
             /\ One(inflight', S) <=> \/ One(inflight, S) /\ None(sq, S)
                                      \/ None(inflight, S) /\ One(sq, S)
             /\ None(sq', S) /\ ~One(sq', S)
    BY <1>1, CountConcat, CountEmpty
<1>3. \A kind, a : OnItsWay(kind, a)' <=> OnItsWay(kind, a)
    BY <1>1, <1>2 DEF OnItsWay
<1>4. RequestInv'
    BY <1>1 DEF AgreeInv, RequestInv, Agrees, engineVars
<1>5. OneSendInv'
    BY <1>1, <1>2 DEF AgreeInv, OneSendInv
<1>6. FreshInv'
    BY <1>1, <1>3 DEF AgreeInv, FreshInv
<1>7. ServedInv'
    BY <1>1, <1>3 DEF AgreeInv, ServedInv, Serving, Queued, WillServe, engineVars
<1>8. QED
    BY <1>4, <1>5, <1>6, <1>7 DEF AgreeInv

\* A connection begins.
LEMMA AgreeConnects ==
    ASSUME LossInv, AgreeInv, Connects
    PROVE  AgreeInv'
<1>1. /\ conn' = conn + 1 /\ phase' = "TcpConnecting" /\ server' = NoServer /\ sq' = <<>>
      /\ conn \in Nat /\ conn + 1 \in 1 .. MaxConnections
      /\ UNCHANGED <<send_queue, engineVars>>
    BY DEF Connects, LossInv, Scalars
<1>2. /\ sq \in Seq(AllOps) /\ inflight \in Seq(AllOps) /\ Len(sq) <= QueueDepth
      /\ None(sq, Beyond(conn)) /\ None(inflight, Beyond(conn))
    BY DEF LossInv, Queues
<1>3. RequestInv'
    BY <1>1 DEF AgreeInv, RequestInv, Agrees, engineVars
<1>4. ASSUME NEW a PROVE ~OnItsWay("subscribe", a)'
    <2>1. PICK S : S = Changes(conn + 1, "subscribe", a)
        OBVIOUS
    <2>2. S \subseteq Sends /\ S \subseteq Beyond(conn)
        BY <1>1, <2>1 DEF Changes, Beyond, Sends
    <2>3. PICK r : r = <<Op("Connect", conn + 1, Nothing)>>
        OBVIOUS
    <2>4. r \in Seq(AllOps) /\ None(r, S)
        <3>1. Nothing \in Messages
            BY DEF Messages
        <3>2. Op("Connect", conn + 1, Nothing) \in AllOps /\ Op("Connect", conn + 1, Nothing) \notin Sends
            BY <1>1, <3>1, OpTypes
        <3>3. QED
            BY <2>2, <2>3, <3>2, CountSingle
    <2>5. PICK p \in Seq(AllOps) : Prepared(sq \o r) = sq \o p /\ (None(r, S) => None(p, S))
        BY <1>2, <2>4, PreparedKeeps
    <2>6. PICK q \in Seq(AllOps) : q = sq \o p
        BY <1>2, ConcatProperties
    <2>7. inflight' = inflight \o q
        BY <2>3, <2>5, <2>6 DEF Connects
    <2>8. None(sq, S) /\ None(inflight, S)
        BY <1>2, <2>2, NoneInFewer
    <2>9. None(q, S)
        BY <1>2, <2>4, <2>5, <2>6, <2>8, CountConcat
    <2>10. None(inflight', S) /\ None(sq', S)
        BY <1>1, <1>2, <2>7, <2>8, <2>9, CountConcat, CountEmpty
    <2>11. QED
        BY <1>1, <2>1, <2>10 DEF OnItsWay
<1>5. FreshInv'
    BY <1>1, <1>4 DEF FreshInv, NoServer
<1>6. OneSendInv' /\ ServedInv'
    BY <1>1 DEF OneSendInv, ServedInv, Serving
<1>7. QED
    BY <1>3, <1>5, <1>6 DEF AgreeInv

\* A connection is over, or the thread is.
LEMMA AgreeOver ==
    ASSUME AgreeInv, ConnectFails \/ RecvEnds \/ Cleanup
    PROVE  AgreeInv'
<1>1. UNCHANGED <<send_queue, engineVars>>
    BY DEF ConnectFails, RecvEnds, Cleanup
<1>2. RequestInv'
    BY <1>1 DEF AgreeInv, RequestInv, Agrees, engineVars
<1>3. CASE Cleanup
    BY <1>2, <1>3 DEF AgreeInv, Cleanup
<1>4. CASE ConnectFails \/ RecvEnds
    <2>1. phase' = "Disconnected" /\ pc' # "subscribe"
        BY <1>4 DEF ConnectFails, RecvEnds, Reaping
    <2>2. OneSendInv' /\ FreshInv' /\ ServedInv'
        BY <2>1 DEF OneSendInv, FreshInv, ServedInv, Serving
    <2>3. QED
        BY <1>2, <2>2 DEF AgreeInv
<1>5. QED
    BY <1>3, <1>4

\* The first messages of a connection: the hello of TLS and the upgrade.
LEMMA AgreeGreets ==
    ASSUME LossInv, AgreeInv, ConnectSucceeds \/ Handshaken
    PROVE  AgreeInv'
<1>1. /\ Head(cq) \in Results /\ pc = "reap" /\ pc' = "reap" /\ cq # <<>>
      /\ conn \in 1 .. MaxConnections
      /\ phase' \in {"TlsHandshaking", "WsUpgrading"}
      /\ UNCHANGED <<conn, use_tls, send_queue, engineVars, server>>
    BY Reaped DEF ConnectSucceeds, Handshaken, Reaping
<1>2. phase \in {"TcpConnecting", "TlsHandshaking"} /\ sq = <<>>
    <2>1. CASE ConnectSucceeds
        <3>1. Head(cq).op = "Connect"
            BY <2>1 DEF ConnectSucceeds, Reaping
        <3>2. Head(cq) \in WatchResults
            BY <1>1, <3>1 DEF WatchResults, Watching
        <3>3. phase = "TcpConnecting"
            BY <1>1, <3>1, <3>2, Reaped DEF TheOp
        <3>4. QED
            BY <1>1, <3>3 DEF LossInv, RoomInv
    <2>2. CASE Handshaken
        <3>1. Head(cq).op = "Recv" /\ phase = "TlsHandshaking"
            BY <2>2 DEF Handshaken, Reaping
        <3>2. Head(cq) \in WatchResults
            BY <1>1, <3>1 DEF WatchResults, Watching
        <3>3. None(sq, Watches)
            BY <1>1, <3>2, Reaped
        <3>4. QED
            BY <1>1, <3>1, <3>3 DEF LossInv, RoomInv
    <2>3. QED
        BY <2>1, <2>2
<1>3. PICK m \in {Hello, Upgrade}, ops \in {<<>>, <<Op("Recv", conn, Nothing)>>} :
          Submit(<<m>>, ops) /\ (phase' = "WsUpgrading" => m = Upgrade)
    <2>1. CASE ConnectSucceeds
        <3>1. PICK ops \in {<<>>, <<Op("Recv", conn, Nothing)>>} : ops = <<Op("Recv", conn, Nothing)>>
            OBVIOUS
        <3>2. PICK m \in {Hello, Upgrade} : m = IF use_tls THEN Hello ELSE Upgrade
            OBVIOUS
        <3>3. Submit(<<m>>, ops) /\ (phase' = "WsUpgrading" => m = Upgrade)
            BY <2>1, <3>1, <3>2 DEF ConnectSucceeds
        <3>4. QED
            BY <3>3
    <2>2. CASE Handshaken
        <3>1. PICK ops \in {<<>>, <<Op("Recv", conn, Nothing)>>} : ops = Rearm(Head(cq))
            BY DEF Rearm
        <3>2. Submit(<<Upgrade>>, ops)
            BY <2>2, <3>1 DEF Handshaken
        <3>3. QED
            BY <3>2
    <2>3. QED
        BY <2>1, <2>2
<1>4. PICK u : u = Op("Send", conn, m)
    OBVIOUS
<1>5. /\ inflight \in Seq(AllOps) /\ m \in Messages
      /\ \A S : /\ None(sq', S) <=> u \notin S /\ None(ops, S)
                /\ One(sq', S) <=> \/ u \in S /\ None(ops, S)
                                   \/ u \notin S /\ One(ops, S)
      /\ inflight' = Overwrite(inflight)
      /\ overwritten' = (overwritten \/ ~None(inflight, Sends))
    <2>1. m \in Messages
        BY DEF Messages
    <2>2. QED
        BY <1>1, <1>2, <1>3, <1>4, <2>1, SendsFirst DEF LossInv, Queues
<1>6. \A S : S \subseteq Sends => None(ops, S)
    <2>1. Op("Recv", conn, Nothing) \notin Sends
        BY <1>1, <1>5, OpTypes
    <2>2. QED
        BY <2>1, CountEmpty, CountSingle
<1>7. u \in Own(conn) /\ (m = Upgrade => u \in UpgradeOf(conn))
      /\ \A kind \in {"subscribe", "unsubscribe"} : \A a : u \notin Changes(conn, kind, a)
    <2>1. u \in Sends /\ u.conn = conn /\ u.data = m
        <3>1. u \in Sends
            BY <1>1, <1>4, <1>5, OpTypes
        <3>2. QED
            BY <1>4, <3>1 DEF Op
    <2>2. m # Garbage /\ m.kind \notin {"subscribe", "unsubscribe"}
        BY DEF Hello, Upgrade, Garbage, Message
    <2>3. QED
        BY <2>1, <2>2 DEF Own, UpgradeOf, Changes
<1>8. RequestInv'
    BY <1>1 DEF AgreeInv, RequestInv, Agrees, engineVars
<1>9. OneSendInv'
    <2> SUFFICES ASSUME ~overwritten'
                 PROVE  OneSendInv'
        BY DEF OneSendInv
    <2>1. None(inflight, Sends)
        BY <1>5
    <2>2. inflight' = inflight
        BY <1>5, <2>1, OverwriteKeeps
    <2>3. \A S : S \subseteq Sends => None(inflight', S)
        BY <2>1, <2>2, NoneInFewer
    <2>4. u \notin Sends \ Own(conn) /\ (m = Upgrade => u \notin Sends \ UpgradeOf(conn)) /\ u \in Sends
        BY <1>7 DEF Own
    <2>5. /\ None(sq', Sends \ Own(conn)) /\ One(sq', Sends)
          /\ m = Upgrade => None(sq', Sends \ UpgradeOf(conn))
        BY <1>5, <1>6, <2>4
    <2>6. QED
        BY <1>1, <1>3, <2>3, <2>5 DEF OneSendInv
<1>10. FreshInv'
    <2>1. server.subs = {}
        BY <1>2 DEF AgreeInv, FreshInv, LossInv, ConnectSucceeds, Handshaken, Reaping
    <2>2. \A a : None(sq', Changes(conn, "subscribe", a)) /\ None(inflight', Changes(conn, "subscribe", a))
        BY <1>5, <1>6, <1>7, SendSets, OverwriteKeeps
    <2>3. QED
        BY <1>1, <2>1, <2>2 DEF FreshInv, OnItsWay
<1>11. ServedInv'
    BY <1>1 DEF ServedInv, Serving
<1>12. QED
    BY <1>8, <1>9, <1>10, <1>11 DEF AgreeInv

\* One element at most.
LEMMA FewElements ==
    ASSUME NEW T, NEW q \in Seq(T), NEW S, T \subseteq S, None(q, S) \/ One(q, S)
    PROVE  Len(q) \in Nat /\ Len(q) <= 1
<1>1. Len(q) \in Nat /\ DOMAIN q = 1 .. Len(q) /\ \A i \in DOMAIN q : q[i] \in S
    BY LenProperties, ElementOfSeq
<1>2. \A i, j \in DOMAIN q : i = j
    BY <1>1 DEF None, One
<1>3. ~(Len(q) >= 2)
    <2> SUFFICES ASSUME Len(q) >= 2 PROVE FALSE
        OBVIOUS
    <2>1. 1 \in DOMAIN q /\ 2 \in DOMAIN q
        BY <1>1
    <2>2. QED
        BY <1>2, <2>1
<1>4. QED
    BY <1>1, <1>3

\* When no send was overwritten it was one message, and the only send.
LEMMA SentAlone ==
    ASSUME LossInv, pc # "done", NEW messages \in Seq(Messages), messages # <<>>, conn # 0,
           Submit(messages, <<>>), ~overwritten'
    PROVE  /\ ~overwritten /\ Len(messages) = 1 /\ messages[1] \in Messages
           /\ None(sq, Sends) /\ None(inflight, Sends) /\ inflight' = inflight
           /\ \A S : S \subseteq Sends =>
                 /\ None(sq', S) <=> Op("Send", conn, messages[1]) \notin S
                 /\ One(sq', S) <=> Op("Send", conn, messages[1]) \in S
<1>1. /\ sq \in Seq(AllOps) /\ Len(sq) <= QueueDepth /\ inflight \in Seq(AllOps)
      /\ conn \in 1 .. MaxConnections
    BY DEF LossInv, Scalars, Queues
<1>2. PICK p \in Seq(AllOps) :
              /\ sq' = Overwrite(sq) \o p
              /\ Len(messages) = 1 /\ Len(sq) < QueueDepth => p = <<Op("Send", conn, messages[1])>>
              /\ inflight' = Overwrite(inflight)
              /\ overwritten' = (\/ overwritten \/ Len(messages) > 1
                                 \/ ~None(sq, Sends) \/ ~None(inflight, Sends))
    BY <1>1, SubmitMany
<1>3. ~overwritten /\ ~(Len(messages) > 1) /\ None(sq, Sends) /\ None(inflight, Sends)
    BY <1>2
<1>4. Len(messages) = 1 /\ messages[1] \in Messages
    <2>1. Len(messages) \in Nat /\ Len(messages) # 0
        BY LenProperties, EmptySeq
    <2>2. Len(messages) = 1
        <3>1. PICK n \in Nat : n = Len(messages)
            BY <2>1
        <3>2. n # 0 /\ ~(n > 1)
            BY <1>3, <2>1, <3>1
        <3>3. n = 1
            BY <3>2
        <3>4. QED
            BY <3>1, <3>3
    <2>3. 1 \in 1 .. Len(messages)
        BY <2>2
    <2>4. QED
        BY <2>2, <2>3, ElementOfSeq
<1>5. Overwrite(sq) = sq /\ inflight' = inflight
    BY <1>1, <1>2, <1>3, OverwriteKeeps
<1>6. Len(sq) < QueueDepth
    <2>1. None(sq, Watches) \/ One(sq, Watches)
        BY DEF LossInv, WatchInv, WatchPrepared, WatchInFlight, WatchEnded
    <2>2. None(sq, AllOps) \/ One(sq, AllOps)
        <3>1. \A i \in DOMAIN sq : sq[i] \in AllOps /\ sq[i] \notin Sends
            BY <1>1, <1>3, ElementOfSeq, LenProperties DEF None
        <3>2. \A i \in DOMAIN sq : sq[i] \in Watches
            BY <3>1 DEF Sends, Watches, AllOps, Ops, IsSend, Watching
        <3>3. QED
            BY <2>1, <3>1, <3>2 DEF None, One
    <2>3. Len(sq) \in Nat /\ Len(sq) <= 1
        BY <1>1, <2>2, FewElements
    <2>4. QED
        BY <2>3, RoomForThree
<1>7. p = <<Op("Send", conn, messages[1])>>
    BY <1>2, <1>4, <1>6
<1>8. ASSUME NEW S, S \subseteq Sends
      PROVE  /\ None(sq', S) <=> Op("Send", conn, messages[1]) \notin S
             /\ One(sq', S) <=> Op("Send", conn, messages[1]) \in S
    <2>1. /\ None(p, S) <=> Op("Send", conn, messages[1]) \notin S
          /\ One(p, S) <=> Op("Send", conn, messages[1]) \in S
        BY <1>7, CountSingle
    <2>2. None(sq, S) /\ ~One(sq, S)
        BY <1>3, <1>8, NoneInFewer, NoneIsNotOne
    <2>3. sq' = sq \o p
        BY <1>2, <1>5
    <2>4. QED
        BY <1>1, <2>1, <2>2, <2>3, CountConcat
<1>9. QED
    BY <1>3, <1>4, <1>5, <1>8

\* A message of this connection that is none of its first.
LEMMA SendOfMessage ==
    ASSUME NEW n \in 1 .. MaxConnections, NEW m \in Messages
    PROVE  /\ Op("Send", n, m) \in Sends
           /\ m # Garbage => Op("Send", n, m) \in Own(n)
           /\ \A kind, a : Op("Send", n, m) \in Changes(n, kind, a) <=> m.kind = kind /\ a \in m.assets
<1>1. PICK u : u = Op("Send", n, m)
    OBVIOUS
<1>2. u \in Sends /\ u.conn = n /\ u.data = m
    <2>1. u \in Sends
        BY <1>1, OpTypes
    <2>2. QED
        BY <1>1, <2>1 DEF Op
<1>3. QED
    BY <1>1, <1>2 DEF Own, Changes

LEMMA AgreePing ==
    ASSUME LossInv, AgreeInv, Ping
    PROVE  AgreeInv'
<1>1. /\ UNCHANGED <<use_tls, phase, conn, send_queue, engineVars, server>>
      /\ pc # "done" /\ pc # "subscribe" /\ pc' # "subscribe"
    BY DEF Ping
<1>2. CASE UNCHANGED ringVars
    <2>1. UNCHANGED <<sq, inflight, overwritten>> /\ (pc' = "subscribe") = (pc = "subscribe")
        BY <1>1, <1>2 DEF ringVars
    <2>2. QED
        BY <1>1, <2>1, AgreeKept
<1>3. CASE phase = "Connected" /\ Submit(<<Keepalive>>, <<>>)
    <2>1. RequestInv'
        BY <1>1 DEF AgreeInv, RequestInv, Agrees, engineVars
    <2>2. FreshInv'
        BY <1>1, <1>3 DEF FreshInv
    <2>3. CASE overwritten'
        <3>1. OneSendInv' /\ ServedInv'
            BY <2>3 DEF OneSendInv, ServedInv, Serving
        <3>2. QED
            BY <2>1, <2>2, <3>1 DEF AgreeInv
    <2>4. CASE ~overwritten'
        <3>1. PICK messages \in Seq(Messages) : messages = <<Keepalive>> /\ messages # <<>>
            <4>1. Keepalive \in Messages
                BY DEF Messages
            <4>2. <<Keepalive>> \in Seq(Messages) /\ <<Keepalive>> # <<>>
                BY <4>1
            <4>3. QED
                BY <4>2
        <3>2. conn \in 1 .. MaxConnections
            BY <1>3 DEF LossInv, Scalars, Queues
        <3>3. PICK u : u = Op("Send", conn, Keepalive)
            OBVIOUS
        <3>4. /\ ~overwritten /\ None(sq, Sends) /\ None(inflight, Sends) /\ inflight' = inflight
              /\ \A S : S \subseteq Sends => /\ None(sq', S) <=> u \notin S
                                             /\ One(sq', S) <=> u \in S
            <4>1. Submit(messages, <<>>) /\ messages[1] = Keepalive /\ conn # 0
                BY <1>3, <3>1, <3>2
            <4>2. u = Op("Send", conn, messages[1])
                BY <3>3, <4>1
            <4>3. QED
                BY <1>1, <2>4, <3>1, <4>1, <4>2, SentAlone
        <3>5. u \in Own(conn) /\ u \in Sends
              /\ \A kind \in {"subscribe", "unsubscribe"} : \A a : u \notin Changes(conn, kind, a)
            <4>1. Keepalive \in Messages /\ Keepalive # Garbage
                  /\ Keepalive.kind \notin {"subscribe", "unsubscribe"}
                BY DEF Messages, Keepalive, Garbage, Message
            <4>2. QED
                BY <3>2, <3>3, <4>1, SendOfMessage
        <3>6. OneSendInv'
            <4>1. None(sq', Sends \ Own(conn)) /\ One(sq', Sends)
                BY <3>4, <3>5, SendSets
            <4>2. None(inflight', Sends) /\ None(inflight', Sends \ Own(conn))
                BY <3>4, SendSets, NoneInFewer
            <4>3. QED
                BY <1>1, <1>3, <4>1, <4>2 DEF OneSendInv
        <3>7. \A kind \in {"subscribe", "unsubscribe"} : \A a : ~OnItsWay(kind, a) /\ ~OnItsWay(kind, a)'
            <4>1. ASSUME NEW kind, NEW a
                  PROVE  None(sq, Changes(conn, kind, a)) /\ None(inflight, Changes(conn, kind, a))
                <5>1. Changes(conn, kind, a) \subseteq Sends
                    BY SendSets
                <5>2. QED
                    BY <3>4, <5>1, NoneInFewer
            <4>2. \A kind \in {"subscribe", "unsubscribe"} : \A a : None(sq', Changes(conn, kind, a))
                BY <3>4, <3>5, SendSets
            <4>3. QED
                BY <1>1, <3>4, <4>1, <4>2 DEF OnItsWay
        <3>8. ServedInv'
            <4>1. Serving' => Serving
                BY <1>1, <3>4 DEF Serving
            <4>2. \A a : Queued(a)' <=> Queued(a)
                BY <1>1 DEF Queued, engineVars
            <4>3. \A a : WillServe(a)' <=> WillServe(a)
                BY <1>1, <3>7 DEF WillServe, engineVars
            <4>4. QED
                BY <1>1, <4>1, <4>2, <4>3 DEF AgreeInv, ServedInv
        <3>9. QED
            BY <2>1, <2>2, <3>6, <3>8 DEF AgreeInv
    <2>5. QED
        BY <2>3, <2>4
<1>4. QED
    BY <1>2, <1>3 DEF Ping

LEMMA AgreeDrain ==
    ASSUME LossInv, AgreeInv, Drain
    PROVE  AgreeInv'
<1>1. /\ UNCHANGED <<use_tls, phase, conn, engineVars, server>> /\ send_queue' = <<>>
      /\ pc # "done" /\ pc # "subscribe" /\ pc' # "subscribe"
    BY DEF Drain
<1>2. RequestInv'
    BY <1>1 DEF AgreeInv, RequestInv, Agrees, engineVars
<1>3. CASE ~(phase = "Connected" /\ send_queue # <<>>)
    <2>2. /\ UNCHANGED <<inflight, overwritten>>
          /\ \A S : S \subseteq Sends => /\ None(sq', S) <=> None(sq, S)
                                         /\ One(sq', S) <=> One(sq, S)
        <3>1. sq \in Seq(AllOps) /\ Len(sq) <= QueueDepth /\ <<>> \in Seq(AllOps)
            BY DEF LossInv, Queues
        <3>2. Submit(<<>>, <<>>)
            BY <1>3 DEF Drain
        <3>3. PICK p \in Seq(AllOps) : Prepared(sq \o <<>>) = sq \o p
                                       /\ \A S : None(<<>>, S) => None(p, S)
            BY <3>1, PreparedKeeps
        <3>4. sq' = sq \o p /\ UNCHANGED <<inflight, overwritten>>
            BY <3>2, <3>3 DEF Submit
        <3>5. \A S : None(p, S) /\ ~One(p, S)
            BY <3>3, CountEmpty, NoneIsNotOne
        <3>6. QED
            BY <3>1, <3>4, <3>5, CountConcat
    <2>3. \A kind, a : OnItsWay(kind, a)' <=> OnItsWay(kind, a)
        BY <1>1, <2>2, SendSets DEF OnItsWay
    <2>4. OneSendInv'
        BY <1>1, <2>2, SendSets DEF AgreeInv, OneSendInv
    <2>5. FreshInv'
        BY <1>1, <2>3 DEF AgreeInv, FreshInv
    <2>6. ServedInv'
        <3> SUFFICES ASSUME Serving', NEW a \in Assets
                     PROVE  Queued(a)' \/ WillServe(a)'
            BY DEF ServedInv
        <3>1. Serving /\ send_queue = <<>>
            BY <1>1, <1>3, <2>2 DEF Serving
        <3>2. Queued(a)' <=> Queued(a)
            BY <1>1, <3>1 DEF Queued, engineVars
        <3>3. WillServe(a)' <=> WillServe(a)
            BY <1>1, <2>3 DEF WillServe, engineVars
        <3>4. QED
            BY <1>1, <3>1, <3>2, <3>3 DEF AgreeInv, ServedInv
    <2>7. QED
        BY <1>2, <2>4, <2>5, <2>6 DEF AgreeInv
<1>4. CASE phase = "Connected" /\ send_queue # <<>>
    <2>1. FreshInv'
        BY <1>1, <1>4 DEF FreshInv
    <2>2. CASE overwritten'
        <3>1. OneSendInv' /\ ServedInv'
            BY <2>2 DEF OneSendInv, ServedInv, Serving
        <3>2. QED
            BY <1>2, <2>1, <3>1 DEF AgreeInv
    <2>3. CASE ~overwritten'
        <3>1. Submit(send_queue, <<>>) /\ send_queue \in Seq(Messages) /\ conn # 0
              /\ conn \in 1 .. MaxConnections
            BY <1>4 DEF Drain, LossInv, Scalars, Queues
        <3>2. PICK m : m = send_queue[1]
            OBVIOUS
        <3>3. PICK u : u = Op("Send", conn, m)
            OBVIOUS
        <3>4. /\ ~overwritten /\ None(sq, Sends) /\ None(inflight, Sends) /\ inflight' = inflight
              /\ Len(send_queue) = 1 /\ m \in Messages
              /\ \A S : S \subseteq Sends => /\ None(sq', S) <=> u \notin S
                                             /\ One(sq', S) <=> u \in S
            BY <1>1, <1>4, <2>3, <3>1, <3>2, <3>3, SentAlone
        <3>5. DOMAIN send_queue = {1}
            <4>1. DOMAIN send_queue = 1 .. 1
                BY <3>1, <3>4, LenProperties
            <4>2. QED
                BY <4>1
        <3>6. Agrees(m)
            BY <3>2, <3>5 DEF AgreeInv, RequestInv
        <3>7. u \in Own(conn) /\ u \in Sends
              /\ \A kind, a : u \in Changes(conn, kind, a) <=> m.kind = kind /\ a \in m.assets
            <4>1. m # Garbage
                BY <3>6 DEF Agrees, Garbage, Message
            <4>2. QED
                BY <3>1, <3>3, <3>4, <4>1, SendOfMessage
        <3>8. OneSendInv'
            <4>1. None(sq', Sends \ Own(conn)) /\ One(sq', Sends)
                BY <3>4, <3>7, SendSets
            <4>2. None(inflight', Sends) /\ None(inflight', Sends \ Own(conn))
                BY <3>4, SendSets, NoneInFewer
            <4>3. QED
                BY <1>1, <1>4, <4>1, <4>2 DEF OneSendInv
        <3>9. ASSUME NEW kind, NEW a
              PROVE  ~OnItsWay(kind, a) /\ (OnItsWay(kind, a)' <=> m.kind = kind /\ a \in m.assets)
            <4>1. Changes(conn, kind, a) \subseteq Sends
                BY SendSets
            <4>2. None(sq, Changes(conn, kind, a)) /\ None(inflight, Changes(conn, kind, a))
                BY <3>4, <4>1, NoneInFewer
            <4>3. None(sq', Changes(conn, kind, a)) <=> ~(m.kind = kind /\ a \in m.assets)
                BY <3>4, <3>7, <4>1
            <4>4. QED
                BY <1>1, <3>4, <4>2, <4>3 DEF OnItsWay
        <3>10. ASSUME Serving', NEW a \in Assets
               PROVE  Queued(a)' \/ WillServe(a)'
            <4>1. Serving
                BY <1>1, <3>4, <3>10 DEF Serving
            <4>2. Queued(a) \/ WillServe(a)
                BY <1>1, <4>1 DEF AgreeInv, ServedInv
            <4>3. UNCHANGED <<epc, request, asked, subscriptions, server>>
                BY <1>1 DEF engineVars
            <4>4. CASE epc # "idle" /\ a \in request.assets
                BY <4>3, <4>4 DEF Queued
            <4>5. CASE a \in m.assets
                BY <3>6, <3>9, <4>3, <4>5 DEF Agrees, WillServe
            <4>6. CASE a \notin m.assets /\ ~(epc # "idle" /\ a \in request.assets)
                <5>1. ~Queued(a)
                    BY <3>2, <3>5, <4>6 DEF Queued
                <5>2. QED
                    BY <3>9, <4>2, <4>3, <4>6, <5>1 DEF WillServe
            <4>7. QED
                BY <4>4, <4>5, <4>6
        <3>11. ServedInv'
            BY <3>10 DEF ServedInv, Assets
        <3>12. QED
            BY <1>2, <2>1, <3>8, <3>11 DEF AgreeInv
    <2>4. QED
        BY <2>2, <2>3
<1>5. QED
    BY <1>3, <1>4

LEMMA AgreeUpgraded ==
    ASSUME LossInv, AgreeInv, Upgraded
    PROVE  AgreeInv'
<1>1. /\ Head(cq) \in Results /\ Head(cq).res = "upgraded" /\ pc = "reap"
      /\ cq # <<>> /\ phase = "WsUpgrading" /\ phase' = "Connected" /\ pc' = "subscribe"
      /\ UNCHANGED <<use_tls, conn, sq, inflight, overwritten, cq, send_queue, engineVars, server>>
    BY Reaped DEF Upgraded, Reaping, ringVars
<1>2. sq' = <<>>
    BY <1>1, LossUpgraded DEF LossInv, RoomInv
<1>3. None(inflight, UpgradeOf(conn))
    <2>1. cq \in Seq(Results) /\ Head(cq) \in UpResults
        BY <1>1 DEF LossInv, Queues, UpResults
    <2>2. ~None(cq, UpResults)
        BY <1>1, <2>1, CountTail
    <2>3. QED
        BY <1>1, <2>2 DEF LossInv, AskInv, NotAsked, NoneAsks
<1>4. RequestInv'
    BY <1>1 DEF AgreeInv, RequestInv, Agrees, engineVars
<1>5. OneSendInv'
    <2> SUFFICES ASSUME ~overwritten'
                 PROVE  OneSendInv'
        BY DEF OneSendInv
    <2>1. None(inflight, Sends \ UpgradeOf(conn))
        BY <1>1 DEF AgreeInv, OneSendInv
    <2>2. None(inflight, Sends)
        BY <1>3, <2>1 DEF None
    <2>3. \A S : S \subseteq Sends => None(inflight', S) /\ None(sq', S)
        BY <1>1, <1>2, <2>2, NoneInFewer, CountEmpty
    <2>4. QED
        BY <1>1, <2>3, SendSets DEF OneSendInv
<1>6. FreshInv'
    BY <1>1 DEF AgreeInv, FreshInv, OnItsWay
<1>7. ServedInv'
    BY <1>1 DEF ServedInv, Serving
<1>8. QED
    BY <1>4, <1>5, <1>6, <1>7 DEF AgreeInv

LEMMA AgreeSubscribe ==
    ASSUME LossInv, AgreeInv, Subscribe
    PROVE  AgreeInv'
<1>1. /\ pc = "subscribe" /\ phase = "Connected" /\ sq = <<>> /\ cq # <<>>
      /\ conn \in 1 .. MaxConnections
      /\ Rearm(Head(cq)) \in {<<>>, <<Op("Recv", conn, Nothing)>>}
      /\ Message("subscribe", subscriptions) \in Messages
      /\ \/ /\ use_tls => subscriptions = {}
            /\ sq' = Rearm(Head(cq)) /\ UNCHANGED <<inflight, overwritten>>
         \/ Submit(<<Message("subscribe", subscriptions)>>, Rearm(Head(cq)))
         \/ Submit(<<Garbage, Garbage>>, Rearm(Head(cq)))
    BY Subscribes
<1>2. /\ pc' = "reap"
      /\ UNCHANGED <<use_tls, phase, conn, send_queue, engineVars, server>>
    BY DEF Subscribe
<1>3. RequestInv'
    BY <1>2 DEF AgreeInv, RequestInv, Agrees, engineVars
<1>4. FreshInv'
    BY <1>1, <1>2 DEF FreshInv
<1>5. CASE overwritten'
    <2>1. OneSendInv' /\ ServedInv'
        BY <1>5 DEF OneSendInv, ServedInv, Serving
    <2>2. QED
        BY <1>3, <1>4, <2>1 DEF AgreeInv
<1>6. CASE ~overwritten'
    <2>1. PICK ops \in {<<>>, <<Op("Recv", conn, Nothing)>>} : ops = Rearm(Head(cq))
        BY <1>1
    <2>2. \A S : S \subseteq Sends => None(ops, S) /\ ~One(ops, S)
        <3>1. Nothing \in Messages
            BY DEF Messages
        <3>2. Op("Recv", conn, Nothing) \notin Sends
            BY <1>1, <3>1, OpTypes
        <3>3. QED
            BY <3>2, CountEmpty, CountSingle
    <2>3. ~Submit(<<Garbage, Garbage>>, ops) /\ ~overwritten
        <3>1. LossInv
            OBVIOUS
        <3>2. ~Submit(<<Garbage, Garbage>>, ops)
            BY <1>1, <1>6, SendsTorn
        <3>3. CASE sq' = ops /\ UNCHANGED <<inflight, overwritten>>
            BY <1>6, <3>2, <3>3
        <3>4. CASE Submit(<<Message("subscribe", subscriptions)>>, ops)
            <4>1. PICK m \in Messages : Submit(<<m>>, ops)
                BY <1>1, <3>4
            <4>2. overwritten' = (overwritten \/ ~None(inflight, Sends))
                BY <1>1, <3>1, <4>1, SendsFirst
            <4>3. QED
                BY <1>6, <3>2, <4>2
        <3>5. QED
            BY <1>1, <2>1, <3>2, <3>3, <3>4
    <2>4. None(inflight, Sends) /\ server.subs = {} /\ inflight \in Seq(AllOps)
        BY <1>1, <2>3 DEF AgreeInv, OneSendInv, FreshInv, LossInv, Queues
    <2>5. CASE (use_tls => subscriptions = {}) /\ sq' = ops /\ inflight' = inflight
        <3>1. sq' = ops /\ inflight' = inflight
            BY <2>5
        <3>2. \A S : S \subseteq Sends => None(sq', S) /\ None(inflight', S)
            BY <2>2, <2>4, <3>1, NoneInFewer
        <3>3. OneSendInv'
            BY <1>1, <1>2, <3>2, SendSets DEF OneSendInv
        <3>4. \A kind, a : ~OnItsWay(kind, a)'
            BY <1>2, <3>2, SendSets DEF OnItsWay
        <3>5. ServedInv'
            <4> SUFFICES ASSUME Serving', NEW a \in Assets
                         PROVE  Queued(a)' \/ WillServe(a)'
                BY DEF ServedInv
            <4>1. subscriptions = {}
                BY <1>2, <2>5 DEF Serving
            <4>2. QED
                BY <1>2, <2>4, <3>4, <4>1 DEF WillServe, engineVars
        <3>6. QED
            BY <1>3, <1>4, <3>3, <3>5 DEF AgreeInv
    <2>6. CASE Submit(<<Message("subscribe", subscriptions)>>, ops)
        <3>1. PICK m \in Messages : m = Message("subscribe", subscriptions)
            BY <1>1
        <3>2. PICK u : u = Op("Send", conn, m)
            OBVIOUS
        <3>3. /\ inflight' = Overwrite(inflight)
              /\ \A S : /\ None(sq', S) <=> u \notin S /\ None(ops, S)
                        /\ One(sq', S) <=> \/ u \in S /\ None(ops, S)
                                           \/ u \notin S /\ One(ops, S)
            BY <1>1, <2>1, <2>6, <3>1, <3>2, SendsFirst
        <3>4. inflight' = inflight
            BY <2>4, <3>3, OverwriteKeeps
        <3>5. u \in Own(conn) /\ u \in Sends
              /\ \A kind, a : u \in Changes(conn, kind, a) <=> kind = "subscribe" /\ a \in subscriptions
            <4>1. m # Garbage /\ m.kind = "subscribe" /\ m.assets = subscriptions
                BY <3>1 DEF Garbage, Message
            <4>2. QED
                BY <1>1, <3>2, <4>1, SendOfMessage
        <3>6. \A S : S \subseteq Sends => None(inflight', S)
            BY <2>4, <3>4, NoneInFewer
        <3>7. OneSendInv'
            <4>1. None(sq', Sends \ Own(conn)) /\ One(sq', Sends)
                BY <2>2, <3>3, <3>5, SendSets
            <4>2. QED
                BY <1>1, <1>2, <3>6, <4>1, SendSets DEF OneSendInv
        <3>8. \A kind, a : OnItsWay(kind, a)' <=> kind = "subscribe" /\ a \in subscriptions
            BY <1>2, <2>2, <3>3, <3>5, <3>6, SendSets DEF OnItsWay
        <3>9. \A a : WillServe(a)'
            BY <1>2, <2>4, <3>8 DEF WillServe, engineVars
        <3>10. QED
            BY <1>3, <1>4, <3>7, <3>9 DEF AgreeInv, ServedInv
    <2>7. QED
        BY <1>1, <2>1, <2>3, <2>5, <2>6
<1>7. QED
    BY <1>5, <1>6

\* The kernel's steps that are not about a send.
LEMMA AgreeOthersComplete ==
    ASSUME LossInv, AgreeInv, ConnectCompletes \/ RecvCompletes \/ RecvStops
    PROVE  AgreeInv'
<1>1. /\ UNCHANGED <<use_tls, pc, phase, conn, send_queue, engineVars, sq, overwritten>>
      /\ pc # "done"
    BY DEF ConnectCompletes, RecvCompletes, RecvStops, Pending, Live, Complete
<1>2. PICK i \in DOMAIN inflight :
          /\ inflight[i].op \in {"Connect", "Recv"}
          /\ inflight' = inflight \/ inflight' = RemoveAt(inflight, i)
    BY DEF ConnectCompletes, RecvCompletes, RecvStops, Pending, Complete
<1>3. inflight \in Seq(AllOps) /\ inflight[i] \in AllOps
    BY ElementOfSeq, LenProperties DEF LossInv, Queues
<1>4. inflight[i] \notin Sends
    BY <1>2 DEF Sends, IsSend
<1>5. ASSUME NEW S, S \subseteq Sends
      PROVE  /\ None(inflight', S) <=> None(inflight, S)
             /\ One(inflight', S) <=> One(inflight, S)
    <2>1. inflight[i] \notin S
        BY <1>4, <1>5
    <2>2. CASE inflight' = inflight
        BY <2>2
    <2>3. CASE inflight' = RemoveAt(inflight, i)
        BY <1>3, <2>1, <2>3, CountRemoved
    <2>4. QED
        BY <1>2, <2>2, <2>3
<1>6. ASSUME ConnectCompletes PROVE phase = "TcpConnecting"
    <2>1. PICK j \in DOMAIN inflight : inflight[j].op = "Connect"
        BY <1>6 DEF ConnectCompletes, Pending
    <2>2. inflight[j] \in Watches
        BY <1>3, <2>1, ElementOfSeq, LenProperties DEF Watches, Watching
    <2>3. ~None(inflight, Watches)
        BY <2>2 DEF None
    <2>4. inflight[j] = TheWatch
        BY <1>1, <2>2, <2>3 DEF LossInv, WatchInv, None
    <2>5. QED
        BY <2>1, <2>4 DEF TheWatch, TheOp, Op
<1>7. /\ \/ server'.subs = server.subs
         \/ server'.subs = {} /\ server'.stage = "gone"
         \/ server'.subs = {} /\ phase # "Connected"
      /\ server'.stage \notin {"gone", "broken"} =>
            server.stage \notin {"gone", "broken"} \/ phase # "Connected"
    <2>1. server \in ServerType
        BY DEF LossInv, Scalars
    <2>2. CASE ConnectCompletes
        BY <1>6, <2>1, <2>2 DEF ConnectCompletes, NoServer, ServerType
    <2>3. CASE RecvCompletes
        <3>1. PICK answer \in Answers : /\ server.stage = answer[1]
                                        /\ server' = [server EXCEPT !.stage = answer[3]]
            BY <2>3 DEF RecvCompletes
        <3>2. server'.subs = server.subs /\ server.stage \notin {"gone", "broken"}
            BY <2>1, <3>1 DEF Answers, ServerType
        <3>3. QED
            BY <3>2
    <2>4. CASE RecvStops
        BY <2>1, <2>4 DEF RecvStops, NoServer, ServerType
    <2>5. QED
        BY <2>2, <2>3, <2>4
<1>8. QED
    BY <1>1, <1>5, <1>7, AgreeKept

\* What the server's subscriptions become.
LEMMA ReceivedSubs ==
    ASSUME NEW s \in ServerType, NEW m \in Messages
    PROVE  Receives(s, m).subs = CASE m.kind = "subscribe" -> s.subs \cup m.assets
                                   [] m.kind = "unsubscribe" -> s.subs \ m.assets
                                   [] OTHER -> s.subs
<1>1. CASE m.kind = "subscribe"
    BY <1>1 DEF Receives, ServerType
<1>2. CASE m.kind = "unsubscribe"
    BY <1>2 DEF Receives, ServerType
<1>3. CASE m.kind \notin {"subscribe", "unsubscribe"}
    BY <1>3 DEF Receives, ServerType
<1>4. QED
    BY <1>1, <1>2, <1>3

\* A send is carried out, or fails.
LEMMA AgreeSendCompletes ==
    ASSUME LossInv, AgreeInv, SendCompletes
    PROVE  AgreeInv'
<1>1. PICK i \in DOMAIN inflight :
          /\ Pending(i, "Send") /\ inflight' = RemoveAt(inflight, i)
          /\ UNCHANGED <<sq, overwritten>>
          /\ \/ /\ inflight[i].conn = conn /\ server.stage \notin {"gone", "broken"}
                /\ server' = Receives(server, inflight[i].data)
             \/ /\ inflight[i].conn # conn \/ server.stage \in {"gone", "broken"}
                /\ UNCHANGED server
    BY DEF SendCompletes, Complete
<1>2. /\ UNCHANGED <<use_tls, running, pc, phase, conn, send_queue, engineVars>>
      /\ pc # "done" /\ inflight[i].op = "Send"
    BY <1>1 DEF SendCompletes, Pending, Live
<1>3. inflight \in Seq(AllOps) /\ inflight[i] \in AllOps
    BY ElementOfSeq, LenProperties DEF LossInv, Queues
<1>4. PICK u \in Sends : u = inflight[i]
    BY <1>2, <1>3 DEF Sends, IsSend
<1>5. PICK m \in Messages : m = u.data
    BY <1>4 DEF Sends, AllOps, Ops
<1>6. \A S : /\ None(inflight, S) => None(inflight', S) /\ u \notin S
             /\ One(inflight, S) /\ u \in S => None(inflight', S)
             /\ One(inflight, S) => None(inflight', S) \/ One(inflight', S)
    BY <1>1, <1>3, <1>4, CountRemoved DEF None
<1>7. server \in ServerType
    BY DEF LossInv, Scalars
<1>8. /\ m.kind = "subscribe" => m.assets \subseteq Assets
      /\ m.kind = "garbage" => m = Garbage
    BY DEF Messages, Garbage, Nothing, Hello, Upgrade, Keepalive, Message
<1>9. \A kind, a : u \in Changes(conn, kind, a) <=> u.conn = conn /\ m.kind = kind /\ a \in m.assets
    BY <1>5 DEF Changes
<1>10. RequestInv'
    BY <1>2 DEF AgreeInv, RequestInv, Agrees, engineVars
<1>11. OneSendInv'
    BY <1>1, <1>2, <1>6 DEF AgreeInv, OneSendInv
<1>12. FreshInv'
    <2> SUFFICES ASSUME phase \notin {"Disconnected", "Connected"} \/ pc = "subscribe"
                 PROVE  server'.subs = {} /\ \A a \in Assets : ~OnItsWay("subscribe", a)'
        BY <1>2 DEF FreshInv
    <2>1. server.subs = {} /\ \A a \in Assets : ~OnItsWay("subscribe", a)
        BY <1>2 DEF AgreeInv, FreshInv
    <2>2. \A a \in Assets : ~OnItsWay("subscribe", a)'
        BY <1>1, <1>2, <1>6, <2>1 DEF OnItsWay
    <2>3. \A a \in Assets : u \notin Changes(conn, "subscribe", a)
        BY <1>6, <2>1 DEF OnItsWay
    <2>4. u.conn = conn /\ m.kind = "subscribe" => m.assets = {}
        BY <1>8, <1>9, <2>3
    <2>5. server'.subs = {}
        BY <1>1, <1>4, <1>5, <1>7, <2>1, <2>4, ReceivedSubs, ZenonT(60)
    <2>6. QED
        BY <2>2, <2>5
<1>13. ServedInv'
    <2> SUFFICES ASSUME Serving', NEW a \in Assets
                 PROVE  Queued(a)' \/ WillServe(a)'
        BY DEF ServedInv
    <2>1. Serving
        BY <1>1, <1>2 DEF Serving
    <2>2. /\ None(inflight, Sends \ Own(conn))
          /\ None(sq, Sends) \/ None(inflight, Sends)
          /\ None(inflight, Sends) \/ One(inflight, Sends)
        BY <1>2, <2>1 DEF AgreeInv, OneSendInv, Serving
    <2>3. u.conn = conn /\ m # Garbage /\ One(inflight, Sends) /\ None(sq, Sends)
        BY <1>4, <1>5, <1>6, <2>2 DEF Own
    <2>4. None(inflight', Sends)
        BY <1>6, <2>3
    <2>5. \A kind : OnItsWay(kind, a) <=> m.kind = kind /\ a \in m.assets
        <3>1. \A S : S \subseteq Sends => None(sq, S) /\ (None(inflight, S) <=> u \notin S)
            BY <1>1, <1>4, <1>6, <2>3 DEF None, One
        <3>2. QED
            BY <1>9, <2>3, <3>1, SendSets DEF OnItsWay
    <2>6. \A kind : ~OnItsWay(kind, a)'
        <3>1. \A S : S \subseteq Sends => None(sq', S) /\ None(inflight', S)
            BY <1>1, <2>3, <2>4, NoneInFewer
        <3>2. QED
            BY <1>2, <3>1, SendSets DEF OnItsWay
    <2>7. a \in server'.subs <=> \/ m.kind = "subscribe" /\ a \in m.assets
                                 \/ a \in server.subs /\ ~(m.kind = "unsubscribe" /\ a \in m.assets)
        <3>1. server' = Receives(server, m)
            BY <1>1, <1>4, <1>5, <2>1, <2>3 DEF Serving
        <3>2. QED
            BY <1>7, <3>1, ReceivedSubs
    <2>8. Queued(a) \/ WillServe(a)
        BY <1>2, <2>1 DEF AgreeInv, ServedInv
    <2>9. Queued(a) => Queued(a)'
        BY <1>2 DEF Queued, engineVars
    <2>10. WillServe(a) => WillServe(a)'
        BY <1>2, <2>5, <2>6, <2>7 DEF WillServe, engineVars
    <2>11. QED
        BY <2>8, <2>9, <2>10
<1>14. QED
    BY <1>10, <1>11, <1>12, <1>13 DEF AgreeInv

\* When the thread has ended only the engine still changes what it asks for.
LEMMA AgreeDone ==
    ASSUME LossInv, AgreeInv, pc = "done", [Next]_vars
    PROVE  AgreeInv'
<1>1. \/ Ask \/ Check \/ Enqueue
      \/ pc' = "done" /\ UNCHANGED <<send_queue, engineVars>>
    BY DEF Next, Loop, Reap, Kernel, Engine, ResolveFails, Connects, NoSocket, NoReconnect, Drain,
           Cleanup, Ping, SubmitAll, Wait, ConnectFails, ConnectSucceeds, RecvEnds, RecvNoBufs,
           Handshaken, Upgraded, OtherData, SendDone, ReapEnds, Reaping, Subscribe,
           ConnectCompletes, SendCompletes, RecvCompletes, RecvStops, Pending, Live, TimeIsUp,
           Stop, WritesToNoSession, vars
<1>2. CASE Ask \/ Check \/ Enqueue
    BY <1>2, AgreeEngine
<1>3. CASE pc' = "done" /\ UNCHANGED <<send_queue, engineVars>>
    BY <1>3 DEF AgreeInv, RequestInv, Agrees, engineVars
<1>4. QED
    BY <1>1, <1>2, <1>3

LEMMA AgreeNext ==
    ASSUME LossInv, AgreeInv, [Next]_vars
    PROVE  AgreeInv'
<1>1. CASE pc = "done"
    BY <1>1, AgreeDone
<1>2. CASE pc # "done"
    BY <1>2, AgreeIdle, AgreeEngine, AgreeConnects, AgreeDrain, AgreeOver, AgreePing,
       AgreeSubmitAll, AgreeSubscribe, AgreeGreets, AgreeRearms, AgreeUpgraded,
       AgreeOthersComplete, AgreeSendCompletes, AgreeWritesToNoSession
    DEF Next, Loop, Reap, Kernel, Engine
<1>3. QED
    BY <1>1, <1>2

LEMMA AgreeAlways == Spec => []AgreeInv
<1>1. Init => AgreeInv
    BY AgreeInit
<1>2. LossInv /\ AgreeInv /\ [Next]_vars => AgreeInv'
    BY AgreeNext
<1>3. QED
    BY <1>1, <1>2, LossAlways, PTL DEF Spec

\* When nothing is on its way the server sends what the set holds, although
\* the engine changes the set and looks at connected_ at any moment.
THEOREM ServerAgrees == Spec => []SubscriptionsAgree
<1>1. LossInv /\ AgreeInv => SubscriptionsAgree
    <2> SUFFICES ASSUME LossInv, AgreeInv, use_tls, phase = "Connected", server.stage = "open",
                        Quiet, ~overwritten
                 PROVE  server.subs = subscriptions
        BY DEF SubscriptionsAgree
    <2>1. None(sq, Sends) /\ None(inflight, Sends)
        <3>1. sq \in Seq(AllOps) /\ inflight \in Seq(AllOps)
            BY DEF LossInv, Queues
        <3>2. PICK c : c = sq \o inflight
            OBVIOUS
        <3>3. None(c, Sends) <=> None(sq, Sends) /\ None(inflight, Sends)
            BY <3>1, <3>2, CountConcat
        <3>4. None(c, Sends)
            BY <3>2 DEF Quiet, ToSet, None, Sends
        <3>5. QED
            BY <3>3, <3>4
    <2>2. \A kind, a : ~OnItsWay(kind, a)
        BY <2>1, NoneInFewer, SendSets DEF OnItsWay
    <2>3. \A a : ~Queued(a)
        BY DEF Quiet, Queued
    <2>4. \A a \in Assets : a \in server.subs <=> a \in subscriptions
        <3>1. Serving /\ pc # "done"
            BY DEF Serving, Quiet
        <3>2. \A a \in Assets : WillServe(a)
            BY <2>3, <3>1 DEF AgreeInv, ServedInv
        <3>3. QED
            BY <2>2, <3>2 DEF WillServe
    <2>5. server.subs \subseteq Assets /\ subscriptions \subseteq Assets
        BY DEF LossInv, Scalars, ServerType
    <2>6. QED
        BY <2>4, <2>5
<1>2. QED
    BY <1>1, LossAlways, AgreeAlways, PTL
===============================================================================
