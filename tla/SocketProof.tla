----------------------------- MODULE SocketProof ----------------------------
(***************************************************************************)
(* The proofs about unix sockets: streams are whole, sleepers have a       *)
(* reason, and clients are queued, for any number of processes, sockets    *)
(* and any buffer size, until a stale pointer is followed or two calls     *)
(* overlap in code that is not atomic.                                     *)
(***************************************************************************)
EXTENDS Socket, Foundations, SequenceTheorems

-----------------------------------------------------------------------------
(* What the fields range over. *)
Entry == [s : Ids, gen : Nat]
Byte == Ids \X Nat \X Nat
Row == [valid : BOOLEAN, state : {"UNBOUND", "BOUND", "LISTENING", "CONNECTED", "CLOSED"},
        nonblock : BOOLEAN, bound : BOOLEAN, peer : 0 .. Slots, queue : Seq(Entry), backlog : Nat,
        buf : Seq(Byte), gen : Nat, sent : Nat, got : Nat]
Act == [op : {"none", "connect", "accept", "read", "write", "select"},
        at : {"user", "check", "wait", "asleep", "woke", "take", "copy", "put"},
        s : 0 .. Slots, peer : 0 .. Slots, n : Nat, on : {<<>>} \cup (Ids \X {"accept", "recv", "send"})]

(* Two sockets that point at one another are alive and connected, and what  *)
(* one has unread is what the other has sent and it has not got.            *)
Linked(a, x, b, y) ==
    /\ a.state = "CONNECTED" /\ x # y /\ b.valid /\ b.peer = x
    /\ Len(a.buf) = b.sent - a.got
    /\ \A i \in 1 .. Len(a.buf) : a.buf[i] = <<y, b.gen, a.got + i>>
Paired(t) == \A x \in Ids : t[x].valid /\ t[x].peer # 0 => Linked(t[x], x, t[t[x].peer], t[x].peer)

(* Entry i of l's queue stands for the socket s as it is now. *)
Stands(t, l, i, s) == t[l].queue[i].s = s /\ t[l].queue[i].gen = t[s].gen
Queued(t, s) == \E l \in Ids : \E i \in 1 .. Len(t[l].queue) : Stands(t, l, i, s)

(* A socket that has no peer yet has moved no bytes. *)
Fresh(r) == r.peer = 0 /\ r.buf = <<>> /\ r.sent = 0 /\ r.got = 0
Early == {"UNBOUND", "BOUND", "LISTENING"}
Unjoined(t) ==
    \A s \in Ids : t[s].valid =>
       /\ t[s].state \in Early => Fresh(t[s])
       /\ Queued(t, s) => Fresh(t[s]) /\ t[s].state = "CONNECTED"

(* No use of a slot is queued twice, and none before it began. *)
Lines(t) ==
    /\ \A l \in Ids : \A i \in 1 .. Len(t[l].queue) : t[l].queue[i].gen <= t[t[l].queue[i].s].gen
    /\ \A l, m \in Ids : \A i \in 1 .. Len(t[l].queue), j \in 1 .. Len(t[m].queue) :
          t[l].queue[i] = t[m].queue[j] => l = m /\ i = j

Table(t) == t \in [Ids -> Row] /\ Paired(t) /\ Unjoined(t) /\ Lines(t)

(* Every socket in use has one holder, who alone makes calls on it. *)
Seats ==
    /\ holds \in [Procs -> SUBSET Ids] /\ proc \in [Procs -> Act] /\ missed \subseteq Procs
    /\ \A p \in Procs : \A s \in holds[p] : sock[s].valid
    /\ \A p, q \in Procs : p # q => holds[p] \cap holds[q] = {}
    /\ \A p \in Procs : /\ proc[p].at # "user" => proc[p].s \in holds[p]
                        /\ proc[p].at = "user" <=> proc[p].op = "none"

(* Where a call can be, and what it has found. *)
Doing(p) ==
    LET s == proc[p].s IN
    /\ proc[p].op = "connect" => sock[s].state \in {"CONNECTED", "CLOSED"}
    /\ proc[p].op = "accept" => sock[s].state = "LISTENING"
    /\ proc[p].at = "take" => proc[p].op = "accept" /\ sock[s].queue # <<>>
    /\ proc[p].at = "copy" => proc[p].op = "read" /\ proc[p].n \in 1 .. Len(sock[s].buf)
    /\ proc[p].at = "put" => proc[p].op = "write" /\ proc[p].peer # 0 /\ proc[p].n # 0
    /\ proc[p].at \in {"wait", "asleep"} =>
         \/ proc[p].op \in {"connect", "read"} /\ proc[p].on = <<s, "recv">>
         \/ proc[p].op = "accept" /\ proc[p].on = <<s, "accept">>
         \/ proc[p].op = "write" /\ proc[p].on[2] = "send"

(* Why a process waits, as long as no wake-up was missed. *)
Reason(p) ==
    LET s == proc[p].s
        t == sock[s].peer IN
    /\ proc[p].op = "connect" => t = 0 /\ sock[s].state = "CONNECTED"
    /\ proc[p].op = "read" => t # 0 /\ sock[s].buf = <<>>
    /\ proc[p].op = "accept" => sock[s].queue = <<>>
    /\ proc[p].op = "write" => t # 0 /\ proc[p].on = <<t, "send">> /\ (Len(sock[t].buf) >= Size \/ Emptied(p))
Reasons == \A p \in Procs \ missed : proc[p].at \in {"wait", "asleep"} => Reason(p)

(* A client in connect is in a queue, or nobody will answer it. *)
Client(p) ==
    LET s == proc[p].s IN
    proc[p].op = "connect" /\ sock[s].peer = 0 /\ sock[s].state = "CONNECTED" =>
       s \in forgotten \/ \E l \in Ids : /\ sock[l].valid /\ sock[l].state = "LISTENING"
                                         /\ \E i \in 1 .. Len(sock[l].queue) : Stands(sock, l, i, s)

(* The inductive invariant. *)
Good == Table(sock) /\ Seats /\ (\A p \in Procs : Doing(p)) /\ Reasons /\ (\A p \in Procs : Client(p))
Inv == hole = "none" => Good

-----------------------------------------------------------------------------
(* Min finds a free slot. *)
LEMMA MinIn ==
    ASSUME NEW S, S \subseteq Ids, S # {}
    PROVE  Min(S) \in S
  <1>1. S \subseteq Nat
    BY SocketAssumption DEF Ids
  <1>2. PICK x \in S : \A y \in S : x =< y
    BY <1>1, LeastExists
  <1> QED
    BY <1>2 DEF Min

(* The slots, and a row of the table. *)
LEMMA IdFacts == Ids \subseteq Nat /\ Ids = 1 .. Slots /\ 0 \notin Ids /\ 0 .. Slots = Ids \cup {0}
  BY SocketAssumption DEF Ids

(* Queues and uses that stay as they are: nothing changes in the lines. *)
LEMMA LinesFrame ==
    ASSUME NEW t, NEW u, t \in [Ids -> Row], Lines(t),
           \A x \in Ids : u[x].queue = t[x].queue /\ u[x].gen = t[x].gen
    PROVE  Lines(u) /\ \A x \in Ids : Queued(u, x) <=> Queued(t, x)
  <1>1. \A l \in Ids : \A i \in 1 .. Len(t[l].queue) : t[l].queue[i].s \in Ids
    <2>1. ASSUME NEW l \in Ids, NEW i \in 1 .. Len(t[l].queue) PROVE t[l].queue[i] \in Entry
      <3>1. t[l].queue \in Seq(Entry)
        BY DEF Row
      <3> QED
        BY <3>1
    <2> QED
      BY <2>1 DEF Entry
  <1>2. Lines(u)
    <2>1. ASSUME NEW l \in Ids, NEW i \in 1 .. Len(u[l].queue)
          PROVE  u[l].queue[i].gen <= u[u[l].queue[i].s].gen
      <3>1. u[l].queue = t[l].queue /\ i \in 1 .. Len(t[l].queue) /\ t[l].queue[i].s \in Ids
        BY <1>1
      <3> QED
        BY <3>1 DEF Lines
    <2>2. ASSUME NEW l \in Ids, NEW m \in Ids, NEW i \in 1 .. Len(u[l].queue), NEW j \in 1 .. Len(u[m].queue),
                 u[l].queue[i] = u[m].queue[j]
          PROVE  l = m /\ i = j
      <3>1. u[l].queue = t[l].queue /\ u[m].queue = t[m].queue
        OBVIOUS
      <3> QED
        BY <2>2, <3>1 DEF Lines
    <2> QED
      BY <2>1, <2>2 DEF Lines
  <1> QED
    BY <1>2 DEF Queued, Stands

(* A row with another state, peer, buffer and other counts. *)
LEMMA RowFacts ==
    ASSUME NEW r \in Row
    PROVE  /\ r.valid \in BOOLEAN /\ r.peer \in 0 .. Slots /\ r.gen \in Nat /\ r.sent \in Nat /\ r.got \in Nat
           /\ r.queue \in Seq(Entry) /\ r.buf \in Seq(Byte) /\ Len(r.queue) \in Nat /\ Len(r.buf) \in Nat
  <1>1. r.queue \in Seq(Entry) /\ r.buf \in Seq(Byte)
    BY DEF Row
  <1>2. r.valid \in BOOLEAN
    BY DEF Row
  <1> QED
    BY <1>1, <1>2 DEF Row

(* A change of the rows X that leaves queues and uses as they are. *)
Right(t, u, x) ==
    /\ u[x].peer # 0 => Linked(u[x], x, u[u[x].peer], u[x].peer)
    /\ u[x].state \in Early => Fresh(u[x])
    /\ Queued(t, x) => Fresh(u[x]) /\ u[x].state = "CONNECTED"
Changed(t, u, X) ==
    /\ u = [x \in Ids |-> u[x]] /\ X \subseteq Ids
    /\ \A x \in Ids \ X : u[x] = t[x]
    /\ \A x \in Ids \ X : t[x].valid /\ t[x].peer # 0 => t[x].peer \notin X
    /\ \A x \in X : u[x] \in Row /\ u[x].queue = t[x].queue /\ u[x].gen = t[x].gen
    /\ \A x \in X : u[x].valid => Right(t, u, x)

(* It keeps the table right if the rows that change are. *)
LEMMA Change ==
    ASSUME NEW t, NEW u, NEW X, Table(t), Changed(t, u, X)
    PROVE  Table(u) /\ \A x \in Ids : Queued(u, x) <=> Queued(t, x)
  <1>1. t \in [Ids -> Row] /\ Paired(t) /\ Unjoined(t) /\ Lines(t)
    BY DEF Table
  <1>2. u \in [Ids -> Row]
    <2>1. ASSUME NEW x \in Ids PROVE u[x] \in Row
      BY <1>1 DEF Changed
    <2> QED
      BY <2>1 DEF Changed
  <1>3. Lines(u) /\ \A x \in Ids : Queued(u, x) <=> Queued(t, x)
    <2>1. \A x \in Ids : u[x].queue = t[x].queue /\ u[x].gen = t[x].gen
      BY DEF Changed
    <2> QED
      BY <1>1, <2>1, LinesFrame
  <1>4. ASSUME NEW x \in Ids, u[x].valid, u[x].peer # 0
        PROVE  Linked(u[x], x, u[u[x].peer], u[x].peer)
    <2>1. CASE x \notin X
      <3>1. u[x] = t[x] /\ t[x].valid /\ t[x].peer # 0
        BY <1>4, <2>1 DEF Changed
      <3>2. t[x].peer \in Ids \ X
        BY <1>1, <2>1, <3>1, RowFacts, IdFacts DEF Changed
      <3>3. u[t[x].peer] = t[t[x].peer]
        BY <3>2 DEF Changed
      <3>4. Linked(t[x], x, t[t[x].peer], t[x].peer)
        BY <1>1, <3>1 DEF Paired
      <3> QED
        BY <3>1, <3>3, <3>4
    <2> QED
      BY <1>4, <2>1 DEF Changed, Right
  <1>5. Unjoined(u)
    BY <1>1, <1>3 DEF Unjoined, Changed, Right
  <1> QED
    BY <1>2, <1>3, <1>4, <1>5 DEF Table, Paired

-----------------------------------------------------------------------------
(* read and write. *)

(* What is left of a row when bytes have moved. *)
Kept(r, q) == /\ q.valid = r.valid /\ q.state = r.state /\ q.peer = r.peer
              /\ q.queue = r.queue /\ q.gen = r.gen

(* A row that has sent more. *)
LEMMA RowSends ==
    ASSUME NEW r \in Row, NEW n \in Nat, NEW q, q = [r EXCEPT !.sent = n]
    PROVE  q \in Row /\ Kept(r, q) /\ q.sent = n /\ q.buf = r.buf /\ q.got = r.got
  <1>1. q \in Row
    BY DEF Row
  <1> QED
    BY <1>1 DEF Row, Kept

(* A row with another buffer. *)
LEMMA RowFills ==
    ASSUME NEW r \in Row, NEW b \in Seq(Byte), NEW q, q = [r EXCEPT !.buf = b]
    PROVE  q \in Row /\ Kept(r, q) /\ q.sent = r.sent /\ q.buf = b /\ q.got = r.got
  <1>1. q \in Row
    BY DEF Row
  <1> QED
    BY <1>1 DEF Row, Kept

(* A row that has got more. *)
LEMMA RowGets ==
    ASSUME NEW r \in Row, NEW n \in Nat, NEW q, q = [r EXCEPT !.got = n]
    PROVE  q \in Row /\ Kept(r, q) /\ q.sent = r.sent /\ q.buf = r.buf /\ q.got = n
  <1>1. q \in Row
    BY DEF Row
  <1> QED
    BY <1>1 DEF Row, Kept

(* What Append does. *)
LEMMA AppendFacts ==
    ASSUME NEW S, NEW q \in Seq(S), NEW e \in S
    PROVE  /\ Append(q, e) \in Seq(S) /\ Len(q) \in Nat /\ Len(Append(q, e)) = Len(q) + 1
           /\ Append(q, e)[Len(q) + 1] = e /\ \A i \in 1 .. Len(q) : Append(q, e)[i] = q[i]
  OBVIOUS

(* A byte put at the end of the peer's buffer. *)
LEMMA PutLinked ==
    ASSUME NEW a \in Row, NEW b \in Row, NEW x \in Ids, NEW y \in Ids, a.valid, a.peer = y,
           Linked(a, x, b, y), Linked(b, y, a, x),
           NEW c \in Row, NEW d \in Row, Kept(a, c), Kept(b, d),
           c.sent = a.sent + 1, c.buf = a.buf, c.got = a.got,
           d.sent = b.sent, d.got = b.got, d.buf = Append(b.buf, <<x, a.gen, a.sent + 1>>)
    PROVE  Linked(c, x, d, y) /\ Linked(d, y, c, x)
  <1>1. PICK k \in Nat : k = Len(b.buf)
    BY RowFacts
  <1>2. PICK e : e = <<x, a.gen, a.sent + 1>>
    OBVIOUS
  <1>3. Len(d.buf) = k + 1 /\ d.buf[k + 1] = e /\ \A i \in 1 .. k : d.buf[i] = b.buf[i]
    <2>1. b.buf \in Seq(Byte) /\ e \in Byte /\ d.buf = Append(b.buf, e)
      BY <1>2, RowFacts DEF Byte
    <2>2. /\ Len(Append(b.buf, e)) = k + 1 /\ Append(b.buf, e)[k + 1] = e
          /\ \A i \in 1 .. k : Append(b.buf, e)[i] = b.buf[i]
      BY <1>1, <2>1, AppendFacts
    <2> QED
      BY <2>1, <2>2, Zenon
  <1>4. a.sent \in Nat /\ b.got \in Nat
    BY RowFacts
  <1>5. k = a.sent - b.got /\ \A i \in 1 .. k : b.buf[i] = <<x, a.gen, b.got + i>>
    BY <1>1 DEF Linked
  <1>6. e = <<x, a.gen, b.got + (k + 1)>>
    BY <1>2, <1>4, <1>5
  <1>7. ASSUME NEW i \in 1 .. k + 1 PROVE d.buf[i] = <<x, a.gen, b.got + i>>
    BY <1>3, <1>5, <1>6
  <1>8. Linked(c, x, d, y)
    BY DEF Linked, Kept
  <1>9. Len(d.buf) = c.sent - d.got
    BY <1>3, <1>4, <1>5
  <1>10. Linked(d, y, c, x)
    BY <1>3, <1>7, <1>9 DEF Linked, Kept
  <1> QED
    BY <1>8, <1>10

(* The table after a byte was put into the buffer of w, the peer of s. *)
Put(t, s, w) == [t EXCEPT ![w].buf = Append(@, <<s, t[s].gen, t[s].sent + 1>>), ![s].sent = @ + 1]

(* Writing to the peer: the two sockets still hold one stream. *)
LEMMA WriteTable ==
    ASSUME NEW t, Table(t), NEW s \in Ids, NEW w \in Ids, t[s].valid, t[s].peer = w, NEW u,
           u = Put(t, s, w)
    PROVE  /\ Table(u) /\ \A x \in Ids : Kept(t[x], u[x]) /\ (x # w => u[x].buf = t[x].buf)
           /\ Len(u[w].buf) = Len(t[w].buf) + 1
  <1>1. t \in [Ids -> Row] /\ Paired(t) /\ Unjoined(t) /\ t[s] \in Row /\ t[w] \in Row
    BY DEF Table
  <1>2. Linked(t[s], s, t[w], w)
    BY <1>1, IdFacts DEF Paired
  <1>3. t[w].valid /\ t[w].peer = s /\ w # s
    BY <1>2 DEF Linked
  <1>4. Linked(t[w], w, t[s], s)
    BY <1>1, <1>3, IdFacts DEF Paired
  <1>5. PICK b : b = Append(t[w].buf, <<s, t[s].gen, t[s].sent + 1>>)
    OBVIOUS
  <1>6. b \in Seq(Byte) /\ Len(b) = Len(t[w].buf) + 1
    <2>1. PICK e : e = <<s, t[s].gen, t[s].sent + 1>>
      OBVIOUS
    <2>2. t[w].buf \in Seq(Byte) /\ e \in Byte
      BY <1>1, <2>1, RowFacts DEF Byte
    <2>3. Append(t[w].buf, e) \in Seq(Byte) /\ Len(Append(t[w].buf, e)) = Len(t[w].buf) + 1
      BY <2>2, AppendFacts
    <2> QED
      BY <1>5, <2>1, <2>3, Zenon
  <1>7. /\ \A x \in Ids \ {s, w} : u[x] = t[x]
        /\ u[s] = [t[s] EXCEPT !.sent = t[s].sent + 1]
        /\ u[w] = [t[w] EXCEPT !.buf = b]
        /\ u = [x \in Ids |-> u[x]]
    BY <1>1, <1>3, <1>5 DEF Put
  <1>8. /\ u[s] \in Row /\ Kept(t[s], u[s]) /\ u[s].sent = t[s].sent + 1
        /\ u[s].buf = t[s].buf /\ u[s].got = t[s].got
    <2>1. t[s].sent + 1 \in Nat
      BY <1>1, RowFacts
    <2> QED
      BY <1>1, <1>7, <2>1, RowSends
  <1>9. /\ u[w] \in Row /\ Kept(t[w], u[w]) /\ u[w].sent = t[w].sent
        /\ u[w].buf = b /\ u[w].got = t[w].got
    BY <1>1, <1>6, <1>7, RowFills
  <1>10. Linked(u[s], s, u[w], w) /\ Linked(u[w], w, u[s], s)
    <2>1. PICK c \in Row, d \in Row : c = u[s] /\ d = u[w]
      BY <1>8, <1>9
    <2>2. /\ Kept(t[s], c) /\ c.sent = t[s].sent + 1 /\ c.buf = t[s].buf /\ c.got = t[s].got
          /\ Kept(t[w], d) /\ d.sent = t[w].sent /\ d.got = t[w].got
      BY <1>8, <1>9, <2>1
    <2>3. d.buf = Append(t[w].buf, <<s, t[s].gen, t[s].sent + 1>>)
      BY <1>5, <1>9, <2>1, Zenon
    <2>4. Linked(c, s, d, w) /\ Linked(d, w, c, s)
      BY <1>1, <1>2, <1>4, <2>2, <2>3, PutLinked
    <2> QED
      BY <2>1, <2>4, Zenon
  <1>11. ~ Fresh(t[s]) /\ ~ Fresh(t[w])
    BY <1>3, IdFacts DEF Fresh
  <1>12. ASSUME NEW x \in Ids \ {s, w}, t[x].valid, t[x].peer # 0 PROVE t[x].peer \notin {s, w}
    BY <1>1, <1>3, <1>12 DEF Paired, Linked
  <1>13. Table(u)
    <2>1. ASSUME NEW x \in {s, w}, u[x].valid PROVE Right(t, u, x)
      BY <1>1, <1>3, <1>8, <1>9, <1>10, <1>11 DEF Kept, Unjoined, Right
    <2>2. \A x \in {s, w} : u[x] \in Row /\ u[x].queue = t[x].queue /\ u[x].gen = t[x].gen
      BY <1>8, <1>9 DEF Kept
    <2>3. Changed(t, u, {s, w})
      BY <1>7, <1>12, <2>1, <2>2 DEF Changed
    <2> QED
      BY <2>3, Change
  <1>14. Len(u[w].buf) = Len(t[w].buf) + 1
    BY <1>6, <1>9
  <1>15. ASSUME NEW x \in Ids PROVE Kept(t[x], u[x]) /\ (x # w => u[x].buf = t[x].buf)
    <2>1. CASE x \in {s, w}
      BY <1>8, <1>9, <2>1
    <2>2. CASE x \notin {s, w}
      BY <1>7, <2>2 DEF Kept
    <2> QED
      BY <2>1, <2>2
  <1> QED
    BY <1>13, <1>14, <1>15

(* What Tail does. *)
LEMMA TailFacts ==
    ASSUME NEW S, NEW q \in Seq(S), q # <<>>
    PROVE  /\ Tail(q) \in Seq(S) /\ Len(q) \in Nat \ {0} /\ Len(Tail(q)) = Len(q) - 1
           /\ Head(q) = q[1] /\ q[1] \in S /\ \A i \in 1 .. Len(q) - 1 : Tail(q)[i] = q[i + 1]
  OBVIOUS

(* A byte taken from the front of the own buffer. *)
LEMMA TakeLinked ==
    ASSUME NEW a \in Row, NEW b \in Row, NEW x \in Ids, NEW y \in Ids, a.valid, a.peer = y, a.buf # <<>>,
           Linked(a, x, b, y), Linked(b, y, a, x), NEW c \in Row, Kept(a, c),
           c.sent = a.sent, c.got = a.got + 1, c.buf = Tail(a.buf)
    PROVE  Linked(c, x, b, y) /\ Linked(b, y, c, x)
  <1>1. PICK k \in Nat : k = Len(a.buf) /\ k >= 1
    <2>1. a.buf \in Seq(Byte)
      BY RowFacts
    <2> QED
      BY <2>1, TailFacts
  <1>2. Len(c.buf) = k - 1 /\ \A i \in 1 .. k - 1 : c.buf[i] = a.buf[i + 1]
    <2>1. a.buf \in Seq(Byte)
      BY RowFacts
    <2>2. Len(Tail(a.buf)) = k - 1 /\ \A i \in 1 .. k - 1 : Tail(a.buf)[i] = a.buf[i + 1]
      BY <1>1, <2>1, TailFacts
    <2> QED
      BY <2>2, Zenon
  <1>3. b.sent \in Nat /\ a.got \in Nat
    BY RowFacts
  <1>4. k = b.sent - a.got /\ \A i \in 1 .. k : a.buf[i] = <<y, b.gen, a.got + i>>
    BY <1>1 DEF Linked
  <1>5. ASSUME NEW i \in 1 .. k - 1 PROVE c.buf[i] = <<y, b.gen, c.got + i>>
    <2>1. i + 1 \in 1 .. k /\ a.got + (i + 1) = c.got + i
      BY <1>1, <1>3
    <2> QED
      BY <1>2, <1>4, <2>1
  <1>6. Len(c.buf) = b.sent - c.got
    BY <1>1, <1>2, <1>3, <1>4
  <1>7. Linked(c, x, b, y)
    BY <1>2, <1>5, <1>6 DEF Linked, Kept
  <1>8. Linked(b, y, c, x)
    BY DEF Linked, Kept
  <1> QED
    BY <1>7, <1>8

(* The table after a byte was taken from the buffer of s. *)
Took(t, s) == [t EXCEPT ![s].buf = Tail(@), ![s].got = @ + 1]

(* Reading: the two sockets still hold one stream. *)
LEMMA ReadTable ==
    ASSUME NEW t, Table(t), NEW s \in Ids, t[s].valid, t[s].buf # <<>>, NEW u,
           u = Took(t, s)
    PROVE  /\ Table(u)
           /\ \A x \in Ids : Kept(t[x], u[x]) /\ (x # s => u[x].buf = t[x].buf)
           /\ Len(u[s].buf) = Len(t[s].buf) - 1
  <1>1. t \in [Ids -> Row] /\ Paired(t) /\ Unjoined(t) /\ t[s] \in Row
    BY DEF Table
  <1>2. PICK b : b = Tail(t[s].buf)
    OBVIOUS
  <1>3. b \in Seq(Byte) /\ Len(b) = Len(t[s].buf) - 1
    <2>1. t[s].buf \in Seq(Byte)
      BY <1>1, RowFacts
    <2>2. Tail(t[s].buf) \in Seq(Byte) /\ Len(Tail(t[s].buf)) = Len(t[s].buf) - 1
      BY <2>1, TailFacts
    <2> QED
      BY <1>2, <2>2
  <1>4. /\ \A x \in Ids \ {s} : u[x] = t[x]
        /\ u[s] = [t[s] EXCEPT !.buf = b, !.got = t[s].got + 1]
        /\ u = [x \in Ids |-> u[x]]
    BY <1>1, <1>2 DEF Took
  <1>5. /\ u[s] \in Row /\ Kept(t[s], u[s]) /\ u[s].sent = t[s].sent
        /\ u[s].buf = b /\ u[s].got = t[s].got + 1
    <2>1. PICK n \in Nat : n = t[s].got + 1
      BY <1>1, RowFacts
    <2>2. u[s] = [t[s] EXCEPT !.buf = b, !.got = n]
      BY <1>4, <2>1
    <2>3. u[s] \in Row /\ Kept(t[s], u[s]) /\ u[s].sent = t[s].sent /\ u[s].buf = b /\ u[s].got = n
      <3>1. PICK r \in Row : r = t[s]
        BY <1>1
      <3>2. PICK q : q = [r EXCEPT !.buf = b, !.got = n] /\ q = u[s]
        BY <2>2, <3>1
      <3>3. q \in Row /\ Kept(r, q) /\ q.sent = r.sent /\ q.buf = b /\ q.got = n
        <4>1. PICK v : v = [r EXCEPT !.buf = b]
          OBVIOUS
        <4>2. v \in Row /\ Kept(r, v) /\ v.sent = r.sent /\ v.buf = b
          BY <1>3, <4>1, RowFills
        <4>3. q = [v EXCEPT !.got = n]
          BY <3>2, <4>1
        <4>4. q \in Row /\ Kept(v, q) /\ q.sent = v.sent /\ q.buf = v.buf /\ q.got = n
          BY <4>2, <4>3, RowGets
        <4> QED
          BY <4>2, <4>4 DEF Kept
      <3> QED
        BY <3>1, <3>2, <3>3
    <2> QED
      BY <2>1, <2>3
  <1>6. ~ Fresh(t[s])
    BY DEF Fresh
  <1>7. Table(u)
    <2>1. CASE t[s].peer = 0
      <3>1. \A x \in Ids \ {s} : t[x].valid /\ t[x].peer # 0 => t[x].peer \notin {s}
        BY <1>1, <2>1, IdFacts DEF Paired, Linked
      <3>2. Right(t, u, s)
        BY <1>1, <1>5, <1>6, <2>1 DEF Right, Unjoined, Kept
      <3>3. Changed(t, u, {s})
        BY <1>4, <1>5, <3>1, <3>2 DEF Changed, Kept
      <3> QED
        BY <3>3, Change
    <2>2. CASE t[s].peer # 0
      <3>1. PICK w \in Ids : w = t[s].peer
        BY <1>1, <2>2, RowFacts, IdFacts
      <3>2. Linked(t[s], s, t[w], w)
        BY <1>1, <2>2, <3>1 DEF Paired
      <3>3. t[w].valid /\ t[w].peer = s /\ w # s /\ t[w] \in Row /\ u[w] = t[w]
        BY <1>1, <1>4, <3>2 DEF Linked
      <3>4. Linked(t[w], w, t[s], s)
        BY <1>1, <3>3, IdFacts DEF Paired
      <3>5. Linked(u[s], s, t[w], w) /\ Linked(t[w], w, u[s], s)
        BY <1>1, <1>2, <1>5, <3>1, <3>2, <3>3, <3>4, TakeLinked
      <3>6. \A x \in Ids \ {s, w} : t[x].valid /\ t[x].peer # 0 => t[x].peer \notin {s, w}
        BY <1>1, <3>1, <3>3 DEF Paired, Linked
      <3>7. Right(t, u, s)
        BY <1>1, <1>5, <1>6, <3>1, <3>3, <3>5 DEF Right, Unjoined, Kept
      <3>8. Right(t, u, w)
        BY <1>1, <1>5, <3>1, <3>3, <3>5 DEF Right, Unjoined
      <3>9. Changed(t, u, {s, w})
        <4>1. /\ u[s] \in Row /\ u[s].queue = t[s].queue /\ u[s].gen = t[s].gen
              /\ u[w] \in Row /\ u[w].queue = t[w].queue /\ u[w].gen = t[w].gen
          BY <1>5, <3>3 DEF Kept
        <4>2. u = [x \in Ids |-> u[x]] /\ \A x \in Ids \ {s, w} : u[x] = t[x]
          BY <1>4
        <4> QED
          BY <3>6, <3>7, <3>8, <4>1, <4>2 DEF Changed
      <3> QED
        BY <3>9, Change
    <2> QED
      BY <2>1, <2>2
  <1> QED
    BY <1>3, <1>4, <1>5, <1>7 DEF Kept

-----------------------------------------------------------------------------
(* bind, listen and fcntl. *)

(* All but the state and the flags of a row. *)
Alike(r, q) == /\ q.valid = r.valid /\ q.peer = r.peer /\ q.queue = r.queue /\ q.gen = r.gen
               /\ q.buf = r.buf /\ q.sent = r.sent /\ q.got = r.got

(* Flags do not matter to the table. *)
LEMMA FlagTable ==
    ASSUME NEW t, Table(t), NEW u \in [Ids -> Row],
           \A x \in Ids : Alike(t[x], u[x]) /\ u[x].state = t[x].state
    PROVE  Table(u) /\ \A x \in Ids : Queued(u, x) <=> Queued(t, x)
  <1>1. t \in [Ids -> Row] /\ Paired(t) /\ Unjoined(t) /\ Lines(t)
    BY DEF Table
  <1>2. Lines(u) /\ \A x \in Ids : Queued(u, x) <=> Queued(t, x)
    <2>1. \A x \in Ids : u[x].queue = t[x].queue /\ u[x].gen = t[x].gen
      BY DEF Alike
    <2> QED
      BY <1>1, <2>1, LinesFrame
  <1>3. ASSUME NEW x \in Ids, u[x].valid, u[x].peer # 0
        PROVE  Linked(u[x], x, u[u[x].peer], u[x].peer)
    <2>1. PICK y \in Ids : y = t[x].peer /\ y = u[x].peer
      BY <1>1, <1>3, RowFacts, IdFacts DEF Alike
    <2>2. Linked(t[x], x, t[y], y)
      BY <1>1, <1>3, <2>1 DEF Paired, Alike
    <2> QED
      BY <2>1, <2>2 DEF Linked, Alike
  <1>4. Unjoined(u)
    BY <1>1, <1>2 DEF Unjoined, Fresh, Alike
  <1> QED
    BY <1>2, <1>3, <1>4 DEF Table, Paired

(* A socket on its way to listening. *)
LEMMA EarlyTable ==
    ASSUME NEW t, Table(t), NEW s \in Ids, NEW u \in [Ids -> Row],
           \A x \in Ids \ {s} : u[x] = t[x],
           Alike(t[s], u[s]), t[s].valid, t[s].state \in Early, u[s].state \in Early
    PROVE  Table(u) /\ \A x \in Ids : Queued(u, x) <=> Queued(t, x)
  <1>1. t \in [Ids -> Row] /\ Paired(t) /\ Unjoined(t)
    BY DEF Table
  <1>2. Fresh(t[s]) /\ ~ Queued(t, s)
    BY <1>1 DEF Unjoined, Early
  <1>3. Fresh(u[s])
    BY <1>2 DEF Fresh, Alike
  <1>4. \A x \in Ids \ {s} : t[x].valid /\ t[x].peer # 0 => t[x].peer \notin {s}
    BY <1>1, <1>2, IdFacts DEF Paired, Linked, Fresh
  <1>5. Right(t, u, s)
    BY <1>2, <1>3 DEF Right, Fresh
  <1>6. Changed(t, u, {s})
    BY <1>4, <1>5 DEF Changed, Alike
  <1> QED
    BY <1>6, Change

-----------------------------------------------------------------------------
(* close. *)

(* A row that is closed, and the row of its peer. *)
Shut(r) == [r EXCEPT !.peer = 0, !.state = "CLOSED", !.valid = FALSE]
Cut(r) == [r EXCEPT !.peer = 0, !.state = "CLOSED"]

(* The table when the sockets S are closed. *)
Closed(t, S) ==
    [x \in Ids |-> IF x \in S THEN Shut(t[x])
                   ELSE IF t[x].valid /\ t[x].peer \in S THEN Cut(t[x]) ELSE t[x]]

(* What closing leaves of a row. *)
LEMMA ShutFacts ==
    ASSUME NEW r \in Row
    PROVE  /\ Shut(r) \in Row /\ Shut(r).peer = 0 /\ ~ Shut(r).valid
           /\ Shut(r).queue = r.queue /\ Shut(r).gen = r.gen
           /\ Shut(r).state = "CLOSED"
  <1>1. 0 \in 0 .. Slots
    BY SocketAssumption
  <1>2. PICK f : f = FALSE /\ f \in BOOLEAN
    OBVIOUS
  <1>3. Shut(r) = [r EXCEPT !.peer = 0, !.state = "CLOSED", !.valid = f]
    BY <1>2, Zenon DEF Shut
  <1>4. /\ Shut(r) \in Row /\ Shut(r).peer = 0 /\ Shut(r).valid = f
        /\ Shut(r).queue = r.queue /\ Shut(r).gen = r.gen
        /\ Shut(r).state = "CLOSED"
    BY <1>1, <1>2, <1>3 DEF Row
  <1> QED
    BY <1>2, <1>4, Zenon

(* The same for the peer's row. *)
LEMMA CutFacts ==
    ASSUME NEW r \in Row
    PROVE  /\ Cut(r) \in Row /\ Cut(r).peer = 0 /\ Cut(r).valid = r.valid
           /\ Cut(r).queue = r.queue /\ Cut(r).gen = r.gen /\ Cut(r).state = "CLOSED"
           /\ Cut(r).buf = r.buf /\ Cut(r).sent = r.sent /\ Cut(r).got = r.got
           /\ Shut(Cut(r)) = Shut(r)
  <1>1. 0 \in 0 .. Slots
    BY SocketAssumption
  <1>2. Cut(r) \in Row
    BY <1>1 DEF Cut, Row
  <1>3. Shut(Cut(r)) = Shut(r)
    BY DEF Cut, Shut, Row
  <1> QED
    BY <1>2, <1>3 DEF Cut, Row

(* Sockets in use that may be closed. *)
Open(t, S) == S \subseteq Ids /\ \A x \in S : t[x].valid

(* The rows of the table then. *)
LEMMA ClosedRows ==
    ASSUME NEW t, Table(t), NEW S, Open(t, S), NEW x \in Ids
    PROVE  /\ x \in S => Closed(t, S)[x] = Shut(t[x])
           /\ x \notin S /\ t[x].valid /\ t[x].peer \in S => Closed(t, S)[x] = Cut(t[x])
           /\ x \notin S /\ ~ (t[x].valid /\ t[x].peer \in S) => Closed(t, S)[x] = t[x]
           /\ t[x] \in Row
  BY DEF Closed, Table

(* Peers go together. *)
LEMMA PeerOf ==
    ASSUME NEW t, Table(t), NEW x \in Ids, t[x].valid, t[x].peer # 0
    PROVE  /\ t[x].peer \in Ids /\ t[x].peer # x /\ t[t[x].peer].valid /\ t[t[x].peer].peer = x
           /\ t[x].state = "CONNECTED" /\ ~ Queued(t, x)
           /\ \A y \in Ids : t[y].valid /\ t[y].peer = x => y = t[x].peer
  <1>1. t \in [Ids -> Row] /\ Paired(t) /\ Unjoined(t)
    BY DEF Table
  <1>2. t[x].peer \in Ids
    BY <1>1, RowFacts, IdFacts
  <1>3. t[x].peer # x /\ t[t[x].peer].valid /\ t[t[x].peer].peer = x /\ t[x].state = "CONNECTED"
    BY <1>1 DEF Paired, Linked
  <1>4. \A y \in Ids : t[y].valid /\ t[y].peer = x => y = t[x].peer
    BY <1>1, IdFacts DEF Paired, Linked
  <1>5. ~ Queued(t, x)
    BY <1>1 DEF Unjoined, Fresh
  <1> QED
    BY <1>2, <1>3, <1>4, <1>5

(* Closing keeps the table right. *)
LEMMA ClosedTable ==
    ASSUME NEW t, Table(t), NEW S, Open(t, S)
    PROVE  Table(Closed(t, S)) /\ \A x \in Ids : Queued(Closed(t, S), x) <=> Queued(t, x)
  <1>1. PICK u : u = Closed(t, S)
    OBVIOUS
  <1>2. PICK X : X = S \cup {x \in Ids : t[x].valid /\ t[x].peer \in S}
    OBVIOUS
  <1>3. S \subseteq Ids /\ \A x \in S : t[x].valid
    BY DEF Open
  <1>4. u = [x \in Ids |-> u[x]] /\ X \subseteq Ids
    BY <1>1, <1>2, <1>3 DEF Closed
  <1>5. \A x \in Ids \ X : u[x] = t[x]
    BY <1>1, <1>2, ClosedRows
  <1>6. ASSUME NEW x \in Ids \ X, t[x].valid, t[x].peer # 0 PROVE t[x].peer \notin X
    <2>1. t[x].peer \in Ids /\ t[t[x].peer].peer = x
      BY <1>6, PeerOf
    <2> QED
      BY <1>2, <1>6, <2>1
  <1>7. ASSUME NEW x \in X PROVE u[x] \in Row /\ u[x].queue = t[x].queue /\ u[x].gen = t[x].gen
    <2>1. x \in Ids
      BY <1>4
    <2>2. u[x] \in {Shut(t[x]), Cut(t[x])} /\ t[x] \in Row
      BY <1>1, <1>2, <2>1, ClosedRows
    <2> QED
      BY <2>2, ShutFacts, CutFacts
  <1>8. ASSUME NEW x \in X, u[x].valid PROVE Right(t, u, x)
    <2>1. x \in Ids /\ t[x] \in Row
      BY <1>4, ClosedRows
    <2>2. x \notin S
      BY <1>1, <1>8, <2>1, ClosedRows, ShutFacts
    <2>3. t[x].valid /\ t[x].peer \in S
      BY <1>2, <2>2
    <2>4. u[x] = Cut(t[x]) /\ t[x].peer # 0
      BY <1>1, <1>3, <2>1, <2>2, <2>3, ClosedRows, IdFacts
    <2>5. ~ Queued(t, x)
      BY <2>1, <2>3, <2>4, PeerOf
    <2>6. u[x].peer = 0 /\ u[x].state = "CLOSED"
      BY <2>1, <2>4, CutFacts
    <2> QED
      BY <2>5, <2>6 DEF Right, Early
  <1>9. Changed(t, u, X)
    BY <1>4, <1>5, <1>6, <1>7, <1>8 DEF Changed
  <1>10. Table(u) /\ \A x \in Ids : Queued(u, x) <=> Queued(t, x)
    BY <1>9, Change
  <1> QED
    BY <1>1, <1>10, Zenon

(* One more socket is closed. *)
LEMMA CloseMore ==
    ASSUME NEW t, Table(t), NEW S, Open(t, S), NEW s \in Ids \ S, t[s].valid
    PROVE  CloseOne(Closed(t, S), s) = Closed(t, S \cup {s})
  <1>1. PICK v : v = Closed(t, S) /\ v = [x \in Ids |-> v[x]]
    BY DEF Closed
  <1>2. PICK u : u = Closed(t, S \cup {s}) /\ u = [x \in Ids |-> u[x]]
    BY DEF Closed
  <1>3. Open(t, S \cup {s}) /\ 0 \notin S /\ S \subseteq Ids
    BY IdFacts DEF Open
  <1>4. /\ \A x \in S : v[x] = Shut(t[x])
        /\ \A x \in Ids \ S : t[x].valid /\ t[x].peer \in S => v[x] = Cut(t[x])
        /\ \A x \in Ids \ S : ~ (t[x].valid /\ t[x].peer \in S) => v[x] = t[x]
    BY <1>1, <1>3, ClosedRows
  <1>5. /\ \A x \in S \cup {s} : u[x] = Shut(t[x])
        /\ \A x \in Ids \ (S \cup {s}) : t[x].valid /\ t[x].peer \in S \cup {s} => u[x] = Cut(t[x])
        /\ \A x \in Ids \ (S \cup {s}) : ~ (t[x].valid /\ t[x].peer \in S \cup {s}) => u[x] = t[x]
    <2>1. PICK T : T = S \cup {s}
      OBVIOUS
    <2>2. Open(t, T) /\ u = Closed(t, T) /\ T \subseteq Ids
      BY <1>2, <1>3, <2>1
    <2>3. /\ \A x \in T : u[x] = Shut(t[x])
          /\ \A x \in Ids \ T : t[x].valid /\ t[x].peer \in T => u[x] = Cut(t[x])
          /\ \A x \in Ids \ T : ~ (t[x].valid /\ t[x].peer \in T) => u[x] = t[x]
      BY <2>2, ClosedRows
    <2> QED
      BY <2>1, <2>3, Zenon
  <1>6. t[s] \in Row
    BY DEF Table
  <1>7. CASE t[s].peer \in S
    <2>1. v[s] = Cut(t[s])
      BY <1>4, <1>7
    <2>2. v[s].peer = 0 /\ Shut(v[s]) = Shut(t[s])
      BY <1>6, <2>1, CutFacts
    <2>3. CloseOne(v, s) = [v EXCEPT ![s] = Shut(v[s])]
      BY <2>2 DEF CloseOne, ClosePeer, Shut
    <2>4. ASSUME NEW x \in Ids \ {s} PROVE u[x] = v[x]
      <3>1. x \notin S /\ t[x].valid => t[x].peer # s
        BY <1>3, <1>7, PeerOf
      <3> QED
        BY <1>4, <1>5, <3>1
    <2>5. u[s] = Shut(v[s])
      BY <1>5, <2>2
    <2>6. CloseOne(v, s) = u
      BY <1>1, <1>2, <2>3, <2>4, <2>5
    <2> QED
      BY <1>1, <1>2, <2>6, Zenon
  <1>8. CASE t[s].peer = 0
    <2>1. v[s] = t[s]
      BY <1>3, <1>4, <1>8
    <2>2. CloseOne(v, s) = [v EXCEPT ![s] = Shut(v[s])]
      BY <1>8, <2>1 DEF CloseOne, ClosePeer, Shut
    <2>3. ASSUME NEW x \in Ids \ {s} PROVE u[x] = v[x]
      <3>1. t[x].valid => t[x].peer # s
        BY <1>8, IdFacts, PeerOf
      <3> QED
        BY <1>4, <1>5, <3>1
    <2>4. u[s] = Shut(v[s])
      BY <1>5, <2>1
    <2>5. CloseOne(v, s) = u
      BY <1>1, <1>2, <2>2, <2>3, <2>4
    <2> QED
      BY <1>1, <1>2, <2>5, Zenon
  <1>9. CASE t[s].peer \notin S /\ t[s].peer # 0
    <2>1. PICK w \in Ids : /\ w = t[s].peer /\ w # s /\ t[w].valid /\ t[w].peer = s /\ w \notin S
                           /\ \A y \in Ids : t[y].valid /\ t[y].peer = s => y = w
      BY <1>9, PeerOf
    <2>2. v[s] = t[s] /\ v[w] = t[w]
      BY <1>4, <1>9, <2>1
    <2>3. v[s].peer = w /\ w # 0
      BY <1>9, <2>1, <2>2
    <2>4. CloseOne(v, s) = [v EXCEPT ![w] = Cut(v[w]), ![s] = Shut(v[s])]
      <3>1. ClosePeer(v, s) = [v EXCEPT ![w] = Cut(v[w])]
        BY <1>1, <2>1, <2>3 DEF ClosePeer, Cut
      <3> QED
        BY <1>1, <2>1, <3>1 DEF CloseOne, Shut
    <2>5. ASSUME NEW x \in Ids \ {s, w} PROVE u[x] = v[x]
      <3>1. t[x].valid => t[x].peer # s
        BY <2>1
      <3> QED
        BY <1>4, <1>5, <3>1
    <2>6. u[s] = Shut(v[s]) /\ u[w] = Cut(v[w])
      BY <1>5, <2>1, <2>2
    <2>7. CloseOne(v, s) = u
      <3>1. PICK z : z = [v EXCEPT ![w] = Cut(v[w]), ![s] = Shut(v[s])]
        OBVIOUS
      <3>2. /\ z = [x \in Ids |-> z[x]] /\ z[s] = Shut(v[s]) /\ z[w] = Cut(v[w])
            /\ \A x \in Ids \ {s, w} : z[x] = v[x]
        BY <1>1, <2>1, <3>1
      <3>3. \A x \in Ids : z[x] = u[x]
        BY <2>5, <2>6, <3>2
      <3>4. z = u
        BY <1>2, <3>2, <3>3
      <3> QED
        BY <2>4, <3>1, <3>4, Zenon
    <2> QED
      BY <1>1, <1>2, <2>7, Zenon
  <1> QED
    BY <1>7, <1>8, <1>9

(* close of one socket. *)
LEMMA CloseOneIs ==
    ASSUME NEW t, Table(t), NEW s \in Ids, t[s].valid
    PROVE  CloseOne(t, s) = Closed(t, {s})
  <1>1. Open(t, {})
    BY DEF Open
  <1>2. Closed(t, {}) = t
    BY DEF Closed, Table
  <1>3. CloseOne(Closed(t, {}), s) = Closed(t, {} \cup {s})
    BY <1>1, CloseMore
  <1>4. {} \cup {s} = {s}
    OBVIOUS
  <1> QED
    BY <1>2, <1>3, <1>4

(* The tables between the closes of CloseAll. *)
Rounds(f, t, S) ==
    f = [k \in 0 .. Slots |-> IF k = 0 THEN t ELSE IF k \in S THEN CloseOne(f[k - 1], k) ELSE f[k - 1]]

(* Closing one after the other is closing at once. *)
LEMMA CloseAllIs ==
    ASSUME NEW t, Table(t), NEW S, Open(t, S)
    PROVE  CloseAll(t, S) = Closed(t, S)
  <1> DEFINE Upto(k) == {x \in S : x <= k}
             g == [k \in 0 .. Slots |-> Closed(t, Upto(k))]
  <1>1. S \subseteq Ids /\ Slots \in Nat /\ Ids = 1 .. Slots /\ \A x \in S : t[x].valid
    BY SocketAssumption, IdFacts DEF Open
  <1>0. Slots \in Nat /\ \A x \in S : x \in Int /\ 1 <= x /\ x <= Slots
    BY <1>1
  <1>2. Closed(t, Upto(0)) = t
    <2>1. Upto(0) = {}
      BY <1>0
    <2>2. Closed(t, {}) = t
      BY DEF Closed, Table
    <2> QED
      BY <2>1, <2>2
  <1>3. ASSUME NEW k \in 1 .. Slots
        PROVE  Closed(t, Upto(k)) = IF k \in S THEN CloseOne(Closed(t, Upto(k - 1)), k) ELSE Closed(t, Upto(k - 1))
    <2>1. CASE k \in S
      <3>1. PICK T : T = Upto(k - 1)
        OBVIOUS
      <3>2. \A x \in S : x <= k <=> x <= k - 1 \/ x = k
        BY <1>0
      <3>3. Upto(k) = T \cup {k} /\ k \notin T
        <4>1. ~ (k <= k - 1)
          BY <1>0, <2>1
        <4> QED
          BY <2>1, <3>1, <3>2, <4>1
      <3>4. Open(t, T) /\ k \in Ids \ T /\ t[k].valid
        BY <1>1, <2>1, <3>1, <3>3 DEF Open
      <3>5. CloseOne(Closed(t, T), k) = Closed(t, T \cup {k})
        BY <3>4, CloseMore
      <3> QED
        BY <2>1, <3>1, <3>3, <3>5
    <2>2. CASE k \notin S
      <3>1. \A x \in S : x <= k <=> x <= k - 1
        BY <1>0, <2>2
      <3>2. Upto(k) = Upto(k - 1)
        BY <3>1
      <3> QED
        BY <2>2, <3>2
    <2> QED
      BY <2>1, <2>2
  <1>4. Rounds(g, t, S)
    <2>1. ASSUME NEW k \in 0 .. Slots
          PROVE  g[k] = IF k = 0 THEN t ELSE IF k \in S THEN CloseOne(g[k - 1], k) ELSE g[k - 1]
      <3>1. CASE k = 0
        BY <1>2, <3>1
      <3>2. CASE k # 0
        <4>1. k \in 1 .. Slots /\ k - 1 \in 0 .. Slots
          BY <1>1, <3>2
        <4>2. g[k] = Closed(t, Upto(k)) /\ g[k - 1] = Closed(t, Upto(k - 1))
          BY <4>1
        <4> HIDE DEF g, Upto
        <4> QED
          BY <1>3, <3>2, <4>1, <4>2
      <3> QED
        BY <3>1, <3>2
    <2>2. g = [k \in 0 .. Slots |-> g[k]]
      OBVIOUS
    <2> HIDE DEF g, Upto
    <2> QED
      BY <2>1, <2>2 DEF Rounds
  <1>5. ASSUME NEW f, Rounds(f, t, S) PROVE f[Slots] = Closed(t, S)
    <2> DEFINE T == {k \in Nat : k <= Slots => f[k] = Closed(t, Upto(k))}
    <2> HIDE DEF g
    <2>1. /\ f[0] = t
          /\ \A k \in 1 .. Slots : f[k] = IF k \in S THEN CloseOne(f[k - 1], k) ELSE f[k - 1]
      BY <1>1, <1>5 DEF Rounds
    <2>2. 0 \in T
      BY <1>2, <2>1
    <2>3. ASSUME NEW k \in T PROVE k + 1 \in T
      <3>1. SUFFICES ASSUME k + 1 <= Slots PROVE f[k + 1] = Closed(t, Upto(k + 1))
        OBVIOUS
      <3>2. PICK j : j = k + 1 /\ j \in 1 .. Slots /\ j - 1 = k
        BY <1>1, <3>1
      <3>3. f[k] = Closed(t, Upto(k))
        BY <1>1, <3>1
      <3> HIDE DEF Upto, T
      <3>4. f[j] = Closed(t, Upto(j))
        BY <1>3, <2>1, <3>2, <3>3
      <3> QED
        BY <3>2, <3>4
    <2>4. T \in SUBSET Nat
      OBVIOUS
    <2>5. T = Nat
      <3> HIDE DEF T, Upto
      <3> QED
        BY <2>2, <2>3, <2>4, CountUp
    <2>6. f[Slots] = Closed(t, Upto(Slots))
      <3>1. Slots \in T /\ Slots <= Slots
        BY <1>0, <2>5
      <3> HIDE DEF Upto
      <3> QED
        BY <3>1
    <2>7. Upto(Slots) = S
      BY <1>0
    <2> QED
      BY <2>6, <2>7
  <1>6. CloseAll(t, S) = (CHOOSE f : Rounds(f, t, S))[Slots]
    BY DEF CloseAll, Rounds
  <1> HIDE DEF g
  <1> QED
    BY <1>4, <1>5, <1>6

-----------------------------------------------------------------------------
(* The queues of listeners, and new sockets. *)

(* An entry of a queue. *)
LEMMA EntryFacts ==
    ASSUME NEW t \in [Ids -> Row], NEW l \in Ids
    PROVE  /\ t[l].queue \in Seq(Entry) /\ Len(t[l].queue) \in Nat
           /\ \A i \in 1 .. Len(t[l].queue) : /\ t[l].queue[i] \in Entry /\ t[l].queue[i].s \in Ids
                                              /\ t[l].queue[i].gen \in Nat
  <1>1. t[l].queue \in Seq(Entry) /\ Len(t[l].queue) \in Nat
    BY RowFacts
  <1>2. ASSUME NEW i \in 1 .. Len(t[l].queue) PROVE t[l].queue[i] \in Entry
    BY <1>1
  <1> QED
    BY <1>1, <1>2 DEF Entry

(* Entries that are equal are the same. *)
LEMMA OneEntry ==
    ASSUME NEW t, Lines(t), NEW l \in Ids, NEW o \in Ids, NEW k \in 1 .. Len(t[l].queue),
           NEW h \in 1 .. Len(t[o].queue), t[l].queue[k] = t[o].queue[h]
    PROVE  l = o /\ k = h
  BY DEF Lines

(* All but the queue of a row. *)
Loose(r, q) == /\ q.valid = r.valid /\ q.state = r.state /\ q.peer = r.peer /\ q.gen = r.gen
               /\ q.buf = r.buf /\ q.sent = r.sent /\ q.got = r.got

(* Only queues change. *)
LEMMA QueueTable ==
    ASSUME NEW t, Table(t), NEW u \in [Ids -> Row], Lines(u), \A x \in Ids : Loose(t[x], u[x]),
           \A x \in Ids : t[x].valid /\ Queued(u, x) =>
              Queued(t, x) \/ (Fresh(t[x]) /\ t[x].state = "CONNECTED")
    PROVE  Table(u)
  <1>1. t \in [Ids -> Row] /\ Paired(t) /\ Unjoined(t)
    BY DEF Table
  <1>2. ASSUME NEW x \in Ids, u[x].valid, u[x].peer # 0
        PROVE  Linked(u[x], x, u[u[x].peer], u[x].peer)
    <2>1. PICK y \in Ids : y = t[x].peer /\ y = u[x].peer
      BY <1>1, <1>2, RowFacts, IdFacts DEF Loose
    <2>2. Linked(t[x], x, t[y], y)
      BY <1>1, <1>2, <2>1 DEF Paired, Loose
    <2> QED
      BY <2>1, <2>2 DEF Linked, Loose
  <1>3. ASSUME NEW x \in Ids, u[x].valid
        PROVE  /\ u[x].state \in Early => Fresh(u[x])
               /\ Queued(u, x) => Fresh(u[x]) /\ u[x].state = "CONNECTED"
    BY <1>1, <1>3 DEF Unjoined, Loose, Fresh
  <1> QED
    BY <1>2, <1>3 DEF Table, Paired, Unjoined

(* A row with another queue. *)
LEMMA RowLines ==
    ASSUME NEW r \in Row, NEW b \in Seq(Entry), NEW q, q = [r EXCEPT !.queue = b]
    PROVE  q \in Row /\ Loose(r, q) /\ q.queue = b
  <1>1. q \in Row
    BY DEF Row
  <1> QED
    BY <1>1 DEF Row, Loose

(* A row with another peer. *)
LEMMA RowPeer ==
    ASSUME NEW r \in Row, NEW y \in 0 .. Slots, NEW q, q = [r EXCEPT !.peer = y]
    PROVE  /\ q \in Row /\ q.valid = r.valid /\ q.state = r.state /\ q.peer = y /\ q.queue = r.queue
           /\ q.gen = r.gen /\ q.buf = r.buf /\ q.sent = r.sent /\ q.got = r.got
  <1>1. q \in Row
    BY DEF Row
  <1> QED
    BY <1>1 DEF Row

(* A row that is valid or not. *)
LEMMA RowValid ==
    ASSUME NEW r \in Row, NEW f \in BOOLEAN, NEW q, q = [r EXCEPT !.valid = f]
    PROVE  q \in Row /\ q.valid = f /\ q.queue = r.queue /\ q.gen = r.gen
  <1>1. q \in Row
    BY DEF Row
  <1> QED
    BY <1>1 DEF Row

(* A row in another state. *)
LEMMA RowState ==
    ASSUME NEW r \in Row, NEW q, q = [r EXCEPT !.state = "CONNECTED"]
    PROVE  q \in Row /\ Alike(r, q) /\ q.state = "CONNECTED"
  <1>1. q \in Row
    BY DEF Row
  <1> QED
    BY <1>1 DEF Row, Alike

(* The table after the head of the queue of s was taken. *)
Shorter(t, s) == [t EXCEPT ![s].queue = Tail(@)]

(* The head of a queue is taken off. *)
LEMMA TailTable ==
    ASSUME NEW t, Table(t), NEW s \in Ids, t[s].queue # <<>>, NEW u, u = Shorter(t, s)
    PROVE  /\ Table(u) /\ \A x \in Ids : Loose(t[x], u[x]) /\ (x # s => u[x] = t[x])
           /\ Head(t[s].queue) \in Entry /\ Head(t[s].queue) = t[s].queue[1] /\ 1 \in 1 .. Len(t[s].queue)
           /\ u[s].queue = Tail(t[s].queue)
           /\ \A l \in Ids : \A j \in 1 .. Len(u[l].queue) : u[l].queue[j] # Head(t[s].queue)
  <1>1. t \in [Ids -> Row] /\ Lines(t) /\ t[s] \in Row
    BY DEF Table
  <1>2. PICK b : b = Tail(t[s].queue)
    OBVIOUS
  <1>3. PICK m \in Nat : m = Len(t[s].queue) /\ m >= 1
    <2>1. t[s].queue \in Seq(Entry)
      BY <1>1, RowFacts
    <2> QED
      BY <2>1, TailFacts
  <1>4. /\ b \in Seq(Entry) /\ Len(b) = m - 1 /\ \A i \in 1 .. m - 1 : b[i] = t[s].queue[i + 1]
        /\ Head(t[s].queue) = t[s].queue[1] /\ t[s].queue[1] \in Entry
    <2>1. t[s].queue \in Seq(Entry)
      BY <1>1, RowFacts
    <2> QED
      BY <1>2, <1>3, <2>1, TailFacts
  <1>5. /\ \A x \in Ids \ {s} : u[x] = t[x]
        /\ u[s] = [t[s] EXCEPT !.queue = b]
        /\ u = [x \in Ids |-> u[x]]
    BY <1>1, <1>2 DEF Shorter
  <1>6. u[s] \in Row /\ Loose(t[s], u[s]) /\ u[s].queue = b
    BY <1>1, <1>4, <1>5, RowLines
  <1>7. u \in [Ids -> Row] /\ \A x \in Ids : Loose(t[x], u[x])
    <2>1. \A x \in Ids : u[x] \in Row
      BY <1>1, <1>5, <1>6
    <2>2. \A x \in Ids \ {s} : Loose(t[x], u[x])
      BY <1>5 DEF Loose
    <2> QED
      BY <1>5, <1>6, <2>1, <2>2
  (* Every entry was there before. *)
  <1>8. ASSUME NEW l \in Ids, NEW i \in 1 .. Len(u[l].queue)
        PROVE  /\ l # s => i \in 1 .. Len(t[l].queue) /\ u[l].queue[i] = t[l].queue[i]
               /\ l = s => i + 1 \in 1 .. m /\ i + 1 # 1 /\ u[l].queue[i] = t[l].queue[i + 1]
    <2>1. CASE l # s
      BY <1>5, <2>1
    <2>2. CASE l = s
      <3>1. i \in 1 .. m - 1
        BY <1>4, <1>6, <2>2
      <3> QED
        BY <1>3, <1>4, <1>6, <2>2, <3>1
    <2> QED
      BY <2>1, <2>2
  <1>9. ASSUME NEW l \in Ids, NEW i \in 1 .. Len(u[l].queue)
        PROVE  \E k \in 1 .. Len(t[l].queue) : /\ u[l].queue[i] = t[l].queue[k]
                                               /\ l = s => k = i + 1
                                               /\ l # s => k = i
    BY <1>3, <1>8
  <1>10. Lines(u)
    <2>1. ASSUME NEW l \in Ids, NEW i \in 1 .. Len(u[l].queue)
          PROVE  u[l].queue[i].gen <= u[u[l].queue[i].s].gen
      <3>1. PICK k \in 1 .. Len(t[l].queue) : u[l].queue[i] = t[l].queue[k]
        BY <1>9
      <3>2. t[l].queue[k].s \in Ids /\ t[l].queue[k].gen <= t[t[l].queue[k].s].gen
        BY <1>1, EntryFacts DEF Lines
      <3>3. u[t[l].queue[k].s].gen = t[t[l].queue[k].s].gen
        BY <1>7, <3>2 DEF Loose
      <3> QED
        BY <3>1, <3>2, <3>3
    <2>2. ASSUME NEW l \in Ids, NEW o \in Ids, NEW i \in 1 .. Len(u[l].queue), NEW j \in 1 .. Len(u[o].queue),
                 u[l].queue[i] = u[o].queue[j]
          PROVE  l = o /\ i = j
      <3>1. PICK k \in 1 .. Len(t[l].queue) :
               u[l].queue[i] = t[l].queue[k] /\ (l = s => k = i + 1) /\ (l # s => k = i)
        BY <1>9
      <3>2. PICK h \in 1 .. Len(t[o].queue) :
               u[o].queue[j] = t[o].queue[h] /\ (o = s => h = j + 1) /\ (o # s => h = j)
        BY <1>9
      <3>5. t[l].queue[k] = t[o].queue[h]
        BY <2>2, <3>1, <3>2
      <3>3. l = o /\ k = h
        BY <1>1, <3>5, OneEntry
      <3>4. i \in Int /\ j \in Int
        OBVIOUS
      <3> QED
        BY <3>1, <3>2, <3>3, <3>4
    <2> QED
      BY <2>1, <2>2 DEF Lines
  <1>11. ASSUME NEW x \in Ids, Queued(u, x) PROVE Queued(t, x)
    <2>1. PICK l \in Ids : \E i \in 1 .. Len(u[l].queue) : Stands(u, l, i, x)
      BY <1>11 DEF Queued
    <2>2. PICK i \in 1 .. Len(u[l].queue) : Stands(u, l, i, x)
      BY <2>1
    <2>3. PICK k \in 1 .. Len(t[l].queue) : u[l].queue[i] = t[l].queue[k]
      BY <1>9
    <2>4. Stands(t, l, k, x)
      BY <1>7, <2>2, <2>3 DEF Stands, Loose
    <2> QED
      BY <2>4 DEF Queued
  <1>12. Table(u)
    BY <1>7, <1>10, <1>11, QueueTable
  <1>13. ASSUME NEW l \in Ids, NEW j \in 1 .. Len(u[l].queue) PROVE u[l].queue[j] # Head(t[s].queue)
    <2>1. SUFFICES ASSUME u[l].queue[j] = t[s].queue[1] PROVE FALSE
      BY <1>4
    <2>2. PICK k \in 1 .. Len(t[l].queue) : u[l].queue[j] = t[l].queue[k] /\ (l = s => k = j + 1)
      BY <1>9
    <2>3. 1 \in 1 .. Len(t[s].queue)
      BY <1>3
    <2>5. t[l].queue[k] = t[s].queue[1]
      BY <2>1, <2>2
    <2>4. l = s /\ k = 1
      BY <1>1, <2>3, <2>5, OneEntry
    <2> QED
      BY <2>2, <2>4
  <1>14. 1 \in 1 .. Len(t[s].queue) /\ u[s].queue = Tail(t[s].queue)
    BY <1>2, <1>3, <1>6
  <1> QED
    BY <1>4, <1>5, <1>7, <1>12, <1>13, <1>14

(* The table after s was queued at the listener l. *)
Enlists(t, s, l) == [t EXCEPT ![s].state = "CONNECTED", ![s].peer = 0,
                              ![l].queue = Append(@, [s |-> s, gen |-> t[s].gen])]

(* A socket that has not connected yet joins the end of a queue. *)
LEMMA ConnectTable ==
    ASSUME NEW t, Table(t), NEW s \in Ids, NEW l \in Ids, s # l, t[s].valid, t[s].state = "UNBOUND", NEW u,
           u = Enlists(t, s, l)
    PROVE  /\ Table(u)
           /\ \A x \in Ids \ {s, l} : u[x] = t[x]
           /\ u[l] \in Row /\ Loose(t[l], u[l]) /\ u[s].valid /\ u[s].state = "CONNECTED" /\ u[s].peer = 0
           /\ u[s].gen = t[s].gen /\ u[s].queue = t[s].queue /\ u[s].buf = t[s].buf
           /\ Len(u[l].queue) = Len(t[l].queue) + 1
           /\ \A i \in 1 .. Len(t[l].queue) : u[l].queue[i] = t[l].queue[i]
           /\ u[l].queue[Len(t[l].queue) + 1].s = s /\ u[l].queue[Len(t[l].queue) + 1].gen = t[s].gen
  <1>1. t \in [Ids -> Row] /\ Paired(t) /\ Unjoined(t) /\ Lines(t) /\ t[s] \in Row /\ t[l] \in Row
    BY DEF Table
  <1>2. Fresh(t[s]) /\ ~ Queued(t, s) /\ t[s].peer = 0
    BY <1>1 DEF Unjoined, Early, Fresh
  <1>3. PICK e \in Entry : e = [s |-> s, gen |-> t[s].gen] /\ e.s = s /\ e.gen = t[s].gen
    <2>1. t[s].gen \in Nat
      BY <1>1, RowFacts
    <2>2. PICK e : e = [s |-> s, gen |-> t[s].gen]
      OBVIOUS
    <2>3. e \in Entry
      BY <2>1, <2>2 DEF Entry
    <2>4. e.s = s /\ e.gen = t[s].gen
      BY <2>2
    <2> QED
      BY <2>2, <2>3, <2>4
  <1>4. PICK b : b = Append(t[l].queue, e)
    OBVIOUS
  <1>5. PICK m \in Nat : m = Len(t[l].queue)
    BY <1>1, RowFacts
  <1>6. b \in Seq(Entry) /\ Len(b) = m + 1 /\ b[m + 1] = e /\ \A i \in 1 .. m : b[i] = t[l].queue[i]
    <2>1. t[l].queue \in Seq(Entry)
      BY <1>1, RowFacts
    <2> QED
      BY <1>3, <1>4, <1>5, <2>1, AppendFacts
  (* First the state, then the queue. *)
  <1>7. PICK v : v = [t EXCEPT ![s].state = "CONNECTED", ![s].peer = 0]
    OBVIOUS
  <1>8. /\ \A x \in Ids \ {s} : v[x] = t[x]
        /\ v[s] = [t[s] EXCEPT !.state = "CONNECTED", !.peer = 0]
        /\ v = [x \in Ids |-> v[x]]
    BY <1>1, <1>7
  <1>9. /\ \A x \in Ids \ {l} : u[x] = v[x]
        /\ u[l] = [v[l] EXCEPT !.queue = b]
        /\ u = [x \in Ids |-> u[x]]
    BY <1>1, <1>3, <1>4, <1>7 DEF Enlists
  <1>10. v[s] \in Row /\ Alike(t[s], v[s]) /\ v[s].state = "CONNECTED"
    <2>1. /\ v[s] \in Row /\ v[s].valid = t[s].valid /\ v[s].peer = 0
          /\ v[s].queue = t[s].queue /\ v[s].gen = t[s].gen
          /\ v[s].buf = t[s].buf /\ v[s].sent = t[s].sent /\ v[s].got = t[s].got /\ v[s].state = "CONNECTED"
      <3>1. PICK r : r = [t[s] EXCEPT !.state = "CONNECTED"]
        OBVIOUS
      <3>2. r \in Row /\ Alike(t[s], r) /\ r.state = "CONNECTED"
        BY <1>1, <3>1, RowState
      <3>3. v[s] = [r EXCEPT !.peer = 0] /\ 0 \in 0 .. Slots
        BY <1>8, <3>1, SocketAssumption
      <3>4. /\ v[s] \in Row /\ v[s].valid = r.valid /\ v[s].state = r.state /\ v[s].peer = 0
            /\ v[s].queue = r.queue /\ v[s].gen = r.gen
            /\ v[s].buf = r.buf /\ v[s].sent = r.sent /\ v[s].got = r.got
        BY <3>2, <3>3, RowPeer
      <3> QED
        BY <3>2, <3>4 DEF Alike
    <2> QED
      BY <1>2, <2>1 DEF Alike
  <1>11. Fresh(v[s]) /\ v[s].valid
    BY <1>2, <1>10 DEF Alike, Fresh
  <1>12. Table(v) /\ \A x \in Ids : Queued(v, x) <=> Queued(t, x)
    <2>1. \A x \in Ids \ {s} : t[x].valid /\ t[x].peer # 0 => t[x].peer \notin {s}
      BY <1>1, <1>2, IdFacts DEF Paired, Linked
    <2>2. Right(t, v, s)
      BY <1>2, <1>11 DEF Right, Fresh
    <2>3. Changed(t, v, {s})
      BY <1>8, <1>10, <2>1, <2>2 DEF Changed, Alike
    <2> QED
      BY <2>3, Change
  <1>13. v[l] = t[l] /\ v \in [Ids -> Row] /\ Lines(v) /\ ~ Queued(v, s) /\ v[s].gen = t[s].gen
    BY <1>2, <1>8, <1>10, <1>12 DEF Table, Alike
  <1>14. u[l] \in Row /\ Loose(t[l], u[l]) /\ u[l].queue = b
    BY <1>1, <1>6, <1>9, <1>13, RowLines
  <1>15. u \in [Ids -> Row] /\ \A x \in Ids : Loose(v[x], u[x])
    <2>1. \A x \in Ids : u[x] \in Row
      BY <1>9, <1>13, <1>14
    <2>2. \A x \in Ids \ {l} : Loose(v[x], u[x])
      BY <1>9 DEF Loose
    <2> QED
      BY <1>9, <1>13, <1>14, <2>1, <2>2
  <1>16. ASSUME NEW o \in Ids, NEW i \in 1 .. Len(u[o].queue)
         PROVE  \/ i \in 1 .. Len(v[o].queue) /\ u[o].queue[i] = v[o].queue[i]
                \/ o = l /\ i = m + 1 /\ u[o].queue[i] = e
    <2>1. CASE o # l
      BY <1>9, <2>1
    <2>2. CASE o = l
      <3>1. i \in 1 .. m + 1 /\ u[o].queue = b /\ v[o].queue = t[l].queue
        BY <1>6, <1>13, <1>14, <2>2
      <3> QED
        BY <1>5, <1>6, <2>2, <3>1
    <2> QED
      BY <2>1, <2>2
  (* Nothing in the queues stands for the socket yet. *)
  <1>17. ASSUME NEW o \in Ids, NEW i \in 1 .. Len(v[o].queue) PROVE v[o].queue[i] # e
    BY <1>3, <1>13 DEF Queued, Stands
  <1>18. Lines(u)
    <2>1. ASSUME NEW o \in Ids, NEW i \in 1 .. Len(u[o].queue)
          PROVE  u[o].queue[i].gen <= u[u[o].queue[i].s].gen
      <3>1. CASE i \in 1 .. Len(v[o].queue) /\ u[o].queue[i] = v[o].queue[i]
        <4>1. v[o].queue[i].s \in Ids /\ v[o].queue[i].gen <= v[v[o].queue[i].s].gen
          BY <1>13, <3>1, EntryFacts DEF Lines
        <4> QED
          BY <1>15, <3>1, <4>1 DEF Loose
      <3>2. CASE u[o].queue[i] = e
        <4>1. u[s].gen = t[s].gen /\ t[s].gen \in Nat
          BY <1>1, <1>13, <1>15, RowFacts DEF Loose
        <4> QED
          BY <1>3, <3>2, <4>1
      <3> QED
        BY <1>16, <3>1, <3>2
    <2>2. ASSUME NEW o \in Ids, NEW p \in Ids, NEW i \in 1 .. Len(u[o].queue), NEW j \in 1 .. Len(u[p].queue),
                 u[o].queue[i] = u[p].queue[j]
          PROVE  o = p /\ i = j
      <3>1. CASE /\ i \in 1 .. Len(v[o].queue) /\ u[o].queue[i] = v[o].queue[i]
                 /\ j \in 1 .. Len(v[p].queue) /\ u[p].queue[j] = v[p].queue[j]
        <4>1. v[o].queue[i] = v[p].queue[j]
          BY <2>2, <3>1
        <4> QED
          BY <1>13, <3>1, <4>1, OneEntry
      <3>2. CASE o = l /\ i = m + 1 /\ u[o].queue[i] = e
        <4>1. ~ (j \in 1 .. Len(v[p].queue) /\ u[p].queue[j] = v[p].queue[j])
          BY <1>17, <2>2, <3>2
        <4> QED
          BY <1>16, <3>2, <4>1
      <3>3. CASE p = l /\ j = m + 1 /\ u[p].queue[j] = e
        <4>1. ~ (i \in 1 .. Len(v[o].queue) /\ u[o].queue[i] = v[o].queue[i])
          BY <1>17, <2>2, <3>3
        <4> QED
          BY <1>16, <3>3, <4>1
      <3> QED
        BY <1>16, <3>1, <3>2, <3>3
    <2> QED
      BY <2>1, <2>2 DEF Lines
  <1>19. ASSUME NEW x \in Ids, Queued(u, x)
         PROVE  Queued(v, x) \/ (Fresh(v[x]) /\ v[x].state = "CONNECTED")
    <2>1. PICK o \in Ids : \E i \in 1 .. Len(u[o].queue) : Stands(u, o, i, x)
      BY <1>19 DEF Queued
    <2>2. PICK i \in 1 .. Len(u[o].queue) : Stands(u, o, i, x)
      BY <2>1
    <2>3. CASE i \in 1 .. Len(v[o].queue) /\ u[o].queue[i] = v[o].queue[i]
      BY <1>15, <2>2, <2>3 DEF Queued, Stands, Loose
    <2>4. CASE u[o].queue[i] = e
      BY <1>3, <1>10, <1>11, <2>2, <2>4 DEF Stands
    <2> QED
      BY <1>16, <2>3, <2>4
  <1>20. Table(u)
    BY <1>12, <1>15, <1>18, <1>19, QueueTable
  <1>21. u[s] = v[s]
    BY <1>9
  <1>22. \A x \in Ids \ {s, l} : u[x] = t[x]
    BY <1>8, <1>9
  <1>23. /\ u[s].valid /\ u[s].state = "CONNECTED" /\ u[s].peer = 0
         /\ u[s].gen = t[s].gen /\ u[s].queue = t[s].queue /\ u[s].buf = t[s].buf
    BY <1>10, <1>11, <1>21 DEF Alike, Fresh
  <1>24. /\ Len(u[l].queue) = m + 1 /\ u[l].queue[m + 1] = e
         /\ \A i \in 1 .. m : u[l].queue[i] = t[l].queue[i]
    BY <1>6, <1>14
  <1> QED
    BY <1>3, <1>5, <1>14, <1>20, <1>22, <1>23, <1>24

(* The row of a slot that was just allocated. *)
NewRow(st, g) == [Blank EXCEPT !.valid = TRUE, !.state = st, !.gen = g]
Taken(t, n, st) == [t EXCEPT ![n] = NewRow(st, t[n].gen + 1)]

(* alloc_socket: a new use of a free slot. *)
LEMMA AllocTable ==
    ASSUME NEW t, Table(t), NEW n \in Ids, ~ t[n].valid, NEW st \in {"UNBOUND", "CONNECTED"}, NEW u,
           u = Taken(t, n, st)
    PROVE  /\ Table(u) /\ \A x \in Ids \ {n} : u[x] = t[x] /\ (Queued(u, x) => Queued(t, x))
           /\ u[n].valid /\ u[n].state = st /\ Fresh(u[n]) /\ ~ Queued(u, n)
           /\ u[n].queue = <<>> /\ u[n].gen = t[n].gen + 1
  <1>1. t \in [Ids -> Row] /\ Paired(t) /\ Unjoined(t) /\ Lines(t) /\ t[n] \in Row
    BY DEF Table
  <1>2. PICK g \in Nat : g = t[n].gen + 1
    BY <1>1, RowFacts
  <1>3. PICK f : f = TRUE /\ f \in BOOLEAN
    OBVIOUS
  <1>4. /\ \A x \in Ids \ {n} : u[x] = t[x]
        /\ u[n] = NewRow(st, g)
        /\ u = [x \in Ids |-> u[x]]
    BY <1>1, <1>2 DEF Taken
  <1>5. u[n] = [valid |-> f, state |-> st, nonblock |-> FALSE, bound |-> FALSE,
                peer |-> 0, queue |-> <<>>, backlog |-> 0, buf |-> <<>>, gen |-> g, sent |-> 0, got |-> 0]
    BY <1>3, <1>4 DEF Blank, NewRow
  <1>6. u[n] \in Row
    <2>1. <<>> \in Seq(Entry) /\ <<>> \in Seq(Byte) /\ 0 \in 0 .. Slots
      BY SocketAssumption
    <2>2. PICK k \in BOOLEAN : k = FALSE
      OBVIOUS
    <2>3. u[n] = [valid |-> f, state |-> st, nonblock |-> k, bound |-> k,
                  peer |-> 0, queue |-> <<>>, backlog |-> 0, buf |-> <<>>, gen |-> g, sent |-> 0, got |-> 0]
      BY <1>5, <2>2
    <2> QED
      BY <1>3, <2>1, <2>3 DEF Row
  <1>7. /\ u[n].state = st /\ u[n].peer = 0 /\ u[n].queue = <<>> /\ u[n].buf = <<>>
        /\ u[n].gen = g /\ u[n].sent = 0 /\ u[n].got = 0
    BY <1>5
  <1>8. u[n].valid
    <2>1. u[n].valid = f
      BY <1>5
    <2> QED
      BY <1>3, <2>1, Zenon
  <1>9. u \in [Ids -> Row]
    BY <1>1, <1>4, <1>6
  <1>10. Len(u[n].queue) = 0
    BY <1>7
  <1>11. Lines(u)
    <2>1. ASSUME NEW l \in Ids, NEW i \in 1 .. Len(u[l].queue)
          PROVE  u[l].queue[i].gen <= u[u[l].queue[i].s].gen
      <3>1. l # n
        BY <1>10
      <3>2. u[l] = t[l]
        BY <1>4, <3>1
      <3>3. t[l].queue[i].s \in Ids /\ t[l].queue[i].gen \in Nat /\ t[l].queue[i].gen <= t[t[l].queue[i].s].gen
        BY <1>1, <3>2, EntryFacts DEF Lines
      <3>4. CASE t[l].queue[i].s # n
        BY <1>4, <3>2, <3>3, <3>4
      <3>5. CASE t[l].queue[i].s = n
        <4>1. t[n].gen \in Nat
          BY <1>1, RowFacts
        <4> QED
          BY <1>2, <1>7, <3>2, <3>3, <3>5, <4>1
      <3> QED
        BY <3>4, <3>5
    <2>2. ASSUME NEW l \in Ids, NEW o \in Ids, NEW i \in 1 .. Len(u[l].queue), NEW j \in 1 .. Len(u[o].queue),
                 u[l].queue[i] = u[o].queue[j]
          PROVE  l = o /\ i = j
      <3>1. l # n /\ o # n
        BY <1>10
      <3>2. u[l] = t[l] /\ u[o] = t[o]
        BY <1>4, <3>1
      <3>3. t[l].queue[i] = t[o].queue[j] /\ i \in 1 .. Len(t[l].queue) /\ j \in 1 .. Len(t[o].queue)
        BY <2>2, <3>2
      <3> QED
        BY <1>1, <3>3, OneEntry
    <2> QED
      BY <2>1, <2>2 DEF Lines
  <1>12. ASSUME NEW x \in Ids \ {n}, Queued(u, x) PROVE Queued(t, x)
    <2>1. PICK l \in Ids : \E i \in 1 .. Len(u[l].queue) : Stands(u, l, i, x)
      BY <1>12 DEF Queued
    <2>2. PICK i \in 1 .. Len(u[l].queue) : Stands(u, l, i, x)
      BY <2>1
    <2>3. l # n
      BY <1>10, <2>2
    <2>4. u[l] = t[l] /\ u[x] = t[x]
      BY <1>4, <2>3
    <2> QED
      BY <2>2, <2>4 DEF Queued, Stands
  <1>13. ASSUME Queued(u, n) PROVE FALSE
    <2>1. PICK l \in Ids : \E i \in 1 .. Len(u[l].queue) : Stands(u, l, i, n)
      BY <1>13 DEF Queued
    <2>2. PICK i \in 1 .. Len(u[l].queue) : Stands(u, l, i, n)
      BY <2>1
    <2>3. l # n
      BY <1>10, <2>2
    <2>4. u[l] = t[l]
      BY <1>4, <2>3
    <2>5. t[l].queue[i].s = n /\ t[l].queue[i].gen = g /\ t[l].queue[i].gen <= t[n].gen
      BY <1>1, <1>7, <2>2, <2>4 DEF Stands, Lines
    <2>6. t[n].gen \in Nat
      BY <1>1, RowFacts
    <2> QED
      BY <1>2, <2>5, <2>6
  <1>14. Fresh(u[n])
    BY <1>7 DEF Fresh
  <1>15. Paired(u)
    <2>1. ASSUME NEW x \in Ids, u[x].valid, u[x].peer # 0
          PROVE  Linked(u[x], x, u[u[x].peer], u[x].peer)
      <3>1. x # n
        BY <1>7, <2>1
      <3>2. u[x] = t[x]
        BY <1>4, <3>1
      <3>3. t[x].peer \in Ids /\ t[x].peer # n
        BY <2>1, <3>2, PeerOf
      <3>4. u[t[x].peer] = t[t[x].peer]
        BY <1>4, <3>3
      <3>5. Linked(t[x], x, t[t[x].peer], t[x].peer)
        BY <1>1, <2>1, <3>2 DEF Paired
      <3> QED
        BY <3>2, <3>4, <3>5
    <2> QED
      BY <2>1 DEF Paired
  <1>16. Unjoined(u)
    BY <1>1, <1>4, <1>12, <1>13, <1>14 DEF Unjoined
  <1> QED
    BY <1>2, <1>4, <1>7, <1>8, <1>9, <1>11, <1>12, <1>13, <1>14, <1>15, <1>16 DEF Table

(* The table after n and c became peers. *)
Joins(t, n, c) == [t EXCEPT ![n].peer = c, ![c].peer = n]

(* accept: two new sockets become peers. *)
LEMMA JoinTable ==
    ASSUME NEW t, Table(t), NEW n \in Ids, NEW c \in Ids, n # c, t[n].valid, t[c].valid,
           t[n].state = "CONNECTED", t[c].state = "CONNECTED", Fresh(t[n]), Fresh(t[c]),
           ~ Queued(t, n), ~ Queued(t, c), NEW u, u = Joins(t, n, c)
    PROVE  /\ Table(u) /\ \A x \in Ids : u[x].queue = t[x].queue /\ u[x].gen = t[x].gen
           /\ \A x \in Ids \ {n, c} : u[x] = t[x]
           /\ u[n].valid /\ u[n].peer = c /\ u[n].buf = <<>>
           /\ u[c].valid /\ u[c].peer = n /\ u[c].buf = <<>> /\ u[c].state = "CONNECTED"
  <1>1. t \in [Ids -> Row] /\ Paired(t) /\ Unjoined(t) /\ t[n] \in Row /\ t[c] \in Row
    BY DEF Table
  <1>2. /\ \A x \in Ids \ {n, c} : u[x] = t[x]
        /\ u[n] = [t[n] EXCEPT !.peer = c] /\ u[c] = [t[c] EXCEPT !.peer = n]
        /\ u = [x \in Ids |-> u[x]]
    BY <1>1 DEF Joins
  <1>3. /\ u[n] \in Row /\ u[n].valid = t[n].valid /\ u[n].state = "CONNECTED" /\ u[n].peer = c
        /\ u[n].queue = t[n].queue /\ u[n].gen = t[n].gen /\ u[n].buf = <<>> /\ u[n].sent = 0 /\ u[n].got = 0
    <2>1. c \in 0 .. Slots /\ t[n] \in Row /\ u[n] = [t[n] EXCEPT !.peer = c]
      BY <1>1, <1>2, IdFacts
    <2>2. /\ u[n] \in Row /\ u[n].valid = t[n].valid /\ u[n].state = t[n].state /\ u[n].peer = c
          /\ u[n].queue = t[n].queue /\ u[n].gen = t[n].gen /\ u[n].buf = t[n].buf
          /\ u[n].sent = t[n].sent /\ u[n].got = t[n].got
      <3>1. PICK r, q : r \in Row /\ r = t[n] /\ q = u[n] /\ q = [r EXCEPT !.peer = c]
        BY <2>1
      <3>2. /\ q \in Row /\ q.valid = r.valid /\ q.state = r.state /\ q.peer = c /\ q.queue = r.queue
            /\ q.gen = r.gen /\ q.buf = r.buf /\ q.sent = r.sent /\ q.got = r.got
        BY <2>1, <3>1, RowPeer
      <3> QED
        BY <3>1, <3>2
    <2> QED
      BY <2>2 DEF Fresh
  <1>4. /\ u[c] \in Row /\ u[c].valid = t[c].valid /\ u[c].state = "CONNECTED" /\ u[c].peer = n
        /\ u[c].queue = t[c].queue /\ u[c].gen = t[c].gen /\ u[c].buf = <<>> /\ u[c].sent = 0 /\ u[c].got = 0
    <2>1. n \in 0 .. Slots /\ t[c] \in Row /\ u[c] = [t[c] EXCEPT !.peer = n]
      BY <1>1, <1>2, IdFacts
    <2>2. /\ u[c] \in Row /\ u[c].valid = t[c].valid /\ u[c].state = t[c].state /\ u[c].peer = n
          /\ u[c].queue = t[c].queue /\ u[c].gen = t[c].gen /\ u[c].buf = t[c].buf
          /\ u[c].sent = t[c].sent /\ u[c].got = t[c].got
      <3>1. PICK r, q : r \in Row /\ r = t[c] /\ q = u[c] /\ q = [r EXCEPT !.peer = n]
        BY <2>1
      <3>2. /\ q \in Row /\ q.valid = r.valid /\ q.state = r.state /\ q.peer = n /\ q.queue = r.queue
            /\ q.gen = r.gen /\ q.buf = r.buf /\ q.sent = r.sent /\ q.got = r.got
        BY <2>1, <3>1, RowPeer
      <3> QED
        BY <3>1, <3>2
    <2> QED
      BY <2>2 DEF Fresh
  <1>5. Len(u[n].buf) = 0 /\ Len(u[c].buf) = 0
    BY <1>3, <1>4
  <1>6. Linked(u[n], n, u[c], c) /\ Linked(u[c], c, u[n], n)
    BY <1>3, <1>4, <1>5 DEF Linked
  <1>7. Right(t, u, n) /\ Right(t, u, c)
    BY <1>3, <1>4, <1>6 DEF Right, Early
  <1>8. \A x \in Ids \ {n, c} : t[x].valid /\ t[x].peer # 0 => t[x].peer \notin {n, c}
    BY <1>1, IdFacts DEF Paired, Linked, Fresh
  <1>9. Changed(t, u, {n, c})
    BY <1>2, <1>3, <1>4, <1>7, <1>8 DEF Changed
  <1>10. Table(u)
    BY <1>9, Change
  <1>11. \A x \in Ids : u[x].queue = t[x].queue /\ u[x].gen = t[x].gen
    BY <1>9 DEF Changed
  <1>12. u[n].valid /\ u[c].valid
    BY <1>3, <1>4, Zenon
  <1> QED
    BY <1>2, <1>3, <1>4, <1>10, <1>11, <1>12

(* The table after n was given up and c lost its peer. *)
Parts(t, n, c) == [t EXCEPT ![n].valid = FALSE, ![c].peer = 0]

(* accept fails after that: the new socket is given up. *)
LEMMA PartTable ==
    ASSUME NEW t, Table(t), NEW n \in Ids, NEW c \in Ids, t[n].valid, t[n].peer = c, NEW u,
           u = Parts(t, n, c)
    PROVE  /\ Table(u) /\ \A x \in Ids : u[x].queue = t[x].queue /\ u[x].gen = t[x].gen
           /\ \A x \in Ids \ {n, c} : u[x] = t[x]
           /\ u[c].valid /\ u[c].state = "CONNECTED" /\ u[c].buf = t[c].buf
  <1>1. t \in [Ids -> Row] /\ Paired(t) /\ Unjoined(t) /\ t[n] \in Row /\ t[c] \in Row
    BY DEF Table
  <1>2. n # c /\ t[c].valid /\ t[c].peer = n /\ t[c].state = "CONNECTED" /\ ~ Queued(t, c)
    BY IdFacts, PeerOf
  <1>3. PICK f \in BOOLEAN : f = FALSE
    OBVIOUS
  <1>4. /\ \A x \in Ids \ {n, c} : u[x] = t[x]
        /\ u[n] = [t[n] EXCEPT !.valid = f] /\ u[c] = [t[c] EXCEPT !.peer = 0]
        /\ u = [x \in Ids |-> u[x]]
    BY <1>1, <1>2, <1>3 DEF Parts
  <1>5. u[n] \in Row /\ u[n].queue = t[n].queue /\ u[n].gen = t[n].gen /\ u[n].valid = f
    BY <1>1, <1>4, RowValid
  <1>6. /\ u[c] \in Row /\ u[c].queue = t[c].queue /\ u[c].gen = t[c].gen /\ u[c].peer = 0
        /\ u[c].state = "CONNECTED" /\ u[c].buf = t[c].buf /\ u[c].valid = t[c].valid
    <2>1. 0 \in 0 .. Slots
      BY SocketAssumption
    <2>2. PICK r, q : r \in Row /\ r = t[c] /\ q = u[c] /\ q = [r EXCEPT !.peer = 0]
      BY <1>1, <1>4
    <2>3. /\ q \in Row /\ q.valid = r.valid /\ q.state = r.state /\ q.peer = 0 /\ q.queue = r.queue
          /\ q.gen = r.gen /\ q.buf = r.buf
      BY <2>1, <2>2, RowPeer
    <2> QED
      BY <1>2, <2>2, <2>3
  <1>7. ~ u[n].valid
    BY <1>3, <1>5, Zenon
  <1>8. Right(t, u, c)
    BY <1>2, <1>6 DEF Right, Early
  <1>9. \A x \in Ids \ {n, c} : t[x].valid /\ t[x].peer # 0 => t[x].peer \notin {n, c}
    BY <1>1, <1>2 DEF Paired, Linked
  <1>10. Changed(t, u, {n, c})
    BY <1>4, <1>5, <1>6, <1>7, <1>8, <1>9 DEF Changed
  <1>11. Table(u)
    BY <1>10, Change
  <1>12. u[c].valid
    BY <1>2, <1>6, Zenon
  <1>13. \A x \in Ids : u[x].queue = t[x].queue /\ u[x].gen = t[x].gen
    BY <1>10 DEF Changed
  <1> QED
    BY <1>4, <1>6, <1>11, <1>12, <1>13

-----------------------------------------------------------------------------
(* One process acts, the others look on. *)

Waits(p) == proc[p].at \in {"wait", "asleep"}

(* What the step leaves to the process that takes it. *)
Actor(p) ==
    /\ holds' \in [Procs -> SUBSET Ids] /\ proc' \in [Procs -> Act] /\ missed' \subseteq Procs
    /\ \A s \in holds'[p] : sock'[s].valid /\ \A q \in Procs \ {p} : s \notin holds[q]
    /\ proc'[p].at # "user" => proc'[p].s \in holds'[p]
    /\ proc'[p].at = "user" <=> proc'[p].op = "none"
    /\ Doing(p)' /\ (p \notin missed' /\ Waits(p)' => Reason(p)') /\ Client(p)'

(* What it may do to another one: wake it, and change its socket, but not   *)
(* the reason for which it goes on waiting.                                 *)
Woke(q) == proc[q].at = "asleep" /\ proc'[q] = [proc[q] EXCEPT !.at = "woke"]
By(q) ==
    LET s == proc[q].s
        t == sock[s].peer IN
    /\ proc'[q] = proc[q] \/ Woke(q)
    /\ holds'[q] = holds[q] /\ \A x \in holds[q] : sock'[x].valid
    /\ q \in missed => q \in missed'
    /\ proc[q].at # "user" =>
         /\ sock'[s].state = sock[s].state \/ (sock[s].state = "CONNECTED" /\ sock'[s].state = "CLOSED")
         /\ sock[s].queue # <<>> => sock'[s].queue # <<>>
         /\ Len(sock[s].buf) <= Len(sock'[s].buf)
    /\ proc'[q] = proc[q] /\ Waits(q) /\ q \notin missed' =>
         /\ sock'[s].peer = t /\ sock'[s].state = sock[s].state
         /\ proc[q].op = "read" => sock'[s].buf = sock[s].buf
         /\ proc[q].op = "accept" => sock'[s].queue = sock[s].queue
         /\ proc[q].op = "write" /\ t # 0 /\ (Len(sock[t].buf) >= Size \/ Emptied(q)) =>
              Len(sock'[t].buf) >= Size \/ Emptied(q)'

(* A client in connect stays in its queue until it is accepted. *)
Answered(s) == s \in forgotten' \/ sock'[s].peer # 0 \/ sock'[s].state # "CONNECTED"
ByClient(q) ==
    LET s == proc[q].s IN
    proc[q].op = "connect" /\ ~ Answered(s) =>
      /\ sock[s].peer = 0 /\ sock[s].state = "CONNECTED" /\ s \notin forgotten
      /\ \A l \in Ids : \A i \in 1 .. Len(sock[l].queue) :
            sock[l].valid /\ sock[l].state = "LISTENING" /\ Stands(sock, l, i, s) =>
              /\ sock'[l].valid /\ sock'[l].state = "LISTENING"
              /\ \E j \in 1 .. Len(sock'[l].queue) : Stands(sock', l, j, s)

(* A process's record. *)
LEMMA ActFacts ==
    ASSUME NEW a \in Act
    PROVE  /\ a.s \in 0 .. Slots /\ a.peer \in 0 .. Slots /\ a.n \in Nat
           /\ [a EXCEPT !.at = "woke"] \in Act /\ [a EXCEPT !.at = "woke"].at = "woke"
           /\ [a EXCEPT !.at = "woke"].op = a.op /\ [a EXCEPT !.at = "woke"].s = a.s
           /\ [a EXCEPT !.at = "woke"].on = a.on /\ [a EXCEPT !.at = "woke"].n = a.n
           /\ [a EXCEPT !.at = "woke"].peer = a.peer
  <1>1. PICK b : b = [a EXCEPT !.at = "woke"]
    OBVIOUS
  <1>2. /\ b \in Act /\ b.at = "woke" /\ b.op = a.op /\ b.s = a.s /\ b.on = a.on /\ b.n = a.n /\ b.peer = a.peer
    BY <1>1 DEF Act
  <1>3. a.s \in 0 .. Slots /\ a.peer \in 0 .. Slots /\ a.n \in Nat
    BY DEF Act
  <1> QED
    BY <1>1, <1>2, <1>3

(* The others keep what holds of them. *)
LEMMA ByKeeps ==
    ASSUME Good, NEW q \in Procs, By(q), ByClient(q)
    PROVE  /\ Doing(q)' /\ (q \notin missed' /\ Waits(q)' => Reason(q)') /\ Client(q)'
           /\ proc'[q].s = proc[q].s /\ proc'[q].op = proc[q].op
           /\ proc'[q].at = "user" <=> proc[q].at = "user"
  <1>1. proc[q] \in Act /\ Doing(q) /\ Client(q)
    BY DEF Good, Seats
  <1>2. /\ proc'[q].s = proc[q].s /\ proc'[q].op = proc[q].op /\ proc'[q].on = proc[q].on
        /\ proc'[q].n = proc[q].n /\ proc'[q].peer = proc[q].peer
        /\ proc'[q].at = proc[q].at \/ (proc[q].at = "asleep" /\ proc'[q].at = "woke")
    BY <1>1, ActFacts DEF By, Woke
  <1>3. PICK s : s = proc[q].s
    OBVIOUS
  <1>4. proc[q].at = "user" <=> proc[q].op = "none"
    BY DEF Good, Seats
  <1>5. Doing(q)'
    <2>1. ASSUME proc[q].at # "user"
          PROVE  /\ sock'[s].state = sock[s].state \/ (sock[s].state = "CONNECTED" /\ sock'[s].state = "CLOSED")
                 /\ sock[s].queue # <<>> => sock'[s].queue # <<>>
                 /\ Len(sock[s].buf) <= Len(sock'[s].buf)
      BY <1>3, <2>1 DEF By
    <2>2. ASSUME proc[q].at = "copy" PROVE proc[q].n \in 1 .. Len(sock'[s].buf)
      <3>1. proc[q].n \in 1 .. Len(sock[s].buf)
        BY <1>1, <1>3, <2>2 DEF Doing
      <3>2. s \in Ids
        BY <1>3, <2>2 DEF Good, Seats
      <3>3. Len(sock[s].buf) \in Nat /\ Len(sock[s].buf) <= Len(sock'[s].buf)
        BY <2>1, <2>2, <3>2, RowFacts DEF Good, Table
      <3> QED
        BY <3>1, <3>3
    <2>3. /\ proc[q].op = "connect" => sock'[s].state \in {"CONNECTED", "CLOSED"}
          /\ proc[q].op = "accept" => sock'[s].state = "LISTENING"
      BY <1>1, <1>3, <1>4, <2>1 DEF Doing
    <2>4. proc[q].at = "take" => proc[q].op = "accept" /\ sock'[s].queue # <<>>
      BY <1>1, <1>3, <2>1 DEF Doing
    <2> QED
      BY <1>1, <1>2, <1>3, <2>2, <2>3, <2>4 DEF Doing
  <1>6. ASSUME q \notin missed', Waits(q)' PROVE Reason(q)'
    <2>1. proc'[q] = proc[q] /\ Waits(q) /\ q \notin missed
      BY <1>1, <1>6, ActFacts DEF By, Woke, Waits
    <2>2. Reason(q)
      BY <2>1 DEF Good, Reasons, Waits
    <2>3. PICK t : t = sock[s].peer
      OBVIOUS
    <2>4. /\ sock'[s].peer = t /\ sock'[s].state = sock[s].state
          /\ proc[q].op = "read" => sock'[s].buf = sock[s].buf
          /\ proc[q].op = "accept" => sock'[s].queue = sock[s].queue
          /\ proc[q].op = "write" /\ t # 0 /\ (Len(sock[t].buf) >= Size \/ Emptied(q)) =>
               Len(sock'[t].buf) >= Size \/ Emptied(q)'
      BY <1>3, <1>6, <2>1, <2>3 DEF By
    <2> QED
      BY <1>3, <2>1, <2>2, <2>3, <2>4 DEF Reason
  <1>7. Client(q)'
    <2>1. SUFFICES ASSUME proc[q].op = "connect", ~ Answered(s)
                   PROVE  \E l \in Ids : /\ sock'[l].valid /\ sock'[l].state = "LISTENING"
                                         /\ \E i \in 1 .. Len(sock'[l].queue) : Stands(sock', l, i, s)
      BY <1>2, <1>3 DEF Client, Answered
    <2>2. sock[s].peer = 0 /\ sock[s].state = "CONNECTED" /\ s \notin forgotten
      BY <1>3, <2>1 DEF ByClient
    <2>3. PICK l \in Ids : /\ sock[l].valid /\ sock[l].state = "LISTENING"
                           /\ \E i \in 1 .. Len(sock[l].queue) : Stands(sock, l, i, s)
      BY <1>1, <1>3, <2>1, <2>2 DEF Client
    <2> QED
      BY <1>3, <2>1, <2>3 DEF ByClient
  <1> QED
    BY <1>2, <1>5, <1>6, <1>7

(* A step of p keeps the invariant. *)
LEMMA GoodStep ==
    ASSUME Good, NEW p \in Procs, Table(sock'), Actor(p), \A q \in Procs \ {p} : By(q) /\ ByClient(q)
    PROVE  Good'
  <1>1. \A q \in Procs \ {p} : /\ Doing(q)' /\ (q \notin missed' /\ Waits(q)' => Reason(q)') /\ Client(q)'
                               /\ proc'[q].s = proc[q].s /\ proc'[q].op = proc[q].op
                               /\ proc'[q].at = "user" <=> proc[q].at = "user"
                               /\ holds'[q] = holds[q] /\ \A x \in holds[q] : sock'[x].valid
    BY ByKeeps DEF By
  <1>2. Seats'
    <2>1. \A q \in Procs : \A s \in holds'[q] : sock'[s].valid
      BY <1>1 DEF Actor
    <2>2. ASSUME NEW q \in Procs, NEW o \in Procs, q # o PROVE holds'[q] \cap holds'[o] = {}
      BY <1>1, <2>2 DEF Actor, Good, Seats
    <2>3. \A q \in Procs : /\ proc'[q].at # "user" => proc'[q].s \in holds'[q]
                           /\ proc'[q].at = "user" <=> proc'[q].op = "none"
      BY <1>1 DEF Actor, Good, Seats
    <2> QED
      BY <2>1, <2>2, <2>3 DEF Seats, Actor
  <1>3. \A q \in Procs : Doing(q)' /\ Client(q)'
    BY <1>1 DEF Actor
  <1>4. Reasons'
    <2>1. \A q \in Procs : q \notin missed' /\ Waits(q)' => Reason(q)'
      BY <1>1 DEF Actor
    <2> QED
      BY <2>1 DEF Reasons, Waits
  <1> QED
    BY <1>2, <1>3, <1>4 DEF Good

-----------------------------------------------------------------------------
(* How processes are woken, and how one's own record changes. *)

(* What q notices of a wake-up of the queues qs. *)
Told(q, qs) ==
    /\ proc'[q] = proc[q] \/ Woke(q)
    /\ q \in missed => q \in missed'
    /\ proc'[q] = proc[q] /\ Waits(q) /\ q \notin missed' => proc[q].on \notin qs

(* Woken, process by process. *)
LEMMA WokenFacts ==
    ASSUME NEW pr \in [Procs -> Act], NEW qs
    PROVE  /\ Woken(pr, qs) \in [Procs -> Act]
           /\ \A q \in Procs :
                 /\ pr[q].at = "asleep" /\ pr[q].on \in qs => Woken(pr, qs)[q] = [pr[q] EXCEPT !.at = "woke"]
                 /\ ~ (pr[q].at = "asleep" /\ pr[q].on \in qs) => Woken(pr, qs)[q] = pr[q]
  <1>1. \A q \in Procs : pr[q] \in Act /\ [pr[q] EXCEPT !.at = "woke"] \in Act
    BY ActFacts
  <1> QED
    BY <1>1 DEF Woken

(* One that is not asleep is not woken. *)
LEMMA NotWoken ==
    ASSUME NEW pr \in [Procs -> Act], NEW qs, NEW p \in Procs, pr[p].at # "asleep"
    PROVE  Woken(pr, qs) \in [Procs -> Act] /\ Woken(pr, qs)[p] = pr[p]
  <1>1. Woken(pr, qs)[p] = pr[p]
    BY DEF Woken
  <1>2. Woken(pr, qs) \in [Procs -> Act]
    BY WokenFacts
  <1> QED
    BY <1>1, <1>2, Zenon

(* One that is told to wake, or that misses it. *)
LEMMA ToldBy ==
    ASSUME Good, NEW q \in Procs, NEW qs, proc'[q] = Woken(proc, qs)[q],
           q \in Missing(qs) => q \in missed'
    PROVE  Told(q, qs)
  <1>1. proc \in [Procs -> Act] /\ proc[q] \in Act
    BY DEF Good, Seats
  <1>2. proc'[q] = proc[q] \/ Woke(q)
    BY <1>1, WokenFacts DEF Woke
  <1>3. q \in missed => q \in missed'
    BY DEF Missing
  <1>4. ASSUME proc'[q] = proc[q], Waits(q), q \notin missed', proc[q].on \in qs PROVE FALSE
    <2>1. proc[q].at # "wait"
      BY <1>4 DEF Missing
    <2>2. proc[q].at = "asleep"
      BY <1>4, <2>1 DEF Waits
    <2>3. proc'[q].at = "woke"
      <3>1. Woken(proc, qs)[q] = [proc[q] EXCEPT !.at = "woke"]
        <4>1. proc[q].at = "asleep" /\ proc[q].on \in qs =>
                Woken(proc, qs)[q] = [proc[q] EXCEPT !.at = "woke"]
          BY <1>1, WokenFacts
        <4> QED
          BY <1>4, <2>2, <4>1, Zenon
      <3>2. [proc[q] EXCEPT !.at = "woke"].at = "woke"
        BY <1>1, ActFacts
      <3> QED
        BY <3>1, <3>2, Zenon
    <2> QED
      BY <1>4, <2>2, <2>3
  <1> QED
    BY <1>2, <1>3, <1>4 DEF Told

(* One that sleeps nowhere in qs does not notice. *)
LEMMA ToldNothing ==
    ASSUME NEW q \in Procs, proc'[q] = proc[q], q \in missed => q \in missed'
    PROVE  Told(q, {})
  BY DEF Told

(* A buffer that is being emptied still is. *)
LEMMA EmptiedKept ==
    ASSUME Good, NEW p \in Procs, NEW q \in Procs, \A r \in Procs \ {p} : proc'[r] = proc[r] \/ Woke(r),
           proc'[q] = proc[q], sock'[proc[q].s].peer = sock[proc[q].s].peer,
           Standing(p, "read", "copy") => proc'[p].op = "read" /\ proc'[p].at = "copy" /\ proc'[p].s = proc[p].s,
           Emptied(q)
    PROVE  Emptied(q)'
  <1>1. PICK r \in Procs : Standing(r, "read", "copy") /\ proc[r].s = sock[proc[q].s].peer
    BY DEF Emptied
  <1>2. proc'[r].op = "read" /\ proc'[r].at = "copy" /\ proc'[r].s = proc[r].s
    BY <1>1 DEF Standing, Woke
  <1> QED
    BY <1>1, <1>2 DEF Emptied, Standing

(* Another process's socket, as its holder sees it. *)
LEMMA Other ==
    ASSUME Good, NEW p \in Procs, NEW q \in Procs, q # p, proc[q].at # "user"
    PROVE  /\ proc[q].s \in Ids /\ proc[q].s \in holds[q] /\ proc[q].s \notin holds[p] /\ sock[proc[q].s].valid
           /\ sock[proc[q].s].peer # 0 =>
                sock[proc[q].s].peer \in Ids /\ sock[sock[proc[q].s].peer].valid
  <1>1. proc[q].s \in holds[q] /\ holds[q] \subseteq Ids /\ proc[q].s \notin holds[p] /\ sock[proc[q].s].valid
    BY DEF Good, Seats
  <1> QED
    BY <1>1, PeerOf DEF Good

(* What q's call looks at stays as it is. *)
Unseen(q) ==
    LET s == proc[q].s
        t == sock[s].peer IN
    /\ holds'[q] = holds[q] /\ \A x \in holds[q] : sock'[x].valid
    /\ proc[q].at # "user" =>
         /\ sock'[s].state = sock[s].state /\ sock'[s].queue = sock[s].queue
         /\ sock'[s].buf = sock[s].buf /\ sock'[s].peer = t
         /\ t # 0 => sock'[t].buf = sock[t].buf

(* Then q goes on as before. *)
LEMMA UnseenBy ==
    ASSUME Good, NEW p \in Procs, NEW q \in Procs, q # p, NEW qs, \A r \in Procs \ {p} : Told(r, qs), Unseen(q),
           Standing(p, "read", "copy") => proc'[p].op = "read" /\ proc'[p].at = "copy" /\ proc'[p].s = proc[p].s
    PROVE  By(q)
  <1>1. PICK s : s = proc[q].s
    OBVIOUS
  <1>2. PICK t : t = sock[s].peer
    OBVIOUS
  <1>3. Told(q, qs)
    OBVIOUS
  <1>4. ASSUME proc[q].at # "user"
        PROVE  /\ sock'[s].state = sock[s].state /\ sock'[s].queue = sock[s].queue
               /\ sock'[s].buf = sock[s].buf /\ sock'[s].peer = t
               /\ t # 0 => sock'[t].buf = sock[t].buf
               /\ Len(sock[s].buf) <= Len(sock'[s].buf)
    <2>1. /\ sock'[s].state = sock[s].state /\ sock'[s].queue = sock[s].queue
          /\ sock'[s].buf = sock[s].buf /\ sock'[s].peer = t
          /\ t # 0 => sock'[t].buf = sock[t].buf
      BY <1>1, <1>2, <1>4 DEF Unseen
    <2>2. s \in Ids
      BY <1>1, <1>4, Other
    <2>3. Len(sock[s].buf) \in Nat
      BY <2>2, RowFacts DEF Good, Table
    <2> QED
      BY <2>1, <2>3
  <1>5. ASSUME proc'[q] = proc[q], Waits(q), Emptied(q) PROVE Emptied(q)'
    <2>1. sock'[proc[q].s].peer = sock[proc[q].s].peer
      BY <1>1, <1>2, <1>4, <1>5 DEF Waits
    <2>2. \A r \in Procs \ {p} : proc'[r] = proc[r] \/ Woke(r)
      BY DEF Told
    <2> QED
      BY <1>5, <2>1, <2>2, EmptiedKept
  <1>6. Waits(q) => proc[q].at # "user"
    BY DEF Waits
  <1>7. holds'[q] = holds[q] /\ \A x \in holds[q] : sock'[x].valid
    BY DEF Unseen
  <1>8. proc[q].at # "user" =>
         /\ sock'[s].state = sock[s].state \/ (sock[s].state = "CONNECTED" /\ sock'[s].state = "CLOSED")
         /\ sock[s].queue # <<>> => sock'[s].queue # <<>>
         /\ Len(sock[s].buf) <= Len(sock'[s].buf)
    BY <1>4
  <1>9. proc'[q] = proc[q] /\ Waits(q) =>
         /\ sock'[s].peer = t /\ sock'[s].state = sock[s].state
         /\ proc[q].op = "read" => sock'[s].buf = sock[s].buf
         /\ proc[q].op = "accept" => sock'[s].queue = sock[s].queue
         /\ proc[q].op = "write" /\ t # 0 /\ (Len(sock[t].buf) >= Size \/ Emptied(q)) =>
              Len(sock'[t].buf) >= Size \/ Emptied(q)'
    BY <1>4, <1>5, <1>6
  <1> QED
    BY <1>1, <1>2, <1>3, <1>7, <1>8, <1>9 DEF By, Told

(* The queues only grow, and the client's socket stays as it is. *)
LEMMA ClientKept ==
    ASSUME NEW q, NEW s, s = proc[q].s, s \in forgotten => s \in forgotten',
           proc[q].op = "connect" =>
             /\ sock'[s].peer = sock[s].peer /\ sock'[s].state = sock[s].state /\ sock'[s].gen = sock[s].gen,
           \A l \in Ids : sock[l].valid /\ sock[l].state = "LISTENING" =>
             /\ sock'[l].valid /\ sock'[l].state = "LISTENING"
             /\ \A i \in 1 .. Len(sock[l].queue) :
                   i \in 1 .. Len(sock'[l].queue) /\ sock'[l].queue[i] = sock[l].queue[i]
    PROVE  ByClient(q)
  <1>1. SUFFICES ASSUME proc[q].op = "connect", ~ Answered(s)
                 PROVE  /\ sock[s].peer = 0 /\ sock[s].state = "CONNECTED" /\ s \notin forgotten
                        /\ \A l \in Ids : \A i \in 1 .. Len(sock[l].queue) :
                              sock[l].valid /\ sock[l].state = "LISTENING" /\ Stands(sock, l, i, s) =>
                                /\ sock'[l].valid /\ sock'[l].state = "LISTENING"
                                /\ \E j \in 1 .. Len(sock'[l].queue) : Stands(sock', l, j, s)
    BY DEF ByClient
  <1>2. sock[s].peer = 0 /\ sock[s].state = "CONNECTED" /\ s \notin forgotten
    BY <1>1 DEF Answered
  <1>3. ASSUME NEW l \in Ids, NEW i \in 1 .. Len(sock[l].queue),
               sock[l].valid, sock[l].state = "LISTENING", Stands(sock, l, i, s)
        PROVE  /\ sock'[l].valid /\ sock'[l].state = "LISTENING"
               /\ \E j \in 1 .. Len(sock'[l].queue) : Stands(sock', l, j, s)
    <2>1. i \in 1 .. Len(sock'[l].queue) /\ sock'[l].queue[i] = sock[l].queue[i]
      BY <1>3
    <2>2. Stands(sock', l, i, s)
      BY <1>1, <1>3, <2>1 DEF Stands
    <2> QED
      BY <1>3, <2>1, <2>2
  <1> QED
    BY <1>2, <1>3

-----------------------------------------------------------------------------
(* Steps that change only the own record. *)

(* The record outside any call, and at the start of one. *)
LEMMA UserFacts ==
    User \in Act /\ User.at = "user" /\ User.op = "none" /\ User.s = 0
  BY SocketAssumption DEF User, Act

(* A call that begins. *)
Called(op, s, n) == [User EXCEPT !.op = op, !.at = "check", !.s = s, !.n = n]

(* Its record. *)
LEMMA BeginFacts ==
    ASSUME NEW op \in {"connect", "accept", "read", "write", "select"}, NEW s \in Ids, NEW n \in Nat,
           NEW a, a = Called(op, s, n)
    PROVE  a \in Act /\ a.op = op /\ a.at = "check" /\ a.s = s /\ a.n = n
  <1>1. a = [op |-> op, at |-> "check", s |-> s, peer |-> 0, n |-> n, on |-> <<>>]
    BY DEF User, Called
  <1>2. a.op = op /\ a.at = "check" /\ a.s = s /\ a.n = n
    BY <1>1
  <1>3. 0 \in 0 .. Slots /\ s \in 0 .. Slots
    BY IdFacts
  <1>4. a \in Act
    BY <1>1, <1>3 DEF Act
  <1> QED
    BY <1>2, <1>4

(* A call that moves on. *)
LEMMA GotoFacts ==
    ASSUME NEW a \in Act, NEW at \in {"user", "check", "wait", "asleep", "woke", "take", "copy", "put"},
           NEW b, b = [a EXCEPT !.at = at]
    PROVE  b \in Act /\ b.at = at /\ b.op = a.op /\ b.s = a.s /\ b.n = a.n /\ b.on = a.on /\ b.peer = a.peer
  <1>1. b \in Act
    BY DEF Act
  <1> QED
    BY <1>1 DEF Act

(* A call that begins to wait. *)
LEMMA OnFacts ==
    ASSUME NEW a \in Act, NEW o \in Ids \X {"accept", "recv", "send"}, NEW b, b = [a EXCEPT !.on = o]
    PROVE  b \in Act /\ b.at = a.at /\ b.op = a.op /\ b.s = a.s /\ b.n = a.n /\ b.on = o /\ b.peer = a.peer
  <1>1. b \in Act
    BY DEF Act
  <1> QED
    BY <1>1 DEF Act

(* Its count set anew. *)
LEMMA CountFacts ==
    ASSUME NEW a \in Act, NEW n \in Nat, NEW b, b = [a EXCEPT !.n = n]
    PROVE  b \in Act /\ b.at = a.at /\ b.op = a.op /\ b.s = a.s /\ b.n = n /\ b.on = a.on /\ b.peer = a.peer
  <1>1. b \in Act
    BY DEF Act
  <1> QED
    BY <1>1 DEF Act

(* Its peer set anew. *)
LEMMA TargetFacts ==
    ASSUME NEW a \in Act, NEW t \in 0 .. Slots, NEW b, b = [a EXCEPT !.peer = t]
    PROVE  b \in Act /\ b.at = a.at /\ b.op = a.op /\ b.s = a.s /\ b.n = a.n /\ b.on = a.on /\ b.peer = t
  <1>1. b \in Act
    BY DEF Act
  <1> QED
    BY <1>1 DEF Act

(* p's record becomes a; nothing else that others see does. *)
Own(p, a) ==
    /\ sock' = sock /\ holds' = holds /\ forgotten' = forgotten
    /\ missed' = missed \/ missed' = missed \ {p}
    /\ proc' = [proc EXCEPT ![p] = a] /\ proc[p].at # "copy"

(* Others do not notice. *)
LEMMA OwnBy ==
    ASSUME Good, NEW p \in Procs, NEW a, Own(p, a)
    PROVE  \A q \in Procs \ {p} : By(q) /\ ByClient(q)
  <1>1. proc \in [Procs -> Act] /\ holds \in [Procs -> SUBSET Ids]
    BY DEF Good, Seats
  <1>2. \A q \in Procs \ {p} : proc'[q] = proc[q]
    BY <1>1 DEF Own
  <1>3. \A q \in Procs \ {p} : Told(q, {})
    BY <1>2, ToldNothing DEF Own
  <1>4. ASSUME NEW q \in Procs \ {p} PROVE By(q)
    <2>1. Unseen(q)
      BY DEF Unseen, Own, Good, Seats
    <2>2. ~ Standing(p, "read", "copy")
      BY DEF Own, Standing
    <2> QED
      BY <1>3, <2>1, <2>2, UnseenBy
  <1>5. ASSUME NEW q \in Procs \ {p} PROVE ByClient(q)
    <2>1. sock' = sock /\ forgotten' = forgotten
      BY DEF Own
    <2> QED
      BY <2>1, ClientKept
  <1> QED
    BY <1>4, <1>5

(* What p must see to that the invariant holds for itself. *)
LEMMA OwnStep ==
    ASSUME Good, NEW p \in Procs, NEW a \in Act, Own(p, a),
           a.at = "user" <=> a.op = "none", a.at # "user" => a.s \in holds[p],
           a.op = "connect" => proc[p].op = "connect" /\ a.s = proc[p].s,
           Doing(p)', p \notin missed' /\ Waits(p)' => Reason(p)'
    PROVE  Good'
  <1>1. proc \in [Procs -> Act] /\ holds \in [Procs -> SUBSET Ids] /\ missed \subseteq Procs
    BY DEF Good, Seats
  <1>2. proc' \in [Procs -> Act] /\ proc'[p] = a
    BY <1>1 DEF Own
  <1>3. Client(p)'
    <2>1. Client(p) /\ sock' = sock /\ forgotten' = forgotten
      BY DEF Good, Own
    <2> QED
      BY <1>2, <2>1 DEF Client, Stands
  <1>4. \A s \in holds'[p] : sock'[s].valid /\ \A q \in Procs \ {p} : s \notin holds[q]
    BY DEF Own, Good, Seats
  <1>5. holds' \in [Procs -> SUBSET Ids] /\ missed' \subseteq Procs /\ holds'[p] = holds[p]
    BY <1>1 DEF Own
  <1>6. Actor(p)
    BY <1>2, <1>3, <1>4, <1>5 DEF Actor
  <1>7. Table(sock')
    BY DEF Good, Own
  <1> QED
    BY <1>6, <1>7, OwnBy, GoodStep

(* A call that returns. *)
LEMMA OwnReturn ==
    ASSUME Good, NEW p \in Procs, Own(p, User)
    PROVE  Good'
  <1>1. proc'[p] = User
    BY DEF Own, Good, Seats
  <1>2. proc'[p].at = "user" /\ proc'[p].op = "none"
    BY <1>1, UserFacts
  <1>3. Doing(p)' /\ ~ Waits(p)'
    BY <1>2 DEF Doing, Waits
  <1> QED
    BY <1>3, UserFacts, OwnStep

(* The own record does not tell whether a buffer is being emptied. *)
LEMMA OwnEmptied ==
    ASSUME Good, NEW p \in Procs, NEW a, Own(p, a), a.op = proc[p].op, a.s = proc[p].s, Emptied(p)
    PROVE  Emptied(p)'
  <1>1. proc \in [Procs -> Act]
    BY DEF Good, Seats
  <1>2. PICK r \in Procs : Standing(r, "read", "copy") /\ proc[r].s = sock[proc[p].s].peer
    BY DEF Emptied
  <1>3. r # p
    BY <1>2 DEF Standing, Own
  <1>4. proc'[r] = proc[r] /\ proc'[p] = a /\ sock' = sock
    BY <1>1, <1>3 DEF Own
  <1> QED
    BY <1>2, <1>4 DEF Emptied, Standing

(* What is known of the process that is in a call. *)
LEMMA Caller ==
    ASSUME Good, NEW p \in Procs, proc[p].at # "user"
    PROVE  /\ proc[p].s \in Ids /\ proc[p].s \in holds[p] /\ sock[proc[p].s].valid
           /\ sock[proc[p].s] \in Row /\ proc[p] \in Act /\ proc[p].op # "none" /\ Doing(p)
  BY DEF Good, Seats, Table

(* process_wait_on. *)
LEMMA SleepStep ==
    ASSUME Good, NEW p \in Procs, Sleep(p)
    PROVE  Good'
  <1>1. proc[p].at = "wait" /\ proc[p].at # "copy" /\ proc \in [Procs -> Act]
    BY DEF Sleep, Good, Seats
  <1>2. PICK a : a = [proc[p] EXCEPT !.at = "asleep"]
    OBVIOUS
  <1>3. a \in Act /\ a.at = "asleep" /\ a.op = proc[p].op /\ a.s = proc[p].s /\ a.n = proc[p].n /\ a.on = proc[p].on
    BY <1>1, <1>2, GotoFacts
  <1>4. Own(p, a)
    BY <1>1, <1>2 DEF Sleep, Goto, Own, Quiet
  <1>5. proc'[p] = a /\ sock' = sock /\ missed' = missed
    BY <1>1, <1>4 DEF Own, Sleep, Quiet
  <1>6. proc[p].s \in holds[p] /\ proc[p].op # "none" /\ Doing(p)
    BY <1>1, Caller
  <1>7. Doing(p)'
    BY <1>1, <1>3, <1>5, <1>6 DEF Doing
  <1>8. ASSUME p \notin missed' PROVE Reason(p)'
    <2>1. Reason(p)
      BY <1>1, <1>5, <1>8 DEF Good, Reasons
    <2>2. Emptied(p) => Emptied(p)'
      BY <1>3, <1>4, OwnEmptied
    <2> QED
      BY <1>3, <1>5, <2>1, <2>2 DEF Reason
  <1> QED
    BY <1>3, <1>4, <1>6, <1>7, <1>8, OwnStep

(* A call that has found that it must wait. *)
LEMMA WaitStep ==
    ASSUME Good, NEW p \in Procs, NEW o \in Ids \X {"accept", "recv", "send"}, WaitOn(p, o),
           proc[p].at \in {"check", "woke"},
           sock' = sock, holds' = holds, forgotten' = forgotten, missed' = missed \ {p},
           LET s == proc[p].s IN
           \/ proc[p].op \in {"connect", "read"} /\ o = <<s, "recv">>
           \/ proc[p].op = "accept" /\ o = <<s, "accept">>
           \/ proc[p].op = "write" /\ o[2] = "send",
           LET s == proc[p].s
               t == sock[s].peer IN
           /\ proc[p].op = "connect" => t = 0 /\ sock[s].state = "CONNECTED"
           /\ proc[p].op = "read" => t # 0 /\ sock[s].buf = <<>>
           /\ proc[p].op = "accept" => sock[s].queue = <<>>
           /\ proc[p].op = "write" => t # 0 /\ o = <<t, "send">> /\ Len(sock[t].buf) >= Size
    PROVE  Good'
  <1>1. proc \in [Procs -> Act] /\ proc[p] \in Act
    BY DEF Good, Seats
  <1>2. PICK b : b = [proc[p] EXCEPT !.at = "wait"]
    OBVIOUS
  <1>3. PICK a : a = [b EXCEPT !.on = o]
    OBVIOUS
  <1>4. b \in Act /\ b.at = "wait" /\ b.op = proc[p].op /\ b.s = proc[p].s
    BY <1>1, <1>2, GotoFacts
  <1>5. a \in Act /\ a.at = "wait" /\ a.op = proc[p].op /\ a.s = proc[p].s /\ a.on = o
    BY <1>3, <1>4, OnFacts
  <1>6. proc' = [proc EXCEPT ![p] = a]
    BY <1>1, <1>2, <1>3 DEF WaitOn
  <1>7. Own(p, a)
    BY <1>6 DEF Own
  <1>8. proc'[p] = a
    BY <1>1, <1>6
  <1>9. proc[p].s \in holds[p] /\ proc[p].op # "none" /\ Doing(p)
    BY Caller
  <1>10. Doing(p)'
    BY <1>5, <1>8, <1>9 DEF Doing
  <1>11. Reason(p)'
    BY <1>5, <1>8 DEF Reason
  <1> QED
    BY <1>5, <1>7, <1>9, <1>10, <1>11, OwnStep

(* A return, from wherever the call was. *)
LEMMA ReturnStep ==
    ASSUME Good, NEW p \in Procs, Return(p), proc[p].at # "copy",
           sock' = sock, holds' = holds, forgotten' = forgotten, missed' = missed \/ missed' = missed \ {p}
    PROVE  Good'
  <1>1. Own(p, User)
    BY DEF Own, Return
  <1> QED
    BY <1>1, OwnReturn

(* The wait for the peer in connect. *)
LEMMA ConnectCheckStep ==
    ASSUME Good, NEW p \in Procs, ConnectCheck(p)
    PROVE  Good'
  <1>1. PICK s : s = proc[p].s
    OBVIOUS
  <1>2. /\ proc[p].op = "connect" /\ proc[p].at \in {"check", "woke"} /\ missed' = missed \ {p}
        /\ holds' = holds /\ forgotten' = forgotten
        /\ IF sock[s].peer = 0 /\ sock[s].state = "CONNECTED"
           THEN WaitOn(p, <<s, "recv">>) /\ sock' = sock
           ELSE /\ Return(p)
                /\ sock' = IF sock[s].peer = 0 THEN [sock EXCEPT ![s].state = "CLOSED"] ELSE sock
    BY <1>1 DEF ConnectCheck
  <1>3. s \in Ids /\ sock[s] \in Row /\ Doing(p) /\ sock \in [Ids -> Row]
    BY <1>1, <1>2, Caller DEF Good, Table
  <1>4. CASE sock[s].peer = 0 /\ sock[s].state = "CONNECTED"
    <2>1. <<s, "recv">> \in Ids \X {"accept", "recv", "send"}
      BY <1>3
    <2> QED
      BY <1>1, <1>2, <1>4, <2>1, WaitStep
  <1>5. CASE ~ (sock[s].peer = 0 /\ sock[s].state = "CONNECTED")
    <2>1. sock[s].peer = 0 => sock[s].state = "CLOSED"
      BY <1>1, <1>2, <1>3, <1>5 DEF Doing
    <2>2. sock[s].state = "CLOSED" => [sock EXCEPT ![s].state = "CLOSED"] = sock
      BY <1>3 DEF Row
    <2>3. sock' = sock /\ Return(p)
      BY <1>2, <1>5, <2>1, <2>2
    <2> QED
      BY <1>2, <2>3, ReturnStep
  <1> QED
    BY <1>4, <1>5

(* The wait for a client in accept. *)
LEMMA AcceptCheckStep ==
    ASSUME Good, NEW p \in Procs, AcceptCheck(p)
    PROVE  Good'
  <1>1. PICK s : s = proc[p].s
    OBVIOUS
  <1>2. /\ proc[p].op = "accept" /\ proc[p].at \in {"check", "woke"} /\ missed' = missed \ {p}
        /\ sock' = sock /\ holds' = holds /\ forgotten' = forgotten
    BY DEF AcceptCheck
  <1>3. \/ Return(p)
        \/ sock[s].queue # <<>> /\ Goto(p, "take")
        \/ sock[s].queue = <<>> /\ WaitOn(p, <<s, "accept">>)
    BY <1>1 DEF AcceptCheck
  <1>4. s \in Ids /\ s \in holds[p] /\ Doing(p) /\ proc[p] \in Act /\ proc \in [Procs -> Act]
    BY <1>1, <1>2, Caller DEF Good, Seats
  <1>5. CASE Return(p)
    BY <1>2, <1>5, ReturnStep
  <1>6. CASE sock[s].queue = <<>> /\ WaitOn(p, <<s, "accept">>)
    <2>1. <<s, "accept">> \in Ids \X {"accept", "recv", "send"}
      BY <1>4
    <2> QED
      BY <1>1, <1>2, <1>6, <2>1, WaitStep
  <1>7. CASE sock[s].queue # <<>> /\ Goto(p, "take")
    <2>1. PICK a : a = [proc[p] EXCEPT !.at = "take"]
      OBVIOUS
    <2>2. a \in Act /\ a.at = "take" /\ a.op = "accept" /\ a.s = s
      BY <1>1, <1>2, <1>4, <2>1, GotoFacts
    <2>3. Own(p, a) /\ proc'[p] = a
      BY <1>2, <1>4, <1>7, <2>1 DEF Own, Goto
    <2>4. Doing(p)' /\ ~ Waits(p)'
      BY <1>1, <1>2, <1>4, <1>7, <2>2, <2>3 DEF Doing, Waits
    <2> QED
      BY <1>4, <2>2, <2>3, <2>4, OwnStep
  <1> QED
    BY <1>3, <1>5, <1>6, <1>7

(* The wait for bytes in read. *)
LEMMA ReadCheckStep ==
    ASSUME Good, NEW p \in Procs, ReadCheck(p)
    PROVE  Good'
  <1>1. PICK s : s = proc[p].s
    OBVIOUS
  <1>2. /\ proc[p].op = "read" /\ proc[p].at \in {"check", "woke"} /\ missed' = missed \ {p}
        /\ sock' = sock /\ holds' = holds /\ forgotten' = forgotten
    BY DEF ReadCheck
  <1>3. \/ Return(p)
        \/ sock[s].buf # <<>> /\ proc' = [proc EXCEPT ![p].at = "copy", ![p].n = Len(sock[s].buf)]
        \/ sock[s].buf = <<>> /\ sock[s].peer # 0 /\ WaitOn(p, <<s, "recv">>)
    BY <1>1 DEF ReadCheck, Gone, Valid
  <1>4. /\ s \in Ids /\ s \in holds[p] /\ Doing(p) /\ proc[p] \in Act /\ proc \in [Procs -> Act]
        /\ sock[s].buf \in Seq(Byte)
    BY <1>1, <1>2, Caller, RowFacts DEF Good, Seats
  <1>5. CASE Return(p)
    BY <1>2, <1>5, ReturnStep
  <1>6. CASE sock[s].buf = <<>> /\ sock[s].peer # 0 /\ WaitOn(p, <<s, "recv">>)
    <2>1. <<s, "recv">> \in Ids \X {"accept", "recv", "send"}
      BY <1>4
    <2> QED
      BY <1>1, <1>2, <1>6, <2>1, WaitStep
  <1>7. CASE sock[s].buf # <<>> /\ proc' = [proc EXCEPT ![p].at = "copy", ![p].n = Len(sock[s].buf)]
    <2>1. PICK k : k = Len(sock[s].buf)
      OBVIOUS
    <2>2. k \in Nat /\ k \in 1 .. Len(sock[s].buf)
      BY <1>4, <1>7, <2>1, TailFacts
    <2>3. PICK b : b = [proc[p] EXCEPT !.at = "copy"]
      OBVIOUS
    <2>4. PICK a : a = [b EXCEPT !.n = k]
      OBVIOUS
    <2>5. b \in Act /\ b.at = "copy" /\ b.op = "read" /\ b.s = s
      BY <1>1, <1>2, <1>4, <2>3, GotoFacts
    <2>6. a \in Act /\ a.at = "copy" /\ a.op = "read" /\ a.s = s /\ a.n = k
      BY <2>2, <2>4, <2>5, CountFacts
    <2>7. proc' = [proc EXCEPT ![p] = a] /\ proc'[p] = a
      BY <1>4, <1>7, <2>1, <2>3, <2>4
    <2>8. Own(p, a)
      BY <1>2, <2>7 DEF Own
    <2>9. Doing(p)' /\ ~ Waits(p)'
      BY <1>2, <2>2, <2>6, <2>7 DEF Doing, Waits
    <2> QED
      BY <1>4, <2>6, <2>8, <2>9, OwnStep
  <1> QED
    BY <1>3, <1>5, <1>6, <1>7

(* The wait for room in write. *)
LEMMA WriteCheckStep ==
    ASSUME Good, NEW p \in Procs, WriteCheck(p)
    PROVE  Good'
  <1>1. PICK s : s = proc[p].s
    OBVIOUS
  <1>2. PICK t : t = sock[s].peer
    OBVIOUS
  <1>3. /\ proc[p].op = "write" /\ proc[p].at \in {"check", "woke"} /\ missed' = missed \ {p}
        /\ sock' = sock /\ holds' = holds /\ forgotten' = forgotten
    BY DEF WriteCheck
  <1>4. \/ Return(p)
        \/ t # 0 /\ proc[p].n # 0 /\ proc' = [proc EXCEPT ![p].at = "put", ![p].peer = t]
        \/ t # 0 /\ ~ (Len(sock[t].buf) < Size) /\ WaitOn(p, <<t, "send">>)
    BY <1>1, <1>2 DEF WriteCheck, Valid
  <1>5. /\ s \in Ids /\ s \in holds[p] /\ Doing(p) /\ proc[p] \in Act /\ proc \in [Procs -> Act]
        /\ t \in 0 .. Slots
    BY <1>1, <1>2, <1>3, Caller, RowFacts DEF Good, Seats
  <1>6. CASE Return(p)
    BY <1>3, <1>6, ReturnStep
  <1>7. CASE t # 0 /\ ~ (Len(sock[t].buf) < Size) /\ WaitOn(p, <<t, "send">>)
    <2>1. t \in Ids
      BY <1>5, <1>7, IdFacts
    <2>2. <<t, "send">> \in Ids \X {"accept", "recv", "send"} /\ <<t, "send">>[2] = "send"
      BY <2>1
    <2>3. Len(sock[t].buf) >= Size
      <3>1. Len(sock[t].buf) \in Nat
        BY <2>1, RowFacts DEF Good, Table
      <3> QED
        BY <1>7, <3>1, SocketAssumption
    <2>4. PICK o : o = <<t, "send">>
      OBVIOUS
    <2>5. o \in Ids \X {"accept", "recv", "send"} /\ o[2] = "send" /\ WaitOn(p, o)
      BY <1>7, <2>2, <2>4
    <2> QED
      BY <1>1, <1>2, <1>3, <1>7, <2>3, <2>4, <2>5, WaitStep
  <1>8. CASE t # 0 /\ proc[p].n # 0 /\ proc' = [proc EXCEPT ![p].at = "put", ![p].peer = t]
    <2>1. PICK b : b = [proc[p] EXCEPT !.at = "put"]
      OBVIOUS
    <2>2. PICK a : a = [b EXCEPT !.peer = t]
      OBVIOUS
    <2>3. b \in Act /\ b.at = "put" /\ b.op = "write" /\ b.s = s /\ b.n = proc[p].n
      BY <1>1, <1>3, <1>5, <2>1, GotoFacts
    <2>4. a \in Act /\ a.at = "put" /\ a.op = "write" /\ a.s = s /\ a.n = proc[p].n /\ a.peer = t
      BY <1>5, <2>2, <2>3, TargetFacts
    <2>5. proc' = [proc EXCEPT ![p] = a] /\ proc'[p] = a
      BY <1>5, <1>8, <2>1, <2>2
    <2>6. Own(p, a)
      BY <1>3, <2>5 DEF Own
    <2>7. Doing(p)' /\ ~ Waits(p)'
      BY <1>3, <1>8, <2>4, <2>5 DEF Doing, Waits
    <2> QED
      BY <1>5, <2>4, <2>6, <2>7, OwnStep
  <1> QED
    BY <1>4, <1>6, <1>7, <1>8

(* select, and every call that begins. *)
LEMMA SelectPollStep ==
    ASSUME Good, NEW p \in Procs, SelectPoll(p)
    PROVE  Good'
  <1>1. /\ Return(p) /\ proc[p].at # "copy" /\ sock' = sock /\ holds' = holds /\ forgotten' = forgotten
        /\ missed' = missed
    BY DEF SelectPoll, Standing, Quiet
  <1> QED
    BY <1>1, ReturnStep

(* A call that begins and has looked at nothing. *)
LEMMA BeginStep ==
    ASSUME Good, NEW p \in Procs, NEW s \in Ids, NEW op \in {"accept", "read", "write", "select"}, NEW n \in Nat,
           Enter(p, s), Begin(p, op, s, "check", n), op = "accept" => sock[s].state = "LISTENING",
           UNCHANGED <<sock, holds, missed, forgotten, hole>>
    PROVE  Good'
  <1>1. PICK a : a = Called(op, s, n)
    OBVIOUS
  <1>2. a \in Act /\ a.op = op /\ a.at = "check" /\ a.s = s
    BY <1>1, BeginFacts
  <1>3. s \in holds[p] /\ proc[p].at = "user" /\ proc \in [Procs -> Act]
    BY DEF Enter, Good, Seats
  <1>4. proc' = [proc EXCEPT ![p] = a] /\ proc'[p] = a
    BY <1>1, <1>3 DEF Begin, Called
  <1>5. Own(p, a)
    BY <1>3, <1>4 DEF Own
  <1>6. Doing(p)' /\ ~ Waits(p)'
    BY <1>2, <1>4 DEF Doing, Waits
  <1> QED
    BY <1>2, <1>3, <1>5, <1>6, OwnStep

(* The four calls of this kind. *)
LEMMA CallStep ==
    ASSUME Good, NEW p \in Procs, NEW s \in Ids,
           Accept(p, s) \/ Read(p, s) \/ Write(p, s, MaxWrite) \/ Select(p, s)
    PROVE  Good'
  <1>1. 0 \in Nat /\ Size \in Nat /\ MaxWrite \in Nat
    BY SocketAssumption
  <1>2. CASE Accept(p, s)
    BY <1>1, <1>2, BeginStep DEF Accept
  <1>3. CASE Read(p, s)
    BY <1>1, <1>3, BeginStep DEF Read
  <1>4. CASE Write(p, s, MaxWrite)
    BY <1>1, <1>4, BeginStep DEF Write
  <1>5. CASE Select(p, s)
    BY <1>1, <1>5, BeginStep DEF Select
  <1> QED
    BY <1>2, <1>3, <1>4, <1>5

-----------------------------------------------------------------------------
(* Steps that touch one socket's flags, or take a free slot. *)

(* p changes its sockets and nobody looks. *)
LEMMA QuietStep ==
    ASSUME Good, NEW p \in Procs, proc[p].at = "user", proc' = proc, missed' = missed, forgotten' = forgotten,
           Table(sock'), holds' \in [Procs -> SUBSET Ids],
           \A s \in holds'[p] : sock'[s].valid /\ \A q \in Procs \ {p} : s \notin holds[q],
           \A q \in Procs \ {p} : Unseen(q) /\ \A x \in holds[q] : sock'[x].gen = sock[x].gen,
           \A l \in Ids : sock[l].valid /\ sock[l].state = "LISTENING" =>
              sock'[l].valid /\ sock'[l].state = "LISTENING" /\ sock'[l].queue = sock[l].queue
    PROVE  Good'
  <1>1. proc \in [Procs -> Act] /\ missed \subseteq Procs /\ proc[p].op = "none"
    BY DEF Good, Seats
  <1>2. Doing(p)' /\ Client(p)' /\ ~ Waits(p)'
    BY <1>1 DEF Doing, Client, Waits
  <1>3. Actor(p)
    BY <1>1, <1>2 DEF Actor
  <1>4. \A q \in Procs \ {p} : Told(q, {})
    BY ToldNothing
  <1>5. ASSUME NEW q \in Procs \ {p} PROVE By(q)
    <2>1. ~ Standing(p, "read", "copy")
      BY DEF Standing
    <2> QED
      BY <1>4, <2>1, UnseenBy
  <1>6. ASSUME NEW q \in Procs \ {p} PROVE ByClient(q)
    <2>1. PICK s : s = proc[q].s
      OBVIOUS
    <2>2. ASSUME proc[q].op = "connect"
          PROVE  sock'[s].peer = sock[s].peer /\ sock'[s].state = sock[s].state /\ sock'[s].gen = sock[s].gen
      <3>1. proc[q].at # "user" /\ s \in holds[q]
        BY <2>1, <2>2 DEF Good, Seats
      <3> QED
        BY <2>1, <3>1 DEF Unseen
    <2> QED
      BY <2>1, <2>2, ClientKept
  <1> QED
    BY <1>3, <1>5, <1>6, GoodStep

(* p changes flags of its socket s. *)
LEMMA FlagStep ==
    ASSUME Good, NEW p \in Procs, proc[p].at = "user", proc' = proc, missed' = missed, forgotten' = forgotten,
           holds' = holds, Table(sock'), NEW s \in holds[p],
           \A x \in Ids : Alike(sock[x], sock'[x]) /\ (x # s => sock'[x].state = sock[x].state),
           sock[s].state = "LISTENING" => sock'[s].state = "LISTENING"
    PROVE  Good'
  <1>1. holds \in [Procs -> SUBSET Ids]
    BY DEF Good, Seats
  <1>2. \A x \in holds'[p] : sock'[x].valid /\ \A q \in Procs \ {p} : x \notin holds[q]
    <2>1. \A x \in holds[p] : x \in Ids /\ sock[x].valid /\ \A q \in Procs \ {p} : x \notin holds[q]
      BY DEF Good, Seats
    <2> QED
      BY <2>1 DEF Alike
  <1>3. ASSUME NEW q \in Procs \ {p} PROVE Unseen(q) /\ \A x \in holds[q] : sock'[x].gen = sock[x].gen
    <2>1. \A x \in holds[q] : x \in Ids /\ sock[x].valid /\ x # s
      BY DEF Good, Seats
    <2>2. \A x \in holds[q] : sock'[x].valid /\ sock'[x].gen = sock[x].gen
      BY <2>1 DEF Alike
    <2>3. PICK r : r = proc[q].s
      OBVIOUS
    <2>4. PICK t : t = sock[r].peer
      OBVIOUS
    <2>5. ASSUME proc[q].at # "user"
          PROVE  /\ sock'[r].state = sock[r].state /\ sock'[r].queue = sock[r].queue
                 /\ sock'[r].buf = sock[r].buf /\ sock'[r].peer = t
                 /\ t # 0 => sock'[t].buf = sock[t].buf
      <3>1. r \in Ids /\ r # s /\ (t # 0 => t \in Ids)
        BY <2>3, <2>4, <2>5, Other
      <3> QED
        BY <2>4, <3>1 DEF Alike
    <2>6. Unseen(q)
      BY <2>2, <2>3, <2>4, <2>5 DEF Unseen
    <2> QED
      BY <2>2, <2>6
  <1>4. \A l \in Ids : sock[l].valid /\ sock[l].state = "LISTENING" =>
              sock'[l].valid /\ sock'[l].state = "LISTENING" /\ sock'[l].queue = sock[l].queue
    BY DEF Alike
  <1> QED
    BY <1>1, <1>2, <1>3, <1>4, QuietStep

(* A row in another state. *)
LEMMA RowStage ==
    ASSUME NEW r \in Row, NEW st \in {"UNBOUND", "BOUND", "LISTENING", "CONNECTED", "CLOSED"},
           NEW q, q = [r EXCEPT !.state = st]
    PROVE  q \in Row /\ Alike(r, q) /\ q.state = st
  <1>1. q \in Row
    BY DEF Row
  <1> QED
    BY <1>1 DEF Row, Alike

(* A row with another flag or backlog. *)
LEMMA RowFlag ==
    ASSUME NEW r \in Row, NEW q,
           \/ \E f \in BOOLEAN : q = [r EXCEPT !.bound = f]
           \/ \E f \in BOOLEAN : q = [r EXCEPT !.nonblock = f]
           \/ \E n \in Nat : q = [r EXCEPT !.backlog = n]
    PROVE  q \in Row /\ Alike(r, q) /\ q.state = r.state
  <1>1. CASE \E f \in BOOLEAN : q = [r EXCEPT !.bound = f]
    <2>1. PICK f \in BOOLEAN : q = [r EXCEPT !.bound = f]
      BY <1>1
    <2>2. q \in Row
      BY <2>1 DEF Row
    <2> QED
      BY <2>1, <2>2 DEF Row, Alike
  <1>2. CASE \E f \in BOOLEAN : q = [r EXCEPT !.nonblock = f]
    <2>1. PICK f \in BOOLEAN : q = [r EXCEPT !.nonblock = f]
      BY <1>2
    <2>2. q \in Row
      BY <2>1 DEF Row
    <2> QED
      BY <2>1, <2>2 DEF Row, Alike
  <1>3. CASE \E n \in Nat : q = [r EXCEPT !.backlog = n]
    <2>1. PICK n \in Nat : q = [r EXCEPT !.backlog = n]
      BY <1>3
    <2>2. q \in Row
      BY <2>1 DEF Row
    <2> QED
      BY <2>1, <2>2 DEF Row, Alike
  <1> QED
    BY <1>1, <1>2, <1>3

(* Alike, in two steps. *)
LEMMA AlikeTwice ==
    ASSUME NEW a, NEW b, NEW c, Alike(a, b), Alike(b, c)
    PROVE  Alike(a, c)
  BY DEF Alike

(* One row of the table is replaced. *)
LEMMA OneRow ==
    ASSUME Good, NEW s \in Ids, NEW r \in Row, Alike(sock[s], r), sock' = [sock EXCEPT ![s] = r]
    PROVE  /\ sock' \in [Ids -> Row] /\ sock'[s] = r
           /\ \A x \in Ids : Alike(sock[x], sock'[x]) /\ (x # s => sock'[x] = sock[x])
  <1>1. sock \in [Ids -> Row]
    BY DEF Good, Table
  <1>2. sock' \in [Ids -> Row] /\ sock'[s] = r /\ \A x \in Ids : x # s => sock'[x] = sock[x]
    BY <1>1
  <1>3. \A x \in Ids : Alike(sock[x], sock'[x])
    <2>1. \A x \in Ids : Alike(sock[x], sock[x])
      BY DEF Alike
    <2> QED
      BY <1>2, <2>1
  <1> QED
    BY <1>2, <1>3

(* bind and listen. *)
LEMMA EarlyStep ==
    ASSUME Good, NEW p \in Procs, NEW s \in Ids,
           Bind(p, s) \/ Listen(p, s, MaxBacklog + 1)
    PROVE  Good'
  <1>1. /\ proc[p].at = "user" /\ s \in holds[p] /\ proc' = proc /\ holds' = holds /\ missed' = missed
        /\ forgotten' = forgotten
    BY DEF Bind, Listen, Enter
  <1>2. sock \in [Ids -> Row] /\ sock[s] \in Row /\ sock[s].valid /\ Table(sock)
    BY <1>1 DEF Good, Table, Seats
  <1>3. \E r \in Row : /\ Alike(sock[s], r) /\ r.state \in Early /\ sock[s].state \in {"UNBOUND", "BOUND"}
                       /\ sock' = [sock EXCEPT ![s] = r]
    <2>1. CASE Bind(p, s)
      <3>1. PICK f \in BOOLEAN : f = TRUE
        OBVIOUS
      <3>2. PICK b : b = [sock[s] EXCEPT !.state = "BOUND"]
        OBVIOUS
      <3>3. PICK r : r = [b EXCEPT !.bound = f]
        OBVIOUS
      <3>4. b \in Row /\ Alike(sock[s], b) /\ b.state = "BOUND"
        BY <1>2, <3>2, RowStage
      <3>5. r \in Row /\ Alike(b, r) /\ r.state = b.state
        BY <3>3, <3>4, RowFlag
      <3>6. Alike(sock[s], r)
        BY <3>4, <3>5, AlikeTwice
      <3>7. sock[s].state = "UNBOUND" /\ sock' = [sock EXCEPT ![s] = r]
        BY <1>2, <2>1, <3>1, <3>2, <3>3 DEF Bind
      <3> QED
        BY <3>4, <3>5, <3>6, <3>7 DEF Early
    <2>2. CASE Listen(p, s, MaxBacklog + 1)
      <3>1. PICK n \in Nat : n = (IF MaxBacklog + 1 > MaxBacklog THEN MaxBacklog ELSE MaxBacklog + 1)
        BY SocketAssumption
      <3>2. PICK b : b = [sock[s] EXCEPT !.state = "LISTENING"]
        OBVIOUS
      <3>3. PICK r : r = [b EXCEPT !.backlog = n]
        OBVIOUS
      <3>4. b \in Row /\ Alike(sock[s], b) /\ b.state = "LISTENING"
        BY <1>2, <3>2, RowStage
      <3>5. r \in Row /\ Alike(b, r) /\ r.state = b.state
        BY <3>3, <3>4, RowFlag
      <3>6. Alike(sock[s], r)
        BY <3>4, <3>5, AlikeTwice
      <3>7. sock[s].state = "BOUND" /\ sock' = [sock EXCEPT ![s] = r]
        <4>1. sock' = [sock EXCEPT ![s].state = "LISTENING", ![s].backlog = n]
          BY <2>2, <3>1 DEF Listen
        <4> QED
          BY <1>2, <2>2, <3>2, <3>3, <4>1 DEF Listen
      <3> QED
        BY <3>4, <3>5, <3>6, <3>7 DEF Early
    <2> QED
      BY <2>1, <2>2
  <1>4. PICK r \in Row : /\ Alike(sock[s], r) /\ r.state \in Early /\ sock[s].state \in {"UNBOUND", "BOUND"}
                         /\ sock' = [sock EXCEPT ![s] = r]
    BY <1>3
  <1>5. /\ sock' \in [Ids -> Row] /\ sock'[s] = r
        /\ \A x \in Ids : Alike(sock[x], sock'[x]) /\ (x # s => sock'[x] = sock[x])
    BY <1>4, OneRow
  <1>6. Table(sock')
    <2>1. sock[s].state \in Early
      BY <1>4 DEF Early
    <2> QED
      BY <1>2, <1>4, <1>5, <2>1, EarlyTable
  <1> QED
    BY <1>1, <1>4, <1>5, <1>6, FlagStep

(* fcntl. *)
LEMMA SetNonblockStep ==
    ASSUME Good, NEW p \in Procs, NEW s \in Ids, SetNonblock(p, s, TRUE)
    PROVE  Good'
  <1>1. /\ proc[p].at = "user" /\ s \in holds[p] /\ proc' = proc /\ holds' = holds /\ missed' = missed
        /\ forgotten' = forgotten
    BY DEF SetNonblock, Enter
  <1>2. sock \in [Ids -> Row] /\ sock[s] \in Row /\ Table(sock)
    BY <1>1 DEF Good, Table
  <1>3. PICK f \in BOOLEAN : f = TRUE
    OBVIOUS
  <1>4. PICK r : r = [sock[s] EXCEPT !.nonblock = f]
    OBVIOUS
  <1>5. r \in Row /\ Alike(sock[s], r) /\ r.state = sock[s].state
    BY <1>2, <1>4, RowFlag
  <1>6. sock' = [sock EXCEPT ![s] = r]
    BY <1>2, <1>3, <1>4 DEF SetNonblock
  <1>7. /\ sock' \in [Ids -> Row] /\ sock'[s] = r
        /\ \A x \in Ids : Alike(sock[x], sock'[x]) /\ (x # s => sock'[x] = sock[x])
    BY <1>5, <1>6, OneRow
  <1>8. Table(sock')
    BY <1>2, <1>5, <1>7, FlagTable
  <1> QED
    BY <1>1, <1>5, <1>7, <1>8, FlagStep

(* socket. *)
LEMMA NewSocketStep ==
    ASSUME Good, NEW p \in Procs, NewSocket(p)
    PROVE  Good'
  <1>1. PICK n : n = Min(FreeSlots(sock))
    OBVIOUS
  <1>2. n \in Ids /\ ~ sock[n].valid
    <2>1. FreeSlots(sock) \subseteq Ids /\ FreeSlots(sock) # {}
      BY DEF FreeSlots, NewSocket
    <2>2. n \in FreeSlots(sock)
      BY <1>1, <2>1, MinIn
    <2> QED
      BY <2>2 DEF FreeSlots
  <1>3. sock' = Taken(sock, n, "UNBOUND")
    BY <1>1 DEF NewSocket, Alloc, NewRow, Taken
  <1>4. Table(sock)
    BY Zenon DEF Good
  <1>5. Table(sock') /\ (\A x \in Ids \ {n} : sock'[x] = sock[x]) /\ sock'[n].valid
    BY <1>2, <1>3, <1>4, AllocTable
  <1>6. /\ proc[p].at = "user" /\ proc' = proc /\ missed' = missed /\ forgotten' = forgotten
        /\ holds' = [holds EXCEPT ![p] = @ \cup {n}]
    BY <1>1 DEF NewSocket
  <1>7. holds \in [Procs -> SUBSET Ids] /\ \A q \in Procs : \A x \in holds[q] : x \in Ids /\ sock[x].valid /\ x # n
    BY <1>2 DEF Good, Seats
  <1>8. /\ holds' \in [Procs -> SUBSET Ids] /\ holds'[p] = holds[p] \cup {n}
        /\ \A q \in Procs \ {p} : holds'[q] = holds[q]
    BY <1>2, <1>6, <1>7
  <1>9. \A s \in holds'[p] : sock'[s].valid /\ \A q \in Procs \ {p} : s \notin holds[q]
    <2>1. \A s \in holds[p] : \A q \in Procs \ {p} : s \notin holds[q]
      BY DEF Good, Seats
    <2> QED
      BY <1>5, <1>7, <1>8, <2>1
  <1>10. ASSUME NEW q \in Procs \ {p} PROVE Unseen(q) /\ \A x \in holds[q] : sock'[x].gen = sock[x].gen
    <2>1. \A x \in holds[q] : sock'[x] = sock[x] /\ sock[x].valid
      BY <1>5, <1>7
    <2>2. ASSUME proc[q].at # "user"
          PROVE  /\ sock'[proc[q].s] = sock[proc[q].s]
                 /\ sock[proc[q].s].peer # 0 => sock'[sock[proc[q].s].peer] = sock[sock[proc[q].s].peer]
      <3>1. /\ proc[q].s \in holds[q]
            /\ sock[proc[q].s].peer # 0 => sock[proc[q].s].peer \in Ids /\ sock[sock[proc[q].s].peer].valid
        BY <2>2, Other
      <3> QED
        BY <1>2, <1>5, <2>1, <3>1
    <2> QED
      BY <1>8, <2>1, <2>2 DEF Unseen
  <1>11. \A l \in Ids : sock[l].valid /\ sock[l].state = "LISTENING" =>
              sock'[l].valid /\ sock'[l].state = "LISTENING" /\ sock'[l].queue = sock[l].queue
    BY <1>2, <1>5
  <1> QED
    BY <1>5, <1>6, <1>8, <1>9, <1>10, <1>11, QuietStep

-----------------------------------------------------------------------------
(* close, and the death of a process. *)

(* The queues that are woken when the sockets S are closed. *)
ClosingQueues(S) == UNION {CloseQueues(sock, s) : s \in S}

(* A client queued at a listener is one of those Waiting. *)
LEMMA WaitingFacts ==
    ASSUME NEW l \in Ids, NEW i \in 1 .. Len(sock[l].queue), NEW s, Stands(sock, l, i, s),
           sock[l].queue \in Seq(Entry)
    PROVE  s \in Waiting(sock, l)
  <1>1. PICK d : d = sock[l].queue[i]
    OBVIOUS
  <1>2. d \in Range(sock[l].queue)
    BY <1>1 DEF Range
  <1>3. d.s = s /\ sock[d.s].gen = d.gen
    BY <1>1 DEF Stands
  <1> QED
    BY <1>2, <1>3 DEF Waiting

(* A socket that stays open keeps its row or is cut off from its peer. *)
LEMMA StaysOpen ==
    ASSUME Table(sock), NEW S, Open(sock, S), sock' = Closed(sock, S), NEW x \in Ids \ S, sock[x].valid
    PROVE  /\ sock'[x].valid /\ sock'[x].queue = sock[x].queue /\ sock'[x].buf = sock[x].buf
           /\ sock'[x].gen = sock[x].gen
           /\ sock[x].peer \notin S => sock'[x] = sock[x]
           /\ sock[x].peer \in S => /\ sock[x].state = "CONNECTED" /\ sock'[x].state = "CLOSED"
                                    /\ All(x) \subseteq ClosingQueues(S)
                                    /\ All(sock[x].peer) \subseteq ClosingQueues(S)
  <1>1. sock[x] \in Row
    BY DEF Table
  <1>2. CASE sock[x].peer \notin S
    <2>1. sock'[x] = sock[x]
      BY <1>2, ClosedRows
    <2> QED
      BY <1>2, <2>1
  <1>3. CASE sock[x].peer \in S
    <2>1. sock'[x] = Cut(sock[x])
      BY <1>3, ClosedRows
    <2>2. /\ Cut(sock[x]).valid = sock[x].valid /\ Cut(sock[x]).queue = sock[x].queue
          /\ Cut(sock[x]).buf = sock[x].buf /\ Cut(sock[x]).gen = sock[x].gen /\ Cut(sock[x]).state = "CLOSED"
      BY <1>1, CutFacts
    <2>3. sock[x].peer \in Ids /\ sock[x].peer # 0
      BY <1>3, IdFacts DEF Open
    <2>4. sock[x].state = "CONNECTED" /\ sock[sock[x].peer].peer = x
      BY <2>3, PeerOf
    <2>5. x # 0
      BY IdFacts
    <2>6. CloseQueues(sock, sock[x].peer) = All(sock[x].peer) \cup All(x)
      BY <2>4, <2>5 DEF CloseQueues
    <2>7. All(x) \subseteq ClosingQueues(S) /\ All(sock[x].peer) \subseteq ClosingQueues(S)
      BY <1>3, <2>6 DEF ClosingQueues
    <2>8. sock'[x].valid
      BY <2>1, <2>2, Zenon
    <2> QED
      BY <1>3, <2>1, <2>2, <2>4, <2>7, <2>8
  <1> QED
    BY <1>2, <1>3

(* Whoever goes on waiting does not wait for a socket that lost its peer. *)
LEMMA CloseSpares ==
    ASSUME Good, NEW q \in Procs, NEW S, Open(sock, S), sock' = Closed(sock, S), NEW s, s = proc[q].s,
           s \in Ids \ S, sock[s].valid,
           Told(q, ClosingQueues(S)), proc'[q] = proc[q], Waits(q), q \notin missed'
    PROVE  sock[s].peer \notin S
  <1>1. SUFFICES ASSUME sock[s].peer \in S PROVE FALSE
    OBVIOUS
  <1>2. proc[q].on \notin ClosingQueues(S) /\ q \notin missed
    BY DEF Told
  <1>3. Doing(q) /\ Reason(q)
    BY <1>2 DEF Good, Reasons, Waits
  <1>4. All(s) \subseteq ClosingQueues(S) /\ All(sock[s].peer) \subseteq ClosingQueues(S)
    <2>1. Table(sock)
      BY Zenon DEF Good
    <2> QED
      BY <1>1, <2>1, StaysOpen
  <1>5. proc[q].on \notin All(s) /\ proc[q].on \notin All(sock[s].peer)
    BY <1>2, <1>4
  <1>6. \/ proc[q].on = <<s, "recv">> \/ proc[q].on = <<s, "accept">> \/ proc[q].on = <<sock[s].peer, "send">>
    BY <1>3 DEF Doing, Reason, Waits
  <1>7. <<s, "recv">> \in All(s) /\ <<s, "accept">> \in All(s) /\ <<sock[s].peer, "send">> \in All(sock[s].peer)
    BY DEF All
  <1> QED
    BY <1>5, <1>6, <1>7, Zenon

(* The step p closes the sockets S of its own in. *)
Closes(p, S) ==
    /\ S \subseteq holds[p] /\ sock' = Closed(sock, S) /\ holds' = [holds EXCEPT ![p] = @ \ S]
    /\ \A q \in Procs \ {p} : Told(q, ClosingQueues(S))
    /\ proc' \in [Procs -> Act] /\ proc'[p].at = "user" /\ proc'[p].op = "none" /\ missed' \subseteq Procs
    /\ \A x \in Ids \ S : x \in forgotten \/ (\E s \in S : x \in Waiting(sock, s)) => x \in forgotten'
    /\ proc[p].at # "copy"

(* Closing any set of its own sockets keeps the invariant. *)
LEMMA CloseStep ==
    ASSUME Good, NEW p \in Procs, NEW S, Closes(p, S)
    PROVE  Good'
  <1>1. /\ S \subseteq holds[p] /\ sock' = Closed(sock, S)
        /\ \A q \in Procs \ {p} : Told(q, ClosingQueues(S))
        /\ \A x \in Ids \ S : x \in forgotten \/ (\E s \in S : x \in Waiting(sock, s)) => x \in forgotten'
    BY Zenon DEF Closes
  <1>2. /\ proc' \in [Procs -> Act] /\ proc'[p].at = "user" /\ proc'[p].op = "none" /\ missed' \subseteq Procs
        /\ holds' = [holds EXCEPT ![p] = @ \ S] /\ proc[p].at # "copy"
    BY DEF Closes
  <1>3. Table(sock) /\ holds \in [Procs -> SUBSET Ids]
    BY DEF Good, Seats
  <1>4. Open(sock, S)
    BY <1>1, <1>3 DEF Open, Good, Seats
  <1>5. Table(sock')
    BY <1>1, <1>3, <1>4, ClosedTable
  <1>6. /\ holds' \in [Procs -> SUBSET Ids] /\ holds'[p] = holds[p] \ S
        /\ \A q \in Procs \ {p} : holds'[q] = holds[q]
    BY <1>2, <1>3
  <1>7. ASSUME NEW q \in Procs, NEW x \in holds[q], x \notin S PROVE x \in Ids /\ sock[x].valid /\ sock'[x].valid
    <2>1. x \in Ids \ S /\ sock[x].valid
      BY <1>7 DEF Good, Seats
    <2> QED
      BY <1>1, <1>3, <1>4, <2>1, StaysOpen
  <1>8. \A s \in holds'[p] : sock'[s].valid /\ \A q \in Procs \ {p} : s \notin holds[q]
    <2>1. \A s \in holds[p] : \A q \in Procs \ {p} : s \notin holds[q]
      BY DEF Good, Seats
    <2> QED
      BY <1>6, <1>7, <2>1
  <1>9. Doing(p)' /\ Client(p)' /\ ~ Waits(p)'
    BY <1>2 DEF Doing, Client, Waits
  <1>10. Actor(p)
    BY <1>2, <1>6, <1>8, <1>9 DEF Actor
  <1>11. ASSUME NEW q \in Procs \ {p} PROVE By(q)
    <2>1. Told(q, ClosingQueues(S)) /\ holds'[q] = holds[q] /\ \A x \in holds[q] : x \notin S
      BY <1>1, <1>6 DEF Good, Seats
    <2>2. PICK s : s = proc[q].s
      OBVIOUS
    <2>3. PICK t : t = sock[s].peer
      OBVIOUS
    <2>4. ASSUME proc[q].at # "user"
          PROVE  /\ s \in Ids \ S /\ sock[s].valid /\ sock'[s].queue = sock[s].queue /\ sock'[s].buf = sock[s].buf
                 /\ t \notin S => sock'[s] = sock[s]
                 /\ t \in S => sock[s].state = "CONNECTED" /\ sock'[s].state = "CLOSED"
      <3>1. s \in Ids \ S /\ sock[s].valid
        BY <2>1, <2>2, <2>4, Other
      <3> QED
        BY <1>1, <1>3, <1>4, <2>3, <3>1, StaysOpen
    <2>5. proc[q].at # "user" =>
             /\ sock'[s].state = sock[s].state \/ (sock[s].state = "CONNECTED" /\ sock'[s].state = "CLOSED")
             /\ sock[s].queue # <<>> => sock'[s].queue # <<>>
             /\ Len(sock[s].buf) <= Len(sock'[s].buf)
      <3>1. proc[q].at # "user" => Len(sock[s].buf) \in Nat
        BY <2>4, RowFacts DEF Good, Table
      <3> QED
        BY <2>4, <3>1
    <2>6. ASSUME proc'[q] = proc[q], Waits(q), q \notin missed'
          PROVE  /\ sock'[s] = sock[s] /\ (t # 0 => sock'[t].buf = sock[t].buf)
                 /\ Emptied(q) => Emptied(q)'
      <3>1. proc[q].at # "user"
        BY <2>6 DEF Waits
      <3>2. t \notin S
        BY <1>1, <1>4, <2>1, <2>2, <2>3, <2>4, <2>6, <3>1, CloseSpares
      <3>3. sock'[s] = sock[s]
        BY <2>4, <3>1, <3>2
      <3>4. t # 0 => t \in Ids \ S /\ sock[t].valid
        BY <2>2, <2>3, <3>1, <3>2, Other
      <3>5. t # 0 => sock'[t].buf = sock[t].buf
        BY <1>1, <1>3, <1>4, <3>4, StaysOpen
      <3>6. Emptied(q) => Emptied(q)'
        <4>1. \A r \in Procs \ {p} : proc'[r] = proc[r] \/ Woke(r)
          BY <1>1 DEF Told
        <4>2. ~ Standing(p, "read", "copy")
          BY <1>2 DEF Standing
        <4> QED
          BY <2>2, <2>6, <3>3, <4>1, <4>2, EmptiedKept
      <3> QED
        BY <3>3, <3>5, <3>6
    <2>7. \A x \in holds[q] : sock'[x].valid
      BY <1>7, <2>1
    <2> HIDE <1>1
    <2> QED
      BY <2>1, <2>2, <2>3, <2>5, <2>6, <2>7 DEF By, Told
  <1>12. ASSUME NEW q \in Procs \ {p} PROVE ByClient(q)
    <2>1. PICK s : s = proc[q].s
      OBVIOUS
    <2>2. SUFFICES ASSUME proc[q].op = "connect", ~ Answered(s)
                   PROVE  /\ sock[s].peer = 0 /\ sock[s].state = "CONNECTED" /\ s \notin forgotten
                          /\ \A l \in Ids : \A i \in 1 .. Len(sock[l].queue) :
                                sock[l].valid /\ sock[l].state = "LISTENING" /\ Stands(sock, l, i, s) =>
                                  /\ sock'[l].valid /\ sock'[l].state = "LISTENING"
                                  /\ \E j \in 1 .. Len(sock'[l].queue) : Stands(sock', l, j, s)
      BY <2>1 DEF ByClient
    <2>3. s \notin forgotten' /\ sock'[s].peer = 0 /\ sock'[s].state = "CONNECTED"
      BY <2>2 DEF Answered
    <2>4. s \in Ids \ S /\ sock[s].valid
      <3>1. proc[q].at # "user"
        BY <2>2 DEF Good, Seats
      <3> QED
        BY <1>1, <2>1, <3>1, Other
    <2>5. sock'[s] = sock[s]
      BY <1>1, <1>3, <1>4, <2>3, <2>4, StaysOpen
    <2>6. s \notin forgotten /\ \A l \in S : s \notin Waiting(sock, l)
      BY <1>1, <2>3, <2>4
    <2>7. ASSUME NEW l \in Ids, NEW i \in 1 .. Len(sock[l].queue),
                 sock[l].valid, sock[l].state = "LISTENING", Stands(sock, l, i, s)
          PROVE  /\ sock'[l].valid /\ sock'[l].state = "LISTENING"
                 /\ \E j \in 1 .. Len(sock'[l].queue) : Stands(sock', l, j, s)
      <3>1. l \notin S
        <4>1. sock[l].queue \in Seq(Entry)
          BY <1>3, EntryFacts DEF Table
        <4> QED
          BY <2>6, <2>7, <4>1, WaitingFacts
      <3>2. sock[l].peer \notin S
        BY <1>1, <1>3, <1>4, <2>7, <3>1, StaysOpen
      <3>3. sock'[l] = sock[l]
        BY <1>1, <1>3, <1>4, <2>7, <3>1, <3>2, StaysOpen
      <3> QED
        BY <2>5, <2>7, <3>3 DEF Stands
    <2> QED
      BY <2>3, <2>5, <2>6, <2>7
  <1> QED
    BY <1>5, <1>10, <1>11, <1>12, GoodStep

(* close. *)
LEMMA CloseKeeps ==
    ASSUME Good, NEW p \in Procs, NEW s \in Ids, Close(p, s)
    PROVE  Good'
  <1>1. PICK S : S = {s}
    OBVIOUS
  <1>2. PICK qs : qs = CloseQueues(sock, s)
    OBVIOUS
  <1>3. qs = ClosingQueues(S)
    BY <1>1, <1>2 DEF ClosingQueues
  <1>4. /\ proc[p].at = "user" /\ s \in holds[p] /\ sock' = CloseOne(sock, s)
        /\ holds' = [holds EXCEPT ![p] = @ \ {s}] /\ proc' = Woken(proc, qs) /\ missed' = Missing(qs)
        /\ forgotten' = (forgotten \ {s}) \cup Waiting(sock, s)
    BY <1>2 DEF Close, Enter
  <1>5. /\ Table(sock) /\ proc \in [Procs -> Act] /\ proc[p].op = "none" /\ missed \subseteq Procs /\ sock[s].valid
    BY <1>4 DEF Good, Seats
  <1>6. sock' = Closed(sock, S)
    <2>1. CloseOne(sock, s) = Closed(sock, {s})
      BY <1>5, CloseOneIs
    <2> QED
      BY <1>1, <1>4, <2>1, Zenon
  <1>7. \A q \in Procs : Told(q, qs)
    BY <1>4, ToldBy
  <1>8. proc' \in [Procs -> Act] /\ proc'[p] = proc[p]
    <2>1. proc[p].at # "asleep"
      BY <1>4
    <2>2. Woken(proc, qs) \in [Procs -> Act] /\ Woken(proc, qs)[p] = proc[p]
      BY <1>5, <2>1, NotWoken
    <2> QED
      BY <1>4, <2>2, Zenon
  <1>9. missed' \subseteq Procs
    BY <1>4, <1>5 DEF Missing
  <1>10. \A x \in Ids \ S : x \in forgotten \/ (\E r \in S : x \in Waiting(sock, r)) => x \in forgotten'
    BY <1>1, <1>4
  <1>11. S \subseteq holds[p] /\ holds' = [holds EXCEPT ![p] = @ \ S]
    BY <1>1, <1>4
  <1>12. Closes(p, S)
    BY <1>3, <1>4, <1>5, <1>6, <1>7, <1>8, <1>9, <1>10, <1>11 DEF Closes
  <1> QED
    BY <1>12, CloseStep

(* process_destroy. *)
LEMMA KillStep ==
    ASSUME Good, NEW p \in Procs, Kill(p)
    PROVE  Good'
  <1>1. PICK S : S = holds[p]
    OBVIOUS
  <1>2. PICK qs : qs = ClosingQueues(S)
    OBVIOUS
  <1>3. PICK pr : pr = [proc EXCEPT ![p] = User]
    OBVIOUS
  <1>4. /\ proc[p].at \in {"user", "asleep"} /\ sock' = CloseAll(sock, S) /\ holds' = [holds EXCEPT ![p] = {}]
        /\ proc' = Woken(pr, qs) /\ missed' = Missing(qs) \ {p}
        /\ forgotten' = (forgotten \ S) \cup ((UNION {Waiting(sock, s) : s \in S}) \ S)
    BY <1>1, <1>2, <1>3 DEF Kill, ClosingQueues
  <1>5. /\ Table(sock) /\ proc \in [Procs -> Act] /\ missed \subseteq Procs /\ Open(sock, S)
        /\ holds \in [Procs -> SUBSET Ids]
    BY <1>1 DEF Good, Seats, Open
  <1>6. sock' = Closed(sock, S)
    BY <1>4, <1>5, CloseAllIs
  <1>7. pr \in [Procs -> Act] /\ pr[p] = User /\ \A q \in Procs \ {p} : pr[q] = proc[q]
    BY <1>3, <1>5, UserFacts
  <1>8. proc' \in [Procs -> Act] /\ proc'[p] = User
    <2>1. pr[p].at # "asleep"
      BY <1>7, UserFacts
    <2>2. Woken(pr, qs) \in [Procs -> Act] /\ Woken(pr, qs)[p] = pr[p]
      BY <1>7, <2>1, NotWoken
    <2> QED
      BY <1>4, <1>7, <2>2, Zenon
  <1>9. proc'[p].at = "user" /\ proc'[p].op = "none"
    BY <1>8, UserFacts
  <1>10. ASSUME NEW q \in Procs \ {p} PROVE Told(q, qs)
    <2>1. Woken(pr, qs)[q] = Woken(proc, qs)[q]
      BY <1>7 DEF Woken
    <2>2. proc'[q] = Woken(proc, qs)[q]
      BY <1>4, <2>1, Zenon
    <2>3. q \in Missing(qs) => q \in missed'
      BY <1>4
    <2> QED
      BY <2>2, <2>3, ToldBy
  <1>11. missed' \subseteq Procs
    BY <1>4, <1>5 DEF Missing
  <1>12. \A x \in Ids \ S : x \in forgotten \/ (\E s \in S : x \in Waiting(sock, s)) => x \in forgotten'
    <2>1. ASSUME NEW x \in Ids \ S, NEW s \in S, x \in Waiting(sock, s)
          PROVE  x \in UNION {Waiting(sock, r) : r \in S}
      BY <2>1
    <2>2. PICK U : U = UNION {Waiting(sock, r) : r \in S}
      OBVIOUS
    <2>3. \A x \in Ids \ S : (\E s \in S : x \in Waiting(sock, s)) => x \in U
      BY <2>1, <2>2, Zenon
    <2>4. forgotten' = (forgotten \ S) \cup (U \ S)
      BY <1>1, <2>2 DEF Kill
    <2> QED
      BY <2>3, <2>4
  <1>13. S \subseteq holds[p] /\ holds' = [holds EXCEPT ![p] = @ \ S]
    BY <1>1, <1>4, <1>5
  <1>14. Closes(p, S)
    BY <1>2, <1>4, <1>6, <1>8, <1>9, <1>10, <1>11, <1>12, <1>13 DEF Closes
  <1> QED
    BY <1>14, CloseStep

-----------------------------------------------------------------------------
(* read and write move bytes. *)

(* Rows of which only buffer and counts change: clients stay queued. *)
LEMMA BytesClient ==
    ASSUME NEW q, \A x \in Ids : Kept(sock[x], sock'[x]), forgotten' = forgotten,
           proc[q].op = "connect" => proc[q].s \in Ids
    PROVE  ByClient(q)
  <1>1. PICK s : s = proc[q].s
    OBVIOUS
  <1>2. proc[q].op = "connect" =>
          sock'[s].peer = sock[s].peer /\ sock'[s].state = sock[s].state /\ sock'[s].gen = sock[s].gen
    BY <1>1 DEF Kept
  <1>3. \A l \in Ids : sock[l].valid /\ sock[l].state = "LISTENING" =>
           /\ sock'[l].valid /\ sock'[l].state = "LISTENING"
           /\ \A i \in 1 .. Len(sock[l].queue) :
                 i \in 1 .. Len(sock'[l].queue) /\ sock'[l].queue[i] = sock[l].queue[i]
    BY DEF Kept
  <1> QED
    BY <1>1, <1>2, <1>3, ClientKept

(* A process in connect has a socket. *)
LEMMA ClientSocket ==
    ASSUME Good, NEW q \in Procs, proc[q].op = "connect"
    PROVE  proc[q].at # "user" /\ proc[q].s \in Ids /\ proc[q].s \in holds[q] /\ sock[proc[q].s].valid
  BY DEF Good, Seats

(* p reads a byte of the socket s; qs are woken after the last one. *)
Reads(p, s, qs) ==
    /\ s = proc[p].s /\ s \in holds[p] /\ Table(sock')
    /\ \A x \in Ids : Kept(sock[x], sock'[x]) /\ (x # s => sock'[x].buf = sock[x].buf)
    /\ \A q \in Procs \ {p} : Told(q, qs)
    /\ \/ <<s, "send">> \in qs
       \/ proc'[p].op = "read" /\ proc'[p].at = "copy" /\ proc'[p].s = s
    /\ holds' = holds /\ forgotten' = forgotten

(* The others while p reads. *)
LEMMA ReadsBy ==
    ASSUME Good, NEW p \in Procs, NEW o, NEW qs, Reads(p, o, qs), NEW q \in Procs \ {p}
    PROVE  By(q) /\ ByClient(q)
  <1>1. Told(q, qs) /\ holds' = holds /\ forgotten' = forgotten /\ o = proc[p].s /\ o \in holds[p]
    BY DEF Reads
  <1>2. \A x \in Ids : Kept(sock[x], sock'[x]) /\ (x # o => sock'[x].buf = sock[x].buf)
    BY DEF Reads
  <1>3. PICK s : s = proc[q].s
    OBVIOUS
  <1>4. PICK t : t = sock[s].peer
    OBVIOUS
  <1>5. ASSUME proc[q].at # "user"
        PROVE  /\ s \in Ids /\ s # o /\ sock'[s].state = sock[s].state /\ sock'[s].queue = sock[s].queue
               /\ sock'[s].buf = sock[s].buf /\ sock'[s].peer = t /\ (t # 0 => t \in Ids)
               /\ Len(sock[s].buf) \in Nat
    <2>1. s \in Ids /\ s # o /\ (t # 0 => t \in Ids)
      BY <1>1, <1>3, <1>4, <1>5, Other
    <2>2. Len(sock[s].buf) \in Nat
      BY <2>1, RowFacts DEF Good, Table
    <2> QED
      BY <1>2, <1>4, <2>1, <2>2 DEF Kept
  <1>6. proc[q].at # "user" =>
         /\ sock'[s].state = sock[s].state \/ (sock[s].state = "CONNECTED" /\ sock'[s].state = "CLOSED")
         /\ sock[s].queue # <<>> => sock'[s].queue # <<>>
         /\ Len(sock[s].buf) <= Len(sock'[s].buf)
    BY <1>5
  <1>7. ASSUME proc'[q] = proc[q], Waits(q), q \notin missed', proc[q].op = "write", t # 0,
               Len(sock[t].buf) >= Size \/ Emptied(q)
        PROVE  Len(sock'[t].buf) >= Size \/ Emptied(q)'
    <2>1. proc[q].at # "user"
      BY <1>7 DEF Waits
    <2>2. CASE t = o
      <3>1. q \notin missed /\ proc[q].on \notin qs
        BY <1>1, <1>7 DEF Told
      <3>2. Reason(q)
        BY <1>7, <3>1 DEF Good, Reasons, Waits
      <3>3. proc[q].on = <<o, "send">>
        BY <1>3, <1>4, <1>7, <2>2, <3>2 DEF Reason
      <3>4. proc'[p].op = "read" /\ proc'[p].at = "copy" /\ proc'[p].s = o
        BY <3>1, <3>3 DEF Reads
      <3>5. Emptied(q)'
        BY <1>3, <1>5, <1>7, <2>1, <2>2, <3>4 DEF Emptied, Standing
      <3> QED
        BY <3>5
    <2>3. CASE t # o
      <3>1. sock'[t].buf = sock[t].buf
        BY <1>2, <1>5, <1>7, <2>1, <2>3
      <3>2. ASSUME Emptied(q) PROVE Emptied(q)'
        <4>1. PICK r \in Procs : Standing(r, "read", "copy") /\ proc[r].s = sock[proc[q].s].peer
          BY <3>2 DEF Emptied
        <4>2. r # p
          BY <1>1, <1>3, <1>4, <2>3, <4>1
        <4>3. proc'[r] = proc[r]
          <5>1. Told(r, qs)
            BY <4>2 DEF Reads
          <5> QED
            BY <4>1, <5>1 DEF Told, Woke, Standing
        <4> QED
          BY <1>3, <1>4, <1>5, <1>7, <2>1, <4>1, <4>3 DEF Emptied, Standing
      <3> QED
        BY <1>7, <3>1, <3>2
    <2> QED
      BY <2>2, <2>3
  <1>8. Waits(q) => proc[q].at # "user"
    BY DEF Waits
  <1>9. \A x \in holds[q] : sock'[x].valid
    <2>1. \A x \in holds[q] : x \in Ids /\ sock[x].valid
      BY DEF Good, Seats
    <2> QED
      BY <1>2, <2>1 DEF Kept
  <1>10. By(q)
    BY <1>1, <1>3, <1>4, <1>5, <1>6, <1>7, <1>8, <1>9 DEF By, Told
  <1>11. ByClient(q)
    BY <1>1, <1>2, BytesClient, ClientSocket
  <1> QED
    BY <1>10, <1>11

(* read takes a byte. *)
LEMMA ReadByteStep ==
    ASSUME Good, NEW p \in Procs, ReadByte(p)
    PROVE  Good'
  <1>1. PICK s : s = proc[p].s
    OBVIOUS
  <1>2. proc[p].op = "read" /\ proc[p].at = "copy" /\ holds' = holds /\ forgotten' = forgotten
    BY DEF ReadByte, Standing
  <1>3. sock' = Took(sock, s)
    BY <1>1 DEF ReadByte, Took
  <1>4. /\ s \in Ids /\ s \in holds[p] /\ sock[s].valid /\ sock[s] \in Row /\ Doing(p) /\ proc[p] \in Act
        /\ proc \in [Procs -> Act] /\ missed \subseteq Procs
    BY <1>1, <1>2, Caller DEF Good, Seats
  <1>5. PICK k \in Nat : k = Len(sock[s].buf)
    BY <1>4, RowFacts
  <1>6. proc[p].n \in 1 .. k
    BY <1>1, <1>2, <1>4, <1>5 DEF Doing
  <1>7. sock[s].buf # <<>>
    BY <1>5, <1>6
  <1>8. Table(sock)
    BY Zenon DEF Good
  <1>9. /\ Table(sock') /\ Len(sock'[s].buf) = k - 1
        /\ \A x \in Ids : Kept(sock[x], sock'[x]) /\ (x # s => sock'[x].buf = sock[x].buf)
    BY <1>3, <1>4, <1>5, <1>7, <1>8, ReadTable
  <1>10. \A x \in holds'[p] : sock'[x].valid /\ \A q \in Procs \ {p} : x \notin holds[q]
    <2>1. \A x \in holds[p] : x \in Ids /\ sock[x].valid /\ \A q \in Procs \ {p} : x \notin holds[q]
      BY DEF Good, Seats
    <2> QED
      BY <1>2, <1>9, <2>1 DEF Kept
  <1>11. holds' \in [Procs -> SUBSET Ids] /\ holds'[p] = holds[p]
    BY <1>2 DEF Good, Seats
  <1>12. CASE proc[p].n = 1
    <2>1. PICK qs : qs = {<<s, "send">>}
      OBVIOUS
    <2>2. proc' = [Woken(proc, qs) EXCEPT ![p] = User] /\ missed' = Missing(qs)
      BY <1>1, <1>12, <2>1 DEF ReadByte
    <2>3. Woken(proc, qs) \in [Procs -> Act]
      BY <1>4, WokenFacts
    <2>4. /\ proc' \in [Procs -> Act] /\ proc'[p] = User
          /\ \A q \in Procs \ {p} : proc'[q] = Woken(proc, qs)[q]
      BY <2>2, <2>3, UserFacts
    <2>5. \A q \in Procs \ {p} : Told(q, qs)
      BY <2>2, <2>4, ToldBy
    <2>6. proc'[p].at = "user" /\ proc'[p].op = "none"
      BY <2>4, UserFacts
    <2>7. Doing(p)' /\ Client(p)' /\ ~ Waits(p)'
      BY <2>6 DEF Doing, Client, Waits
    <2>8. missed' \subseteq Procs
      BY <1>4, <2>2 DEF Missing
    <2>9. Actor(p)
      BY <1>10, <1>11, <2>4, <2>6, <2>7, <2>8 DEF Actor
    <2>10. Reads(p, s, qs)
      BY <1>1, <1>2, <1>4, <1>9, <2>1, <2>5 DEF Reads
    <2> QED
      BY <1>9, <2>9, <2>10, ReadsBy, GoodStep
  <1>13. CASE proc[p].n # 1
    <2>1. PICK m \in Nat : m = proc[p].n - 1 /\ m \in 1 .. k - 1
      BY <1>5, <1>6, <1>13
    <2>2. PICK a : a = [proc[p] EXCEPT !.n = m]
      OBVIOUS
    <2>3. a \in Act /\ a.n = m /\ a.op = "read" /\ a.at = "copy" /\ a.s = s
      BY <1>1, <1>2, <1>4, <2>2, CountFacts
    <2>4. proc' = [proc EXCEPT ![p] = a] /\ missed' = missed
      BY <1>4, <1>13, <2>1, <2>2 DEF ReadByte
    <2>5. proc' \in [Procs -> Act] /\ proc'[p] = a /\ \A q \in Procs \ {p} : proc'[q] = proc[q]
      BY <1>4, <2>3, <2>4
    <2>6. \A q \in Procs \ {p} : Told(q, {})
      BY <2>4, <2>5, ToldNothing
    <2>7. Doing(p)' /\ Client(p)' /\ ~ Waits(p)'
      BY <1>9, <2>1, <2>3, <2>5 DEF Doing, Client, Waits
    <2>8. Actor(p)
      BY <1>4, <1>10, <1>11, <2>3, <2>4, <2>5, <2>7 DEF Actor
    <2>9. Reads(p, s, {})
      BY <1>1, <1>2, <1>4, <1>9, <2>3, <2>5, <2>6 DEF Reads
    <2> QED
      BY <1>9, <2>8, <2>9, ReadsBy, GoodStep
  <1> QED
    BY <1>12, <1>13

(* write puts a byte. *)
LEMMA WritePutStep ==
    ASSUME Good, NEW p \in Procs, WritePut(p), sock[proc[p].s].peer = proc[p].peer
    PROVE  Good'
  <1>1. PICK o : o = proc[p].s
    OBVIOUS
  <1>2. PICK w : w = proc[p].peer
    OBVIOUS
  <1>3. PICK qs : qs = {<<w, "recv">>}
    OBVIOUS
  <1>4. proc[p].op = "write" /\ proc[p].at = "put" /\ holds' = holds /\ forgotten' = forgotten
    BY DEF WritePut, Standing
  <1>5. /\ o \in Ids /\ o \in holds[p] /\ sock[o].valid /\ Doing(p) /\ proc[p] \in Act
        /\ proc \in [Procs -> Act] /\ missed \subseteq Procs
    BY <1>1, <1>4, Caller DEF Good, Seats
  <1>6. w \in Ids /\ sock[o].peer = w /\ proc[p].n \in Nat \ {0}
    <2>1. w # 0 /\ proc[p].n # 0
      BY <1>2, <1>4, <1>5 DEF Doing
    <2>2. w \in 0 .. Slots /\ proc[p].n \in Nat
      BY <1>2, <1>5, ActFacts
    <2> QED
      BY <1>1, <1>2, <2>1, <2>2, IdFacts
  <1>7. sock' = Put(sock, o, w)
    BY <1>1, <1>2 DEF WritePut, Put
  <1>8. Table(sock)
    BY Zenon DEF Good
  <1>9. /\ Table(sock') /\ Len(sock'[w].buf) = Len(sock[w].buf) + 1
        /\ \A x \in Ids : Kept(sock[x], sock'[x]) /\ (x # w => sock'[x].buf = sock[x].buf)
    BY <1>5, <1>6, <1>7, <1>8, WriteTable
  <1>10. \A x \in Ids : Len(sock[x].buf) \in Nat /\ Len(sock[x].buf) <= Len(sock'[x].buf)
    <2>1. \A x \in Ids : Len(sock[x].buf) \in Nat
      BY <1>8, RowFacts DEF Table
    <2>2. ASSUME NEW x \in Ids, x # w PROVE Len(sock[x].buf) <= Len(sock'[x].buf)
      <3>1. sock'[x].buf = sock[x].buf
        BY <1>9, <2>2
      <3> QED
        BY <2>1, <3>1
    <2>3. Len(sock[w].buf) <= Len(sock'[w].buf)
      BY <1>6, <1>9, <2>1
    <2> QED
      BY <2>1, <2>2, <2>3
  <1>11. proc' = [Woken(proc, qs) EXCEPT ![p].n = @ - 1, ![p].at = "check"] /\ missed' = Missing(qs)
    BY <1>2, <1>3 DEF WritePut
  <1>12. Woken(proc, qs) \in [Procs -> Act] /\ Woken(proc, qs)[p] = proc[p]
    <2>1. proc[p].at # "asleep"
      BY <1>4
    <2> QED
      BY <1>5, <2>1, NotWoken
  <1>13. PICK m \in Nat : m = proc[p].n - 1
    BY <1>6
  <1>14. PICK b : b = [proc[p] EXCEPT !.n = m]
    OBVIOUS
  <1>15. PICK a : a = [b EXCEPT !.at = "check"]
    OBVIOUS
  <1>16. b \in Act /\ b.op = "write" /\ b.s = o
    BY <1>1, <1>4, <1>5, <1>13, <1>14, CountFacts
  <1>17. a \in Act /\ a.at = "check" /\ a.op = "write" /\ a.s = o
    BY <1>15, <1>16, GotoFacts
  <1>18. /\ proc' \in [Procs -> Act] /\ proc'[p] = a
         /\ \A q \in Procs \ {p} : proc'[q] = Woken(proc, qs)[q]
    <2>1. PICK pr \in [Procs -> Act] : pr = Woken(proc, qs)
      BY <1>12
    <2>2. proc' = [pr EXCEPT ![p].n = @ - 1, ![p].at = "check"] /\ pr[p] = proc[p]
      BY <1>11, <1>12, <2>1, Zenon
    <2>3. proc' = [pr EXCEPT ![p] = a]
      BY <1>13, <1>14, <1>15, <2>1, <2>2
    <2>4. proc' \in [Procs -> Act] /\ proc'[p] = a /\ \A q \in Procs \ {p} : proc'[q] = pr[q]
      BY <1>17, <2>1, <2>3
    <2> QED
      BY <2>1, <2>4, Zenon
  <1>19. \A q \in Procs \ {p} : Told(q, qs)
    BY <1>11, <1>18, ToldBy
  <1>20. \A x \in holds'[p] : sock'[x].valid /\ \A q \in Procs \ {p} : x \notin holds[q]
    <2>1. \A x \in holds[p] : x \in Ids /\ sock[x].valid /\ \A q \in Procs \ {p} : x \notin holds[q]
      BY DEF Good, Seats
    <2> QED
      BY <1>4, <1>9, <2>1 DEF Kept
  <1>21. Actor(p)
    <2>1. Doing(p)' /\ Client(p)' /\ ~ Waits(p)'
      BY <1>17, <1>18 DEF Doing, Client, Waits
    <2>2. holds' \in [Procs -> SUBSET Ids] /\ holds'[p] = holds[p]
      BY <1>4 DEF Good, Seats
    <2>3. missed' \subseteq Procs
      BY <1>5, <1>11 DEF Missing
    <2> QED
      BY <1>5, <1>17, <1>18, <1>20, <2>1, <2>2, <2>3 DEF Actor
  <1>22. ASSUME NEW q \in Procs \ {p} PROVE By(q)
    <2>1. PICK s : s = proc[q].s
      OBVIOUS
    <2>2. PICK t : t = sock[s].peer
      OBVIOUS
    <2>3. ASSUME proc[q].at # "user"
          PROVE  /\ s \in Ids /\ sock'[s].state = sock[s].state /\ sock'[s].queue = sock[s].queue
                 /\ sock'[s].peer = t /\ (t # 0 => t \in Ids)
      <3>1. s \in Ids /\ (t # 0 => t \in Ids)
        BY <2>1, <2>2, <2>3, Other
      <3> QED
        BY <1>9, <2>2, <3>1 DEF Kept
    <2>4. proc[q].at # "user" =>
             /\ sock'[s].state = sock[s].state \/ (sock[s].state = "CONNECTED" /\ sock'[s].state = "CLOSED")
             /\ sock[s].queue # <<>> => sock'[s].queue # <<>>
             /\ Len(sock[s].buf) <= Len(sock'[s].buf)
      BY <1>10, <2>3
    <2>5. ASSUME proc'[q] = proc[q], Waits(q), q \notin missed'
          PROVE  /\ sock'[s].peer = t /\ sock'[s].state = sock[s].state
                 /\ proc[q].op = "read" => sock'[s].buf = sock[s].buf
                 /\ proc[q].op = "accept" => sock'[s].queue = sock[s].queue
                 /\ proc[q].op = "write" /\ t # 0 /\ (Len(sock[t].buf) >= Size \/ Emptied(q)) =>
                      Len(sock'[t].buf) >= Size \/ Emptied(q)'
      <3>1. proc[q].at # "user"
        BY <2>5 DEF Waits
      <3>2. proc[q].on \notin qs /\ Doing(q)
        BY <1>19, <2>5 DEF Told, Good
      <3>3. ASSUME proc[q].op = "read" PROVE sock'[s].buf = sock[s].buf
        <4>1. proc[q].on = <<s, "recv">>
          BY <2>1, <2>5, <3>2, <3>3 DEF Doing, Waits
        <4>2. s # w
          BY <1>3, <3>2, <4>1
        <4> QED
          BY <1>9, <2>3, <3>1, <4>2
      <3>4. t # 0 /\ Len(sock[t].buf) >= Size => Len(sock'[t].buf) >= Size
        <4>1. Size \in Nat
          BY SocketAssumption
        <4>2. t # 0 => /\ Len(sock[t].buf) \in Nat /\ Len(sock[t].buf) <= Len(sock'[t].buf)
                       /\ Len(sock'[t].buf) \in Nat
          <5>1. t # 0 => t \in Ids
            BY <2>3, <3>1
          <5>2. t # 0 => Len(sock'[t].buf) \in Nat
            BY <1>9, <5>1, RowFacts DEF Table
          <5> QED
            BY <1>10, <5>1, <5>2
        <4> QED
          BY <4>1, <4>2
      <3>5. Emptied(q) => Emptied(q)'
        <4>1. \A r \in Procs \ {p} : proc'[r] = proc[r] \/ Woke(r)
          BY <1>19 DEF Told
        <4>2. ~ Standing(p, "read", "copy")
          BY <1>4 DEF Standing
        <4>3. sock'[proc[q].s].peer = sock[proc[q].s].peer
          BY <2>1, <2>2, <2>3, <3>1
        <4> QED
          BY <2>5, <4>1, <4>2, <4>3, EmptiedKept
      <3> QED
        BY <2>3, <3>1, <3>3, <3>4, <3>5
    <2>6. \A x \in holds[q] : sock'[x].valid
      <3>1. \A x \in holds[q] : x \in Ids /\ sock[x].valid
        BY DEF Good, Seats
      <3> QED
        BY <1>9, <3>1 DEF Kept
    <2>7. Told(q, qs) /\ holds'[q] = holds[q]
      BY <1>4, <1>19
    <2> QED
      BY <2>1, <2>2, <2>4, <2>5, <2>6, <2>7 DEF By, Told
  <1>23. ASSUME NEW q \in Procs \ {p} PROVE ByClient(q)
    BY <1>4, <1>9, BytesClient, ClientSocket
  <1> QED
    BY <1>9, <1>21, <1>22, <1>23, GoodStep

-----------------------------------------------------------------------------
(* connect. *)

(* Only the holder of a listener sleeps in its accept. *)
LEMMA OneSleeper ==
    ASSUME Good, NEW q \in Procs, NEW r \in Procs, NEW l, NEW o, o = <<l, "accept">>,
           Waits(q), Waits(r), proc[q].on = o, proc[r].on = o
    PROVE  q = r /\ proc[q].s = l
  <1>1. \A x \in {q, r} : proc[x].s \in holds[x] /\ Doing(x)
    BY DEF Waits, Good, Seats
  <1>2. o[2] = "accept"
    OBVIOUS
  <1>3. \A x \in {q, r} : proc[x].op = "accept" /\ o = <<proc[x].s, "accept">>
    BY <1>1, <1>2 DEF Doing, Waits
  <1>4. proc[q].s = l /\ proc[r].s = l
    BY <1>3
  <1>5. q # r => holds[q] \cap holds[r] = {}
    BY DEF Good, Seats
  <1> QED
    BY <1>1, <1>4, <1>5

(* The listeners are sockets in use; the caller's socket is none of them. *)
LEMMA ListenerFacts ==
    ASSUME Listeners # {}, NEW l, l = Min(Listeners)
    PROVE  l \in Ids /\ sock[l].valid /\ sock[l].state = "LISTENING"
  <1>1. Listeners \subseteq Ids
    BY DEF Listeners
  <1>2. l \in Listeners
    BY <1>1, MinIn
  <1> QED
    BY <1>2 DEF Listeners

(* The record of a process that has queued its socket. *)
Connecting(s) == [User EXCEPT !.op = "connect", !.at = "check", !.s = s]

(* It is where the check of connect begins. *)
LEMMA ConnectingFacts ==
    ASSUME NEW s \in Ids, NEW a, a = Connecting(s)
    PROVE  a \in Act /\ a.op = "connect" /\ a.at = "check" /\ a.s = s
  <1>1. a = [op |-> "connect", at |-> "check", s |-> s, peer |-> 0, n |-> 0, on |-> <<>>]
    BY DEF User, Connecting
  <1>2. a.op = "connect" /\ a.at = "check" /\ a.s = s
    BY <1>1
  <1>3. 0 \in 0 .. Slots /\ s \in 0 .. Slots
    BY IdFacts
  <1>4. a \in Act
    BY <1>1, <1>3 DEF Act
  <1> QED
    BY <1>2, <1>4

(* The processes after s was queued at l. *)
Calls(p, s, l, pr) ==
    LET sleepers == {q \in Procs : proc[q].at = "asleep" /\ proc[q].on = <<l, "accept">>} IN
    pr = IF sleepers = {} THEN proc ELSE [proc EXCEPT ![CHOOSE q \in sleepers : TRUE].at = "woke"]

(* The one who sleeps there is woken. *)
LEMMA CallsTold ==
    ASSUME Good, NEW p \in Procs, proc[p].at = "user", NEW s, NEW l, NEW pr, Calls(p, s, l, pr)
    PROVE  /\ pr \in [Procs -> Act] /\ pr[p] = proc[p]
           /\ \A q \in Procs \ {p} :
                proc'[q] = pr[q] /\ missed' = Missing({<<l, "accept">>}) => Told(q, {<<l, "accept">>})
  <1> DEFINE sleepers == {q \in Procs : proc[q].at = "asleep" /\ proc[q].on = <<l, "accept">>}
  <1>1. proc \in [Procs -> Act]
    BY DEF Good, Seats
  <1>2. CASE sleepers = {}
    <2>1. pr = proc
      BY <1>2 DEF Calls
    <2>2. ASSUME NEW q \in Procs, proc'[q] = pr[q], missed' = Missing({<<l, "accept">>})
          PROVE  Told(q, {<<l, "accept">>})
      <3>1. ~ (proc[q].at = "asleep" /\ proc[q].on = <<l, "accept">>)
        BY <1>2
      <3> QED
        BY <2>1, <2>2, <3>1 DEF Told, Missing, Waits
    <2> QED
      BY <1>1, <2>1, <2>2
  <1>3. CASE sleepers # {}
    <2>1. PICK h : h = CHOOSE q \in sleepers : TRUE
      OBVIOUS
    <2>2. h \in sleepers
      BY <1>3, <2>1
    <2>3. h \in Procs /\ proc[h].at = "asleep" /\ proc[h].on = <<l, "accept">> /\ h # p
      BY <2>2
    <2>4. pr = [proc EXCEPT ![h].at = "woke"]
      BY <1>3, <2>1 DEF Calls
    <2>5. PICK a : a = [proc[h] EXCEPT !.at = "woke"]
      OBVIOUS
    <2>6. a \in Act
      BY <1>1, <2>3, <2>5, ActFacts
    <2>7. pr \in [Procs -> Act] /\ pr[h] = a /\ \A q \in Procs \ {h} : pr[q] = proc[q]
      BY <1>1, <2>3, <2>4, <2>5, <2>6
    <2>8. ASSUME NEW q \in Procs, proc'[q] = pr[q], missed' = Missing({<<l, "accept">>})
          PROVE  Told(q, {<<l, "accept">>})
      <3>1. q \in missed => q \in missed'
        BY <2>8 DEF Missing
      <3>2. CASE q = h
        <4>1. Woke(q)
          BY <2>3, <2>5, <2>7, <2>8, <3>2 DEF Woke
        <4>2. proc'[q] # proc[q]
          <5>1. a.at = "woke"
            BY <1>1, <2>3, <2>5, ActFacts
          <5> QED
            BY <2>3, <2>7, <2>8, <3>2, <5>1
        <4> QED
          BY <3>1, <4>1, <4>2 DEF Told
      <3>3. CASE q # h
        <4>1. proc'[q] = proc[q]
          BY <2>7, <2>8, <3>3
        <4>2. ASSUME Waits(q), q \notin missed', proc[q].on = <<l, "accept">> PROVE FALSE
          <5>1. Waits(h)
            BY <2>3 DEF Waits
          <5>2. q = h
            BY <2>3, <4>2, <5>1, OneSleeper
          <5> QED
            BY <3>3, <5>2
        <4> QED
          BY <3>1, <4>1, <4>2 DEF Told
      <3> QED
        BY <3>2, <3>3
    <2> HIDE DEF sleepers
    <2> QED
      BY <2>3, <2>7, <2>8
  <1> QED
    BY <1>2, <1>3

(* A first connect of a socket. *)
LEMMA ConnectStep ==
    ASSUME Good, NEW p \in Procs, NEW s \in Ids, Connect(p, s), sock[s].state = "UNBOUND"
    PROVE  Good'
  <1>1. PICK l : l = Min(Listeners)
    OBVIOUS
  <1>2. PICK qs : qs = {<<l, "accept">>}
    OBVIOUS
  <1>3. /\ proc[p].at = "user" /\ s \in holds[p] /\ Listeners # {} /\ holds' = holds /\ forgotten' = forgotten
        /\ missed' = Missing(qs)
    BY <1>1, <1>2 DEF Connect, Enter
  <1>4. l \in Ids /\ sock[l].valid /\ sock[l].state = "LISTENING" /\ l # s
    BY <1>1, <1>3, ListenerFacts
  <1>5. sock' = Enlists(sock, s, l)
    BY <1>1 DEF Connect, Enlists
  <1>6. /\ Table(sock) /\ proc \in [Procs -> Act] /\ missed \subseteq Procs /\ sock[s].valid /\ proc[p].op = "none"
        /\ holds \in [Procs -> SUBSET Ids]
    BY <1>3 DEF Good, Seats
  <1>7. /\ Table(sock')
        /\ \A x \in Ids \ {s, l} : sock'[x] = sock[x]
        /\ sock'[l] \in Row /\ Loose(sock[l], sock'[l]) /\ sock'[s].valid /\ sock'[s].state = "CONNECTED"
        /\ sock'[s].peer = 0 /\ sock'[s].gen = sock[s].gen /\ sock'[s].buf = sock[s].buf
        /\ Len(sock'[l].queue) = Len(sock[l].queue) + 1
        /\ \A i \in 1 .. Len(sock[l].queue) : sock'[l].queue[i] = sock[l].queue[i]
        /\ sock'[l].queue[Len(sock[l].queue) + 1].s = s
        /\ sock'[l].queue[Len(sock[l].queue) + 1].gen = sock[s].gen
    BY <1>4, <1>5, <1>6, ConnectTable
  <1>8. PICK m \in Nat : m = Len(sock[l].queue)
    BY <1>4, <1>6, EntryFacts DEF Table
  <1>9. PICK pr : Calls(p, s, l, pr)
    BY DEF Calls
  <1>10. PICK a : a = Connecting(s)
    OBVIOUS
  <1>11. a \in Act /\ a.op = "connect" /\ a.at = "check" /\ a.s = s
    BY <1>10, ConnectingFacts, SMTT(30)
  <1>12. proc' = pr \/ proc' = [pr EXCEPT ![p] = a]
    BY <1>1, <1>9, <1>10 DEF Connect, Calls, Connecting
  <1>13. pr \in [Procs -> Act] /\ pr[p] = proc[p]
    BY <1>3, <1>9, CallsTold
  <1>14. /\ proc' \in [Procs -> Act] /\ (proc'[p] = proc[p] \/ proc'[p] = a)
         /\ \A q \in Procs \ {p} : proc'[q] = pr[q]
    BY <1>11, <1>12, <1>13
  <1>15. \A q \in Procs \ {p} : Told(q, qs)
    <2>1. \A q \in Procs \ {p} :
            proc'[q] = pr[q] /\ missed' = Missing({<<l, "accept">>}) => Told(q, {<<l, "accept">>})
      BY <1>3, <1>9, CallsTold
    <2> QED
      BY <1>2, <1>3, <1>14, <2>1, Zenon
  <1>16. \A x \in Ids : sock'[x].valid = sock[x].valid /\ sock'[x].buf = sock[x].buf /\ sock'[x].gen = sock[x].gen
    <2>1. sock'[s].valid = sock[s].valid
      BY <1>6, <1>7, RowFacts DEF Table
    <2> QED
      BY <1>7, <2>1 DEF Loose
  <1>17. \A x \in Ids \ {s} : sock'[x].peer = sock[x].peer /\ sock'[x].state = sock[x].state
    BY <1>7 DEF Loose
  <1>18. \A x \in holds'[p] : sock'[x].valid /\ \A q \in Procs \ {p} : x \notin holds[q]
    <2>1. \A x \in holds[p] : x \in Ids /\ sock[x].valid /\ \A q \in Procs \ {p} : x \notin holds[q]
      BY DEF Good, Seats
    <2> QED
      BY <1>3, <1>16, <2>1
  <1>19. Actor(p)
    <2>1. holds' \in [Procs -> SUBSET Ids] /\ holds'[p] = holds[p]
      BY <1>3, <1>6
    <2>2. missed' \subseteq Procs
      BY <1>3, <1>6 DEF Missing
    <2>3. CASE proc'[p] = proc[p]
      <3>1. proc'[p].at = "user" /\ proc'[p].op = "none"
        BY <1>3, <1>6, <2>3
      <3>2. Doing(p)' /\ Client(p)' /\ ~ Waits(p)'
        BY <3>1 DEF Doing, Client, Waits
      <3> QED
        BY <1>14, <1>18, <2>1, <2>2, <3>1, <3>2 DEF Actor
    <2>4. CASE proc'[p] = a
      <3>1. proc'[p].op = "connect" /\ proc'[p].at = "check" /\ proc'[p].s = s
        BY <1>11, <2>4
      <3>2. Doing(p)' /\ ~ Waits(p)'
        BY <1>7, <3>1 DEF Doing, Waits
      <3>3. Client(p)'
        <4>1. m + 1 \in 1 .. Len(sock'[l].queue)
          BY <1>7, <1>8
        <4>2. Stands(sock', l, m + 1, s)
          BY <1>7, <1>8 DEF Stands
        <4>3. sock'[l].valid /\ sock'[l].state = "LISTENING"
          BY <1>4, <1>7 DEF Loose
        <4> QED
          BY <1>4, <3>1, <4>1, <4>2, <4>3 DEF Client
      <3> QED
        BY <1>3, <1>14, <1>18, <2>1, <2>2, <3>1, <3>2, <3>3 DEF Actor
    <2> QED
      BY <1>14, <2>3, <2>4
  <1>20. ASSUME NEW q \in Procs \ {p} PROVE By(q)
    <2>1. PICK r : r = proc[q].s
      OBVIOUS
    <2>2. PICK t : t = sock[r].peer
      OBVIOUS
    <2>3. ASSUME proc[q].at # "user"
          PROVE  /\ r \in Ids /\ sock'[r].state = sock[r].state /\ (r # l => sock'[r].queue = sock[r].queue)
                 /\ sock'[r].buf = sock[r].buf /\ sock'[r].peer = t /\ (t # 0 => t \in Ids)
      <3>1. r \in Ids \ {s} /\ (t # 0 => t \in Ids)
        BY <1>3, <2>1, <2>2, <2>3, Other
      <3> QED
        BY <1>7, <1>16, <1>17, <2>2, <3>1
    <2>4. sock'[l].queue # <<>>
      BY <1>7, <1>8
    <2>5. proc[q].at # "user" =>
             /\ sock'[r].state = sock[r].state \/ (sock[r].state = "CONNECTED" /\ sock'[r].state = "CLOSED")
             /\ sock[r].queue # <<>> => sock'[r].queue # <<>>
             /\ Len(sock[r].buf) <= Len(sock'[r].buf)
      <3>1. proc[q].at # "user" => Len(sock[r].buf) \in Nat
        BY <1>6, <2>3, RowFacts DEF Table
      <3> QED
        BY <2>3, <2>4, <3>1
    <2>6. ASSUME proc'[q] = proc[q], Waits(q), q \notin missed'
          PROVE  /\ sock'[r].peer = t /\ sock'[r].state = sock[r].state
                 /\ proc[q].op = "read" => sock'[r].buf = sock[r].buf
                 /\ proc[q].op = "accept" => sock'[r].queue = sock[r].queue
                 /\ proc[q].op = "write" /\ t # 0 /\ (Len(sock[t].buf) >= Size \/ Emptied(q)) =>
                      Len(sock'[t].buf) >= Size \/ Emptied(q)'
      <3>1. proc[q].at # "user"
        BY <2>6 DEF Waits
      <3>2. proc[q].on \notin qs /\ Doing(q)
        BY <1>15, <2>6 DEF Told, Good
      <3>3. ASSUME proc[q].op = "accept" PROVE sock'[r].queue = sock[r].queue
        <4>1. proc[q].on = <<r, "accept">>
          BY <2>1, <2>6, <3>2, <3>3 DEF Doing, Waits
        <4>2. r # l
          BY <1>2, <3>2, <4>1
        <4> QED
          BY <2>3, <3>1, <4>2
      <3>4. Emptied(q) => Emptied(q)'
        <4>1. \A x \in Procs \ {p} : proc'[x] = proc[x] \/ Woke(x)
          BY <1>15 DEF Told
        <4>2. ~ Standing(p, "read", "copy")
          BY <1>3 DEF Standing
        <4>3. sock'[proc[q].s].peer = sock[proc[q].s].peer
          BY <2>1, <2>2, <2>3, <3>1
        <4> QED
          BY <2>6, <4>1, <4>2, <4>3, EmptiedKept
      <3>5. t # 0 => sock'[t].buf = sock[t].buf
        BY <1>16, <2>3, <3>1
      <3> QED
        BY <2>3, <3>1, <3>3, <3>4, <3>5
    <2>7. \A x \in holds[q] : sock'[x].valid
      <3>1. \A x \in holds[q] : x \in Ids /\ sock[x].valid
        BY DEF Good, Seats
      <3> QED
        BY <1>16, <3>1
    <2>8. Told(q, qs) /\ holds'[q] = holds[q]
      BY <1>3, <1>15
    <2> QED
      BY <2>1, <2>2, <2>5, <2>6, <2>7, <2>8 DEF By, Told
  <1>21. ASSUME NEW q \in Procs \ {p} PROVE ByClient(q)
    <2>1. PICK r : r = proc[q].s
      OBVIOUS
    <2>2. proc[q].op = "connect" =>
            sock'[r].peer = sock[r].peer /\ sock'[r].state = sock[r].state /\ sock'[r].gen = sock[r].gen
      <3>1. proc[q].op = "connect" => r \in Ids \ {s}
        BY <1>3, <2>1, ClientSocket, Other
      <3> QED
        BY <1>16, <1>17, <3>1
    <2>3. ASSUME NEW x \in Ids, sock[x].valid, sock[x].state = "LISTENING"
          PROVE  /\ sock'[x].valid /\ sock'[x].state = "LISTENING"
                 /\ \A i \in 1 .. Len(sock[x].queue) :
                       i \in 1 .. Len(sock'[x].queue) /\ sock'[x].queue[i] = sock[x].queue[i]
      <3>1. x # s
        BY <2>3
      <3>2. CASE x = l
        BY <1>7, <1>8, <2>3, <3>2 DEF Loose
      <3>3. CASE x # l
        <4>1. sock'[x] = sock[x]
          BY <1>7, <3>1, <3>3
        <4> QED
          BY <2>3, <4>1
      <3> QED
        BY <3>2, <3>3
    <2> QED
      BY <1>3, <2>1, <2>2, <2>3, ClientKept
  <1> QED
    BY <1>7, <1>19, <1>20, <1>21, GoodStep

-----------------------------------------------------------------------------
(* accept. *)

(* p has taken the client k off the queue of its listener s; either k was  *)
(* left alone or the processes waiting for it in qs are woken.             *)
Accepts(p, s, k, qs) ==
    /\ s \in holds[p] /\ k \in Ids /\ k # s /\ sock[k].valid /\ sock[k].state = "CONNECTED" /\ sock[k].peer = 0
    /\ sock[s].queue # <<>> /\ sock[s].queue[1].s = k
    /\ \A x \in Ids \ {s, k} : sock[x].valid => sock'[x] = sock[x]
    /\ Loose(sock[s], sock'[s]) /\ sock'[s].queue = Tail(sock[s].queue)
    /\ sock'[k].valid /\ sock'[k].state \in {"CONNECTED", "CLOSED"} /\ sock'[k].queue = sock[k].queue
    /\ sock'[k].buf = sock[k].buf /\ Answered(k)
    /\ sock'[k] = sock[k] \/ <<k, "recv">> \in qs
    /\ \A q \in Procs \ {p} : Told(q, qs)
    /\ \A q \in Procs \ {p} : holds'[q] = holds[q]
    /\ forgotten \subseteq forgotten' /\ proc[p].at = "take"

(* A process that goes on waiting was not waiting for k, unless k stayed    *)
(* as it was.                                                               *)
LEMMA AcceptSpares ==
    ASSUME Good, NEW p \in Procs, NEW s, NEW k, NEW qs, Accepts(p, s, k, qs), NEW q \in Procs \ {p},
           proc[q].s = k, proc'[q] = proc[q], Waits(q), q \notin missed'
    PROVE  sock'[k] = sock[k]
  <1>1. SUFFICES ASSUME <<k, "recv">> \in qs PROVE FALSE
    BY DEF Accepts
  <1>2. Told(q, qs) /\ sock[k].state = "CONNECTED" /\ sock[k].peer = 0
    BY DEF Accepts
  <1>3. q \notin missed /\ proc[q].on \notin qs
    BY <1>2 DEF Told
  <1>4. Doing(q) /\ Reason(q)
    BY <1>3 DEF Good, Reasons, Waits
  <1>5. proc[q].op # "accept" /\ proc[q].op # "write"
    BY <1>2, <1>4 DEF Doing, Reason
  <1>6. proc[q].on = <<k, "recv">>
    BY <1>4, <1>5 DEF Doing, Waits
  <1> QED
    BY <1>1, <1>3, <1>6

(* The others while p accepts. *)
LEMMA AcceptBy ==
    ASSUME Good, NEW p \in Procs, NEW o, NEW k, NEW qs, Accepts(p, o, k, qs), NEW q \in Procs \ {p}
    PROVE  By(q)
  <1>1. /\ o \in holds[p] /\ k \in Ids /\ k # o /\ sock[k].valid /\ sock[k].state = "CONNECTED" /\ sock[k].peer = 0
        /\ Told(q, qs) /\ holds'[q] = holds[q] /\ proc[p].at = "take"
    BY DEF Accepts
  <1>2. /\ \A x \in Ids \ {o, k} : sock[x].valid => sock'[x] = sock[x]
        /\ Loose(sock[o], sock'[o])
        /\ sock'[k].valid /\ sock'[k].state \in {"CONNECTED", "CLOSED"} /\ sock'[k].queue = sock[k].queue
        /\ sock'[k].buf = sock[k].buf
    BY DEF Accepts
  <1>3. PICK s : s = proc[q].s
    OBVIOUS
  <1>4. PICK t : t = sock[s].peer
    OBVIOUS
  <1>5. ASSUME proc[q].at # "user"
        PROVE  /\ s \in Ids /\ s # o /\ sock[s].valid /\ (t # 0 => t \in Ids /\ sock[t].valid)
               /\ s # k => sock'[s] = sock[s]
    <2>1. s \in Ids /\ s # o /\ sock[s].valid /\ (t # 0 => t \in Ids /\ sock[t].valid)
      BY <1>1, <1>3, <1>4, <1>5, Other
    <2> QED
      BY <1>2, <2>1
  <1>6. proc[q].at # "user" =>
         /\ sock'[s].state = sock[s].state \/ (sock[s].state = "CONNECTED" /\ sock'[s].state = "CLOSED")
         /\ sock[s].queue # <<>> => sock'[s].queue # <<>>
         /\ Len(sock[s].buf) <= Len(sock'[s].buf)
    <2>1. proc[q].at # "user" => Len(sock[s].buf) \in Nat
      BY <1>5, RowFacts DEF Good, Table
    <2>2. CASE s = k
      BY <1>1, <1>2, <2>1, <2>2
    <2>3. CASE s # k
      BY <1>5, <2>1, <2>3
    <2> QED
      BY <2>2, <2>3
  <1>7. ASSUME proc'[q] = proc[q], Waits(q), q \notin missed'
        PROVE  /\ sock'[s] = sock[s] /\ (t # 0 => sock'[t].buf = sock[t].buf)
               /\ Emptied(q) => Emptied(q)'
    <2>1. proc[q].at # "user"
      BY <1>7 DEF Waits
    <2>2. sock'[s] = sock[s]
      <3>1. CASE s = k
        <4>1. proc[q].s = k
          BY <1>3, <3>1
        <4>2. sock'[k] = sock[k]
          BY <1>7, <4>1, AcceptSpares
        <4> QED
          BY <3>1, <4>2
      <3> QED
        BY <1>5, <2>1, <3>1
    <2>3. t # 0 => sock'[t].buf = sock[t].buf
      <3>1. t # 0 => t \in Ids /\ sock[t].valid
        BY <1>5, <2>1
      <3>2. sock'[o].buf = sock[o].buf
        BY <1>2 DEF Loose
      <3> QED
        BY <1>2, <3>1, <3>2
    <2>4. Emptied(q) => Emptied(q)'
      <3>1. \A r \in Procs \ {p} : proc'[r] = proc[r] \/ Woke(r)
        BY DEF Accepts, Told
      <3>2. ~ Standing(p, "read", "copy")
        BY <1>1 DEF Standing
      <3> QED
        BY <1>3, <1>7, <2>2, <3>1, <3>2, EmptiedKept
    <2> QED
      BY <2>2, <2>3, <2>4
  <1>8. \A x \in holds[q] : sock'[x].valid
    <2>1. \A x \in holds[q] : x \in Ids /\ sock[x].valid /\ x # o
      BY <1>1 DEF Good, Seats
    <2> QED
      BY <1>2, <2>1
  <1> QED
    BY <1>1, <1>3, <1>4, <1>6, <1>7, <1>8 DEF By, Told

(* Clients while p accepts: those behind k move up. *)
LEMMA AcceptClient ==
    ASSUME Good, NEW p \in Procs, NEW o, NEW k, NEW qs, Accepts(p, o, k, qs), NEW q \in Procs \ {p}
    PROVE  ByClient(q)
  <1>1. /\ o \in holds[p] /\ k \in Ids /\ sock[k].state = "CONNECTED" /\ Answered(k)
        /\ sock[o].queue # <<>> /\ sock[o].queue[1].s = k
        /\ forgotten \subseteq forgotten'
    BY DEF Accepts
  <1>2. /\ \A x \in Ids \ {o, k} : sock[x].valid => sock'[x] = sock[x]
        /\ Loose(sock[o], sock'[o]) /\ sock'[o].queue = Tail(sock[o].queue)
    BY DEF Accepts
  <1>3. PICK s : s = proc[q].s
    OBVIOUS
  <1>4. SUFFICES ASSUME proc[q].op = "connect", ~ Answered(s)
                 PROVE  /\ sock[s].peer = 0 /\ sock[s].state = "CONNECTED" /\ s \notin forgotten
                        /\ \A l \in Ids : \A i \in 1 .. Len(sock[l].queue) :
                              sock[l].valid /\ sock[l].state = "LISTENING" /\ Stands(sock, l, i, s) =>
                                /\ sock'[l].valid /\ sock'[l].state = "LISTENING"
                                /\ \E j \in 1 .. Len(sock'[l].queue) : Stands(sock', l, j, s)
    BY <1>3 DEF ByClient
  <1>5. s # k
    BY <1>1, <1>4
  <1>6. s \in Ids /\ s # o /\ sock[s].valid
    BY <1>1, <1>3, <1>4, ClientSocket, Other
  <1>7. sock'[s] = sock[s]
    BY <1>2, <1>5, <1>6
  <1>8. sock[s].peer = 0 /\ sock[s].state = "CONNECTED" /\ s \notin forgotten
    BY <1>1, <1>4, <1>7 DEF Answered
  <1>9. ASSUME NEW l \in Ids, NEW i \in 1 .. Len(sock[l].queue),
               sock[l].valid, sock[l].state = "LISTENING", Stands(sock, l, i, s)
        PROVE  /\ sock'[l].valid /\ sock'[l].state = "LISTENING"
               /\ \E j \in 1 .. Len(sock'[l].queue) : Stands(sock', l, j, s)
    <2>1. CASE l # o
      <3>1. sock'[l] = sock[l]
        BY <1>1, <1>2, <1>9, <2>1
      <3> QED
        BY <1>7, <1>9, <3>1 DEF Stands
    <2>2. CASE l = o
      <3>1. PICK m \in Nat : m = Len(sock[o].queue) /\ m >= 1
        <4>1. sock[o].queue \in Seq(Entry)
          BY <2>2, EntryFacts DEF Good, Table
        <4> QED
          BY <1>1, <4>1, TailFacts
      <3>2. Len(sock'[o].queue) = m - 1 /\ \A j \in 1 .. m - 1 : sock'[o].queue[j] = sock[o].queue[j + 1]
        <4>1. sock[o].queue \in Seq(Entry)
          BY <2>2, EntryFacts DEF Good, Table
        <4>2. Len(Tail(sock[o].queue)) = m - 1 /\ \A j \in 1 .. m - 1 : Tail(sock[o].queue)[j] = sock[o].queue[j + 1]
          BY <1>1, <3>1, <4>1, TailFacts
        <4> QED
          BY <1>2, <4>2, Zenon
      <3>3. i # 1
        BY <1>1, <1>5, <1>9, <2>2 DEF Stands
      <3>4. PICK j \in 1 .. m - 1 : i = j + 1
        <4>1. i - 1 \in 1 .. m - 1 /\ i = (i - 1) + 1
          BY <2>2, <3>1, <3>3
        <4> QED
          BY <4>1
      <3>5. Stands(sock', o, j, s)
        BY <1>7, <1>9, <2>2, <3>2, <3>4 DEF Stands
      <3>6. sock'[o].valid /\ sock'[o].state = "LISTENING"
        BY <1>2, <1>9, <2>2 DEF Loose
      <3> QED
        BY <2>2, <3>2, <3>5, <3>6
    <2> QED
      BY <2>1, <2>2
  <1> QED
    BY <1>8, <1>9

(* The head of the queue, when it still stands for a client. *)
Heads(s, c) ==
    /\ s \in Ids /\ sock[s].valid /\ sock[s].state = "LISTENING" /\ sock[s].queue # <<>> /\ c = Head(sock[s].queue)
    /\ sock[c.s].valid /\ sock[c.s].gen = c.gen

(* Once it is taken, nobody has queued that client. *)
LEMMA HeadFacts ==
    ASSUME Table(sock), NEW s, NEW c, Heads(s, c), NEW k, k = c.s, NEW u, u = Shorter(sock, s)
    PROVE  /\ k \in Ids /\ k # s /\ sock[k].valid /\ Fresh(sock[k]) /\ sock[k].state = "CONNECTED"
           /\ sock[s].queue[1].s = k
           /\ Table(u) /\ ~ Queued(u, k) /\ u[s].queue = Tail(sock[s].queue)
           /\ \A x \in Ids : Loose(sock[x], u[x]) /\ (x # s => u[x] = sock[x])
  <1>1. s \in Ids /\ sock[s].queue # <<>> /\ sock[s].state = "LISTENING" /\ c = Head(sock[s].queue)
    BY DEF Heads
  <1>2. sock[k].valid /\ sock[k].gen = c.gen
    BY DEF Heads
  <1>3. /\ Table(u) /\ \A x \in Ids : Loose(sock[x], u[x]) /\ (x # s => u[x] = sock[x])
        /\ c \in Entry /\ c = sock[s].queue[1] /\ 1 \in 1 .. Len(sock[s].queue)
        /\ u[s].queue = Tail(sock[s].queue)
        /\ \A l \in Ids : \A j \in 1 .. Len(u[l].queue) : u[l].queue[j] # c
    BY <1>1, TailTable
  <1>4. k \in Ids /\ sock[s].queue[1].s = k
    BY <1>3 DEF Entry
  <1>5. Queued(sock, k)
    <2>1. Stands(sock, s, 1, k)
      BY <1>2, <1>3, <1>4 DEF Stands
    <2> QED
      BY <1>1, <1>3, <2>1 DEF Queued
  <1>6. Fresh(sock[k]) /\ sock[k].state = "CONNECTED"
    BY <1>2, <1>4, <1>5 DEF Table, Unjoined
  <1>7. ASSUME Queued(u, k) PROVE FALSE
    <2>1. PICK l \in Ids : \E i \in 1 .. Len(u[l].queue) : Stands(u, l, i, k)
      BY <1>7 DEF Queued
    <2>2. PICK i \in 1 .. Len(u[l].queue) : Stands(u, l, i, k)
      BY <2>1
    <2>3. PICK e : e = u[l].queue[i]
      OBVIOUS
    <2>4. u[k].gen = sock[k].gen
      BY <1>3, <1>4 DEF Loose
    <2>5. e.s = c.s /\ e.gen = c.gen
      BY <1>2, <2>2, <2>3, <2>4 DEF Stands
    <2>6. e \in Entry
      <3>1. u \in [Ids -> Row]
        BY <1>3 DEF Table
      <3> QED
        BY <2>3, <3>1, EntryFacts
    <2>7. e = c
      BY <1>3, <2>5, <2>6 DEF Entry
    <2> QED
      BY <1>3, <2>3, <2>7
  <1>8. k # s
    BY <1>1, <1>6
  <1> QED
    BY <1>2, <1>3, <1>4, <1>6, <1>7, <1>8

(* The table after the client k was joined to a new socket n. *)
Joint(v, s, k, n) ==
    /\ Table(v) /\ n \in Ids /\ ~ sock[n].valid
    /\ \A x \in Ids \ {s, k, n} : v[x] = sock[x]
    /\ Loose(sock[s], v[s]) /\ v[s].queue = Tail(sock[s].queue)
    /\ v[n].valid /\ v[n].peer = k
    /\ v[k].valid /\ v[k].peer = n /\ v[k].state = "CONNECTED" /\ v[k].queue = sock[k].queue
    /\ v[k].buf = sock[k].buf

(* That is what Joined makes of it. *)
LEMMA JoinedFacts ==
    ASSUME Table(sock), NEW s, NEW c, Heads(s, c), NEW k, k = c.s, FreeSlots(sock) # {},
           NEW n, n = Min(FreeSlots(sock)), NEW v, v = Joined(s, k)
    PROVE  Joint(v, s, k, n)
  <1>1. PICK u : u = Shorter(sock, s)
    OBVIOUS
  <1>2. /\ k \in Ids /\ k # s /\ sock[k].valid /\ Fresh(sock[k]) /\ sock[k].state = "CONNECTED"
        /\ Table(u) /\ ~ Queued(u, k) /\ u[s].queue = Tail(sock[s].queue)
        /\ \A x \in Ids : Loose(sock[x], u[x]) /\ (x # s => u[x] = sock[x])
    BY <1>1, HeadFacts
  <1>3. FreeSlots(u) = FreeSlots(sock)
    BY <1>2 DEF FreeSlots, Loose
  <1>4. n \in Ids /\ ~ sock[n].valid /\ ~ u[n].valid
    <2>1. FreeSlots(sock) \subseteq Ids
      BY DEF FreeSlots
    <2>2. n \in FreeSlots(sock)
      BY <2>1, MinIn
    <2> QED
      BY <1>3, <2>2 DEF FreeSlots
  <1>5. s \in Ids /\ sock[s].valid
    BY DEF Heads
  <1>6. n # k /\ n # s
    BY <1>2, <1>4, <1>5
  <1>7. PICK w : w = Taken(u, n, "CONNECTED")
    OBVIOUS
  <1>8. v = Joins(w, n, k)
    <2>1. Joined(s, k) = [Alloc(u, "CONNECTED") EXCEPT ![n].peer = k, ![k].peer = n]
      BY <1>1, <1>3 DEF Joined, Shorter
    <2>2. Alloc(u, "CONNECTED") = w
      BY <1>3, <1>7 DEF Alloc, Taken, NewRow
    <2>3. Joined(s, k) = [w EXCEPT ![n].peer = k, ![k].peer = n]
      BY <2>1, <2>2, Zenon
    <2> QED
      BY <2>3, Zenon DEF Joins
  <1>9. /\ Table(w) /\ \A x \in Ids \ {n} : w[x] = u[x] /\ (Queued(w, x) => Queued(u, x))
        /\ w[n].valid /\ w[n].state = "CONNECTED" /\ Fresh(w[n]) /\ ~ Queued(w, n)
    BY <1>2, <1>4, <1>7, AllocTable
  <1>10. w[k] = sock[k] /\ ~ Queued(w, k)
    BY <1>2, <1>6, <1>9
  <1>11. w[k].valid /\ w[k].state = "CONNECTED" /\ Fresh(w[k])
    BY <1>2, <1>10
  <1>12. /\ Table(v) /\ \A x \in Ids : v[x].queue = w[x].queue /\ v[x].gen = w[x].gen
         /\ \A x \in Ids \ {n, k} : v[x] = w[x]
         /\ v[n].valid /\ v[n].peer = k
         /\ v[k].valid /\ v[k].peer = n /\ v[k].buf = <<>> /\ v[k].state = "CONNECTED"
    BY <1>2, <1>4, <1>6, <1>8, <1>9, <1>10, <1>11, JoinTable
  <1>13. \A x \in Ids \ {s, k, n} : v[x] = sock[x]
    BY <1>2, <1>9, <1>12
  <1>14. v[s] = u[s]
    BY <1>2, <1>5, <1>6, <1>9, <1>12
  <1>15. v[k].queue = sock[k].queue /\ v[k].buf = sock[k].buf
    BY <1>2, <1>10, <1>12 DEF Fresh
  <1> QED
    BY <1>2, <1>4, <1>5, <1>12, <1>13, <1>14, <1>15 DEF Joint

(* The table after n was closed and k lost its peer. *)
Drops(t, n, k) == [CloseOne(t, n) EXCEPT ![k].peer = 0]

(* The table after n was given up again: only s and k may have changed. *)
Undone(u, s, k, n) ==
    /\ Table(u)
    /\ \A x \in Ids \ {s, k, n} : u[x] = sock[x]
    /\ Loose(sock[s], u[s]) /\ u[s].queue = Tail(sock[s].queue)
    /\ u[k].valid /\ u[k].state \in {"CONNECTED", "CLOSED"} /\ u[k].queue = sock[k].queue
    /\ u[k].buf = sock[k].buf

(* No node for the new socket: the client stays as it was. *)
LEMMA NoNodeFacts ==
    ASSUME Table(sock), NEW v, NEW s \in Ids, NEW k \in Ids, NEW n, k # s, sock[k].valid, sock[s].valid,
           Joint(v, s, k, n), NEW u, u = Parts(v, n, k)
    PROVE  Undone(u, s, k, n)
  <1>1. /\ Table(v) /\ n \in Ids /\ ~ sock[n].valid /\ v[n].valid /\ v[n].peer = k
        /\ v[k].valid /\ v[k].peer = n /\ v[k].queue = sock[k].queue /\ v[k].buf = sock[k].buf
        /\ Loose(sock[s], v[s]) /\ v[s].queue = Tail(sock[s].queue)
        /\ \A x \in Ids \ {s, k, n} : v[x] = sock[x]
    BY DEF Joint
  <1>2. n # s /\ n # k
    BY <1>1
  <1>3. /\ Table(u) /\ \A x \in Ids : u[x].queue = v[x].queue /\ u[x].gen = v[x].gen
        /\ \A x \in Ids \ {n, k} : u[x] = v[x]
        /\ u[k].valid /\ u[k].state = "CONNECTED" /\ u[k].buf = v[k].buf
    BY <1>1, PartTable
  <1>4. u[s] = v[s]
    BY <1>2, <1>3
  <1>5. u[s].queue = Tail(sock[s].queue) /\ Loose(sock[s], u[s])
    BY <1>1, <1>4, Zenon
  <1>6. \A x \in Ids \ {s, k, n} : u[x] = sock[x]
    BY <1>1, <1>3
  <1>7. u[k].queue = sock[k].queue /\ u[k].buf = sock[k].buf
    BY <1>1, <1>3
  <1> QED
    BY <1>3, <1>5, <1>6, <1>7 DEF Undone

(* No descriptor for it: the client is closed. *)
LEMMA NoFdFacts ==
    ASSUME Table(sock), NEW v, NEW s \in Ids, NEW k \in Ids, NEW n, k # s, sock[k].valid, sock[s].valid,
           Joint(v, s, k, n), NEW u, u = Drops(v, n, k)
    PROVE  Undone(u, s, k, n) /\ u[k].state = "CLOSED"
  <1>1. /\ Table(v) /\ n \in Ids /\ ~ sock[n].valid /\ v[n].valid /\ v[n].peer = k
        /\ v[k].valid /\ v[k].peer = n /\ v[k].queue = sock[k].queue /\ v[k].buf = sock[k].buf
        /\ Loose(sock[s], v[s]) /\ v[s].queue = Tail(sock[s].queue)
        /\ \A x \in Ids \ {s, k, n} : v[x] = sock[x]
    BY DEF Joint
  <1>2. n # s /\ n # k
    BY <1>1
  <1>3. PICK w : w = Closed(v, {n})
    OBVIOUS
  <1>4. CloseOne(v, n) = w
    BY <1>1, <1>3, CloseOneIs
  <1>5. Open(v, {n})
    BY <1>1 DEF Open
  <1>6. Table(w)
    BY <1>1, <1>3, <1>5, ClosedTable
  <1>7. /\ w[k] = Cut(v[k])
        /\ \A x \in Ids \ {n} : v[x].peer # n => w[x] = v[x]
    <2>1. PICK S : S = {n}
      OBVIOUS
    <2>2. Open(v, S) /\ w = Closed(v, S)
      BY <1>3, <1>5, <2>1
    <2>3. \A x \in Ids : /\ x \notin S /\ v[x].valid /\ v[x].peer \in S => Closed(v, S)[x] = Cut(v[x])
                         /\ x \notin S /\ ~ (v[x].valid /\ v[x].peer \in S) => Closed(v, S)[x] = v[x]
      BY <1>1, <2>2, ClosedRows
    <2>4. Closed(v, S)[k] = Cut(v[k])
      BY <1>1, <1>2, <2>1, <2>3
    <2>5. \A x \in Ids \ {n} : v[x].peer # n => Closed(v, S)[x] = v[x]
      BY <2>1, <2>3
    <2> QED
      BY <2>2, <2>4, <2>5, Zenon
  <1>8. /\ Cut(v[k]).peer = 0 /\ Cut(v[k]).valid = v[k].valid /\ Cut(v[k]).queue = v[k].queue
        /\ Cut(v[k]).state = "CLOSED" /\ Cut(v[k]).buf = v[k].buf
    BY <1>1, CutFacts DEF Table
  <1>9. u = w
    <2>1. w \in [Ids -> Row] /\ w[k].peer = 0
      BY <1>6, <1>7, <1>8 DEF Table
    <2>2. [w EXCEPT ![k].peer = 0] = w
      BY <2>1 DEF Row
    <2> QED
      BY <1>4, <2>2, Zenon DEF Drops
  <1>10. \A x \in Ids \ {k, n} : w[x] = v[x] \/ ~ v[x].valid
    <2>1. ASSUME NEW x \in Ids \ {k, n}, v[x].valid, v[x].peer = n PROVE FALSE
      BY <1>1, <2>1, IdFacts, PeerOf
    <2> QED
      BY <1>7, <2>1
  <1>11. \A x \in Ids \ {k, n} : ~ v[x].valid => w[x] = v[x]
    BY <1>1, <1>3, <1>5, ClosedRows
  <1>12. w[k].valid
    BY <1>1, <1>7, <1>8, Zenon
  <1>13. \A x \in Ids \ {k, n} : w[x] = v[x]
    BY <1>10, <1>11
  <1>14. w[s] = v[s]
    BY <1>2, <1>13
  <1> QED
    <2>1. \A x \in Ids \ {s, k, n} : w[x] = sock[x]
      BY <1>1, <1>13
    <2>2. Loose(sock[s], w[s]) /\ w[s].queue = Tail(sock[s].queue)
      BY <1>1, <1>14, Zenon
    <2>3. w[k].state = "CLOSED" /\ w[k].queue = sock[k].queue /\ w[k].buf = sock[k].buf
      BY <1>1, <1>7, <1>8
    <2>4. Undone(w, s, k, n)
      BY <1>6, <1>12, <2>1, <2>2, <2>3 DEF Undone
    <2> QED
      BY <1>9, <2>3, <2>4, Zenon

(* Whatever came of it: p returns, and may hold the new socket. *)
LEMMA AcceptGood ==
    ASSUME Good, NEW p \in Procs, NEW s, NEW k, NEW qs, Accepts(p, s, k, qs), Table(sock'),
           proc' \in [Procs -> Act], proc'[p] = User, missed' \subseteq Procs,
           holds' \in [Procs -> SUBSET Ids],
           \A x \in holds'[p] : x \in holds[p] \/ (~ sock[x].valid /\ sock'[x].valid)
    PROVE  Good'
  <1>1. proc'[p].at = "user" /\ proc'[p].op = "none"
    BY UserFacts
  <1>2. Doing(p)' /\ Client(p)' /\ ~ Waits(p)'
    BY <1>1 DEF Doing, Client, Waits
  <1>3. /\ k \in Ids /\ sock'[k].valid /\ Loose(sock[s], sock'[s]) /\ s \in holds[p]
        /\ \A x \in Ids \ {s, k} : sock[x].valid => sock'[x] = sock[x]
    BY DEF Accepts
  <1>4. \A q \in Procs : \A x \in holds[q] : x \in Ids /\ sock[x].valid
    BY DEF Good, Seats
  <1>5. \A x \in holds[p] : sock'[x].valid
    BY <1>3, <1>4 DEF Loose
  <1>6. \A x \in holds'[p] : sock'[x].valid /\ \A q \in Procs \ {p} : x \notin holds[q]
    <2>1. \A x \in holds[p] : \A q \in Procs \ {p} : x \notin holds[q]
      BY DEF Good, Seats
    <2> QED
      BY <1>4, <1>5, <2>1
  <1>7. Actor(p)
    BY <1>1, <1>2, <1>6 DEF Actor
  <1>8. \A q \in Procs \ {p} : By(q) /\ ByClient(q)
    BY AcceptBy, AcceptClient
  <1> QED
    BY <1>7, <1>8, GoodStep

(* The client that p's accept takes is still there. *)
HeadStands(p) == LET c == Head(sock[proc[p].s].queue) IN sock[c.s].valid /\ sock[c.s].gen = c.gen

(* accept takes such a client. *)
LEMMA AcceptTakeStep ==
    ASSUME Good, NEW p \in Procs, NEW outcome \in {"ok", "noNode", "noFd"}, AcceptTake(p, outcome),
           HeadStands(p)
    PROVE  Good'
  <1>1. PICK s : s = proc[p].s
    OBVIOUS
  <1>2. PICK c : c = Head(sock[s].queue)
    OBVIOUS
  <1>3. PICK k : k = c.s
    OBVIOUS
  <1>4. PICK n : n = Min(FreeSlots(sock))
    OBVIOUS
  <1>5. PICK v : v = Joined(s, k)
    OBVIOUS
  <1>6. PICK both : both = {<<k, "recv">>, <<k, "send">>}
    OBVIOUS
  <1>7. PICK qs : qs = IF FreeSlots(sock) = {} THEN {} ELSE both
    OBVIOUS
  <1>8. proc[p].op = "accept" /\ proc[p].at = "take"
    BY DEF AcceptTake, Standing
  <1>9. /\ Table(sock) /\ proc \in [Procs -> Act] /\ missed \subseteq Procs /\ holds \in [Procs -> SUBSET Ids]
        /\ s \in Ids /\ s \in holds[p] /\ sock[s].valid /\ Doing(p)
    <2>1. proc[p].at # "user"
      BY <1>8
    <2>2. proc[p].s \in Ids /\ proc[p].s \in holds[p] /\ sock[proc[p].s].valid
      BY <2>1, Caller
    <2>3. Table(sock) /\ Doing(p)
      BY DEF Good
    <2>4. proc \in [Procs -> Act] /\ missed \subseteq Procs /\ holds \in [Procs -> SUBSET Ids]
      BY DEF Good, Seats
    <2> QED
      BY <1>1, <2>2, <2>3, <2>4
  <1>10. Heads(s, c)
    <2>1. sock[s].state = "LISTENING" /\ sock[s].queue # <<>>
      BY <1>1, <1>8, <1>9 DEF Doing
    <2>2. sock[c.s].valid /\ sock[c.s].gen = c.gen
      BY <1>1, <1>2 DEF HeadStands
    <2> QED
      BY <1>2, <1>9, <2>1, <2>2 DEF Heads
  <1>11. PICK sh : sh = Shorter(sock, s)
    OBVIOUS
  <1>12. /\ k \in Ids /\ k # s /\ sock[k].valid /\ Fresh(sock[k]) /\ sock[k].state = "CONNECTED"
         /\ sock[s].queue[1].s = k
         /\ Table(sh) /\ sh[s].queue = Tail(sock[s].queue)
         /\ \A x \in Ids : Loose(sock[x], sh[x]) /\ (x # s => sh[x] = sock[x])
    BY <1>3, <1>9, <1>10, <1>11, HeadFacts
  <1>13. proc' = [Woken(proc, qs) EXCEPT ![p] = User]
    BY <1>1, <1>2, <1>3, <1>6, <1>7 DEF AcceptTake
  <1>14. missed' = Missing(qs)
    <2>1. Missing({}) = missed
      BY DEF Missing
    <2>2. missed' = IF FreeSlots(sock) = {} THEN missed ELSE Missing(both)
      BY <1>1, <1>2, <1>3, <1>6 DEF AcceptTake
    <2> QED
      BY <1>7, <2>1, <2>2
  <1>15. /\ proc' \in [Procs -> Act] /\ proc'[p] = User
         /\ \A q \in Procs \ {p} : proc'[q] = Woken(proc, qs)[q]
    <2>1. Woken(proc, qs) \in [Procs -> Act]
      BY <1>9, WokenFacts
    <2> QED
      BY <1>13, <2>1, UserFacts
  <1>16. \A q \in Procs \ {p} : Told(q, qs)
    BY <1>14, <1>15, ToldBy
  <1>17. missed' \subseteq Procs
    BY <1>9, <1>14 DEF Missing
  <1>18. forgotten \subseteq forgotten'
    BY DEF AcceptTake
  <1>19. /\ k \in Ids /\ k # s /\ sock[k].valid /\ sock[k].state = "CONNECTED" /\ sock[k].peer = 0
         /\ sock[s].queue # <<>> /\ sock[s].queue[1].s = k /\ proc[p].at = "take"
    BY <1>8, <1>10, <1>12 DEF Heads, Fresh
  <1>20. CASE FreeSlots(sock) = {}
    <2>1. sock' = sh /\ holds' = holds
      BY <1>1, <1>11, <1>20 DEF AcceptTake, Shorter
    <2>2. k \in forgotten'
      BY <1>1, <1>2, <1>3, <1>20 DEF AcceptTake
    <2>3. Answered(k) /\ sock'[k] = sock[k]
      BY <1>12, <2>1, <2>2 DEF Answered
    <2>4. Accepts(p, s, k, qs)
      <3>1. /\ \A x \in Ids \ {s, k} : sock[x].valid => sock'[x] = sock[x]
            /\ Loose(sock[s], sock'[s]) /\ sock'[s].queue = Tail(sock[s].queue)
        BY <1>9, <1>12, <2>1
      <3>2. sock'[k].valid /\ sock'[k].state = "CONNECTED"
        BY <1>12, <2>3
      <3> QED
        BY <1>9, <1>16, <1>18, <1>19, <2>1, <2>3, <3>1, <3>2 DEF Accepts
    <2>5. Table(sock')
      BY <1>12, <2>1
    <2> QED
      BY <1>9, <1>15, <1>17, <2>1, <2>4, <2>5, AcceptGood
  <1>21. CASE FreeSlots(sock) # {}
    <2>1. <<k, "recv">> \in qs
      BY <1>6, <1>7, <1>21
    <2>2. Joint(v, s, k, n)
      BY <1>3, <1>4, <1>5, <1>9, <1>10, <1>21, JoinedFacts
    <2>3. n \in Ids /\ ~ sock[n].valid /\ n # 0
      BY <2>2, IdFacts DEF Joint
    <2>4. CASE outcome = "ok"
      <3>1. sock' = v /\ holds' = [holds EXCEPT ![p] = @ \cup {n}]
        BY <1>1, <1>2, <1>3, <1>4, <1>5, <1>21, <2>4 DEF AcceptTake
      <3>2. Answered(k)
        BY <2>2, <2>3, <3>1 DEF Answered, Joint
      <3>3. /\ \A x \in Ids \ {s, k} : sock[x].valid => sock'[x] = sock[x]
            /\ Loose(sock[s], sock'[s]) /\ sock'[s].queue = Tail(sock[s].queue)
            /\ sock'[k].valid /\ sock'[k].state \in {"CONNECTED", "CLOSED"} /\ sock'[k].queue = sock[k].queue
            /\ sock'[k].buf = sock[k].buf /\ sock'[n].valid /\ Table(sock')
        BY <2>2, <3>1 DEF Joint
      <3>4. /\ holds' \in [Procs -> SUBSET Ids] /\ holds'[p] = holds[p] \cup {n}
            /\ \A q \in Procs \ {p} : holds'[q] = holds[q]
        BY <1>9, <2>3, <3>1
      <3>5. Accepts(p, s, k, qs)
        BY <1>9, <1>16, <1>18, <1>19, <2>1, <3>2, <3>3, <3>4 DEF Accepts
      <3>6. \A x \in holds'[p] : x \in holds[p] \/ (~ sock[x].valid /\ sock'[x].valid)
        BY <2>3, <3>3, <3>4
      <3> QED
        BY <1>15, <1>17, <3>3, <3>4, <3>5, <3>6, AcceptGood
    <2>5. CASE outcome # "ok"
      <3>1. Undone(sock', s, k, n) /\ Answered(k)
        <4>1. CASE outcome = "noNode"
          <5>1. sock' = Parts(v, n, k) /\ k \in forgotten'
            BY <1>1, <1>2, <1>3, <1>4, <1>5, <1>21, <4>1 DEF AcceptTake, Parts
          <5>2. PICK u : u = Parts(v, n, k)
            OBVIOUS
          <5>3. Undone(u, s, k, n)
            BY <1>9, <1>12, <2>2, <5>2, NoNodeFacts
          <5>4. Undone(sock', s, k, n)
            BY <5>1, <5>2, <5>3, Zenon
          <5>5. Answered(k)
            BY <5>1, Zenon DEF Answered
          <5> QED
            BY <5>4, <5>5, Zenon
        <4>2. CASE outcome = "noFd"
          <5>1. sock' = Drops(v, n, k)
            BY <1>1, <1>2, <1>3, <1>4, <1>5, <1>21, <4>2 DEF AcceptTake, Drops
          <5>2. PICK u : u = Drops(v, n, k)
            OBVIOUS
          <5>3. Undone(u, s, k, n) /\ u[k].state = "CLOSED"
            BY <1>9, <1>12, <2>2, <5>2, NoFdFacts
          <5>4. Undone(sock', s, k, n) /\ sock'[k].state = "CLOSED"
            BY <5>1, <5>2, <5>3, Zenon
          <5>5. Answered(k)
            BY <5>4 DEF Answered
          <5> QED
            BY <5>4, <5>5, Zenon
        <4> QED
          BY <2>5, <4>1, <4>2
      <3>2. holds' = holds
        BY <1>1, <1>2, <1>3, <2>5 DEF AcceptTake
      <3>3. Accepts(p, s, k, qs)
        <4>1. /\ \A x \in Ids \ {s, k} : sock[x].valid => sock'[x] = sock[x]
              /\ Loose(sock[s], sock'[s]) /\ sock'[s].queue = Tail(sock[s].queue)
              /\ sock'[k].valid /\ sock'[k].state \in {"CONNECTED", "CLOSED"}
              /\ sock'[k].queue = sock[k].queue /\ sock'[k].buf = sock[k].buf
          BY <2>3, <3>1 DEF Undone
        <4> QED
          BY <1>9, <1>16, <1>18, <1>19, <2>1, <3>1, <3>2, <4>1 DEF Accepts
      <3>4. Table(sock')
        BY <3>1 DEF Undone
      <3> QED
        BY <1>9, <1>15, <1>17, <3>2, <3>3, <3>4, AcceptGood
    <2> QED
      BY <2>4, <2>5
  <1> QED
    BY <1>20, <1>21

-----------------------------------------------------------------------------
(* No socket but the listener is in use, and nobody does anything. *)
LEMMA InitGood ==
    ASSUME Init
    PROVE  Good
  <1>1. 1 \in Ids /\ 0 \in 0 .. Slots /\ MaxBacklog \in Nat
    BY SocketAssumption DEF Ids
  <1>2. <<>> \in Seq(Entry) /\ <<>> \in Seq(Byte) /\ Len(<<>>) = 0
    OBVIOUS
  <1>3. PICK L : L = [Blank EXCEPT !.valid = TRUE, !.state = "LISTENING", !.bound = TRUE, !.backlog = MaxBacklog]
    OBVIOUS
  <1>4. /\ Blank \in Row /\ Blank.valid = FALSE /\ Blank.peer = 0 /\ Blank.buf = <<>> /\ Blank.sent = 0
        /\ Blank.got = 0 /\ Blank.queue = <<>>
    BY <1>1, <1>2 DEF Blank, Row
  <1>5. /\ L \in Row /\ L.valid /\ L.peer = 0 /\ L.buf = <<>> /\ L.sent = 0
        /\ L.got = 0 /\ L.queue = <<>>
    BY <1>1, <1>2, <1>3 DEF Blank, Row
  <1>6. sock = [s \in Ids |-> IF s # 1 THEN Blank ELSE L]
    BY <1>3 DEF Init
  <1>7. /\ sock \in [Ids -> Row] /\ sock[1].valid
        /\ \A s \in Ids : sock[s].peer = 0 /\ Fresh(sock[s]) /\ sock[s].queue = <<>>
    BY <1>1, <1>4, <1>5, <1>6 DEF Fresh
  <1>8. \A l \in Ids : Len(sock[l].queue) = 0
    BY <1>2, <1>7
  <1>9. Table(sock)
    <2>1. \A s \in Ids : ~ Queued(sock, s)
      BY <1>8 DEF Queued
    <2>2. Unjoined(sock)
      BY <1>7, <2>1 DEF Unjoined
    <2>3. Paired(sock)
      BY <1>7 DEF Paired
    <2>4. Lines(sock)
      BY <1>8 DEF Lines
    <2> QED
      BY <1>7, <2>2, <2>3, <2>4 DEF Table
  <1>10. /\ proc \in [Procs -> Act] /\ missed = {}
         /\ \A p \in Procs : proc[p].at = "user" /\ proc[p].op = "none"
    <2>1. proc = [p \in Procs |-> User] /\ missed = {}
      BY DEF Init
    <2> QED
      BY <2>1, UserFacts
  <1>11. /\ holds \in [Procs -> SUBSET Ids] /\ \A p \in Procs : \A s \in holds[p] : sock[s].valid
         /\ \A p, q \in Procs : p # q => holds[p] \cap holds[q] = {}
    <2>1. holds = [p \in Procs |-> IF p = Server THEN {1} ELSE {}]
      BY DEF Init
    <2>2. \A p \in Procs : (holds[p] = {1} /\ p = Server) \/ holds[p] = {}
      BY <1>1, <2>1
    <2>3. holds \in [Procs -> SUBSET Ids]
      BY <1>1, <2>1
    <2> QED
      BY <1>7, <2>2, <2>3
  <1>12. Seats
    BY <1>10, <1>11 DEF Seats
  <1>13. ASSUME NEW p \in Procs PROVE Doing(p) /\ Client(p) /\ proc[p].at \notin {"wait", "asleep"}
    BY <1>10 DEF Doing, Client
  <1>14. Reasons
    BY <1>13 DEF Reasons
  <1> QED
    BY <1>9, <1>12, <1>13, <1>14 DEF Good

(* A step by one process. *)
LEMMA OwnNext ==
    ASSUME Good, hole' = "none", hole = "none", NEW p \in Procs,
           \/ NewSocket(p) \/ Kill(p) \/ Sleep(p) \/ ConnectCheck(p) \/ AcceptCheck(p)
           \/ ReadCheck(p) \/ ReadByte(p) \/ WriteCheck(p) \/ WritePut(p) \/ SelectPoll(p)
    PROVE  Good'
  <1>1. CASE WritePut(p)
    <2>1. sock[proc[p].s].peer = proc[p].peer
      BY <1>1 DEF WritePut, Break
    <2> QED
      BY <1>1, <2>1, WritePutStep, Zenon
  <1>2. CASE NewSocket(p)
    BY <1>2, NewSocketStep
  <1>3. CASE Kill(p)
    BY <1>3, KillStep
  <1>4. CASE Sleep(p)
    BY <1>4, SleepStep
  <1>5. CASE ConnectCheck(p)
    BY <1>5, ConnectCheckStep
  <1>6. CASE AcceptCheck(p)
    BY <1>6, AcceptCheckStep
  <1>7. CASE ReadCheck(p)
    BY <1>7, ReadCheckStep
  <1>8. CASE ReadByte(p)
    BY <1>8, ReadByteStep
  <1>9. CASE WriteCheck(p)
    BY <1>9, WriteCheckStep
  <1>10. CASE SelectPoll(p)
    BY <1>10, SelectPollStep
  <1> QED
    BY <1>1, <1>2, <1>3, <1>4, <1>5, <1>6, <1>7, <1>8, <1>9, <1>10, Zenon

(* A call on a socket. *)
LEMMA SocketNext ==
    ASSUME Good, hole' = "none", hole = "none", NEW p \in Procs, NEW s \in Ids,
           \/ Bind(p, s) \/ Listen(p, s, MaxBacklog + 1) \/ Close(p, s) \/ Connect(p, s)
           \/ Accept(p, s) \/ Read(p, s) \/ Write(p, s, MaxWrite) \/ Select(p, s)
           \/ SetNonblock(p, s, TRUE)
    PROVE  Good'
  <1>1. CASE Connect(p, s)
    <2>1. sock[s].state = "UNBOUND"
      BY <1>1 DEF Connect, Break
    <2> QED
      BY <1>1, <2>1, ConnectStep
  <1>2. CASE Bind(p, s) \/ Listen(p, s, MaxBacklog + 1)
    BY <1>2, EarlyStep
  <1>3. CASE Close(p, s)
    BY <1>3, CloseKeeps
  <1>4. CASE Accept(p, s) \/ Read(p, s) \/ Write(p, s, MaxWrite) \/ Select(p, s)
    BY <1>4, CallStep
  <1>5. CASE SetNonblock(p, s, TRUE)
    BY <1>5, SetNonblockStep
  <1> QED
    BY <1>1, <1>2, <1>3, <1>4, <1>5, Zenon

(* A hole stays. *)
LEMMA HoleStays ==
    ASSUME [Next]_vars, hole' = "none"
    PROVE  hole = "none"
  <1>1. CASE UNCHANGED vars
    BY <1>1 DEF vars
  <1>2. CASE Rest
    BY <1>2 DEF Rest, vars
  <1>3. ASSUME NEW p \in Procs,
               \/ NewSocket(p) \/ Kill(p) \/ Sleep(p) \/ ConnectCheck(p) \/ AcceptCheck(p)
               \/ ReadCheck(p) \/ ReadByte(p) \/ WriteCheck(p) \/ WritePut(p) \/ SelectPoll(p)
        PROVE  hole = "none"
    <2>1. CASE WritePut(p)
      BY <2>1 DEF WritePut, Break
    <2>2. CASE NewSocket(p)
      BY <2>2 DEF NewSocket
    <2>3. CASE Kill(p)
      BY <2>3 DEF Kill
    <2>4. CASE Sleep(p)
      BY <2>4 DEF Sleep, Quiet
    <2>5. CASE ConnectCheck(p)
      BY <2>5 DEF ConnectCheck
    <2>6. CASE AcceptCheck(p)
      BY <2>6 DEF AcceptCheck
    <2>7. CASE ReadCheck(p)
      BY <2>7 DEF ReadCheck
    <2>8. CASE ReadByte(p)
      BY <2>8 DEF ReadByte
    <2>9. CASE WriteCheck(p)
      BY <2>9 DEF WriteCheck
    <2>10. CASE SelectPoll(p)
      BY <2>10 DEF SelectPoll, Quiet
    <2> QED
      BY <1>3, <2>1, <2>2, <2>3, <2>4, <2>5, <2>6, <2>7, <2>8, <2>9, <2>10, Zenon
  <1>4. ASSUME NEW p \in Procs, NEW outcome, AcceptTake(p, outcome) PROVE hole = "none"
    BY <1>4 DEF AcceptTake, Break
  <1>5. ASSUME NEW p \in Procs, NEW s \in Ids,
               \/ Bind(p, s) \/ Listen(p, s, MaxBacklog + 1) \/ Close(p, s) \/ Connect(p, s)
               \/ Accept(p, s) \/ Read(p, s) \/ Write(p, s, MaxWrite) \/ Select(p, s)
               \/ SetNonblock(p, s, TRUE)
        PROVE  hole = "none"
    <2>1. CASE Connect(p, s)
      BY <2>1 DEF Connect, Break
    <2>2. CASE Bind(p, s)
      BY <2>2 DEF Bind
    <2>3. CASE Listen(p, s, MaxBacklog + 1)
      BY <2>3 DEF Listen
    <2>4. CASE Close(p, s)
      BY <2>4 DEF Close
    <2>5. CASE Accept(p, s)
      BY <2>5 DEF Accept
    <2>6. CASE Read(p, s)
      BY <2>6 DEF Read
    <2>7. CASE Write(p, s, MaxWrite)
      BY <2>7 DEF Write
    <2>8. CASE Select(p, s)
      BY <2>8 DEF Select
    <2>9. CASE SetNonblock(p, s, TRUE)
      BY <2>9 DEF SetNonblock
    <2> QED
      BY <1>5, <2>1, <2>2, <2>3, <2>4, <2>5, <2>6, <2>7, <2>8, <2>9, Zenon
  <1>6. ASSUME NEW p \in Procs, NEW q \in Procs, Race(p, q) PROVE hole = "none"
    BY <1>6 DEF Race, Break
  <1> QED
    BY <1>1, <1>2, <1>3, <1>4, <1>5, <1>6, Zenon DEF Next

(* A step that changes nothing. *)
LEMMA StutterStep ==
    ASSUME Good, UNCHANGED vars
    PROVE  Good'
  BY DEF vars, Good, Seats, Doing, Reasons, Reason, Client, Emptied, Standing

(* Every step keeps the invariant. *)
LEMMA InvStep == Inv /\ [Next]_vars => Inv'
  <1>1. SUFFICES ASSUME Inv, [Next]_vars, hole' = "none" PROVE Good'
    BY DEF Inv
  <1>2. hole = "none" /\ Good
    BY <1>1, HoleStays DEF Inv
  <1>3. CASE UNCHANGED vars
    BY <1>2, <1>3, StutterStep
  <1>4. CASE Rest
    <2>1. UNCHANGED vars
      BY <1>4 DEF Rest
    <2> QED
      BY <1>2, <2>1, StutterStep
  <1>5. ASSUME NEW p \in Procs,
               \/ NewSocket(p) \/ Kill(p) \/ Sleep(p) \/ ConnectCheck(p) \/ AcceptCheck(p)
               \/ ReadCheck(p) \/ ReadByte(p) \/ WriteCheck(p) \/ WritePut(p) \/ SelectPoll(p)
        PROVE  Good'
    BY <1>1, <1>2, <1>5, OwnNext, Zenon
  <1>6. ASSUME NEW p \in Procs, NEW outcome \in {"ok", "noNode", "noFd"}, AcceptTake(p, outcome) PROVE Good'
    <2>1. HeadStands(p)
      BY <1>1, <1>2, <1>6 DEF AcceptTake, Break, HeadStands
    <2> QED
      BY <1>2, <1>6, <2>1, AcceptTakeStep, Zenon
  <1>7. ASSUME NEW p \in Procs, NEW s \in Ids,
               \/ Bind(p, s) \/ Listen(p, s, MaxBacklog + 1) \/ Close(p, s) \/ Connect(p, s)
               \/ Accept(p, s) \/ Read(p, s) \/ Write(p, s, MaxWrite) \/ Select(p, s)
               \/ SetNonblock(p, s, TRUE)
        PROVE  Good'
    BY <1>1, <1>2, <1>7, SocketNext, Zenon
  <1>8. ASSUME NEW p \in Procs, NEW q \in Procs, Race(p, q) PROVE FALSE
    BY <1>1, <1>2, <1>8 DEF Race, Break
  <1> QED
    BY <1>1, <1>3, <1>4, <1>5, <1>6, <1>7, <1>8, Zenon DEF Next

(* The inductive invariant holds: until a stale pointer is followed or two  *)
(* calls overlap in code that is not atomic (the holes of Race), the        *)
(* table of sockets, the callers and the queues of socket.c fit together.   *)
THEOREM SocketInvariant == Spec => []Inv
  <1>1. Init => Inv
    BY InitGood DEF Inv
  <1> QED
    BY <1>1, InvStep, PTL DEF Spec

(* Peers are alive and point at one another.                                *)
LEMMA PeerFacts ==
    ASSUME Good, NEW s \in Ids, sock[s].valid, sock[s].peer # 0, NEW t, t = sock[s].peer
    PROVE  /\ t \in Ids /\ t # s /\ sock[t].valid /\ sock[t].peer = s /\ Linked(sock[s], s, sock[t], t)
           /\ sock[s].state = "CONNECTED" /\ sock[t].state = "CONNECTED"
  <1>1. sock \in [Ids -> Row] /\ Paired(sock)
    BY DEF Good, Table
  <1>2. t \in Ids
    BY <1>1, IdFacts DEF Row
  <1>3. Linked(sock[s], s, sock[t], t)
    BY <1>1 DEF Paired
  <1>4. sock[s].state = "CONNECTED" /\ s # t /\ sock[t].valid /\ sock[t].peer = s
    BY <1>3 DEF Linked
  <1>5. sock[t].peer # 0
    BY <1>4, IdFacts
  <1>6. Linked(sock[t], t, sock[s], s)
    BY <1>1, <1>2, <1>4, <1>5 DEF Paired
  <1>7. sock[t].state = "CONNECTED"
    BY <1>6 DEF Linked
  <1> QED
    BY <1>2, <1>3, <1>4, <1>7

(* Byte streams are whole (socket_vfs_read, socket_vfs_write,               *)
(* socket_vfs_close, sys_accept): for any number of sockets and processes   *)
(* and any buffer size, what a socket has unread is what its peer sent and  *)
(* it has not got, in order, until a stale pointer is followed or two calls *)
(* overlap on one socket.                                                   *)
THEOREM SocketStreamIsWhole == Spec => []StreamIsWhole
  <1>1. ASSUME Inv PROVE StreamIsWhole
    <2>1. SUFFICES ASSUME hole = "none", NEW s \in Ids, sock[s].valid, sock[s].peer # 0, NEW t, t = sock[s].peer
                   PROVE  /\ t # s /\ sock[t].valid /\ sock[t].peer = s
                          /\ sock[s].buf = [i \in 1 .. sock[t].sent - sock[s].got |->
                                               <<t, sock[t].gen, sock[s].got + i>>]
      BY DEF StreamIsWhole
    <2>2. Good
      BY <1>1, <2>1 DEF Inv
    <2>3. t # s /\ sock[t].valid /\ sock[t].peer = s /\ Linked(sock[s], s, sock[t], t)
      BY <2>1, <2>2, PeerFacts
    <2>4. PICK b : b = sock[s].buf
      OBVIOUS
    <2>5. b \in Seq(Byte)
      BY <2>1, <2>2, <2>4 DEF Good, Table, Row
    <2>6. /\ Len(b) = sock[t].sent - sock[s].got
          /\ \A i \in 1 .. Len(b) : b[i] = <<t, sock[t].gen, sock[s].got + i>>
      BY <2>3, <2>4 DEF Linked
    <2>7. b = [i \in 1 .. Len(b) |-> b[i]]
      BY <2>5
    <2>8. b = [i \in 1 .. Len(b) |-> <<t, sock[t].gen, sock[s].got + i>>]
      BY <2>6, <2>7
    <2>9. b = [i \in 1 .. sock[t].sent - sock[s].got |-> <<t, sock[t].gen, sock[s].got + i>>]
      BY <2>6, <2>8
    <2> QED
      BY <2>3, <2>4, <2>9
  <1> QED
    BY <1>1, SocketInvariant, PTL

(* A process asleep in connect, accept, read or write has a reason, or      *)
(* missed its wake-up (socket_vfs_read, socket_vfs_write, sys_accept,       *)
(* sys_connect against process_wait_on), and select agrees with the loops.  *)
THEOREM SocketSleeperHasReason == Spec => []SleeperHasReason
  <1>1. ASSUME Inv PROVE SleeperHasReason
    <2>1. SUFFICES ASSUME hole = "none", NEW p \in Procs \ missed, proc[p].at = "asleep"
                   PROVE  WouldWait(p) \/ Emptied(p)
      BY DEF SleeperHasReason
    <2>2. Good
      BY <1>1, <2>1 DEF Inv
    <2>3. PICK s : s = proc[p].s
      OBVIOUS
    <2>4. s \in Ids /\ sock[s].valid /\ Doing(p)
      BY <2>1, <2>2, <2>3, Caller
    <2>5. Reason(p)
      BY <2>1, <2>2 DEF Good, Reasons
    <2>6. PICK t : t = sock[s].peer
      OBVIOUS
    <2>7. t # 0 => /\ t \in Ids /\ sock[t].valid /\ sock[s].state = "CONNECTED" /\ sock[t].state = "CONNECTED"
      BY <2>2, <2>4, <2>6, PeerFacts
    <2>8. t # 0 => ~ Gone(sock, s)
      BY <2>6, <2>7 DEF Gone, Valid
    <2>9. CASE proc[p].op = "connect"
      BY <2>3, <2>5, <2>9 DEF WouldWait, Reason
    <2>10. CASE proc[p].op = "accept"
      <3>1. sock[s].queue = <<>> /\ sock[s].state = "LISTENING"
        BY <2>3, <2>4, <2>5, <2>10 DEF Reason, Doing
      <3>2. ~ PollCanRead(s)
        BY <2>4, <3>1 DEF PollCanRead
      <3> QED
        BY <2>3, <2>10, <3>2 DEF WouldWait
    <2>11. CASE proc[p].op = "read"
      <3>1. t # 0 /\ sock[s].buf = <<>>
        BY <2>3, <2>5, <2>6, <2>11 DEF Reason
      <3>2. ~ PollCanRead(s)
        BY <2>4, <2>7, <2>8, <3>1 DEF PollCanRead
      <3> QED
        BY <2>3, <2>11, <3>2 DEF WouldWait
    <2>12. CASE proc[p].op = "write"
      <3>1. t # 0 /\ (Len(sock[t].buf) >= Size \/ Emptied(p))
        BY <2>3, <2>5, <2>6, <2>12 DEF Reason
      <3>2. SUFFICES ASSUME Len(sock[t].buf) >= Size PROVE ~ PollCanWrite(s)
        BY <2>3, <2>12, <3>1 DEF WouldWait
      <3>3. Len(sock[t].buf) \in Nat /\ Size \in Nat
        <4>1. sock[t].buf \in Seq(Byte)
          BY <2>2, <2>7, <3>1 DEF Good, Table, Row
        <4> QED
          BY <4>1, SocketAssumption
      <3>4. ~ (Len(sock[t].buf) < Size)
        BY <3>2, <3>3
      <3> QED
        BY <2>4, <2>6, <2>7, <2>8, <3>1, <3>4 DEF PollCanWrite
    <2>13. proc[p].op \in {"connect", "accept", "read", "write"}
      BY <2>1, <2>4 DEF Doing
    <2> QED
      BY <2>9, <2>10, <2>11, <2>12, <2>13
  <1> QED
    BY <1>1, SocketInvariant, PTL

(* A client that waits in sys_connect is queued at a listener, or its       *)
(* listener was closed or accept took it off the queue and failed.          *)
THEOREM SocketClientIsQueued == Spec => []ClientIsQueued
  <1>1. ASSUME Inv PROVE ClientIsQueued
    <2>1. SUFFICES ASSUME hole = "none", NEW p \in Procs, NEW s, s = proc[p].s, proc[p].op = "connect",
                          sock[s].peer = 0, sock[s].state = "CONNECTED", s \notin forgotten
                   PROVE  \E l \in Listeners : [s |-> s, gen |-> sock[s].gen] \in Range(sock[l].queue)
      BY DEF ClientIsQueued
    <2>2. Good
      BY <1>1, <2>1 DEF Inv
    <2>3. PICK l \in Ids : /\ sock[l].valid /\ sock[l].state = "LISTENING"
                           /\ \E i \in 1 .. Len(sock[l].queue) : Stands(sock, l, i, s)
      BY <2>1, <2>2 DEF Good, Client
    <2>4. PICK i \in 1 .. Len(sock[l].queue) : Stands(sock, l, i, s)
      BY <2>3
    <2>5. PICK e : e = sock[l].queue[i]
      OBVIOUS
    <2>6. sock \in [Ids -> Row] /\ e \in Entry
      BY <2>2, <2>5, EntryFacts DEF Good, Table
    <2>7. e = [s |-> s, gen |-> sock[s].gen]
      BY <2>4, <2>5, <2>6 DEF Stands, Entry
    <2>8. PICK q : q = sock[l].queue
      OBVIOUS
    <2>9. q \in Seq(Entry)
      BY <2>6, <2>8 DEF Row
    <2>10. i \in DOMAIN q /\ e = q[i]
      BY <2>4, <2>5, <2>8, <2>9
    <2>11. e \in Range(q)
      BY <2>10 DEF Range
    <2> QED
      BY <2>3, <2>7, <2>8, <2>11 DEF Listeners
  <1> QED
    BY <1>1, SocketInvariant, PTL
=============================================================================
