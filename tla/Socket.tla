------------------------------- MODULE Socket -------------------------------
(***************************************************************************)
(* Unix stream sockets (ipc/socket.c) with the calls that use them:        *)
(* socket, bind, listen, accept, connect, read, write, close, fcntl and    *)
(* select, and the death of a process.                                     *)
(*                                                                         *)
(* Sockets are slots of one table; peers and the listener's queue are      *)
(* plain pointers into it, and a slot is used again as soon as it is       *)
(* closed.  A blocking call checks, joins a wait queue and checks again,   *)
(* with interrupts on in between: those are separate steps.  The wait      *)
(* queues themselves are in module Pipe; here a queue is the set of its    *)
(* sleepers.  The ghosts are `gen` (how often a slot was allocated), the   *)
(* byte counts sent and got, `missed` (a wake-up came between the check    *)
(* and the sleep), `forgotten` (a queued client nobody will ever answer)   *)
(* and `hole` (a stale pointer was followed, or two processes were in the  *)
(* same code at once: Race).                                               *)
(***************************************************************************)
EXTENDS Integers, Sequences, FiniteSetsExt

CONSTANTS
    Procs, Server,     \* processes; Server listens at first
    Slots,             \* MAX_SOCKETS
    Size,              \* SOCK_BUFFER_SIZE
    MaxBacklog,        \* MAX_PENDING_CONNECTIONS
    MaxWrite,          \* bound: bytes of one write
    MaxCalls           \* bound: system calls of a behaviour

ASSUME SocketAssumption ==
    /\ Server \in Procs
    /\ Slots \in Nat \ {0} /\ Size \in Nat \ {0} /\ MaxBacklog \in Nat /\ MaxWrite \in Nat

VARIABLES
    sock,    \* the table
    proc,    \* what each process is doing
    holds,   \* the sockets a process has a descriptor for
    calls, missed, forgotten, hole
vars == <<sock, proc, holds, calls, missed, forgotten, hole>>

Ids == 1 .. Slots
Blank == [valid |-> FALSE, state |-> "UNBOUND", nonblock |-> FALSE, bound |-> FALSE,
          peer |-> 0, queue |-> <<>>, backlog |-> 0, buf |-> <<>>, gen |-> 0, sent |-> 0, got |-> 0]
User == [op |-> "none", at |-> "user", s |-> 0, peer |-> 0, n |-> 0, on |-> <<>>]

Init ==
    /\ sock = [s \in Ids |-> IF s # 1 THEN Blank
                             ELSE [Blank EXCEPT !.valid = TRUE, !.state = "LISTENING",
                                                !.bound = TRUE, !.backlog = MaxBacklog]]
    /\ proc = [p \in Procs |-> User]
    /\ holds = [p \in Procs |-> IF p = Server THEN {1} ELSE {}]
    /\ calls = 0 /\ missed = {} /\ forgotten = {} /\ hole = "none"

(* The sleepers of the queues qs wake; one on its way to sleep misses it. *)
Woken(pr, qs) ==
    [p \in Procs |-> IF pr[p].at = "asleep" /\ pr[p].on \in qs
                     THEN [pr[p] EXCEPT !.at = "woke"] ELSE pr[p]]
Missing(qs) == missed \cup {p \in Procs : proc[p].at = "wait" /\ proc[p].on \in qs}
All(s) == {s} \X {"accept", "recv", "send"}

(* alloc_socket: the first slot that is not valid, cleared. *)
FreeSlots(t) == {s \in Ids : ~ t[s].valid}
Alloc(t, state) ==
    LET s == Min(FreeSlots(t)) IN
    [t EXCEPT ![s] = [Blank EXCEPT !.valid = TRUE, !.state = state, !.gen = t[s].gen + 1]]

Valid(t, s) == s # 0 /\ t[s].valid
Standing(p, op, at) == proc[p].op = op /\ proc[p].at = at
Goto(p, at) == proc' = [proc EXCEPT ![p].at = at]
Return(p) == proc' = [proc EXCEPT ![p] = User]
Enter(p, s) == proc[p].at = "user" /\ calls < MaxCalls /\ s \in holds[p] /\ calls' = calls + 1
Begin(p, op, s, at, n) == proc' = [proc EXCEPT ![p] = [User EXCEPT !.op = op, !.at = at, !.s = s, !.n = n]]
WaitOn(p, q) == proc' = [proc EXCEPT ![p].at = "wait", ![p].on = q]
Break(why) == hole' = IF hole = "none" THEN why ELSE hole
Quiet == UNCHANGED <<calls, missed, forgotten, hole>>

(* process_wait_on, whichever call waits. *)
Sleep(p) ==
    /\ proc[p].at = "wait" /\ Goto(p, "asleep")
    /\ UNCHANGED <<sock, holds>> /\ Quiet

(***************************************************************************)
(* Calls that do not block.                                                *)
(***************************************************************************)
NewSocket(p) ==
    /\ proc[p].at = "user" /\ calls < MaxCalls /\ calls' = calls + 1
    /\ FreeSlots(sock) # {}
    /\ sock' = Alloc(sock, "UNBOUND")
    /\ holds' = [holds EXCEPT ![p] = @ \cup {Min(FreeSlots(sock))}]
    /\ UNCHANGED <<proc, missed, forgotten, hole>>

Bind(p, s) ==
    /\ Enter(p, s) /\ sock[s].state = "UNBOUND"
    /\ sock' = [sock EXCEPT ![s].state = "BOUND", ![s].bound = TRUE]
    /\ UNCHANGED <<proc, holds, missed, forgotten, hole>>

Listen(p, s, backlog) ==
    /\ Enter(p, s) /\ sock[s].state = "BOUND"
    /\ sock' = [sock EXCEPT ![s].state = "LISTENING",
                            ![s].backlog = IF backlog > MaxBacklog THEN MaxBacklog ELSE backlog]
    /\ UNCHANGED <<proc, holds, missed, forgotten, hole>>

(* sys_fcntl F_SETFL writes the socket's flags. *)
SetNonblock(p, s, on) ==
    /\ Enter(p, s)
    /\ sock' = [sock EXCEPT ![s].nonblock = on]
    /\ UNCHANGED <<proc, holds, missed, forgotten, hole>>

(***************************************************************************)
(* Closing: the peer is cut off and told; a queued client is not, and a    *)
(* client that closes stays in the listener's queue.                       *)
(***************************************************************************)
ClosePeerLinked(t, s) ==                    \* mutant: the peer keeps its pointer
    IF t[s].peer = 0 THEN t ELSE [t EXCEPT ![t[s].peer].state = "CLOSED"]
ClosePeer(t, s) ==
    IF t[s].peer = 0 THEN t
    ELSE [t EXCEPT ![t[s].peer].peer = 0, ![t[s].peer].state = "CLOSED"]
CloseOne(t, s) ==
    [ClosePeer(t, s) EXCEPT ![s].peer = 0, ![s].state = "CLOSED", ![s].valid = FALSE]
CloseQueuesOwn(t, s) == All(s)              \* mutant: the peer is not woken
CloseQueues(t, s) == All(s) \cup (IF t[s].peer = 0 THEN {} ELSE All(t[s].peer))
Waiting(t, s) == {c.s : c \in {d \in Range(t[s].queue) : t[d.s].gen = d.gen}}

Close(p, s) ==
    /\ Enter(p, s)
    /\ sock' = CloseOne(sock, s)
    /\ holds' = [holds EXCEPT ![p] = @ \ {s}]
    /\ proc' = Woken(proc, CloseQueues(sock, s))
    /\ missed' = Missing(CloseQueues(sock, s))
    /\ forgotten' = (forgotten \ {s}) \cup Waiting(sock, s)
    /\ UNCHANGED hole

(* fd_close_all_for closes them one after the other; the order makes no    *)
(* difference (SocketProof).                                               *)
CloseAll(t, S) ==
    LET after[s \in 0 .. Slots] ==
          IF s = 0 THEN t ELSE IF s \in S THEN CloseOne(after[s - 1], s) ELSE after[s - 1]
    IN  after[Slots]

(* process_destroy of a process that is asleep or in user mode: it leaves  *)
(* the queue it sleeps in and closes what it has.                          *)
Kill(p) ==
    LET qs == UNION {CloseQueues(sock, s) : s \in holds[p]} IN
    /\ proc[p].at \in {"user", "asleep"} /\ calls < MaxCalls /\ calls' = calls + 1
    /\ holds[p] # {}
    /\ sock' = CloseAll(sock, holds[p])
    /\ holds' = [holds EXCEPT ![p] = {}]
    /\ proc' = Woken([proc EXCEPT ![p] = User], qs)
    /\ missed' = Missing(qs) \ {p}
    /\ forgotten' = (forgotten \ holds[p]) \cup ((UNION {Waiting(sock, s) : s \in holds[p]}) \ holds[p])
    /\ UNCHANGED hole

(***************************************************************************)
(* connect.                                                                *)
(***************************************************************************)
Listeners == {s \in Ids : sock[s].valid /\ sock[s].state = "LISTENING"}

(* Queues the socket at the first listener with the path and wakes one     *)
(* process in accept.  A socket that is connected may connect again: its   *)
(* peer, or the queue it is in, still points to it.                        *)
Connect(p, s) ==
    LET l == Min(Listeners) IN
    /\ Enter(p, s) /\ sock[s].state \in {"UNBOUND", "CONNECTED"}
    /\ Listeners # {} /\ Len(sock[l].queue) < sock[l].backlog
    /\ sock' = [sock EXCEPT ![s].state = "CONNECTED", ![s].peer = 0,
                            ![l].queue = Append(@, [s |-> s, gen |-> sock[s].gen])]
    /\ IF sock[s].state = "CONNECTED" THEN Break("reconnect") ELSE UNCHANGED hole
    /\ LET sleepers == {q \in Procs : proc[q].at = "asleep" /\ proc[q].on = <<l, "accept">>}
           go == IF sleepers = {} THEN proc ELSE [proc EXCEPT ![CHOOSE q \in sleepers : TRUE].at = "woke"]
       IN  proc' = IF sock[s].nonblock THEN go
                   ELSE [go EXCEPT ![p] = [User EXCEPT !.op = "connect", !.at = "check", !.s = s]]
    /\ missed' = Missing({<<l, "accept">>})
    /\ UNCHANGED <<holds, forgotten>>

(* The wait for the peer: until accept has set it or the socket is closed. *)
ConnectCheck(p) ==
    LET s == proc[p].s IN
    /\ proc[p].op = "connect" /\ proc[p].at \in {"check", "woke"}
    /\ IF sock[s].peer = 0 /\ sock[s].state = "CONNECTED"
       THEN WaitOn(p, <<s, "recv">>) /\ UNCHANGED sock
       ELSE /\ Return(p)
            /\ sock' = IF sock[s].peer = 0 THEN [sock EXCEPT ![s].state = "CLOSED"] ELSE sock
    /\ missed' = missed \ {p}
    /\ UNCHANGED <<holds, calls, forgotten, hole>>

(***************************************************************************)
(* accept.                                                                 *)
(***************************************************************************)
Accept(p, s) ==
    /\ Enter(p, s) /\ sock[s].state = "LISTENING"
    /\ Begin(p, "accept", s, "check", 0)
    /\ UNCHANGED <<sock, holds, missed, forgotten, hole>>

AcceptCheck(p) ==
    LET s == proc[p].s IN
    /\ proc[p].op = "accept" /\ proc[p].at \in {"check", "woke"}
    /\ IF proc[p].at = "woke" /\ (~ sock[s].valid \/ sock[s].state # "LISTENING") THEN Return(p)
       ELSE IF sock[s].queue # <<>> THEN Goto(p, "take")
       ELSE IF sock[s].nonblock THEN Return(p)
       ELSE WaitOn(p, <<s, "accept">>)
    /\ missed' = missed \ {p}
    /\ UNCHANGED <<sock, holds, calls, forgotten, hole>>

(* Mutant: the queue is shortened at the wrong end. *)
JoinedFront(s, c) ==
    LET t == [sock EXCEPT ![s].queue = SubSeq(@, 1, Len(@) - 1)]
        n == Min(FreeSlots(t)) IN
    [Alloc(t, "CONNECTED") EXCEPT ![n].peer = c, ![c].peer = n]
(* A new socket joined to the client c at the head of the queue. *)
Joined(s, c) ==
    LET t == [sock EXCEPT ![s].queue = Tail(@)]
        n == Min(FreeSlots(t)) IN
    [Alloc(t, "CONNECTED") EXCEPT ![n].peer = c, ![c].peer = n]

(* Takes the head of the queue, whatever became of it, and joins it to a   *)
(* new socket; no slot, no node or no descriptor, and the client has been  *)
(* taken off the queue in vain.                                            *)
AcceptTake(p, outcome) ==
    LET s == proc[p].s
        c == Head(sock[s].queue)
        n == Min(FreeSlots(sock))
        t == Joined(s, c.s)
        noSlot == FreeSlots(sock) = {}
        qs == {<<c.s, "recv">>, <<c.s, "send">>} IN
    /\ Standing(p, "accept", "take")
    /\ IF ~ sock[c.s].valid \/ sock[c.s].gen # c.gen THEN Break("stale") ELSE UNCHANGED hole
    /\ sock' = CASE noSlot -> [sock EXCEPT ![s].queue = Tail(@)]
                 [] ~ noSlot /\ outcome = "ok" -> t
                 [] ~ noSlot /\ outcome = "noNode" -> [t EXCEPT ![n].valid = FALSE, ![c.s].peer = 0]
                 [] ~ noSlot /\ outcome = "noFd" -> [CloseOne(t, n) EXCEPT ![c.s].peer = 0]
    /\ holds' = IF ~ noSlot /\ outcome = "ok" THEN [holds EXCEPT ![p] = @ \cup {n}] ELSE holds
    /\ proc' = [Woken(proc, IF noSlot THEN {} ELSE qs) EXCEPT ![p] = User]
    /\ missed' = IF noSlot THEN missed ELSE Missing(qs)
    /\ forgotten' = IF noSlot \/ outcome = "noNode" THEN forgotten \cup {c.s} ELSE forgotten
    /\ UNCHANGED calls

(***************************************************************************)
(* read.                                                                   *)
(***************************************************************************)
Gone(t, s) == IF Valid(t, t[s].peer) THEN t[t[s].peer].state = "CLOSED" ELSE TRUE

Read(p, s) ==
    /\ Enter(p, s) /\ sock[s].state = "CONNECTED"
    /\ Begin(p, "read", s, "check", Size)
    /\ UNCHANGED <<sock, holds, missed, forgotten, hole>>

ReadCheck(p) ==
    LET s == proc[p].s IN
    /\ proc[p].op = "read" /\ proc[p].at \in {"check", "woke"}
    /\ IF proc[p].at = "woke" /\ (~ sock[s].valid \/ sock[s].state # "CONNECTED") THEN Return(p)
       ELSE IF sock[s].buf # <<>>
            THEN proc' = [proc EXCEPT ![p].at = "copy", ![p].n = Len(sock[s].buf)]
       ELSE IF Gone(sock, s) \/ sock[s].nonblock THEN Return(p)
       ELSE WaitOn(p, <<s, "recv">>)
    /\ missed' = missed \ {p}
    /\ UNCHANGED <<sock, holds, calls, forgotten, hole>>

(* The bytes that were there at the check move one at a time; after the    *)
(* last one the writers wake.                                              *)
ReadByte(p) ==
    LET s == proc[p].s
        last == proc[p].n = 1 IN
    /\ Standing(p, "read", "copy")
    /\ sock' = [sock EXCEPT ![s].buf = Tail(@), ![s].got = @ + 1]
    /\ IF last THEN /\ proc' = [Woken(proc, {<<s, "send">>}) EXCEPT ![p] = User]
                    /\ missed' = Missing({<<s, "send">>})
       ELSE proc' = [proc EXCEPT ![p].n = @ - 1] /\ UNCHANGED missed
    /\ UNCHANGED <<holds, calls, forgotten, hole>>

(***************************************************************************)
(* write.                                                                  *)
(***************************************************************************)
Write(p, s, n) ==
    /\ Enter(p, s) /\ sock[s].state = "CONNECTED" /\ Valid(sock, sock[s].peer)
    /\ Begin(p, "write", s, "check", n)
    /\ UNCHANGED <<sock, holds, missed, forgotten, hole>>

WriteCheck(p) ==
    LET s == proc[p].s
        t == sock[s].peer IN
    /\ proc[p].op = "write" /\ proc[p].at \in {"check", "woke"}
    /\ IF proc[p].n = 0 \/ ~ Valid(sock, t) \/ sock[t].state # "CONNECTED" THEN Return(p)
       ELSE IF Len(sock[t].buf) < Size
            THEN proc' = [proc EXCEPT ![p].at = "put", ![p].peer = t]
       ELSE IF sock[s].nonblock THEN Return(p)
       ELSE WaitOn(p, <<t, "send">>)
    /\ missed' = missed \ {p}
    /\ UNCHANGED <<sock, holds, calls, forgotten, hole>>

(* The byte goes where the check looked; the peer may be gone by now. *)
WritePut(p) ==
    LET s == proc[p].s
        t == proc[p].peer IN
    /\ Standing(p, "write", "put")
    /\ IF sock[s].peer # t THEN Break("late") ELSE UNCHANGED hole
    /\ sock' = [sock EXCEPT ![t].buf = Append(@, <<s, sock[s].gen, sock[s].sent + 1>>), ![s].sent = @ + 1]
    /\ proc' = [Woken(proc, {<<t, "recv">>}) EXCEPT ![p].n = @ - 1, ![p].at = "check"]
    /\ missed' = Missing({<<t, "recv">>})
    /\ UNCHANGED <<holds, calls, forgotten>>

(***************************************************************************)
(* select: polls until the socket is ready.                                *)
(***************************************************************************)
PollCanRead(s) ==
    CASE ~ sock[s].valid -> TRUE
      [] sock[s].valid /\ sock[s].state = "LISTENING" -> sock[s].queue # <<>>
      [] OTHER -> sock[s].state # "CONNECTED" \/ sock[s].buf # <<>> \/ Gone(sock, s)
PollCanWrite(s) ==
    IF sock[s].valid /\ sock[s].state = "CONNECTED" /\ ~ Gone(sock, s)
    THEN Len(sock[sock[s].peer].buf) < Size ELSE TRUE

Select(p, s) ==
    /\ Enter(p, s) /\ Begin(p, "select", s, "check", 0)
    /\ UNCHANGED <<sock, holds, missed, forgotten, hole>>
SelectPoll(p) ==
    /\ Standing(p, "select", "check") /\ PollCanRead(proc[p].s)
    /\ Return(p)
    /\ UNCHANGED <<sock, holds>> /\ Quiet

(***************************************************************************)
(* socket.c takes no lock, and every call runs with interrupts on.  The    *)
(* actions above are calls that are not interrupted where they would be    *)
(* disturbed; Race is p being interrupted there and q coming to what p     *)
(* has half done.  What follows is not modelled: the hole names it.        *)
(***************************************************************************)
Calling(p) == proc[p].at = "user" /\ calls < MaxCalls
Taking(p) == Standing(p, "accept", "take")
(* "slot": alloc_socket tests, clears and marks a slot. *)
InAlloc(p) == Calling(p) \/ Taking(p)
(* "queue": connect finds the listener and appends, accept shifts, close   *)
(* invalidates the listener with its queue.                                *)
InQueue(p, l) ==
    \/ Calling(p) /\ (l \in holds[p] \/ \E s \in holds[p] : sock[s].state \in {"UNBOUND", "CONNECTED"})
    \/ Taking(p) /\ proc[p].s = l
(* "count": the reader's count-- and the writer's count++ of one buffer. *)
InCount(p, q) == Standing(p, "read", "copy") /\ Standing(q, "write", "put") /\ proc[q].peer = proc[p].s
(* "link": the sockets that p is about to close, join or use.  Close and   *)
(* accept change both ends and the states piece by piece.                  *)
Using(p) ==
    CASE proc[p].at = "user" -> IF Calling(p) THEN holds[p] ELSE {}
      [] Taking(p) -> {Head(sock[proc[p].s].queue).s}
      [] proc[p].at = "asleep" -> {}
      [] OTHER -> {proc[p].s}
InLink(p, q) ==
    /\ Calling(p) \/ Taking(p)
    /\ \E a \in Using(p), b \in Using(q) : a = b \/ sock[a].peer = b

Race(p, q) ==
    /\ p # q
    /\ \/ InAlloc(p) /\ InAlloc(q) /\ FreeSlots(sock) # {} /\ Break("slot")
       \/ (\E l \in Listeners : InQueue(p, l) /\ InQueue(q, l)) /\ Break("queue")
       \/ InCount(p, q) /\ Break("count")
       \/ InLink(p, q) /\ Break("link")
    /\ UNCHANGED <<sock, proc, holds, calls, missed, forgotten>>

(* Every process is blocked, or the bound is reached. *)
Rest == (\A p \in Procs : proc[p].at \in {"user", "asleep", "check"}) /\ UNCHANGED vars

Next ==
    \/ \E p \in Procs : NewSocket(p) \/ Kill(p) \/ Sleep(p) \/ ConnectCheck(p) \/ AcceptCheck(p)
                        \/ ReadCheck(p) \/ ReadByte(p) \/ WriteCheck(p) \/ WritePut(p) \/ SelectPoll(p)
    \/ \E p \in Procs, outcome \in {"ok", "noNode", "noFd"} : AcceptTake(p, outcome)
    \/ \E p \in Procs, s \in Ids :
          \/ Bind(p, s) \/ Listen(p, s, MaxBacklog + 1) \/ Close(p, s) \/ Connect(p, s)
          \/ Accept(p, s) \/ Read(p, s) \/ Write(p, s, MaxWrite) \/ Select(p, s)
          \/ SetNonblock(p, s, TRUE)
    \/ \E p, q \in Procs : Race(p, q)
    \/ Rest

Spec == Init /\ [][Next]_vars

(***************************************************************************)
(* Properties.                                                             *)
(***************************************************************************)

(* Peers point at one another, and what a socket holds unread is exactly   *)
(* what its peer has sent and it has not yet got, in order: no byte is     *)
(* lost, doubled or a stranger's (socket_vfs_read, _write, _close,         *)
(* sys_accept), until a stale pointer is followed or two calls overlap in  *)
(* code that is not atomic (the holes).                                    *)
StreamIsWhole ==
    hole = "none" =>
        \A s \in Ids :
            sock[s].valid /\ sock[s].peer # 0 =>
                LET t == sock[s].peer IN
                /\ t # s /\ sock[t].valid /\ sock[t].peer = s
                /\ sock[s].buf = [i \in 1 .. sock[t].sent - sock[s].got |->
                                     <<t, sock[t].gen, sock[s].got + i>>]

(* What a blocked process would find if it looked now: for read, accept    *)
(* and write, what select would tell it.                                   *)
WouldWait(p) ==
    LET s == proc[p].s IN
    CASE proc[p].op = "connect" -> sock[s].peer = 0 /\ sock[s].state = "CONNECTED"
      [] proc[p].op \in {"read", "accept"} -> ~ PollCanRead(s)
      [] proc[p].op = "write" -> ~ PollCanWrite(s)

(* The buffer that p's write waits for is just being emptied. *)
Emptied(p) ==
    proc[p].op = "write" /\ \E q \in Procs : Standing(q, "read", "copy") /\ proc[q].s = sock[proc[p].s].peer

(* A process asleep in a socket call still has to wait, and select agrees  *)
(* with the loops of read, accept and write on that, unless the wake-up    *)
(* came between the check and the sleep (interrupts are on there); the     *)
(* writer of a full buffer sleeps until the whole read is done.            *)
SleeperHasReason ==
    hole = "none" =>
        \A p \in Procs \ missed : proc[p].at = "asleep" => WouldWait(p) \/ Emptied(p)

(* A client that waits in connect is queued at a listener that can still   *)
(* accept it, unless its listener was closed or accept took it off the     *)
(* queue and failed: then nobody will ever wake it.                        *)
ClientIsQueued ==
    hole = "none" =>
        \A p \in Procs : LET s == proc[p].s IN
            proc[p].op = "connect" /\ sock[s].peer = 0 /\ sock[s].state = "CONNECTED" =>
                s \in forgotten \/ \E l \in Listeners : [s |-> s, gen |-> sock[s].gen] \in Range(sock[l].queue)

UpToFirstHole == hole = "none"
=============================================================================
