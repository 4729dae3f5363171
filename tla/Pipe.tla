-------------------------------- MODULE Pipe --------------------------------
(***************************************************************************)
(* A pipe and its wait queues (fd.c, the wait queues of process.c and the  *)
(* blocking loops of sys_read and sys_write).                              *)
(*                                                                         *)
(* The syscalls run with interrupts on: any process that is not asleep may *)
(* take the next step, also in the middle of pipe_close and of             *)
(* process_destroy.  The wait queue operations run with interrupts off     *)
(* and are one step; a process that has put itself to sleep is not         *)
(* preempted before it gives up the CPU.  The bytes of a copy move one at  *)
(* a time, and a tick may come between any two.  The loops share count and *)
(* the positions without a lock, a data race in C: built with the          *)
(* Makefile's -O2, the loop of pipe_read reloads them for every byte, the  *)
(* loop of pipe_write keeps them in registers and stores them back each    *)
(* time.  The count of an open file is exact here: two of_drop at once are *)
(* a matter of Files.                                                      *)
(***************************************************************************)
EXTENDS Integers, Lists

CONSTANTS
    NULL,
    Proc,            \* the processes
    Held,            \* Held["r"], Held["w"]: the processes that hold the end at first
    Readers, Writers,\* bound: the processes that read and write
    Poked,           \* bound: the processes that get signals or lose a child
    PIPE_BUF_SIZE,   \* the ring; 4096 in fd.c
    Sizes,           \* bound: the sizes of reads and writes
    CountMod         \* bound: count is a uint32_t, 2^32

Ends == {"r", "w"}
Other(e) == IF e = "r" THEN "w" ELSE "r"

ASSUME PipeAssumption ==
    /\ NULL \notin Proc \cup Ends
    /\ Held \in [Ends -> SUBSET Proc] /\ Held["r"] # {} /\ Held["w"] # {}
    /\ Readers \cup Writers \cup Poked \subseteq Proc
    /\ PIPE_BUF_SIZE \in Nat \ {0} /\ Sizes \subseteq Nat \ {0} /\ Sizes # {}
    /\ CountMod \in Nat /\ \A n \in Sizes : CountMod > PIPE_BUF_SIZE + n

ByteMod == 2 * PIPE_BUF_SIZE           \* bytes are numbered modulo this
Byte == 0 .. ByteMod - 1

VARIABLES
    buffer, read_pos, write_pos, count,\* pipe_t
    open,       \* the ends still open: read_end_open, write_end_open
    head,       \* head["r"] of r_wait, head["w"] of w_wait
    wait_next, waiting_on, state, fatal,  \* fields of the processes
    holds,      \* the ends p's file descriptors refer to
    pc,         \* where p stands
    shut,       \* p's place in pipe_close
    freed,      \* the pipe_t is back in the heap
    end,        \* the end p reads from or writes to
    left,       \* the size asked for, then the bytes left to copy
    reg_count, reg_pos,  \* count and write_pos in the registers of pipe_write
    sent, got,  \* history: the numbers of the next byte to send and to receive
    overlapped, \* history: two processes were in the same copy loop
    requeued,   \* history: a process joined a queue it was still linked in
    stale,      \* history: a process goes on in a freed pipe, or from a NULL queue
    skipped,    \* history: the pipe became ready for p and no wake-up reached it
    robbed      \* history: since p's check another process read from the pipe

ring == <<buffer, read_pos, write_pos, count, sent, got, overlapped, robbed>>
args == <<left, reg_count, reg_pos>>
queues == <<head, wait_next, waiting_on, state>>
life == <<shut, freed, stale>>
vars == <<ring, open, queues, fatal, holds, pc, end, args, life, requeued, skipped>>

(***************************************************************************)
(* pc: "user"; "check", "wait", "asleep", "go", "copy" in sys_read or      *)
(* sys_write; "zombie"; "unlink" and "closing" while it is destroyed;      *)
(* "gone" (a slot is used once); "unused".  shut: an end that p has just   *)
(* closed, the other side still to be woken; "free" before the test of     *)
(* both flags; "no" outside pipe_close.                                    *)
(***************************************************************************)
Pc == {"user", "check", "wait", "asleep", "go", "copy", "zombie", "unlink", "closing", "gone", "unused"}
Shut == Ends \cup {"no", "free"}

(* fd_pipe has given its caller both ends; it has forked, and each process   *)
(* has closed the ends it does not need.                                     *)
Init ==
    /\ buffer = [i \in 0 .. PIPE_BUF_SIZE - 1 |-> 0]
    /\ read_pos = 0 /\ write_pos = 0 /\ count = 0
    /\ open = Ends
    /\ head = [e \in Ends |-> NULL]
    /\ wait_next = [p \in Proc |-> NULL]
    /\ waiting_on = [p \in Proc |-> NULL]
    /\ state = [p \in Proc |-> "RUNNABLE"]
    /\ fatal = [p \in Proc |-> FALSE]
    /\ holds = [p \in Proc |-> {e \in Ends : p \in Held[e]}]
    /\ shut = [p \in Proc |-> "no"] /\ freed = FALSE /\ stale = FALSE
    /\ pc = [p \in Proc |-> IF p \in UNION {Held[e] : e \in Ends} THEN "user" ELSE "unused"]
    /\ end = [p \in Proc |-> NULL]
    /\ left = [p \in Proc |-> 0]
    /\ reg_count = [p \in Proc |-> 0] /\ reg_pos = [p \in Proc |-> 0]
    /\ sent = 0 /\ got = 0
    /\ overlapped = FALSE /\ requeued = FALSE
    /\ skipped = [p \in Proc |-> FALSE]
    /\ robbed = [p \in Proc |-> FALSE]

-----------------------------------------------------------------------------
(* count is the number of bytes written and not read. *)
CountIsRight == count <= PIPE_BUF_SIZE /\ sent = (got + count) % ByteMod

(* The model follows the pipe as long as its count is right, no queue has   *)
(* lost a process and nobody uses what is gone.                             *)
Intact == CountIsRight /\ ~requeued /\ ~stale

(* p runs at l. *)
At(p, l) == Intact /\ pc[p] = l /\ state[p] = "RUNNABLE" /\ shut[p] = "no"
Go(p, l) == pc' = [pc EXCEPT ![p] = l]

(* Back from the syscall, or dead if signal_check_current finds cause. *)
Return(p) ==
    /\ Go(p, IF fatal[p] THEN "zombie" ELSE "user")
    /\ end' = [end EXCEPT ![p] = NULL]
    /\ left' = [left EXCEPT ![p] = 0]
    /\ reg_count' = [reg_count EXCEPT ![p] = 0]
    /\ reg_pos' = [reg_pos EXCEPT ![p] = 0]

(* The queue e, from its head on. *)
Queue(e) == Reach(Proc, NULL, head[e], wait_next)

(* fd_pipe_can_read and fd_pipe_can_write. *)
CanReadEmpty(c, o) == c >= 0
CanRead(c, o) == c > 0 \/ "w" \notin o
CanWrite(c, o) == "r" \in o /\ c < PIPE_BUF_SIZE
CanGo(e, c, o) == IF e = "r" THEN CanRead(c, o) ELSE CanWrite(c, o)

SleepsOn(p, e) == end[p] = e /\ pc[p] = "asleep" /\ state[p] = "SLEEPING"

(* The processes in woken leave the queue e, of which h becomes the head; a *)
(* process of the other side that stays asleep, or is on its way to sleep,  *)
(* has been skipped.                                                        *)
Release(e, woken, h) ==
    /\ head' = [head EXCEPT ![e] = h]
    /\ wait_next' = [p \in Proc |-> IF p \in woken THEN NULL ELSE wait_next[p]]
    /\ waiting_on' = [p \in Proc |-> IF p \in woken THEN NULL ELSE waiting_on[p]]
    /\ state' = [p \in Proc |-> IF p \in woken THEN "RUNNABLE" ELSE state[p]]
    /\ skipped' = [p \in Proc |->
         \/ skipped[p]
         \/ end[p] = e /\ pc[p] = "wait"
         \/ SleepsOn(p, e) /\ p \notin woken /\ woken # {}]

wait_queue_wake_all(e) == Release(e, Queue(e), NULL)
wait_queue_wake_one(e) ==
    IF head[e] = NULL THEN Release(e, {}, NULL)
    ELSE Release(e, {head[e]}, wait_next[head[e]])

(* process_wait_on, from the blocking loop of e. *)
process_wait_on(p, e) ==
    /\ wait_next' = [wait_next EXCEPT ![p] = head[e]]
    /\ head' = [head EXCEPT ![e] = p]
    /\ waiting_on' = [waiting_on EXCEPT ![p] = e]
    /\ state' = [state EXCEPT ![p] = "SLEEPING"]
    /\ requeued' = (requeued \/ \E f \in Ends : p \in Queue(f))

-----------------------------------------------------------------------------
(* The blocking loops of sys_read (end "r") and sys_write (end "w").       *)

Start(p, e, size) ==
    /\ At(p, "user")
    /\ e \in holds[p]
    /\ end' = [end EXCEPT ![p] = e]
    /\ left' = [left EXCEPT ![p] = size]
    /\ Go(p, "check")
    /\ UNCHANGED <<reg_count, reg_pos, ring, open, queues, fatal, holds, life, requeued, skipped>>

sys_read(p, size) == p \in Readers /\ Start(p, "r", size)
sys_write(p, size) == p \in Writers /\ Start(p, "w", size)

Check(p) ==
    /\ At(p, "check")
    /\ Go(p, IF CanGo(end[p], count, open) THEN "go" ELSE "wait")
    /\ skipped' = [skipped EXCEPT ![p] = FALSE]
    /\ robbed' = [robbed EXCEPT ![p] = FALSE]
    /\ UNCHANGED <<buffer, read_pos, write_pos, count, sent, got, overlapped>>
    /\ UNCHANGED <<open, queues, fatal, holds, end, args, life, requeued>>

(* O_NONBLOCK: EAGAIN, and a pending fatal signal ends the process. *)
WouldBlock(p) ==
    /\ At(p, "wait")
    /\ Return(p)
    /\ skipped' = [skipped EXCEPT ![p] = FALSE]
    /\ UNCHANGED <<ring, open, queues, fatal, holds, life, requeued>>

Sleep(p) ==
    /\ At(p, "wait")
    /\ process_wait_on(p, end[p])
    /\ Go(p, "asleep")
    /\ UNCHANGED <<ring, open, fatal, holds, end, args, life, skipped>>

(* Woken, signal_check_current first. *)
Awake(p) ==
    /\ At(p, "asleep")
    /\ IF fatal[p] THEN Return(p) ELSE Go(p, "check") /\ UNCHANGED <<end, args>>
    /\ skipped' = [skipped EXCEPT ![p] = FALSE]
    /\ UNCHANGED <<ring, open, queues, fatal, holds, life, requeued>>

-----------------------------------------------------------------------------
(* The number of bytes to move is fixed before the copy.  Nothing to read is *)
(* an answer of 0, a closed reader an error.                                 *)
Smaller(a, b) == IF a < b THEN a ELSE b

RoomIgnoresCount(e, o) == IF e = "r" THEN count ELSE IF "r" \in o THEN PIPE_BUF_SIZE ELSE 0
Room(e, o) ==
    IF e = "r" THEN count ELSE IF "r" \in o THEN PIPE_BUF_SIZE - count ELSE 0

pipe_begin(p) ==
    /\ At(p, "go")
    /\ IF Room(end[p], open) = 0 THEN Return(p)
       ELSE /\ Go(p, "copy")
            /\ left' = [left EXCEPT ![p] = Smaller(@, Room(end[p], open))]
            /\ reg_count' = [reg_count EXCEPT ![p] = IF end[p] = "w" THEN count ELSE @]
            /\ reg_pos' = [reg_pos EXCEPT ![p] = IF end[p] = "w" THEN write_pos ELSE @]
            /\ UNCHANGED end
    /\ robbed' = [robbed EXCEPT ![p] = FALSE]
    /\ UNCHANGED <<buffer, read_pos, write_pos, count, sent, got, overlapped>>
    /\ UNCHANGED <<open, queues, fatal, holds, life, requeued, skipped>>

Successor(i) == (i + 1) % PIPE_BUF_SIZE

(* p moves a byte at end e. *)
Copying(p, e) ==
    /\ At(p, "copy") /\ end[p] = e /\ left[p] > 0
    /\ left' = [left EXCEPT ![p] = @ - 1]
    /\ UNCHANGED <<open, queues, fatal, holds, pc, end, life, requeued, skipped>>

CopyingToo(p, e) == \E q \in Proc \ {p} : pc[q] = "copy" /\ end[q] = e

pipe_read(p) ==
    /\ Copying(p, "r")
    /\ read_pos' = Successor(read_pos)
    /\ count' = (count - 1) % CountMod
    /\ got' = (got + 1) % ByteMod
    /\ overlapped' = (overlapped \/ CopyingToo(p, "r") \/ CopyingToo(p, "w"))
    /\ robbed' = [q \in Proc |-> robbed[q] \/ (q # p /\ end[q] = "r" /\ pc[q] = "go")]
    /\ UNCHANGED <<buffer, write_pos, sent, reg_count, reg_pos>>

pipe_write(p) ==
    /\ Copying(p, "w")
    /\ buffer' = [buffer EXCEPT ![reg_pos[p]] = sent]
    /\ reg_pos' = [reg_pos EXCEPT ![p] = Successor(@)]
    /\ write_pos' = Successor(reg_pos[p])
    /\ reg_count' = [reg_count EXCEPT ![p] = (@ + 1) % CountMod]
    /\ count' = (reg_count[p] + 1) % CountMod
    /\ sent' = (sent + 1) % ByteMod
    /\ overlapped' = (overlapped \/ CopyingToo(p, "w"))
    /\ UNCHANGED <<read_pos, got, robbed>>

(* The copy done, one waiter of the other side is woken. *)
CopyDone(p) ==
    /\ At(p, "copy") /\ left[p] = 0
    /\ wait_queue_wake_one(Other(end[p]))
    /\ Return(p)
    /\ UNCHANGED <<ring, open, fatal, holds, life, requeued>>

-----------------------------------------------------------------------------
(* fd_close by p, or by its destroyer in fd_close_all_for: of_drop, and      *)
(* with the last reference pipe_close, which first clears the flag,          *)
fd_close(p, e) ==
    /\ e \in holds[p]
    /\ At(p, "user") \/ At(p, "closing")
    /\ holds' = [holds EXCEPT ![p] = @ \ {e}]
    /\ IF \E q \in Proc \ {p} : e \in holds[q]
       THEN UNCHANGED <<open, shut>>
       ELSE /\ open' = open \ {e}
            /\ shut' = [shut EXCEPT ![p] = e]
    /\ UNCHANGED <<ring, queues, fatal, pc, end, args, freed, stale, requeued, skipped>>

(* then wakes the other side,                                                *)
CloseWakesOwnSide(p) ==
    /\ Intact /\ shut[p] \in Ends
    /\ wait_queue_wake_all(shut[p])
    /\ shut' = [shut EXCEPT ![p] = "free"]
    /\ UNCHANGED <<ring, open, fatal, holds, pc, end, args, freed, stale, requeued>>
pipe_close(p) ==
    /\ Intact /\ shut[p] \in Ends
    /\ wait_queue_wake_all(Other(shut[p]))
    /\ shut' = [shut EXCEPT ![p] = "free"]
    /\ UNCHANGED <<ring, open, fatal, holds, pc, end, args, freed, stale, requeued>>

(* and frees the pipe if both flags are clear, also when another process is  *)
(* still on its way through pipe_close.                                      *)
pipe_free(p) ==
    /\ Intact /\ shut[p] = "free"
    /\ shut' = [shut EXCEPT ![p] = "no"]
    /\ freed' = (freed \/ open = {})
    /\ stale' = (stale \/ (open = {} /\ \E q \in Proc \ {p} : shut[q] # "no"))
    /\ UNCHANGED <<ring, open, queues, fatal, holds, pc, end, args, requeued, skipped>>

(* fork: the child shares the parent's descriptors. *)
fd_copy_on_fork(p, c) ==
    /\ At(p, "user") /\ pc[c] = "unused"
    /\ holds' = [holds EXCEPT ![c] = holds[p]]
    /\ Go(c, "user")
    /\ UNCHANGED <<ring, open, queues, fatal, end, args, life, requeued, skipped>>

(* A process exits; its descriptors stay until it is destroyed. *)
process_exit(p) ==
    /\ At(p, "user")
    /\ Go(p, "zombie")
    /\ UNCHANGED <<ring, open, queues, fatal, holds, end, args, life, requeued, skipped>>

(* process_destroy looks at waiting_on with interrupts on, *)
process_destroy(p) ==
    /\ At(p, "zombie")
    /\ Go(p, IF waiting_on[p] = NULL THEN "closing" ELSE "unlink")
    /\ UNCHANGED <<ring, open, queues, fatal, holds, end, args, life, requeued, skipped>>

(* and takes the process out of the queue with interrupts off.  By then a    *)
(* wake-up may have cleared waiting_on, or the pipe may be freed.            *)
DestroyStillQueued(p) ==
    /\ At(p, "unlink")
    /\ waiting_on' = [waiting_on EXCEPT ![p] = NULL]
    /\ wait_next' = [wait_next EXCEPT ![p] = NULL]
    /\ Go(p, "closing")
    /\ UNCHANGED <<ring, open, head, state, fatal, holds, end, args, life, requeued, skipped>>
destroy_unlink(p) ==
    /\ At(p, "unlink")
    /\ IF waiting_on[p] = NULL \/ freed
       THEN stale' = TRUE /\ UNCHANGED <<head, wait_next, waiting_on>>
       ELSE LET q == waiting_on[p] IN
              /\ head' = [head EXCEPT ![q] = IF @ = p THEN wait_next[p] ELSE @]
              /\ wait_next' = [r \in Proc |->
                   CASE r = p -> NULL
                     [] r # p /\ r \in Queue(q) /\ wait_next[r] = p -> wait_next[p]
                     [] OTHER -> wait_next[r]]
              /\ waiting_on' = [waiting_on EXCEPT ![p] = NULL]
              /\ UNCHANGED stale
    /\ Go(p, "closing")
    /\ UNCHANGED <<ring, open, state, fatal, holds, end, args, shut, freed, requeued, skipped>>

(* ... and, its descriptors closed, its slot is cleared. *)
Destroyed(p) ==
    /\ At(p, "closing") /\ holds[p] = {}
    /\ Go(p, "gone")
    /\ fatal' = [fatal EXCEPT ![p] = FALSE]
    /\ skipped' = [skipped EXCEPT ![p] = FALSE]
    /\ UNCHANGED <<ring, open, queues, holds, end, args, life, requeued>>

(* process_wake from sys_kill (f: a fatal signal) or from a child's exit:   *)
(* the process runs, and stays linked in the queue.                         *)
process_wake(p, f) ==
    /\ Intact
    /\ p \in Poked /\ pc[p] \notin {"unused", "zombie", "unlink", "closing", "gone"}
    /\ state' = [state EXCEPT ![p] = "RUNNABLE"]
    /\ fatal' = [fatal EXCEPT ![p] = @ \/ f]
    /\ UNCHANGED <<ring, open, head, wait_next, waiting_on, holds, pc, end, args, life, requeued, skipped>>

-----------------------------------------------------------------------------
(* What p does on its own once it is in a syscall. *)
Proceed(p) ==
    \/ Check(p) \/ Sleep(p) \/ Awake(p)
    \/ pipe_begin(p) \/ pipe_read(p) \/ pipe_write(p) \/ CopyDone(p)

Next ==
    \E p \in Proc :
       \/ Proceed(p) \/ WouldBlock(p)
       \/ (\E size \in Sizes : sys_read(p, size) \/ sys_write(p, size))
       \/ (\E e \in Ends : fd_close(p, e)) \/ pipe_close(p) \/ pipe_free(p)
       \/ (\E c \in Proc : fd_copy_on_fork(p, c))
       \/ process_exit(p) \/ process_destroy(p) \/ destroy_unlink(p) \/ Destroyed(p)
       \/ (\E f \in BOOLEAN : process_wake(p, f))

Spec == Init /\ [][Next]_vars

-----------------------------------------------------------------------------
(* Properties.                                                             *)

TypeOK ==
    /\ buffer \in [0 .. PIPE_BUF_SIZE - 1 -> Byte]
    /\ {read_pos, write_pos} \subseteq 0 .. PIPE_BUF_SIZE - 1
    /\ count \in 0 .. CountMod - 1
    /\ open \subseteq Ends
    /\ head \in [Ends -> Proc \cup {NULL}]
    /\ wait_next \in [Proc -> Proc \cup {NULL}]
    /\ waiting_on \in [Proc -> Ends \cup {NULL}]
    /\ state \in [Proc -> {"RUNNABLE", "SLEEPING"}]
    /\ fatal \in [Proc -> BOOLEAN]
    /\ holds \in [Proc -> SUBSET Ends]
    /\ pc \in [Proc -> Pc]
    /\ end \in [Proc -> Ends \cup {NULL}]
    /\ left \in [Proc -> Nat] /\ \A p \in Proc : \E n \in Sizes : left[p] <= n
    /\ reg_count \in [Proc -> 0 .. CountMod - 1]
    /\ reg_pos \in [Proc -> 0 .. PIPE_BUF_SIZE - 1]
    /\ {sent, got} \subseteq Byte
    /\ shut \in [Proc -> Shut]
    /\ {overlapped, requeued, freed, stale} \subseteq BOOLEAN
    /\ skipped \in [Proc -> BOOLEAN]
    /\ robbed \in [Proc -> BOOLEAN]

(* Unless two processes copied at once, the unread bytes are the ones sent  *)
(* and not received, in order: nothing is lost, repeated or overwritten.    *)
RingIsFifo ==
    overlapped \/
      /\ CountIsRight
      /\ \A i \in 0 .. count - 1 :
           buffer[(read_pos + i) % PIPE_BUF_SIZE] = (got + i) % ByteMod

(* Every sleeper is in the queue it sleeps on, unless a process woken from  *)
(* outside (a signal, a child's exit) joined a queue it was still linked in *)
(* and cut off the ones behind it.                                          *)
SleepersAreQueued ==
    requeued \/ \A p \in Proc, e \in Ends :
                  SleepsOn(p, e) => p \in Queue(e) /\ waiting_on[p] = e

(* Once the pipe is freed nobody is inside it, closers included, and only a *)
(* process woken from outside can still be linked into its queues; unless a *)
(* closer freed it under another one, or process_destroy lost its queue.    *)
FreedPipeHasNoWaiter ==
    freed /\ ~stale => \A p \in Proc :
       /\ pc[p] \notin {"check", "wait", "asleep", "go", "copy"} /\ shut[p] = "no"
       /\ waiting_on[p] = NULL \/ p \in Poked

(* The two wait queues and the processes agree at every point of a wait,    *)
(* wake-up, close, exit and signal.                                         *)
QueuesAreSound == TypeOK /\ SleepersAreQueued /\ FreedPipeHasNoWaiter

(* A process sleeps on a pipe that is ready for it only if the copy or the  *)
(* close that made it ready has yet to wake it, or the pipe became ready    *)
(* between its check and its sleep, or the one wake-up went to another      *)
(* process.                                                                 *)
ReadySleeperWasSkipped ==
    requeued \/ ~CountIsRight \/ \A p \in Proc, e \in Ends :
       SleepsOn(p, e) /\ CanGo(e, count, open) =>
         skipped[p] \/ \E q \in Proc : \/ pc[q] = "copy" /\ end[q] = Other(e)
                                     \/ shut[q] = Other(e)

(* A read returns end of file (0 bytes) while the write end is open only if *)
(* another reader took the bytes after this one's check.                    *)
EndOfFileMeansClosed ==
    [][\A p \in Proc : pc[p] = "go" /\ end[p] = "r" /\ pc'[p] \in {"user", "zombie"} =>
         count > 0 \/ "w" \notin open \/ robbed[p]]_vars
=============================================================================
