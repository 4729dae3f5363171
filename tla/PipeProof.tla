----------------------------- MODULE PipeProof ------------------------------
(***************************************************************************)
(* Safety of pipes for every set of processes, ring size and width of the  *)
(* count.                                                                  *)
(***************************************************************************)
EXTENDS Pipe, Foundations

USE DEF life

InCall == {"check", "wait", "asleep", "go", "copy"}
Copies(p, e) == pc[p] = "copy" /\ end[p] = e

(* Where a process stands and what it holds.  A process sleeps only at the  *)
(* end of process_wait_on, and only a wake-up from outside leaves it linked *)
(* while it runs.  What pipe_write has in its register and still has to     *)
(* write fits into the ring.                                                *)
Placed ==
    \A p \in Proc :
       /\ holds[p] \subseteq open
       /\ pc[p] \in InCall => end[p] \in holds[p]
       /\ state[p] = "SLEEPING" => pc[p] = "asleep" /\ waiting_on[p] = end[p]
       /\ waiting_on[p] # NULL /\ p \notin Poked => state[p] = "SLEEPING"
       /\ Copies(p, "w") => reg_count[p] + left[p] <= PIPE_BUF_SIZE
       /\ pc[p] \in InCall => shut[p] = "no"

(* The pipe is freed when both ends are closed, and unless somebody went on *)
(* in what is gone, all closers have left by then.                          *)
FreeInv ==
    /\ freed => open = {}
    /\ freed /\ ~ stale => \A p \in Proc : shut[p] = "no"

(* Until two processes have copied at once: the ring between the positions  *)
(* holds the bytes sent and not received, a writer's registers are current, *)
(* and a reader finds as many bytes as it is about to take.                 *)
RingInv ==
    /\ CountIsRight
    /\ write_pos = (read_pos + count) % PIPE_BUF_SIZE
    /\ \A i \in 0 .. count - 1 :
         buffer[(read_pos + i) % PIPE_BUF_SIZE] = (got + i) % ByteMod
    /\ \A p \in Proc : /\ Copies(p, "w") => reg_count[p] = count /\ reg_pos[p] = write_pos
                       /\ Copies(p, "r") => left[p] <= count

(* Until a process has joined a queue it was still linked in: the queue of  *)
(* an end is the processes that wait on it, and no queue is a circle.       *)
QueueInv ==
    /\ \A e \in Ends, p \in Proc : p \in Queue(e) <=> waiting_on[p] = e
    /\ Acyclic(Proc, NULL, wait_next)
    /\ \A p \in Proc : wait_next[p] # NULL => waiting_on[p] # NULL

(* A process that is asleep or about to sleep on a ready pipe. *)
Waits(p, e) == SleepsOn(p, e) \/ (pc[p] = "wait" /\ end[p] = e)

(* A copy at e, or the close of e, that has yet to wake the other side. *)
Owes(p, e) == Copies(p, e) \/ shut[p] = e

(* Whoever waits on a ready pipe was skipped, or a copy or a close that     *)
(* will wake it is still going on.                                          *)
WakeInv ==
    \A p \in Proc, e \in Ends :
       Waits(p, e) /\ CanGo(e, count, open) =>
         skipped[p] \/ \E q \in Proc : Owes(q, Other(e))

(* A reader between its check and its copy. *)
ReadyInv ==
    \A p \in Proc : pc[p] = "go" /\ end[p] = "r" =>
      count > 0 \/ "w" \notin open \/ robbed[p]

(* The inductive invariant. *)
Inv ==
    /\ TypeOK /\ Placed /\ ReadyInv /\ FreeInv
    /\ overlapped \/ RingInv
    /\ requeued \/ QueueInv
    /\ requeued \/ ~CountIsRight \/ WakeInv

-----------------------------------------------------------------------------
(* Arithmetic of the ring: positions and byte numbers wrap around. *)
LEMMA SizeFacts ==
    /\ PIPE_BUF_SIZE \in Nat /\ PIPE_BUF_SIZE > 0
    /\ ByteMod \in Nat /\ ByteMod = 2 * PIPE_BUF_SIZE
    /\ CountMod \in Nat /\ CountMod > PIPE_BUF_SIZE + 1
    /\ Sizes \subseteq Nat \ {0} /\ Sizes # {}
    /\ NULL \notin Proc /\ NULL \notin Ends
  <1>1. PICK n \in Sizes : n \in Nat \ {0}
    BY PipeAssumption
  <1>2. CountMod > PIPE_BUF_SIZE + n
    BY PipeAssumption
  <1> QED
    BY <1>1, <1>2, PipeAssumption DEF ByteMod

(* A remainder is below the modulus. *)
LEMMA ModRange == ASSUME NEW m \in Nat, m > 0, NEW x \in Int PROVE x % m \in 0 .. m - 1
  OBVIOUS

(* A number below the modulus is its own remainder. *)
LEMMA ModSmall == ASSUME NEW m \in Nat, m > 0, NEW x \in 0 .. m - 1 PROVE x % m = x
  OBVIOUS

(* One turn of the ring is one subtraction. *)
LEMMA ModOnce == ASSUME NEW m \in Nat, m > 0, NEW x \in m .. 2 * m - 1 PROVE x % m = x - m
  OBVIOUS

(* A step forward commutes with wrapping. *)
LEMMA ModStep ==
    ASSUME NEW m \in Nat, m > 0, NEW a \in 0 .. m - 1, NEW i \in 0 .. m - 1
    PROVE  /\ (((a + 1) % m) + i) % m = (a + (i + 1)) % m
           /\ (((a + i) % m) + 1) % m = (a + (i + 1)) % m
  <1>1. CASE a + i + 1 < m
    BY <1>1, ModSmall
  <1>2. CASE a + i + 1 >= m /\ a + 1 < m /\ a + i < m
    BY <1>2, ModSmall, ModOnce
  <1>3. CASE a + 1 = m
    <2>1. (a + 1) % m = 0
      BY <1>3, ModOnce
    <2>2. (0 + i) % m = i
      BY ModSmall
    <2>3. (a + (i + 1)) % m = i
      BY <1>3, ModOnce
    <2>4. CASE i = 0
      BY <1>3, <2>1, <2>2, <2>3, <2>4, ModSmall, ModOnce
    <2>5. CASE i > 0
      <3>1. (a + i) % m = i - 1
        BY <1>3, <2>5, ModOnce
      <3>2. (i - 1 + 1) % m = i
        BY ModSmall
      <3> QED  BY <2>1, <2>2, <2>3, <3>1, <3>2
    <2> QED  BY <2>4, <2>5
  <1>4. CASE a + 1 < m /\ a + i >= m
    <2>1. (a + 1) % m = a + 1 /\ (a + i) % m = a + i - m
      BY <1>4, ModSmall, ModOnce
    <2>2. (a + 1 + i) % m = a + 1 + i - m
      BY <1>4, ModOnce
    <2>3. (a + i - m + 1) % m = a + i - m + 1
      BY <1>4, ModSmall
    <2> QED  BY <2>1, <2>2, <2>3
  <1> QED
    BY <1>1, <1>2, <1>3, <1>4

(* Two places of the ring less than a round apart are different. *)
LEMMA ModApart ==
    ASSUME NEW m \in Nat, m > 0, NEW a \in 0 .. m - 1,
           NEW i \in 0 .. m - 1, NEW j \in 0 .. m - 1, i # j
    PROVE  (a + i) % m # (a + j) % m
  <1>1. \A k \in 0 .. m - 1 : (a + k) % m = IF a + k < m THEN a + k ELSE a + k - m
    BY ModSmall, ModOnce
  <1> QED
    BY <1>1

-----------------------------------------------------------------------------
(* The processes, ends and sizes a step can be about. *)
Step(p) ==
    \/ Check(p) \/ Sleep(p) \/ Awake(p) \/ pipe_begin(p)
    \/ pipe_read(p) \/ pipe_write(p) \/ CopyDone(p) \/ WouldBlock(p)
    \/ (\E size \in Sizes, e \in Ends : Start(p, e, size))
    \/ (\E e \in Ends : fd_close(p, e)) \/ pipe_close(p) \/ pipe_free(p)
    \/ (\E c \in Proc : fd_copy_on_fork(p, c))
    \/ process_exit(p) \/ process_destroy(p) \/ destroy_unlink(p) \/ Destroyed(p)
    \/ (\E f \in BOOLEAN : process_wake(p, f))

(* Every step is a step of one process. *)
LEMMA Steps == Next => \E p \in Proc : Step(p)
  BY DEF Next, Step, Proceed, sys_read, sys_write, Ends

(* Typing of the parts of an action. *)
LEMMA ReturnType ==
    ASSUME TypeOK, NEW p \in Proc, Return(p)
    PROVE  /\ pc' \in [Proc -> Pc] /\ end' \in [Proc -> Ends \cup {NULL}]
           /\ left' \in [Proc -> Nat] /\ (\A q \in Proc : \E n \in Sizes : left'[q] <= n)
           /\ reg_count' \in [Proc -> 0 .. CountMod - 1]
           /\ reg_pos' \in [Proc -> 0 .. PIPE_BUF_SIZE - 1]
  <1>1. PICK n \in Sizes : n \in Nat
    BY SizeFacts
  <1>2. \A q \in Proc : \E m \in Sizes : left'[q] <= m
    BY <1>1 DEF Return, TypeOK
  <1> QED
    BY <1>2, SizeFacts DEF Return, TypeOK, Go, Pc

(* Waking keeps the types. *)
LEMMA ReleaseType ==
    ASSUME TypeOK, NEW e \in Ends, NEW woken \in SUBSET Proc, NEW h \in Proc \cup {NULL},
           Release(e, woken, h)
    PROVE  /\ head' \in [Ends -> Proc \cup {NULL}]
           /\ wait_next' \in [Proc -> Proc \cup {NULL}]
           /\ waiting_on' \in [Proc -> Ends \cup {NULL}]
           /\ state' \in [Proc -> {"RUNNABLE", "SLEEPING"}]
           /\ skipped' \in [Proc -> BOOLEAN]
  <1>1. skipped' \in [Proc -> BOOLEAN]
    BY DEF Release, TypeOK
  <1> QED
    BY <1>1 DEF Release, TypeOK

(* What waking changes, field by field. *)
LEMMA ReleaseFields ==
    ASSUME NEW e, NEW woken, NEW h, Release(e, woken, h)
    PROVE  /\ head' = [head EXCEPT ![e] = h]
           /\ \A q \in Proc : /\ wait_next'[q] = IF q \in woken THEN NULL ELSE wait_next[q]
                              /\ waiting_on'[q] = IF q \in woken THEN NULL ELSE waiting_on[q]
                              /\ state'[q] = IF q \in woken THEN "RUNNABLE" ELSE state[q]
  <1>1. head' = [head EXCEPT ![e] = h]
    BY DEF Release
  <1>2. wait_next' = [p \in Proc |-> IF p \in woken THEN NULL ELSE wait_next[p]]
    BY DEF Release
  <1>3. waiting_on' = [p \in Proc |-> IF p \in woken THEN NULL ELSE waiting_on[p]]
    BY DEF Release
  <1>4. state' = [p \in Proc |-> IF p \in woken THEN "RUNNABLE" ELSE state[p]]
    BY DEF Release
  <1> QED
    BY <1>1, <1>2, <1>3, <1>4

(* Queues consist of processes. *)
LEMMA QueueInProc == \A e : Queue(e) \subseteq Proc
  BY DEF Queue, Reach

(* The actions keep the types: sys_read and sys_write up to the copy, *)
LEMMA BeginType ==
    ASSUME TypeOK, NEW p \in Proc, pipe_begin(p)
    PROVE  TypeOK'
  <1>1. CASE Return(p)
    BY <1>1, ReturnType DEF TypeOK, pipe_begin, ring, queues
  <1>2. CASE Room(end[p], open) # 0
    <2>1. Room(end[p], open) \in Nat
      BY SizeFacts DEF Room, TypeOK, pipe_begin, At, Intact, CountIsRight
    <2>2. left[p] \in Nat /\ left \in [Proc -> Nat]
      BY DEF TypeOK
    <2>3. left' = [left EXCEPT ![p] = Smaller(left[p], Room(end[p], open))]
      BY <1>2 DEF pipe_begin
    <2>4. Smaller(left[p], Room(end[p], open)) \in Nat /\ Smaller(left[p], Room(end[p], open)) <= left[p]
      BY <2>1, <2>2 DEF Smaller
    <2>5. left' \in [Proc -> Nat] /\ \A q \in Proc : left'[q] <= left[q]
      BY <2>2, <2>3, <2>4
    <2>6. \A q \in Proc : \E n \in Sizes : left[q] <= n
      BY DEF TypeOK
    <2>7. \A q \in Proc : \E n \in Sizes : left'[q] <= n
      BY <2>2, <2>5, <2>6, SizeFacts
    <2>8. reg_count' \in [Proc -> 0 .. CountMod - 1]
      <3>1. /\ reg_count' = [reg_count EXCEPT ![p] = IF end[p] = "w" THEN count ELSE reg_count[p]]
            /\ reg_count \in [Proc -> 0 .. CountMod - 1] /\ count \in 0 .. CountMod - 1
        BY <1>2 DEF pipe_begin, TypeOK
      <3> QED
        BY <3>1
    <2>9. reg_pos' \in [Proc -> 0 .. PIPE_BUF_SIZE - 1]
      <3>1. /\ reg_pos' = [reg_pos EXCEPT ![p] = IF end[p] = "w" THEN write_pos ELSE reg_pos[p]]
            /\ reg_pos \in [Proc -> 0 .. PIPE_BUF_SIZE - 1] /\ write_pos \in 0 .. PIPE_BUF_SIZE - 1
        BY <1>2 DEF pipe_begin, TypeOK
      <3> QED
        BY <3>1
    <2>10. pc' \in [Proc -> Pc]
      BY <1>2 DEF pipe_begin, TypeOK, Go, Pc
    <2> QED
      BY <1>2, <2>5, <2>7, <2>8, <2>9, <2>10 DEF TypeOK, pipe_begin, ring, queues
  <1> QED
    BY <1>1, <1>2 DEF pipe_begin

(* the locals of a copy, *)
LEMMA CopyingType ==
    ASSUME TypeOK, NEW p \in Proc, NEW e, Copying(p, e)
    PROVE  left' \in [Proc -> Nat] /\ \A q \in Proc : \E n \in Sizes : left'[q] <= n
  <1>1. left \in [Proc -> Nat] /\ \A q \in Proc : \E n \in Sizes : left[q] <= n
    BY DEF TypeOK
  <1>2. left' = [left EXCEPT ![p] = left[p] - 1] /\ left[p] > 0
    BY DEF Copying
  <1>3. left' \in [Proc -> Nat] /\ \A q \in Proc : left'[q] <= left[q]
    BY <1>1, <1>2
  <1> QED
    BY <1>1, <1>3, SizeFacts

(* a byte read, *)
LEMMA ReadType ==
    ASSUME TypeOK, NEW p \in Proc, pipe_read(p)
    PROVE  TypeOK'
  <1>1. overlapped' \in BOOLEAN /\ robbed' \in [Proc -> BOOLEAN]
    BY DEF pipe_read, TypeOK
  <1>2. left' \in [Proc -> Nat] /\ \A q \in Proc : \E n \in Sizes : left'[q] <= n
    BY CopyingType DEF pipe_read
  <1>3. read_pos \in Int /\ count \in Int /\ got \in Int
    BY SizeFacts DEF TypeOK, Byte
  <1>4. read_pos' = (read_pos + 1) % PIPE_BUF_SIZE /\ count' = (count - 1) % CountMod
        /\ got' = (got + 1) % ByteMod
    BY DEF pipe_read, Successor
  <1>5. /\ read_pos + 1 \in Int /\ count - 1 \in Int /\ got + 1 \in Int
        /\ PIPE_BUF_SIZE > 0 /\ CountMod > 0 /\ ByteMod > 0
    BY <1>3, SizeFacts
  <1>6. read_pos' \in 0 .. PIPE_BUF_SIZE - 1 /\ count' \in 0 .. CountMod - 1 /\ got' \in Byte
    BY <1>4, <1>5, ModRange, SizeFacts DEF Byte
  <1> QED
    BY <1>1, <1>2, <1>6 DEF TypeOK, pipe_read, Copying, queues

(* a byte written, *)
LEMMA WriteType ==
    ASSUME TypeOK, NEW p \in Proc, pipe_write(p)
    PROVE  TypeOK'
  <1>1. overlapped' \in BOOLEAN
    BY DEF pipe_write, TypeOK
  <1>2. left' \in [Proc -> Nat] /\ \A q \in Proc : \E n \in Sizes : left'[q] <= n
    BY CopyingType DEF pipe_write
  <1>3. reg_pos[p] \in Int /\ reg_count[p] \in Int /\ sent \in Int /\ sent \in Byte
        /\ reg_pos[p] \in 0 .. PIPE_BUF_SIZE - 1
    BY SizeFacts DEF TypeOK, Byte
  <1>4. /\ reg_pos[p] + 1 \in Int /\ reg_count[p] + 1 \in Int /\ sent + 1 \in Int
        /\ PIPE_BUF_SIZE > 0 /\ CountMod > 0 /\ ByteMod > 0
    BY <1>3, SizeFacts
  <1>5. /\ (reg_pos[p] + 1) % PIPE_BUF_SIZE \in 0 .. PIPE_BUF_SIZE - 1
        /\ (reg_count[p] + 1) % CountMod \in 0 .. CountMod - 1
        /\ (sent + 1) % ByteMod \in Byte
    BY <1>4, ModRange, SizeFacts DEF Byte
  <1>6. write_pos' \in 0 .. PIPE_BUF_SIZE - 1 /\ count' \in 0 .. CountMod - 1 /\ sent' \in Byte
    BY <1>5 DEF pipe_write, Successor
  <1>7. reg_count' \in [Proc -> 0 .. CountMod - 1] /\ reg_pos' \in [Proc -> 0 .. PIPE_BUF_SIZE - 1]
    BY <1>5 DEF pipe_write, Successor, TypeOK
  <1>8. buffer' \in [0 .. PIPE_BUF_SIZE - 1 -> Byte]
    BY <1>3 DEF pipe_write, TypeOK
  <1> QED
    BY <1>1, <1>2, <1>6, <1>7, <1>8 DEF TypeOK, pipe_write, Copying, queues

(* Whom a wake-up and a close release. *)
LEMMA WakeOneReleases ==
    ASSUME TypeOK, NEW e \in Ends, wait_queue_wake_one(e)
    PROVE  \E woken \in SUBSET Proc, h \in Proc \cup {NULL} : Release(e, woken, h)
  <1>1. CASE head[e] = NULL
    BY <1>1 DEF wait_queue_wake_one
  <1>2. CASE head[e] # NULL
    <2>1. head[e] \in Proc
      BY <1>2 DEF TypeOK
    <2>2. {head[e]} \in SUBSET Proc /\ wait_next[head[e]] \in Proc \cup {NULL}
      BY <2>1 DEF TypeOK
    <2> QED
      BY <1>2, <2>2 DEF wait_queue_wake_one
  <1> QED
    BY <1>1, <1>2

(* A wake is for one of the two ends. *)
LEMMA OtherEnd == \A e : Other(e) \in Ends
  BY DEF Other, Ends

(* the end of a copy, *)
LEMMA DoneType ==
    ASSUME TypeOK, NEW p \in Proc, CopyDone(p)
    PROVE  TypeOK'
  <1>1. PICK woken \in SUBSET Proc, h \in Proc \cup {NULL} : Release(Other(end[p]), woken, h)
    BY WakeOneReleases, OtherEnd DEF CopyDone
  <1>2. Other(end[p]) \in Ends
    BY OtherEnd
  <1> QED
    BY <1>1, <1>2, ReturnType, ReleaseType DEF TypeOK, CopyDone, ring

(* the unlinking of a process that goes, *)
LEMMA DestroyType ==
    ASSUME TypeOK, NEW p \in Proc, destroy_unlink(p)
    PROVE  TypeOK'
  <1>1. CASE waiting_on[p] = NULL \/ freed
    BY <1>1 DEF TypeOK, destroy_unlink, Go, Pc, ring, args
  <1>2. CASE ~ (waiting_on[p] = NULL \/ freed)
    <2>1. waiting_on[p] \in Ends /\ wait_next[p] \in Proc \cup {NULL}
      BY <1>2 DEF TypeOK
    <2>2. head' \in [Ends -> Proc \cup {NULL}]
      <3>1. head' = [head EXCEPT ![waiting_on[p]] =
                       IF head[waiting_on[p]] = p THEN wait_next[p] ELSE head[waiting_on[p]]]
        BY <1>2 DEF destroy_unlink
      <3>2. head \in [Ends -> Proc \cup {NULL}]
        BY DEF TypeOK
      <3> QED
        BY <2>1, <3>1, <3>2
    <2>3. wait_next' \in [Proc -> Proc \cup {NULL}]
      BY <1>2, <2>1 DEF TypeOK, destroy_unlink
    <2>4. waiting_on' \in [Proc -> Ends \cup {NULL}]
      <3>1. waiting_on' = [waiting_on EXCEPT ![p] = NULL] /\ waiting_on \in [Proc -> Ends \cup {NULL}]
        BY <1>2 DEF destroy_unlink, TypeOK
      <3> QED
        BY <3>1
    <2> QED
      BY <1>2, <2>2, <2>3, <2>4 DEF TypeOK, destroy_unlink, Go, Pc, ring, args
  <1> QED
    BY <1>1, <1>2

(* and with them every step. *)
LEMMA TypeStep ==
    ASSUME TypeOK, Placed, [Next]_vars
    PROVE  TypeOK'
  <1> USE SizeFacts
  <1>0. CASE UNCHANGED vars
    BY <1>0 DEF TypeOK, vars, ring, args, queues
  <1> SUFFICES ASSUME Next PROVE TypeOK'
    BY <1>0
  <1> PICK p \in Proc : Step(p)
    BY Steps
  <1>1. CASE Check(p)
    BY <1>1 DEF TypeOK, Check, Go, Pc, ring, queues, args
  <1>2. CASE Sleep(p)
    <2>1. end[p] \in Ends
      BY <1>2 DEF Sleep, At, Placed, InCall, TypeOK
    <2>2. requeued' \in BOOLEAN
      BY <1>2 DEF Sleep, process_wait_on
    <2>3. head' \in [Ends -> Proc \cup {NULL}] /\ wait_next' \in [Proc -> Proc \cup {NULL}]
          /\ waiting_on' \in [Proc -> Ends \cup {NULL}]
          /\ state' \in [Proc -> {"RUNNABLE", "SLEEPING"}]
      BY <1>2, <2>1 DEF Sleep, process_wait_on, TypeOK
    <2> QED
      BY <1>2, <2>2, <2>3 DEF TypeOK, Sleep, Go, Pc, ring, args
  <1>3. CASE Awake(p)
    BY <1>3, ReturnType DEF TypeOK, Awake, Go, Pc, ring, queues, args
  <1>4. CASE pipe_begin(p)
    BY <1>4, BeginType
  <1>5. CASE pipe_read(p)
    BY <1>5, ReadType
  <1>6. CASE pipe_write(p)
    BY <1>6, WriteType
  <1>7. CASE CopyDone(p)
    BY <1>7, DoneType
  <1>8. CASE WouldBlock(p)
    BY <1>8, ReturnType DEF TypeOK, WouldBlock, ring, queues
  <1>9. ASSUME NEW size \in Sizes, NEW e \in Ends, Start(p, e, size) PROVE TypeOK'
    <2>1. left' = [left EXCEPT ![p] = size] /\ left \in [Proc -> Nat] /\ size \in Nat
      BY <1>9 DEF TypeOK, Start
    <2>2. left' \in [Proc -> Nat] /\ \A q \in Proc : \E n \in Sizes : left'[q] <= n
      <3>1. \A q \in Proc : \E n \in Sizes : left[q] <= n
        BY DEF TypeOK
      <3> QED
        BY <2>1, <3>1
    <2>3. pc' \in [Proc -> Pc] /\ end' \in [Proc -> Ends \cup {NULL}]
      BY <1>9 DEF TypeOK, Start, Go, Pc
    <2> QED
      BY <1>9, <2>2, <2>3 DEF TypeOK, Start, ring, queues
  <1>10. ASSUME NEW e \in Ends, fd_close(p, e) PROVE TypeOK'
    BY <1>10 DEF TypeOK, fd_close, Shut, ring, queues, args, life
  <1>16. CASE pipe_close(p)
    <2>1. Release(Other(shut[p]), Queue(Other(shut[p])), NULL) /\ Other(shut[p]) \in Ends
      BY <1>16, OtherEnd DEF pipe_close, wait_queue_wake_all
    <2>2. Queue(Other(shut[p])) \in SUBSET Proc
      BY QueueInProc
    <2>3. shut' \in [Proc -> Shut]
      BY <1>16 DEF pipe_close, TypeOK, Shut
    <2> QED
      BY <1>16, <2>1, <2>2, <2>3, ReleaseType DEF TypeOK, pipe_close, ring, args
  <1>17. CASE pipe_free(p)
    <2>1. shut' \in [Proc -> Shut] /\ freed' \in BOOLEAN /\ stale' \in BOOLEAN
      BY <1>17 DEF pipe_free, TypeOK, Shut
    <2> QED
      BY <1>17, <2>1 DEF TypeOK, pipe_free, ring, queues, args
  <1>18. CASE destroy_unlink(p)
    BY <1>18, DestroyType
  <1>11. ASSUME NEW c \in Proc, fd_copy_on_fork(p, c) PROVE TypeOK'
    BY <1>11 DEF TypeOK, fd_copy_on_fork, Go, Pc, ring, queues, args
  <1>12. CASE process_exit(p)
    BY <1>12 DEF TypeOK, process_exit, Go, Pc, ring, queues, args
  <1>13. CASE process_destroy(p)
    BY <1>13 DEF TypeOK, process_destroy, Go, Pc, ring, queues, args, life
  <1>14. CASE Destroyed(p)
    BY <1>14 DEF TypeOK, Destroyed, Go, Pc, ring, queues, args
  <1>15. ASSUME NEW f \in BOOLEAN, process_wake(p, f) PROVE TypeOK'
    BY <1>15 DEF TypeOK, process_wake, ring, args
  <1> QED
    BY <1>1, <1>2, <1>3, <1>4, <1>5, <1>6, <1>7, <1>8, <1>9, <1>10, <1>11, <1>12, <1>13, <1>14, <1>15, <1>16, <1>17, <1>18 DEF Step

-----------------------------------------------------------------------------
(* Placed, one lemma for each action that moves more than the place of a    *)
(* process.                                                                 *)
LEMMA ReturnPlaced ==
    ASSUME TypeOK, Placed, NEW p \in Proc, Return(p), state[p] = "RUNNABLE",
           UNCHANGED <<open, holds, queues, shut>>
    PROVE  Placed'
  BY DEF Placed, Return, Go, TypeOK, InCall, Copies, queues

(* Placed is kept by the start of a copy, *)
LEMMA BeginPlaced ==
    ASSUME TypeOK, Placed, NEW p \in Proc, pipe_begin(p)
    PROVE  Placed'
  <1>1. CASE Return(p)
    BY <1>1, ReturnPlaced DEF pipe_begin, At
  <1>2. CASE Room(end[p], open) # 0
    <2>0. /\ UNCHANGED <<open, holds, waiting_on, state, shut, end>>
          /\ pc[p] = "go" /\ pc'[p] = "copy" /\ state[p] = "RUNNABLE"
          /\ \A q \in Proc \ {p} : /\ pc'[q] = pc[q] /\ left'[q] = left[q]
                                   /\ reg_count'[q] = reg_count[q]
      BY <1>2 DEF pipe_begin, Go, TypeOK, queues, At
    <2>1. SUFFICES ASSUME Copies(p, "w")'
                   PROVE  reg_count'[p] + left'[p] <= PIPE_BUF_SIZE
      BY <2>0 DEF Placed, InCall, Copies
    <2>2. end[p] = "w"
      BY <1>2, <2>1 DEF Copies, pipe_begin
    <2>3. reg_count'[p] = count /\ left'[p] = Smaller(left[p], Room("w", open))
      BY <1>2, <2>2 DEF pipe_begin, TypeOK
    <2>4. Room("w", open) <= PIPE_BUF_SIZE - count /\ Room("w", open) \in Int
          /\ count \in Int /\ left[p] \in Int
      BY SizeFacts DEF Room, TypeOK, pipe_begin, At, Intact, CountIsRight
    <2> QED
      BY <2>3, <2>4, SizeFacts DEF Smaller
  <1> QED
    BY <1>1, <1>2 DEF pipe_begin

(* a byte written, *)
LEMMA WritePlaced ==
    ASSUME TypeOK, Placed, NEW p \in Proc, pipe_write(p)
    PROVE  Placed'
  <1>1. /\ reg_count[p] \in Nat /\ left[p] \in Nat /\ left[p] > 0
        /\ reg_count[p] + left[p] <= PIPE_BUF_SIZE
    BY SizeFacts DEF pipe_write, Copying, At, Placed, Copies, TypeOK
  <1>2. reg_count[p] + 1 \in 0 .. CountMod - 1
    BY <1>1, SizeFacts
  <1>3. (reg_count[p] + 1) % CountMod = reg_count[p] + 1
    BY <1>2, ModSmall, SizeFacts
  <1>4. reg_count'[p] = reg_count[p] + 1 /\ left'[p] = left[p] - 1
    BY <1>3 DEF pipe_write, Copying, TypeOK
  <1>5. reg_count'[p] + left'[p] <= PIPE_BUF_SIZE
    BY <1>1, <1>4
  <1>6. \A q \in Proc \ {p} : reg_count'[q] = reg_count[q] /\ left'[q] = left[q]
    BY DEF pipe_write, Copying, TypeOK
  <1> QED
    BY <1>5, <1>6 DEF Placed, pipe_write, Copying, InCall, Copies, queues

(* a byte read, *)
LEMMA ReadPlaced ==
    ASSUME TypeOK, Placed, NEW p \in Proc, pipe_read(p)
    PROVE  Placed'
  <1>1. \A q \in Proc : Copies(q, "w") => left'[q] = left[q]
    BY DEF pipe_read, Copying, TypeOK, Copies
  <1> QED
    BY <1>1 DEF Placed, pipe_read, Copying, InCall, Copies, queues

(* the end of a copy, *)
LEMMA DonePlaced ==
    ASSUME TypeOK, Placed, NEW p \in Proc, CopyDone(p)
    PROVE  Placed'
  <1>1. PICK woken \in SUBSET Proc, h \in Proc \cup {NULL} : Release(Other(end[p]), woken, h)
    BY WakeOneReleases, OtherEnd DEF CopyDone
  <1>2. \A q \in Proc : /\ state'[q] = IF q \in woken THEN "RUNNABLE" ELSE state[q]
                        /\ waiting_on'[q] = IF q \in woken THEN NULL ELSE waiting_on[q]
                        /\ shut'[q] = shut[q]
    BY <1>1, ReleaseFields DEF CopyDone
  <1>3. /\ pc'[p] \in {"zombie", "user"} /\ state[p] = "RUNNABLE"
        /\ \A q \in Proc \ {p} : /\ pc'[q] = pc[q] /\ end'[q] = end[q] /\ left'[q] = left[q]
                                 /\ reg_count'[q] = reg_count[q]
    BY DEF CopyDone, Return, Go, TypeOK, At
  <1>4. holds' = holds /\ open' = open
    BY DEF CopyDone
  <1> QED
    BY <1>2, <1>3, <1>4 DEF Placed, InCall, Copies

(* a close, *)
LEMMA ClosePlaced ==
    ASSUME TypeOK, Placed, NEW p \in Proc, NEW e \in Ends, fd_close(p, e)
    PROVE  Placed'
  <1>1. /\ pc[p] \notin InCall /\ pc' = pc /\ end' = end /\ left' = left /\ reg_count' = reg_count
        /\ holds'[p] = holds[p] \ {e} /\ \A q \in Proc \ {p} : holds'[q] = holds[q]
        /\ waiting_on' = waiting_on /\ state' = state
        /\ \A q \in Proc \ {p} : shut'[q] = shut[q]
    BY DEF fd_close, At, InCall, args, queues, TypeOK
  <1>2. CASE \E q \in Proc \ {p} : e \in holds[q]
    BY <1>1, <1>2 DEF Placed, fd_close, Copies
  <1>3. CASE ~ \E q \in Proc \ {p} : e \in holds[q]
    <2>1. open' = open \ {e}
      BY <1>3 DEF fd_close
    <2> QED
      BY <1>1, <1>3, <2>1 DEF Placed, Copies
  <1> QED
    BY <1>2, <1>3

(* the wake-up of the other side, *)
LEMMA TellPlaced ==
    ASSUME TypeOK, Placed, NEW p \in Proc, pipe_close(p)
    PROVE  Placed'
  <1> DEFINE woken == Queue(Other(shut[p]))
  <1>1. Release(Other(shut[p]), woken, NULL)
    BY DEF pipe_close, wait_queue_wake_all
  <1>2. \A q \in Proc : /\ state'[q] = IF q \in woken THEN "RUNNABLE" ELSE state[q]
                        /\ waiting_on'[q] = IF q \in woken THEN NULL ELSE waiting_on[q]
    BY <1>1, ReleaseFields
  <1>3. UNCHANGED <<pc, end, left, reg_count, holds, open>> /\ \A q \in Proc \ {p} : shut'[q] = shut[q]
    BY DEF pipe_close, args, TypeOK
  <1>4. pc[p] \notin InCall
    BY DEF pipe_close, Placed, Ends
  <1> HIDE DEF woken
  <1> QED
    BY <1>2, <1>3, <1>4 DEF Placed, Copies

(* and with them every step. *)
LEMMA PlacedStep ==
    ASSUME TypeOK, Placed, [Next]_vars
    PROVE  Placed'
  <1>0. CASE UNCHANGED vars
    BY <1>0 DEF Placed, vars, ring, args, queues, Copies
  <1> SUFFICES ASSUME Next PROVE Placed'
    BY <1>0
  <1> PICK p \in Proc : Step(p)
    BY Steps
  <1> USE DEF Copies, InCall, Go, At
  <1>1. CASE Check(p)
    BY <1>1 DEF Placed, TypeOK, Check, queues, args
  <1>2. CASE Sleep(p)
    BY <1>2, SizeFacts DEF Placed, TypeOK, Sleep, process_wait_on, args
  <1>3. CASE Awake(p)
    <2>1. CASE fatal[p]
      BY <1>3, <2>1, ReturnPlaced DEF Awake
    <2>2. CASE ~ fatal[p]
      BY <1>3, <2>2 DEF Placed, TypeOK, Awake, queues, args
    <2> QED
      BY <2>1, <2>2
  <1>4. CASE pipe_begin(p)
    BY <1>4, BeginPlaced
  <1>5. CASE pipe_read(p)
    BY <1>5, ReadPlaced
  <1>6. CASE pipe_write(p)
    BY <1>6, WritePlaced
  <1>7. CASE CopyDone(p)
    BY <1>7, DonePlaced
  <1>8. CASE WouldBlock(p)
    BY <1>8, ReturnPlaced DEF WouldBlock
  <1>9. ASSUME NEW size \in Sizes, NEW e \in Ends, Start(p, e, size) PROVE Placed'
    BY <1>9 DEF Placed, TypeOK, Start, queues
  <1>10. ASSUME NEW e \in Ends, fd_close(p, e) PROVE Placed'
    BY <1>10, ClosePlaced
  <1>16. CASE pipe_close(p)
    BY <1>16, TellPlaced
  <1>17. CASE pipe_free(p)
    BY <1>17 DEF Placed, TypeOK, pipe_free, queues, args
  <1>18. CASE destroy_unlink(p)
    BY <1>18 DEF Placed, TypeOK, destroy_unlink, args
  <1>11. ASSUME NEW c \in Proc, fd_copy_on_fork(p, c) PROVE Placed'
    BY <1>11 DEF Placed, TypeOK, fd_copy_on_fork, queues, args
  <1>12. CASE process_exit(p)
    BY <1>12 DEF Placed, TypeOK, process_exit, queues, args
  <1>13. CASE process_destroy(p)
    BY <1>13 DEF Placed, TypeOK, process_destroy, queues, args
  <1>14. CASE Destroyed(p)
    BY <1>14 DEF Placed, TypeOK, Destroyed, queues, args
  <1>15. ASSUME NEW f \in BOOLEAN, process_wake(p, f) PROVE Placed'
    BY <1>15 DEF Placed, TypeOK, process_wake, args
  <1> QED
    BY <1>1, <1>2, <1>3, <1>4, <1>5, <1>6, <1>7, <1>8, <1>9, <1>10, <1>11, <1>12, <1>13, <1>14, <1>15, <1>16, <1>17, <1>18 DEF Step

-----------------------------------------------------------------------------
(* The ring.  A step that copies no byte leaves it as it is, and a process  *)
(* that begins a copy reads the count and the position afresh.              *)
LEMMA RingFrame ==
    ASSUME RingInv, UNCHANGED <<buffer, read_pos, write_pos, count, sent, got>>,
           \A q \in Proc, e \in Ends : Copies(q, e)' =>
              /\ Copies(q, e)
              /\ reg_count'[q] = reg_count[q] /\ reg_pos'[q] = reg_pos[q] /\ left'[q] = left[q]
    PROVE  RingInv'
  <1>1. CountIsRight'
    BY DEF RingInv, CountIsRight, ByteMod
  <1> QED
    BY <1>1 DEF RingInv, Ends, ByteMod

(* A copy that starts finds the ring as it should be. *)
LEMMA BeginRing ==
    ASSUME TypeOK, RingInv, NEW p \in Proc, pipe_begin(p), ~ Return(p)
    PROVE  RingInv'
  <1>1. UNCHANGED <<buffer, read_pos, write_pos, count, sent, got, overlapped>> /\ Room(end[p], open) # 0
    BY DEF pipe_begin
  <1>2. CountIsRight'
    BY <1>1 DEF RingInv, CountIsRight, ByteMod
  <1>3. \A q \in Proc \ {p}, e \in Ends : Copies(q, e)' =>
          /\ Copies(q, e)
          /\ reg_count'[q] = reg_count[q] /\ reg_pos'[q] = reg_pos[q] /\ left'[q] = left[q]
    BY <1>1 DEF pipe_begin, Copies, Go, TypeOK
  <1>4. Copies(p, "w")' => reg_count'[p] = count /\ reg_pos'[p] = write_pos
    BY <1>1 DEF pipe_begin, Copies, TypeOK
  <1>5. Copies(p, "r")' => left'[p] <= count
    <2> SUFFICES ASSUME Copies(p, "r")' PROVE left'[p] <= count
      OBVIOUS
    <2>1. end[p] = "r" /\ left'[p] = Smaller(left[p], Room("r", open))
      BY <1>1 DEF pipe_begin, Copies, TypeOK
    <2>2. Room("r", open) = count /\ count \in Int /\ left[p] \in Int
      BY SizeFacts DEF Room, TypeOK
    <2> QED
      BY <2>1, <2>2 DEF Smaller
  <1>6. \A q \in Proc : /\ Copies(q, "w")' => reg_count'[q] = count' /\ reg_pos'[q] = write_pos'
                        /\ Copies(q, "r")' => left'[q] <= count'
    BY <1>1, <1>3, <1>4, <1>5 DEF RingInv, ring, Ends
  <1> QED
    BY <1>1, <1>2, <1>6 DEF RingInv, ring, ByteMod

(* pipe_read takes the oldest byte and moves the ring on. *)
LEMMA ReadRing ==
    ASSUME TypeOK, RingInv, NEW p \in Proc, pipe_read(p), ~ overlapped'
    PROVE  RingInv'
  <1> DEFINE S == PIPE_BUF_SIZE
  <1>1. /\ S \in Nat /\ S > 0 /\ ByteMod \in Nat /\ ByteMod > 0 /\ ByteMod = 2 * S
        /\ CountMod \in Nat /\ CountMod > S
    BY SizeFacts
  <1>2. /\ read_pos \in 0 .. S - 1 /\ got \in 0 .. ByteMod - 1 /\ count \in 0 .. S /\ left[p] \in Nat
    BY <1>1 DEF TypeOK, RingInv, CountIsRight, Byte
  <1>3. count >= 1 /\ left[p] <= count /\ left[p] > 0
    BY <1>2 DEF pipe_read, Copying, At, RingInv, Copies
  <1>4. count' = count - 1
    <2>1. count - 1 \in 0 .. CountMod - 1
      BY <1>1, <1>2, <1>3
    <2> QED
      BY <1>1, <2>1, ModSmall DEF pipe_read
  <1>5. read_pos' = (read_pos + 1) % S /\ got' = (got + 1) % ByteMod
        /\ buffer' = buffer /\ write_pos' = write_pos /\ sent' = sent
    BY DEF pipe_read, Successor
  <1>6. \A i \in 0 .. S - 1 : (read_pos' + i) % S = (read_pos + (i + 1)) % S
    BY <1>1, <1>2, <1>5, ModStep
  <1>7. \A i \in 0 .. ByteMod - 1 : (got' + i) % ByteMod = (got + (i + 1)) % ByteMod
    BY <1>1, <1>2, <1>5, ModStep
  <1>8. count - 1 \in 0 .. S - 1 /\ count - 1 \in 0 .. ByteMod - 1 /\ count - 1 + 1 = count
    BY <1>1, <1>2, <1>3
  <1>9. sent' = (got' + count') % ByteMod
    BY <1>4, <1>5, <1>7, <1>8 DEF RingInv, CountIsRight
  <1>10. write_pos' = (read_pos' + count') % S
    BY <1>4, <1>5, <1>6, <1>8 DEF RingInv
  <1>11. ASSUME NEW i \in 0 .. count' - 1
         PROVE  buffer'[(read_pos' + i) % S] = (got' + i) % ByteMod
    <2>1. i \in 0 .. S - 1 /\ i \in 0 .. ByteMod - 1 /\ i + 1 \in 0 .. count - 1
      BY <1>1, <1>2, <1>4
    <2>2. buffer[(read_pos + (i + 1)) % S] = (got + (i + 1)) % ByteMod
      BY <2>1 DEF RingInv
    <2> QED
      BY <1>5, <1>6, <1>7, <2>1, <2>2
  <1>12. \A q \in Proc, e \in Ends : Copies(q, e)' => q = p /\ e = "r"
    BY DEF pipe_read, Copying, CopyingToo, Copies, Ends
  <1>13. left'[p] = left[p] - 1
    BY DEF pipe_read, Copying, TypeOK
  <1>14. left'[p] <= count'
    BY <1>2, <1>3, <1>4, <1>13
  <1>15. CountIsRight'
    BY <1>1, <1>2, <1>4, <1>9 DEF CountIsRight, ByteMod
  <1> QED
    BY <1>10, <1>11, <1>12, <1>14, <1>15 DEF RingInv, Ends, ByteMod

(* pipe_write adds one byte behind the others, from registers that are      *)
(* still right.                                                             *)
LEMMA WriteRing ==
    ASSUME TypeOK, Placed, RingInv, NEW p \in Proc, pipe_write(p), ~ overlapped'
    PROVE  RingInv'
  <1> DEFINE S == PIPE_BUF_SIZE
  <1>1. /\ S \in Nat /\ S > 0 /\ ByteMod \in Nat /\ ByteMod > 0 /\ ByteMod = 2 * S
        /\ CountMod \in Nat /\ CountMod > S
    BY SizeFacts
  <1>0. buffer \in [0 .. S - 1 -> Byte]
    BY DEF TypeOK
  <1>2. /\ read_pos \in 0 .. S - 1 /\ got \in 0 .. ByteMod - 1 /\ count \in 0 .. S /\ left[p] \in Nat
    BY <1>1 DEF TypeOK, RingInv, CountIsRight, Byte
  <1>3. /\ reg_count[p] = count /\ reg_pos[p] = write_pos
        /\ left[p] > 0 /\ reg_count[p] + left[p] <= S
    BY DEF pipe_write, Copying, At, RingInv, Copies, Placed
  <1>4. count \in 0 .. S - 1 /\ count \in 0 .. ByteMod - 1 /\ count + 1 \in 0 .. CountMod - 1
    BY <1>1, <1>2, <1>3
  <1>5. count' = count + 1 /\ reg_count'[p] = count + 1
    <2>1. (count + 1) % CountMod = count + 1
      BY <1>1, <1>4, ModSmall
    <2> QED
      BY <1>3, <2>1 DEF pipe_write, TypeOK
  <1>6. /\ sent = (got + count) % ByteMod /\ write_pos = (read_pos + count) % S
        /\ \A i \in 0 .. count - 1 : buffer[(read_pos + i) % S] = (got + i) % ByteMod
    BY DEF RingInv, CountIsRight
  <1>7. /\ read_pos' = read_pos /\ got' = got /\ sent' = (sent + 1) % ByteMod
        /\ write_pos' = (write_pos + 1) % S /\ buffer' = [buffer EXCEPT ![write_pos] = sent]
        /\ reg_pos'[p] = write_pos'
    BY <1>3 DEF pipe_write, Successor, TypeOK
  <1>8. sent' = (got + (count + 1)) % ByteMod
    BY <1>1, <1>2, <1>4, <1>6, <1>7, ModStep
  <1>9. write_pos' = (read_pos + (count + 1)) % S
    BY <1>1, <1>2, <1>4, <1>6, <1>7, ModStep
  <1>10. ASSUME NEW i \in 0 .. count' - 1
         PROVE  buffer'[(read_pos' + i) % S] = (got' + i) % ByteMod
    <2>1. i \in 0 .. S - 1 /\ (i = count \/ i \in 0 .. count - 1) /\ read_pos + i \in Int
      BY <1>1, <1>2, <1>4, <1>5
    <2>2. (read_pos + i) % S \in 0 .. S - 1
      BY <1>1, <2>1, ModRange
    <2>3. CASE i = count
      BY <1>0, <1>2, <1>6, <1>7, <2>2, <2>3
    <2>4. CASE i \in 0 .. count - 1
      <3>1. i # count
        BY <1>2, <2>4
      <3>2. (read_pos + i) % S # write_pos
        BY <1>1, <1>2, <1>4, <1>6, <2>1, <3>1, ModApart
      <3> QED
        BY <1>0, <1>2, <1>6, <1>7, <2>2, <2>4, <3>2
    <2> QED
      BY <2>1, <2>3, <2>4
  <1>11. \A q \in Proc : Copies(q, "w")' => q = p
    BY DEF pipe_write, Copying, CopyingToo, Copies
  <1>12. ASSUME NEW q \in Proc, Copies(q, "r")'
         PROVE  left'[q] <= count'
    <2>1. Copies(q, "r") /\ q # p
      BY <1>12 DEF pipe_write, Copying, Copies
    <2>2. left'[q] = left[q] /\ left[q] <= count /\ left[q] \in Nat
      BY <2>1 DEF pipe_write, Copying, TypeOK, RingInv
    <2> QED
      BY <1>2, <1>5, <2>2
  <1>13. CountIsRight'
    BY <1>1, <1>4, <1>5, <1>7, <1>8 DEF CountIsRight, ByteMod
  <1> QED
    BY <1>5, <1>7, <1>9, <1>10, <1>11, <1>12, <1>13 DEF RingInv, ByteMod

(* The ring is right after every step, unless two copies overlapped. *)
LEMMA RingStep ==
    ASSUME TypeOK, Placed, overlapped \/ RingInv, [Next]_vars
    PROVE  overlapped' \/ RingInv'
  <1>0. CASE UNCHANGED vars
    BY <1>0, RingFrame DEF vars, ring, args, Copies
  <1>a. CASE overlapped /\ Next
    <2> PICK p \in Proc : Step(p)
      BY <1>a, Steps
    <2>1. overlapped' = overlapped \/ overlapped' = TRUE
      BY <1>a DEF Step, Check, Sleep, Awake, pipe_begin, pipe_read, pipe_write, CopyDone, WouldBlock, Start,
                  fd_close, pipe_close, pipe_free, fd_copy_on_fork, process_exit, process_destroy, destroy_unlink, Destroyed, process_wake, ring
    <2> QED
      BY <1>a, <2>1
  <1> SUFFICES ASSUME Next, RingInv, ~ overlapped' PROVE RingInv'
    BY <1>0, <1>a
  <1> PICK p \in Proc : Step(p)
    BY Steps
  <1> USE DEF Copies, Go, At
  <1>r. ASSUME Return(p), UNCHANGED <<buffer, read_pos, write_pos, count, sent, got, overlapped>> PROVE RingInv'
    BY <1>r, RingFrame DEF Return, TypeOK
  <1>1. CASE Check(p)
    BY <1>1, RingFrame DEF Check, TypeOK, args
  <1>2. CASE Sleep(p)
    BY <1>2, RingFrame DEF Sleep, ring, TypeOK, args
  <1>3. CASE Awake(p)
    BY <1>3, <1>r, RingFrame DEF Awake, ring, TypeOK, args
  <1>4. CASE pipe_begin(p)
    BY <1>4, <1>r, BeginRing DEF pipe_begin
  <1>5. CASE pipe_read(p)
    BY <1>5, ReadRing
  <1>6. CASE pipe_write(p)
    BY <1>6, WriteRing
  <1>7. CASE CopyDone(p)
    BY <1>7, <1>r DEF CopyDone, ring
  <1>8. CASE WouldBlock(p)
    BY <1>8, <1>r DEF WouldBlock, ring
  <1>9. ASSUME NEW size \in Sizes, NEW e \in Ends, Start(p, e, size) PROVE RingInv'
    BY <1>9, RingFrame DEF Start, ring, TypeOK
  <1>10. ASSUME NEW e \in Ends, fd_close(p, e) PROVE RingInv'
    BY <1>10, RingFrame DEF fd_close, ring, args
  <1>16. CASE pipe_close(p)
    BY <1>16, RingFrame DEF pipe_close, ring, args
  <1>17. CASE pipe_free(p)
    BY <1>17, RingFrame DEF pipe_free, ring, args
  <1>18. CASE destroy_unlink(p)
    BY <1>18, RingFrame DEF destroy_unlink, ring, TypeOK, args
  <1>11. ASSUME NEW c \in Proc, fd_copy_on_fork(p, c) PROVE RingInv'
    BY <1>11, RingFrame DEF fd_copy_on_fork, ring, TypeOK, args
  <1>12. CASE process_exit(p)
    BY <1>12, RingFrame DEF process_exit, ring, TypeOK, args
  <1>13. CASE process_destroy(p)
    BY <1>13, RingFrame DEF process_destroy, ring, TypeOK, args
  <1>14. CASE Destroyed(p)
    BY <1>14, RingFrame DEF Destroyed, ring, TypeOK, args
  <1>15. ASSUME NEW f \in BOOLEAN, process_wake(p, f) PROVE RingInv'
    BY <1>15, RingFrame DEF process_wake, ring, args
  <1> QED
    BY <1>1, <1>2, <1>3, <1>4, <1>5, <1>6, <1>7, <1>8, <1>9, <1>10, <1>11, <1>12, <1>13, <1>14, <1>15, <1>16, <1>17, <1>18 DEF Step

-----------------------------------------------------------------------------
(* The wait queues. *)
LEMMA QueueList ==
    ASSUME TypeOK, NEW e \in Ends
    PROVE  IsList(Proc, NULL, head[e], wait_next)
  BY SizeFacts DEF TypeOK, IsList

(* A process that another one's wait_next points to waits on the same end. *)
LEMMA PointedWaits ==
    ASSUME TypeOK, QueueInv, NEW p \in Proc, NEW r \in Proc, wait_next[r] = p
    PROVE  waiting_on[p] \in Ends /\ waiting_on[r] = waiting_on[p]
  <1>1. waiting_on[r] \in Ends
    BY SizeFacts DEF QueueInv, TypeOK
  <1>2. r \in Queue(waiting_on[r])
    BY <1>1 DEF QueueInv
  <1>3. p \in Queue(waiting_on[r])
    BY <1>1, <1>2, QueueList, ReachClosed, SizeFacts DEF Queue
  <1> QED
    BY <1>1, <1>3 DEF QueueInv

(* Queues stay sound when no link changes. *)
LEMMA QueueFrame ==
    ASSUME QueueInv, UNCHANGED <<head, wait_next, waiting_on>>
    PROVE  QueueInv'
  BY DEF QueueInv, Queue

(* process_wait_on puts a process that was in no queue in front of one. *)
LEMMA SleepQueue ==
    ASSUME TypeOK, Placed, QueueInv, NEW p \in Proc, Sleep(p), ~ requeued'
    PROVE  QueueInv'
  <1>1. PICK e \in Ends : e = end[p]
    BY DEF Sleep, At, Placed, InCall, TypeOK
  <1>2. \A f \in Ends : p \notin Queue(f)
    BY DEF Sleep, process_wait_on
  <1>3. waiting_on[p] = NULL
    BY <1>2 DEF QueueInv, TypeOK
  <1>4. \A r \in Proc : wait_next[r] # p
    BY <1>3, PointedWaits, SizeFacts
  <1>5. /\ wait_next' = [wait_next EXCEPT ![p] = head[e]] /\ head' = [head EXCEPT ![e] = p]
        /\ waiting_on' = [waiting_on EXCEPT ![p] = e]
    BY <1>1 DEF Sleep, process_wait_on
  <1>6. IsList(Proc, NULL, head[e], wait_next)
    BY <1>1, QueueList
  <1>7. Queue(e)' = Queue(e) \cup {p}
    <2>1. Reach(Proc, NULL, p, [wait_next EXCEPT ![p] = head[e]])
            = Reach(Proc, NULL, head[e], wait_next) \cup {p}
      <3>1. p \notin Reach(Proc, NULL, head[e], wait_next)
        BY <1>2 DEF Queue
      <3> QED
        BY ONLY <1>6, <3>1, p \in Proc, ReachPush
    <2>2. head'[e] = p
      BY <1>1, <1>5 DEF TypeOK
    <2> QED
      BY <1>5, <2>1, <2>2 DEF Queue
  <1>8. ASSUME NEW f \in Ends, f # e PROVE Queue(f)' = Queue(f)
    <2>1. head'[f] = head[f] /\ wait_next \in [Proc -> Proc \cup {NULL}]
      BY <1>5, <1>8 DEF TypeOK
    <2>2. \A m \in Queue(f) : wait_next'[m] = wait_next[m]
      BY <1>2, <1>5, <2>1, QueueInProc
    <2>3. IsList(Proc, NULL, head[f], wait_next) /\ IsList(Proc, NULL, head[f], wait_next')
      <3>1. head[e] \in Proc \cup {NULL}
        BY <1>1 DEF TypeOK
      <3>2. wait_next' \in [Proc -> Proc \cup {NULL}]
        BY <1>5, <2>1, <3>1
      <3> QED
        BY <3>2, QueueList DEF IsList
    <2> QED
      BY <2>1, <2>2, <2>3, ReachFrame DEF Queue
  <1>9. Acyclic(Proc, NULL, wait_next')
    <2>1. p \notin Reach(Proc, NULL, head[e], wait_next) /\ Acyclic(Proc, NULL, wait_next)
      BY <1>2 DEF Queue, QueueInv
    <2>2. Acyclic(Proc, NULL, [wait_next EXCEPT ![p] = head[e]])
      BY ONLY <1>4, <1>6, <2>1, p \in Proc, AcyclicPush
    <2> QED
      BY <1>5, <2>2
  <1>10. \A r \in Proc : wait_next'[r] # NULL => waiting_on'[r] # NULL
    <2>1. /\ \A r \in Proc : wait_next[r] # NULL => waiting_on[r] # NULL
          /\ wait_next \in [Proc -> Proc \cup {NULL}] /\ waiting_on \in [Proc -> Ends \cup {NULL}]
      BY DEF QueueInv, TypeOK
    <2> QED
      BY <1>1, <1>5, <2>1, SizeFacts
  <1>11. \A f \in Ends, r \in Proc : r \in Queue(f)' <=> waiting_on'[r] = f
    <2>1. \A f \in Ends, r \in Proc : r \in Queue(f) <=> waiting_on[r] = f
      BY DEF QueueInv
    <2>2. \A r \in Proc : waiting_on'[r] = IF r = p THEN e ELSE waiting_on[r]
      BY <1>5 DEF TypeOK
    <2> TAKE f \in Ends, r \in Proc
    <2>3. CASE f = e
      BY <1>7, <2>1, <2>2, <2>3
    <2>4. CASE f # e
      BY <1>2, <1>8, <2>1, <2>2, <2>4
    <2> QED
      BY <2>3, <2>4
  <1> QED
    BY <1>9, <1>10, <1>11 DEF QueueInv

(* Some processes leave a queue, of which h heads the rest. *)
LEMMA ReleaseQueue ==
    ASSUME TypeOK, QueueInv, NEW e \in Ends, NEW woken \in SUBSET Proc, NEW h \in Proc \cup {NULL},
           Release(e, woken, h), woken \subseteq Queue(e),
           Reach(Proc, NULL, h, wait_next) = Queue(e) \ woken
    PROVE  QueueInv'
  <1>1. /\ wait_next \in [Proc -> Proc \cup {NULL}] /\ wait_next' \in [Proc -> Proc \cup {NULL}]
        /\ head \in [Ends -> Proc \cup {NULL}]
    BY ReleaseType DEF TypeOK
  <1>2. /\ head' = [head EXCEPT ![e] = h]
        /\ \A q \in Proc : /\ wait_next'[q] = IF q \in woken THEN NULL ELSE wait_next[q]
                           /\ waiting_on'[q] = IF q \in woken THEN NULL ELSE waiting_on[q]
    BY ReleaseFields
  <1>3. \A f \in Ends, r \in Proc : r \in Queue(f) <=> waiting_on[r] = f
    BY DEF QueueInv
  <1>4. Queue(e)' = Queue(e) \ woken
    <2>1. \A m \in Reach(Proc, NULL, h, wait_next) : wait_next'[m] = wait_next[m]
      BY <1>2, QueueInProc
    <2>2. IsList(Proc, NULL, h, wait_next) /\ IsList(Proc, NULL, h, wait_next')
      BY <1>1, SizeFacts DEF IsList
    <2>3. Reach(Proc, NULL, h, wait_next') = Queue(e) \ woken
      BY <2>1, <2>2, ReachFrame
    <2> QED
      BY <1>1, <1>2, <2>3 DEF Queue
  <1>5. ASSUME NEW f \in Ends, f # e PROVE Queue(f)' = Queue(f)
    <2>1. head'[f] = head[f]
      BY <1>1, <1>2, <1>5
    <2>2. \A m \in Queue(f) : wait_next'[m] = wait_next[m]
      <3>1. \A m \in Queue(f) : m \in Proc /\ m \notin woken
        BY <1>3, <1>5, QueueInProc
      <3> QED
        BY <1>2, <3>1
    <2>3. IsList(Proc, NULL, head[f], wait_next) /\ IsList(Proc, NULL, head[f], wait_next')
      BY <1>1, SizeFacts DEF IsList
    <2> QED
      BY <2>1, <2>2, <2>3, ReachFrame DEF Queue
  <1>6. Acyclic(Proc, NULL, wait_next')
    <2>1. \A m \in Proc : wait_next'[m] \in {wait_next[m], NULL}
      BY <1>2
    <2> QED
      BY <1>1, <2>1, AcyclicCut, SizeFacts DEF QueueInv
  <1>7. \A r \in Proc : wait_next'[r] # NULL => waiting_on'[r] # NULL
    BY <1>2 DEF QueueInv
  <1>8. \A f \in Ends, r \in Proc : r \in Queue(f)' <=> waiting_on'[r] = f
    <2> TAKE f \in Ends, r \in Proc
    <2>1. CASE f = e
      BY <1>2, <1>3, <1>4, <2>1, SizeFacts
    <2>2. CASE f # e
      BY <1>2, <1>3, <1>5, <2>2, SizeFacts
    <2> QED
      BY <2>1, <2>2
  <1> QED
    BY <1>6, <1>7, <1>8 DEF QueueInv

(* wait_queue_wake_one takes the first process out. *)
LEMMA WakeOneQueue ==
    ASSUME TypeOK, QueueInv, NEW e \in Ends, wait_queue_wake_one(e)
    PROVE  QueueInv'
  <1>1. CASE head[e] = NULL
    <2>1. Queue(e) = {} /\ Reach(Proc, NULL, NULL, wait_next) = {}
      BY <1>1, ReachEmpty DEF Queue
    <2>2. Release(e, {}, NULL)
      BY <1>1 DEF wait_queue_wake_one
    <2> QED
      BY <2>1, <2>2, ReleaseQueue
  <1>2. CASE head[e] # NULL
    <2>1. PICK x \in Proc : x = head[e]
      BY <1>2 DEF TypeOK
    <2>2. Release(e, {x}, wait_next[x])
      BY <1>2, <2>1 DEF wait_queue_wake_one
    <2>3. wait_next[x] \in Proc \cup {NULL} /\ IsList(Proc, NULL, x, wait_next)
      BY <2>1, SizeFacts DEF TypeOK, IsList
    <2>4. Queue(e) = {x} \cup Reach(Proc, NULL, wait_next[x], wait_next)
      BY <2>1, <2>3, ReachUnfold DEF Queue
    <2>5. x \notin Reach(Proc, NULL, wait_next[x], wait_next)
      BY DEF QueueInv, Acyclic
    <2>6. Reach(Proc, NULL, wait_next[x], wait_next) = Queue(e) \ {x} /\ {x} \subseteq Queue(e)
      BY <2>4, <2>5
    <2>7. {x} \in SUBSET Proc
      OBVIOUS
    <2> QED
      BY <2>2, <2>3, <2>6, <2>7, ReleaseQueue
  <1> QED
    BY <1>1, <1>2

(* wait_queue_wake_all empties the queue. *)
LEMMA WakeAllQueue ==
    ASSUME TypeOK, QueueInv, NEW e \in Ends, wait_queue_wake_all(e)
    PROVE  QueueInv'
  <1>1. Release(e, Queue(e), NULL) /\ Queue(e) \in SUBSET Proc
    BY QueueInProc DEF wait_queue_wake_all
  <1>2. Reach(Proc, NULL, NULL, wait_next) = Queue(e) \ Queue(e)
    BY ReachEmpty
  <1> QED
    BY <1>1, <1>2, ReleaseQueue

(* process_destroy takes the process out of the queue it is linked in. *)
LEMMA DestroyQueue ==
    ASSUME TypeOK, QueueInv, NEW p \in Proc, destroy_unlink(p)
    PROVE  QueueInv'
  <1>1. CASE waiting_on[p] = NULL \/ freed
    BY <1>1, QueueFrame DEF destroy_unlink
  <1>2. CASE ~ (waiting_on[p] = NULL \/ freed)
    <2>1. PICK q \in Ends : q = waiting_on[p]
      BY <1>2 DEF TypeOK
    <2>2. head' = [head EXCEPT ![q] = IF head[q] = p THEN wait_next[p] ELSE head[q]]
      BY <1>2, <2>1 DEF destroy_unlink
    <2>3. waiting_on' = [waiting_on EXCEPT ![p] = NULL]
      BY <1>2, <2>1 DEF destroy_unlink
    <2>4. wait_next' = [r \in Proc |->
                   CASE r = p -> NULL
                     [] r # p /\ r \in Queue(q) /\ wait_next[r] = p -> wait_next[p]
                     [] OTHER -> wait_next[r]]
      BY <1>2, <2>1 DEF destroy_unlink
    <2>5. \A f \in Ends, r \in Proc : r \in Queue(f) <=> waiting_on[r] = f
      BY DEF QueueInv
    <2>6. \A r \in Proc : wait_next[r] = p => r \in Queue(q)
      BY <2>1, <2>5, PointedWaits
    <2>7. wait_next' = Bypass(Proc, NULL, p, wait_next)
      BY <2>4, <2>6 DEF Bypass
    <2>8. head \in [Ends -> Proc \cup {NULL}] /\ wait_next \in [Proc -> Proc \cup {NULL}]
          /\ waiting_on \in [Proc -> Ends \cup {NULL}]
      BY DEF TypeOK
    <2>9. ASSUME NEW f \in Ends PROVE Queue(f)' = Queue(f) \ {p}
      <3>1. Reach(Proc, NULL, IF head[f] = p THEN wait_next[p] ELSE head[f], wait_next') = Queue(f) \ {p}
        BY <2>7, QueueList, ReachBypass DEF QueueInv, Queue
      <3>2. head[f] = p => f = q
        <4>1. head[f] = p => p \in Queue(f)
          BY QueueList, ReachClosed, SizeFacts DEF Queue
        <4> QED
          BY <2>1, <2>5, <4>1
      <3>3. head'[f] = IF head[f] = p THEN wait_next[p] ELSE head[f]
        BY <2>2, <2>8, <3>2
      <3> QED
        BY <3>1, <3>3 DEF Queue
    <2>10. \A f \in Ends, r \in Proc : r \in Queue(f)' <=> waiting_on'[r] = f
      BY <2>3, <2>5, <2>8, <2>9, SizeFacts
    <2>11. Acyclic(Proc, NULL, wait_next')
      BY <2>7, <2>8, AcyclicBypass, SizeFacts DEF QueueInv
    <2>12. \A r \in Proc : wait_next'[r] # NULL => waiting_on'[r] # NULL
      <3>1. \A r \in Proc : wait_next'[r] # NULL => r # p /\ wait_next[r] # NULL
        BY <2>7, SizeFacts DEF Bypass
      <3> QED
        BY <2>3, <2>8, <3>1 DEF QueueInv
    <2> QED
      BY <2>10, <2>11, <2>12 DEF QueueInv
  <1> QED
    BY <1>1, <1>2

(* The queues are sound after every step, unless a process was linked       *)
(* twice.                                                                   *)
LEMMA QueueStep ==
    ASSUME TypeOK, Placed, requeued \/ QueueInv, [Next]_vars
    PROVE  requeued' \/ QueueInv'
  <1>0. CASE UNCHANGED vars
    BY <1>0, QueueFrame DEF vars, queues
  <1> SUFFICES ASSUME Next PROVE requeued' \/ QueueInv'
    BY <1>0
  <1> PICK p \in Proc : Step(p)
    BY Steps
  <1>f. ASSUME UNCHANGED <<head, wait_next, waiting_on, requeued>> PROVE requeued' \/ QueueInv'
    BY <1>f, QueueFrame
  <1>1. CASE Sleep(p)
    <2>1. requeued => requeued'
      BY <1>1 DEF Sleep, process_wait_on
    <2> QED
      BY <1>1, <2>1, SleepQueue
  <1>2. CASE CopyDone(p)
    BY <1>2, WakeOneQueue, OtherEnd DEF CopyDone
  <1>3. CASE pipe_close(p)
    BY <1>3, WakeAllQueue, OtherEnd DEF pipe_close
  <1>4. CASE destroy_unlink(p)
    <2>1. requeued' = requeued
      BY <1>4 DEF destroy_unlink
    <2> QED
      BY <1>4, <2>1, DestroyQueue
  <1>5. CASE Check(p) \/ Awake(p) \/ pipe_begin(p) \/ pipe_read(p) \/ pipe_write(p) \/ WouldBlock(p)
             \/ process_exit(p) \/ process_destroy(p) \/ pipe_free(p) \/ Destroyed(p)
    BY <1>5, <1>f DEF process_destroy, pipe_free, Check, Awake, pipe_begin, pipe_read, pipe_write, Copying, WouldBlock, process_exit, Destroyed,
                      queues
  <1>6. ASSUME NEW size \in Sizes, NEW e \in Ends, Start(p, e, size) PROVE requeued' \/ QueueInv'
    BY <1>6, <1>f DEF Start, queues
  <1>7. ASSUME NEW c \in Proc, fd_copy_on_fork(p, c) PROVE requeued' \/ QueueInv'
    BY <1>7, <1>f DEF fd_copy_on_fork, queues
  <1>8. ASSUME NEW f \in BOOLEAN, process_wake(p, f) PROVE requeued' \/ QueueInv'
    BY <1>8, <1>f DEF process_wake
  <1>9. ASSUME NEW e \in Ends, fd_close(p, e) PROVE requeued' \/ QueueInv'
    BY <1>9, <1>f DEF fd_close, queues
  <1> QED
    BY <1>1, <1>2, <1>3, <1>4, <1>5, <1>6, <1>7, <1>8, <1>9 DEF Step

-----------------------------------------------------------------------------
(* A reader between its check and its copy: the bytes are there, or another *)
(* reader has taken them.                                                   *)
LEMMA ReadyFrame ==
    ASSUME ReadyInv, count' > 0 \/ count' = count, open' \subseteq open,
           \A q \in Proc : pc'[q] = "go" /\ end'[q] = "r" =>
                             pc[q] = "go" /\ end[q] = "r" /\ (robbed[q] => robbed'[q])
    PROVE  ReadyInv'
  BY DEF ReadyInv

(* A reader past its check finds bytes, or the end closed, or was robbed,   *)
(* after every step.                                                        *)
LEMMA ReadyStep ==
    ASSUME TypeOK, Placed, ReadyInv, [Next]_vars
    PROVE  ReadyInv'
  <1>0. CASE UNCHANGED vars
    BY <1>0 DEF ReadyInv, vars, ring
  <1> SUFFICES ASSUME Next PROVE ReadyInv'
    BY <1>0
  <1> PICK p \in Proc : Step(p)
    BY Steps
  <1> USE DEF Go, At
  <1>r. ASSUME Return(p), count' = count, open' = open,
               \A q \in Proc \ {p} : robbed'[q] = robbed[q]
        PROVE  ReadyInv'
    BY <1>r, ReadyFrame DEF Return, TypeOK
  <1>1. CASE Check(p)
    <2>1. \A q \in Proc \ {p} : pc'[q] = pc[q] /\ end'[q] = end[q] /\ robbed'[q] = robbed[q]
      BY <1>1 DEF Check, TypeOK
    <2>2. pc'[p] = "go" /\ end'[p] = "r" => count > 0 \/ "w" \notin open
      BY <1>1 DEF Check, CanGo, CanRead, TypeOK
    <2>3. count' = count /\ open' = open
      BY <1>1 DEF Check
    <2> QED
      BY <2>1, <2>2, <2>3 DEF ReadyInv
  <1>2. CASE Sleep(p)
    BY <1>2, ReadyFrame DEF Sleep, TypeOK, ring
  <1>3. CASE Awake(p)
    <2>1. CASE fatal[p]
      BY <1>3, <2>1, <1>r DEF Awake, ring
    <2>2. CASE ~ fatal[p]
      BY <1>3, <2>2, ReadyFrame DEF Awake, TypeOK, ring
    <2> QED
      BY <2>1, <2>2
  <1>4. CASE pipe_begin(p)
    <2>1. CASE Room(end[p], open) = 0
      BY <1>4, <2>1, <1>r DEF pipe_begin, TypeOK
    <2>2. CASE Room(end[p], open) # 0
      BY <1>4, <2>2, ReadyFrame DEF pipe_begin, TypeOK, ring
    <2> QED
      BY <2>1, <2>2
  <1>5. CASE pipe_read(p)
    <2>1. pc' = pc /\ end' = end /\ pc[p] = "copy"
      BY <1>5 DEF pipe_read, Copying
    <2>2. \A q \in Proc : pc[q] = "go" /\ end[q] = "r" => robbed'[q]
      BY <1>5, <2>1 DEF pipe_read
    <2> QED
      BY <2>1, <2>2 DEF ReadyInv
  <1>6. CASE pipe_write(p)
    <2>1. reg_count[p] \in Nat /\ reg_count[p] + 1 \in 0 .. CountMod - 1
      <3>1. /\ reg_count[p] \in Nat /\ left[p] \in Nat /\ left[p] > 0
            /\ reg_count[p] + left[p] <= PIPE_BUF_SIZE
        BY <1>6, SizeFacts DEF pipe_write, Copying, Placed, Copies, TypeOK
      <3> QED
        BY <3>1, SizeFacts
    <2>2. count' = reg_count[p] + 1
      BY <1>6, <2>1, ModSmall, SizeFacts DEF pipe_write
    <2>3. count' > 0
      BY <2>1, <2>2
    <2> QED
      BY <1>6, <2>3, ReadyFrame DEF pipe_write, Copying
  <1>7. CASE CopyDone(p)
    BY <1>7, <1>r DEF CopyDone, ring
  <1>8. CASE WouldBlock(p)
    BY <1>8, <1>r DEF WouldBlock, ring
  <1>9. ASSUME NEW size \in Sizes, NEW e \in Ends, Start(p, e, size) PROVE ReadyInv'
    BY <1>9, ReadyFrame DEF Start, TypeOK, ring
  <1>10. ASSUME NEW e \in Ends, fd_close(p, e) PROVE ReadyInv'
    <2>1. open' \subseteq open
      BY <1>10 DEF fd_close
    <2> QED
      BY <1>10, <2>1, ReadyFrame DEF fd_close, ring
  <1>16. CASE pipe_close(p)
    BY <1>16, ReadyFrame DEF pipe_close, ring
  <1>17. CASE pipe_free(p)
    BY <1>17, ReadyFrame DEF pipe_free, ring
  <1>18. CASE destroy_unlink(p)
    BY <1>18, ReadyFrame DEF destroy_unlink, TypeOK, ring
  <1>11. ASSUME NEW c \in Proc, fd_copy_on_fork(p, c) PROVE ReadyInv'
    BY <1>11, ReadyFrame DEF fd_copy_on_fork, TypeOK, ring
  <1>12. CASE process_exit(p)
    BY <1>12, ReadyFrame DEF process_exit, TypeOK, ring
  <1>13. CASE process_destroy(p)
    BY <1>13, ReadyFrame DEF process_destroy, TypeOK, ring
  <1>14. CASE Destroyed(p)
    BY <1>14, ReadyFrame DEF Destroyed, TypeOK, ring
  <1>15. ASSUME NEW f \in BOOLEAN, process_wake(p, f) PROVE ReadyInv'
    BY <1>15, ReadyFrame DEF process_wake, TypeOK, ring
  <1> QED
    BY <1>1, <1>2, <1>3, <1>4, <1>5, <1>6, <1>7, <1>8, <1>9, <1>10, <1>11, <1>12, <1>13, <1>14, <1>15, <1>16, <1>17, <1>18 DEF Step

-----------------------------------------------------------------------------
(* A process that waits on a ready pipe. *)
LEMMA WakeFrame ==
    ASSUME WakeInv,
           \A q \in Proc, e \in Ends : Waits(q, e)' /\ CanGo(e, count', open') =>
              Waits(q, e) /\ CanGo(e, count, open) /\ (skipped[q] => skipped'[q]),
           \A q \in Proc, e \in Ends : Owes(q, e) => Owes(q, e)'
    PROVE  WakeInv'
  <1>1. \A e : Other(e) \in Ends
    BY OtherEnd
  <1>2. \A e : (Other(e))' = Other(e)
    BY DEF Other
  <1>3. \A q \in Proc, e \in Ends : CanGo(e, count, open)' <=> CanGo(e, count', open')
    BY DEF CanGo, CanRead, CanWrite
  <1> SUFFICES ASSUME NEW q \in Proc, NEW e \in Ends, Waits(q, e)', CanGo(e, count', open')
               PROVE  skipped'[q] \/ \E r \in Proc : Owes(r, Other(e))'
    BY <1>2, <1>3 DEF WakeInv
  <1>4. Waits(q, e) /\ CanGo(e, count, open) /\ (skipped[q] => skipped'[q])
    OBVIOUS
  <1>5. skipped[q] \/ \E r \in Proc : Owes(r, Other(e))
    BY <1>4 DEF WakeInv
  <1> QED
    BY <1>1, <1>4, <1>5

(* What a release leaves asleep it marks as skipped. *)
LEMMA ReleaseSkips ==
    ASSUME TypeOK, Placed, QueueInv, NEW e \in Ends, NEW woken, NEW h, Release(e, woken, h),
           woken = {} => Queue(e) = {},
           NEW q \in Proc, state'[q] = "SLEEPING" \/ pc[q] = "wait", Waits(q, e)
    PROVE  skipped'[q]
  <1>1. skipped'[q] = (\/ skipped[q]
                       \/ end[q] = e /\ pc[q] = "wait"
                       \/ SleepsOn(q, e) /\ q \notin woken /\ woken # {})
    BY DEF Release
  <1>2. CASE pc[q] = "wait"
    BY <1>1, <1>2 DEF Waits, SleepsOn
  <1>3. CASE pc[q] # "wait"
    <2>1. SleepsOn(q, e) /\ state'[q] = "SLEEPING"
      BY <1>3 DEF Waits
    <2>2. q \in Queue(e)
      BY <2>1 DEF SleepsOn, Placed, QueueInv
    <2>3. q \notin woken
      BY <2>1, ReleaseFields
    <2> QED
      BY <1>1, <2>1, <2>2, <2>3
  <1> QED
    BY <1>2, <1>3

(* Waking leaves everybody else as they were. *)
LEMMA ReleaseKeeps ==
    ASSUME NEW e, NEW woken, NEW h, Release(e, woken, h), NEW q \in Proc
    PROVE  (skipped[q] => skipped'[q]) /\ (state'[q] = "SLEEPING" => state[q] = "SLEEPING")
  <1>1. skipped[q] => skipped'[q]
    BY DEF Release
  <1>2. state'[q] = "SLEEPING" => state[q] = "SLEEPING"
    BY ReleaseFields
  <1> QED
    BY <1>1, <1>2

(* The end of a copy wakes who can now go on. *)
LEMMA DoneWake ==
    ASSUME TypeOK, Placed, QueueInv, WakeInv, NEW p \in Proc, CopyDone(p)
    PROVE  WakeInv'
  <1>1. PICK e \in Ends : e = end[p]
    BY DEF CopyDone, At, Placed, InCall, TypeOK
  <1>2. PICK o \in Ends : o = Other(e)
    BY OtherEnd
  <1>3. o # e /\ e = Other(o) /\ \A f \in Ends : f = e \/ f = o
    BY <1>2 DEF Ends, Other
  <1>4. PICK woken, h : Release(o, woken, h) /\ (woken = {} => Queue(o) = {})
    <2>1. CASE head[o] = NULL
      <3>1. Queue(o) = {}
        BY <2>1, ReachEmpty DEF Queue
      <3>2. Release(o, {}, NULL)
        BY <1>1, <1>2, <2>1 DEF CopyDone, wait_queue_wake_one
      <3> QED
        BY <3>1, <3>2
    <2>2. CASE head[o] # NULL
      BY <1>1, <1>2, <2>2 DEF CopyDone, wait_queue_wake_one
    <2> QED
      BY <2>1, <2>2
  <1>5. /\ pc[p] = "copy" /\ pc'[p] \in {"user", "zombie"} /\ count' = count /\ open' = open
        /\ \A q \in Proc \ {p} : pc'[q] = pc[q] /\ end'[q] = end[q]
    BY DEF CopyDone, Return, Go, At, TypeOK, ring
  <1> SUFFICES ASSUME NEW q \in Proc, NEW f \in Ends, Waits(q, f)', CanGo(f, count, open)
               PROVE  skipped'[q] \/ \E r \in Proc : Owes(r, Other(f))'
    <2>1. \A f \in Ends : (CanGo(f, count, open)' <=> CanGo(f, count, open)) /\ (Other(f))' = Other(f)
      BY <1>5 DEF CanGo, CanRead, CanWrite, Other
    <2> QED
      BY <2>1 DEF WakeInv
  <1>6. q # p /\ Waits(q, f) /\ (state'[q] = "SLEEPING" \/ pc[q] = "wait") /\ (skipped[q] => skipped'[q])
    <2>1. q # p
      BY <1>5 DEF Waits, SleepsOn
    <2>2. pc'[q] = pc[q] /\ end'[q] = end[q]
      BY <1>5, <2>1
    <2>3. (state'[q] = "SLEEPING" => state[q] = "SLEEPING") /\ (skipped[q] => skipped'[q])
      BY <1>4, ReleaseKeeps
    <2> QED
      BY <2>1, <2>2, <2>3 DEF Waits, SleepsOn
  <1>7. CASE f = o
    <2>1. skipped'[q]
      BY <1>4, <1>6, <1>7, ReleaseSkips
    <2> QED
      BY <2>1
  <1>8. CASE f = e
    <2>1. skipped[q] \/ \E r \in Proc : Owes(r, o)
      BY <1>2, <1>6, <1>8 DEF WakeInv
    <2>2. \A r \in Proc : Owes(r, o) => Owes(r, o)'
      BY <1>1, <1>3, <1>5 DEF Copies, Owes, CopyDone
    <2>3. Other(f) = o
      BY <1>2, <1>8
    <2> QED
      BY <1>6, <2>1, <2>2, <2>3
  <1> QED
    BY <1>3, <1>7, <1>8

(* Closing the last end of a side may make the other side ready, and owes   *)
(* it a wake-up.                                                            *)
LEMMA CloseWake ==
    ASSUME TypeOK, Placed, WakeInv, NEW p \in Proc, NEW e \in Ends, fd_close(p, e)
    PROVE  WakeInv'
  <1>1. /\ UNCHANGED <<pc, end, count, state, skipped>> /\ shut[p] = "no"
        /\ \A q \in Proc \ {p} : shut'[q] = shut[q]
    BY DEF fd_close, ring, queues, At, TypeOK
  <1>2. CASE \E q \in Proc \ {p} : e \in holds[q]
    BY <1>1, <1>2, WakeFrame DEF fd_close, Waits, SleepsOn, Copies, Owes
  <1>3. CASE ~ \E q \in Proc \ {p} : e \in holds[q]
    <2>1. open' = open \ {e} /\ shut'[p] = e
      BY <1>3 DEF fd_close, TypeOK
    <2>2. e \in {"r", "w"} /\ \A q \in Proc, f \in Ends : Owes(q, f) => Owes(q, f)'
      BY <1>1 DEF Owes, Copies, Ends
    <2> SUFFICES ASSUME NEW q \in Proc, NEW f \in Ends, Waits(q, f)', CanGo(f, count', open')
                 PROVE  skipped'[q] \/ \E r \in Proc : Owes(r, Other(f))'
      <3>1. \A f \in Ends : (CanGo(f, count, open)' <=> CanGo(f, count', open')) /\ (Other(f))' = Other(f)
        BY DEF CanGo, CanRead, CanWrite, Other
      <3> QED
        BY <3>1 DEF WakeInv, Owes
    <2>3. CASE Other(f) = e
      BY <2>1, <2>3 DEF Owes
    <2>4. CASE Other(f) # e
      <3>1. f = e
        BY <2>4 DEF Other, Ends
      <3>2. CanGo(f, count, open)
        BY <1>1, <2>1, <2>2, <3>1 DEF CanGo, CanRead, CanWrite
      <3>3. skipped[q] \/ \E r \in Proc : Owes(r, Other(f))
        BY <1>1, <3>2 DEF WakeInv, Owes, Waits, SleepsOn
      <3> QED
        BY <1>1, <2>2, <3>3, OtherEnd
    <2> QED
      BY <2>3, <2>4
  <1> QED
    BY <1>2, <1>3

(* pipe_close then wakes whoever sleeps there, and marks the rest. *)
LEMMA TellWake ==
    ASSUME TypeOK, Placed, QueueInv, WakeInv, NEW p \in Proc, pipe_close(p)
    PROVE  WakeInv'
  <1>1. UNCHANGED <<pc, end, count, open>> /\ \A q \in Proc \ {p} : shut'[q] = shut[q]
    BY DEF pipe_close, ring, TypeOK
  <1>2. PICK e \in Ends : e = shut[p]
    BY DEF pipe_close
  <1>3. PICK o \in Ends : o = Other(e)
    BY OtherEnd
  <1>4. o # e /\ e = Other(o) /\ \A f \in Ends : f = e \/ f = o
    BY <1>3 DEF Ends, Other
  <1>5. Release(o, Queue(o), NULL)
    BY <1>2, <1>3 DEF pipe_close, wait_queue_wake_all
  <1> SUFFICES ASSUME NEW q \in Proc, NEW f \in Ends, Waits(q, f)', CanGo(f, count, open)
               PROVE  skipped'[q] \/ \E r \in Proc : Owes(r, Other(f))'
    <2>1. \A f \in Ends : (CanGo(f, count, open)' <=> CanGo(f, count, open)) /\ (Other(f))' = Other(f)
      BY <1>1 DEF CanGo, CanRead, CanWrite, Other
    <2> QED
      BY <2>1 DEF WakeInv, Owes
  <1>6. Waits(q, f) /\ (state'[q] = "SLEEPING" \/ pc[q] = "wait") /\ (skipped[q] => skipped'[q])
    BY <1>1, <1>5, ReleaseKeeps DEF Waits, SleepsOn
  <1>7. CASE f = o
    <2>1. skipped'[q]
      BY <1>5, <1>6, <1>7, ReleaseSkips
    <2> QED
      BY <2>1
  <1>8. CASE f = e
    <2>1. skipped[q] \/ \E r \in Proc : Owes(r, o)
      BY <1>3, <1>6, <1>8 DEF WakeInv, Owes
    <2>2. \A r \in Proc : Owes(r, o) => Owes(r, o)'
      BY <1>1, <1>2, <1>4 DEF Owes, Copies
    <2> QED
      BY <1>3, <1>6, <1>8, <2>1, <2>2
  <1> QED
    BY <1>4, <1>7, <1>8

(* While a reader copies, it still owes the writers a wake. *)
LEMMA ReadWake ==
    ASSUME TypeOK, WakeInv, NEW p \in Proc, pipe_read(p), CountIsRight'
    PROVE  WakeInv'
  <1>1. count \in Nat /\ count' = (count - 1) % CountMod /\ count' <= PIPE_BUF_SIZE
    BY SizeFacts DEF TypeOK, pipe_read, CountIsRight
  <1>2. count # 0
    <2>1. (0 - 1) % CountMod = CountMod - 1
      BY SizeFacts
    <2> QED
      BY <1>1, <2>1, SizeFacts
  <1>3. /\ pc' = pc /\ end' = end /\ state' = state /\ open' = open /\ skipped' = skipped
        /\ shut' = shut /\ Copies(p, "r")
    BY DEF pipe_read, Copying, queues, Copies, At
  <1> SUFFICES ASSUME NEW q \in Proc, NEW f \in Ends, Waits(q, f)
               PROVE  skipped'[q] \/ \E r \in Proc : Owes(r, Other(f))'
    BY <1>3 DEF WakeInv, Waits, SleepsOn, Other, Owes
  <1>4. CASE f = "w"
    BY <1>3, <1>4 DEF Copies, Owes, Other
  <1>5. CASE f = "r"
    <2>1. CanGo(f, count, open)
      BY <1>1, <1>2, <1>5 DEF CanGo, CanRead
    <2> QED
      BY <1>3, <2>1 DEF WakeInv, Copies, Owes, Other
  <1> QED
    BY <1>4, <1>5 DEF Ends

(* While a writer copies, it still owes the readers a wake. *)
LEMMA WriteWake ==
    ASSUME TypeOK, Placed, CountIsRight, WakeInv, NEW p \in Proc, pipe_write(p), CountIsRight'
    PROVE  WakeInv'
  <1> DEFINE S == PIPE_BUF_SIZE
  <1>1. /\ S \in Nat /\ S > 0 /\ ByteMod \in Nat /\ ByteMod > 0 /\ ByteMod = 2 * S
        /\ CountMod \in Nat /\ CountMod > S + 1
    BY SizeFacts
  <1>2. /\ got \in 0 .. ByteMod - 1 /\ count \in 0 .. S /\ sent = (got + count) % ByteMod
    BY <1>1 DEF TypeOK, CountIsRight, Byte
  <1>3. /\ reg_count[p] \in Nat /\ left[p] \in Nat /\ left[p] > 0 /\ reg_count[p] + left[p] <= S
    BY SizeFacts DEF pipe_write, Copying, At, Placed, Copies, TypeOK
  <1>4. count' = reg_count[p] + 1
    <2>1. reg_count[p] + 1 \in 0 .. CountMod - 1
      BY <1>1, <1>3
    <2> QED
      BY <1>1, <2>1, ModSmall DEF pipe_write
  <1>5. count' \in 1 .. S
    BY <1>1, <1>3, <1>4
  <1>6. /\ sent' = (sent + 1) % ByteMod /\ got' = got /\ sent' = (got' + count') % ByteMod
    BY DEF pipe_write, CountIsRight, ByteMod
  <1>7. (got + (count + 1)) % ByteMod = (got + count') % ByteMod
    <2>1. count \in 0 .. ByteMod - 1
      BY <1>1, <1>2
    <2>2. (((got + count) % ByteMod) + 1) % ByteMod = (got + (count + 1)) % ByteMod
      BY <1>1, <1>2, <2>1, ModStep
    <2> QED
      BY <1>2, <1>6, <2>2
  <1>8. count' = count + 1
    <2>1. CASE count + 1 <= ByteMod - 1
      <3>1. count + 1 \in 0 .. ByteMod - 1 /\ count' \in 0 .. ByteMod - 1
        BY <1>1, <1>2, <1>5, <2>1
      <3> QED
        BY <1>1, <1>2, <1>7, <3>1, ModApart
    <2>2. CASE count + 1 > ByteMod - 1
      <3>1. count + 1 = ByteMod /\ 0 \in 0 .. ByteMod - 1 /\ count' \in 0 .. ByteMod - 1 /\ count' # 0
        BY <1>1, <1>2, <1>5, <2>2
      <3>2. (got + (count + 1)) % ByteMod = got
        <4>1. PICK x \in Int : x = got + (count + 1)
          BY <1>2
        <4>2. x \in ByteMod .. 2 * ByteMod - 1 /\ x - ByteMod = got
          BY <1>1, <1>2, <3>1, <4>1
        <4>3. x % ByteMod = x - ByteMod
          BY <1>1, <4>2, ModOnce
        <4> QED
          BY <4>1, <4>2, <4>3
      <3>3. (got + 0) % ByteMod = got
        BY <1>1, <1>2, ModSmall
      <3>4. (got + 0) % ByteMod # (got + count') % ByteMod
        BY <1>1, <1>2, <3>1, ModApart
      <3> QED
        BY <1>7, <3>2, <3>3, <3>4
    <2> QED
      BY <1>1, <1>2, <2>1, <2>2
  <1>9. /\ pc' = pc /\ end' = end /\ state' = state /\ open' = open /\ skipped' = skipped
        /\ shut' = shut /\ Copies(p, "w")
    BY DEF pipe_write, Copying, queues, Copies, At
  <1> SUFFICES ASSUME NEW q \in Proc, NEW f \in Ends, Waits(q, f), CanGo(f, count', open')
               PROVE  skipped'[q] \/ \E r \in Proc : Owes(r, Other(f))'
    <2>1. \A f \in Ends : CanGo(f, count, open)' <=> CanGo(f, count', open')
      BY DEF CanGo, CanRead, CanWrite
    <2> QED
      BY <1>9, <2>1 DEF WakeInv, Waits, SleepsOn, Other, Owes
  <1>10. CASE f = "r"
    BY <1>9, <1>10 DEF Copies, Owes, Other
  <1>11. CASE f = "w"
    <2>1. CanGo(f, count, open)
      BY <1>2, <1>8, <1>9, <1>11, SizeFacts DEF CanGo, CanWrite
    <2> QED
      BY <1>9, <2>1 DEF WakeInv, Copies, Owes, Other
  <1> QED
    BY <1>10, <1>11 DEF Ends

(* Whoever sleeps with a reason to run was skipped or is about to be        *)
(* woken, after every step.                                                 *)
LEMMA WakeStep ==
    ASSUME TypeOK, Placed, requeued \/ QueueInv, requeued \/ ~ CountIsRight \/ WakeInv, [Next]_vars
    PROVE  requeued' \/ ~ CountIsRight' \/ WakeInv'
  <1>0. CASE UNCHANGED vars
    <2>1. WakeInv => WakeInv'
      BY <1>0, WakeFrame DEF vars, ring, queues, Waits, SleepsOn, Copies, Owes
    <2>2. CountIsRight' <=> CountIsRight
      BY <1>0 DEF vars, ring, CountIsRight, ByteMod
    <2> QED
      BY <1>0, <2>1, <2>2 DEF vars
  <1> SUFFICES ASSUME Next, CountIsRight' PROVE WakeInv'
    BY <1>0
  <1> PICK p \in Proc : Step(p)
    BY Steps
  <1>i. Intact
    BY DEF Step, Check, Sleep, Awake, pipe_begin, pipe_read, pipe_write, Copying, CopyDone, WouldBlock, Start,
           fd_close, pipe_close, pipe_free, fd_copy_on_fork, process_exit, process_destroy, destroy_unlink, Destroyed, process_wake, At
  <1>w. WakeInv /\ QueueInv /\ CountIsRight
    BY <1>i DEF Intact
  <1> USE DEF Owes, Copies, Go, At, Waits, SleepsOn
  <1>r. ASSUME Return(p), pc[p] # "copy", UNCHANGED <<count, open, state, shut>>,
               \A q \in Proc \ {p} : skipped'[q] = skipped[q]
        PROVE  WakeInv'
    <2>1. pc'[p] \in {"user", "zombie"} /\ \A q \in Proc \ {p} : pc'[q] = pc[q] /\ end'[q] = end[q]
      BY <1>r DEF Return, TypeOK
    <2> QED
      BY <1>r, <1>w, <2>1, WakeFrame
  <1>1. CASE Check(p)
    <2>1. \A q \in Proc \ {p} : pc'[q] = pc[q] /\ skipped'[q] = skipped[q]
      BY <1>1 DEF Check, TypeOK
    <2>2. pc'[p] = "wait" => ~ CanGo(end[p], count, open)
      BY <1>1 DEF Check, TypeOK
    <2>3. pc'[p] \in {"go", "wait"} /\ pc[p] # "copy"
      BY <1>1 DEF Check, TypeOK
    <2>4. UNCHANGED <<end, count, open, state, shut>>
      BY <1>1 DEF Check, queues
    <2> QED
      BY <1>w, <2>1, <2>2, <2>3, <2>4, WakeFrame
  <1>2. CASE Sleep(p)
    <2>1. pc[p] = "wait" /\ pc'[p] = "asleep" /\ \A q \in Proc \ {p} : pc'[q] = pc[q] /\ state'[q] = state[q]
      BY <1>2 DEF Sleep, process_wait_on, TypeOK
    <2>2. UNCHANGED <<end, count, open, shut, skipped>>
      BY <1>2 DEF Sleep, ring
    <2> QED
      BY <1>w, <2>1, <2>2, WakeFrame
  <1>3. CASE Awake(p)
    <2>1. CASE fatal[p]
      BY <1>3, <2>1, <1>r DEF Awake, TypeOK, ring, queues
    <2>2. CASE ~ fatal[p]
      BY <1>3, <1>w, <2>2, WakeFrame DEF Awake, TypeOK, ring, queues
    <2> QED
      BY <2>1, <2>2
  <1>4. CASE pipe_begin(p)
    <2>1. CASE Room(end[p], open) = 0
      BY <1>4, <2>1, <1>r DEF pipe_begin, TypeOK, queues
    <2>2. CASE Room(end[p], open) # 0
      BY <1>4, <1>w, <2>2, WakeFrame DEF pipe_begin, TypeOK, ring, queues
    <2> QED
      BY <2>1, <2>2
  <1>5. CASE pipe_read(p)
    BY <1>5, <1>w, ReadWake
  <1>6. CASE pipe_write(p)
    BY <1>6, <1>w, WriteWake
  <1>7. CASE CopyDone(p)
    BY <1>7, <1>w, DoneWake
  <1>8. CASE WouldBlock(p)
    BY <1>8, <1>r DEF WouldBlock, TypeOK, ring, queues
  <1>9. ASSUME NEW size \in Sizes, NEW e \in Ends, Start(p, e, size) PROVE WakeInv'
    BY <1>9, <1>w, WakeFrame DEF Start, TypeOK, ring, queues
  <1>10. ASSUME NEW e \in Ends, fd_close(p, e) PROVE WakeInv'
    BY <1>10, <1>w, CloseWake
  <1>16. CASE pipe_close(p)
    BY <1>16, <1>w, TellWake
  <1>17. CASE pipe_free(p)
    <2>1. /\ \A q \in Proc \ {p} : shut'[q] = shut[q]
          /\ shut[p] \notin Ends /\ UNCHANGED <<pc, end, count, open, state, skipped>>
      BY <1>17 DEF pipe_free, TypeOK, Ends, ring, queues
    <2> QED
      BY <1>w, <2>1, WakeFrame
  <1>18. CASE destroy_unlink(p)
    BY <1>18, <1>w, WakeFrame DEF destroy_unlink, TypeOK, ring
  <1>11. ASSUME NEW c \in Proc, fd_copy_on_fork(p, c) PROVE WakeInv'
    BY <1>11, <1>w, WakeFrame DEF fd_copy_on_fork, TypeOK, ring, queues
  <1>12. CASE process_exit(p)
    BY <1>12, <1>w, WakeFrame DEF process_exit, TypeOK, ring, queues
  <1>13. CASE process_destroy(p)
    BY <1>13, <1>w, WakeFrame DEF process_destroy, TypeOK, ring, queues
  <1>14. CASE Destroyed(p)
    <2>1. \A q \in Proc \ {p} : pc'[q] = pc[q] /\ skipped'[q] = skipped[q]
      BY <1>14 DEF Destroyed, TypeOK
    <2>2. pc'[p] = "gone" /\ pc[p] = "closing"
      BY <1>14 DEF Destroyed, TypeOK
    <2> QED
      BY <1>14, <1>w, <2>1, <2>2, WakeFrame DEF Destroyed, ring, queues
  <1>15. ASSUME NEW f \in BOOLEAN, process_wake(p, f) PROVE WakeInv'
    <2>1. \A q \in Proc : state'[q] = "SLEEPING" => state[q] = "SLEEPING"
      BY <1>15 DEF process_wake, TypeOK
    <2> QED
      BY <1>15, <1>w, <2>1, WakeFrame DEF process_wake, ring
  <1> QED
    BY <1>1, <1>2, <1>3, <1>4, <1>5, <1>6, <1>7, <1>8, <1>9, <1>10, <1>11, <1>12, <1>13, <1>14, <1>15, <1>16, <1>17, <1>18 DEF Step

-----------------------------------------------------------------------------
(* Nobody opens an end of a freed pipe again, or closes one. *)
LEMMA FreeFrame ==
    ASSUME FreeInv, UNCHANGED <<open, shut, freed>>, stale => stale'
    PROVE  FreeInv'
  BY DEF FreeInv

(* The pipe is freed once, after its last close, at every step. *)
LEMMA FreeStep ==
    ASSUME TypeOK, Placed, FreeInv, [Next]_vars
    PROVE  FreeInv'
  <1>0. CASE UNCHANGED vars
    BY <1>0, FreeFrame DEF vars
  <1> SUFFICES ASSUME Next PROVE FreeInv'
    BY <1>0
  <1> PICK p \in Proc : Step(p)
    BY Steps
  <1>1. ASSUME NEW e \in Ends, fd_close(p, e) PROVE FreeInv'
    <2>1. e \in open /\ ~ freed /\ freed' = freed
      BY <1>1 DEF fd_close, Placed, FreeInv
    <2> QED
      BY <2>1 DEF FreeInv
  <1>2. CASE pipe_close(p)
    <2>1. ~ stale /\ ~ freed /\ freed' = freed
      BY <1>2 DEF pipe_close, Intact, FreeInv, Ends
    <2> QED
      BY <2>1 DEF FreeInv
  <1>3. CASE pipe_free(p)
    <2>1. /\ ~ stale /\ ~ freed /\ shut' = [shut EXCEPT ![p] = "no"] /\ open' = open
          /\ freed' = (freed \/ open = {})
          /\ stale' = (stale \/ (open = {} /\ \E q \in Proc \ {p} : shut[q] # "no"))
      BY <1>3 DEF pipe_free, Intact, FreeInv
    <2>2. \A q \in Proc : shut'[q] = IF q = p THEN "no" ELSE shut[q]
      BY <2>1 DEF TypeOK
    <2> QED
      BY <2>1, <2>2 DEF FreeInv
  <1>4. CASE destroy_unlink(p)
    <2>1. UNCHANGED <<open, shut, freed>> /\ (stale' = TRUE \/ stale' = stale)
      BY <1>4 DEF destroy_unlink
    <2> QED
      BY <2>1, FreeFrame
  <1>5. CASE UNCHANGED <<open, life>>
    BY <1>5, FreeFrame
  <1> QED
    BY <1>1, <1>2, <1>3, <1>4, <1>5
       DEF Step, Check, Sleep, Awake, pipe_begin, pipe_read, pipe_write, Copying, CopyDone, WouldBlock, Start,
           fd_copy_on_fork, process_exit, process_destroy, Destroyed, process_wake

-----------------------------------------------------------------------------
(* An empty pipe satisfies the invariant. *)
LEMMA InitInv == Init => Inv
  <1> SUFFICES ASSUME Init PROVE Inv
    OBVIOUS
  <1>1. PICK n \in Sizes : n \in Nat
    BY SizeFacts
  <1>2. TypeOK
    <2>1. \A p \in Proc : \E m \in Sizes : left[p] <= m
      BY <1>1 DEF Init
    <2>2. skipped \in [Proc -> BOOLEAN] /\ robbed \in [Proc -> BOOLEAN] /\ fatal \in [Proc -> BOOLEAN]
          /\ {overlapped, requeued, freed, stale} \subseteq BOOLEAN /\ shut \in [Proc -> Shut]
      BY DEF Init, Shut
    <2>3. /\ buffer \in [0 .. PIPE_BUF_SIZE - 1 -> Byte]
          /\ {read_pos, write_pos} \subseteq 0 .. PIPE_BUF_SIZE - 1
          /\ count \in 0 .. CountMod - 1 /\ {sent, got} \subseteq Byte
          /\ left \in [Proc -> Nat]
          /\ reg_count \in [Proc -> 0 .. CountMod - 1]
          /\ reg_pos \in [Proc -> 0 .. PIPE_BUF_SIZE - 1]
      BY SizeFacts DEF Init, Byte
    <2>4. /\ open \subseteq Ends /\ head \in [Ends -> Proc \cup {NULL}]
          /\ wait_next \in [Proc -> Proc \cup {NULL}]
          /\ waiting_on \in [Proc -> Ends \cup {NULL}]
          /\ state \in [Proc -> {"RUNNABLE", "SLEEPING"}]
          /\ holds \in [Proc -> SUBSET Ends]
          /\ end \in [Proc -> Ends \cup {NULL}]
      BY DEF Init
    <2>5. pc \in [Proc -> Pc]
      BY DEF Init, Pc
    <2> QED
      BY <2>1, <2>2, <2>3, <2>4, <2>5 DEF TypeOK
  <1>3. Placed /\ ReadyInv /\ WakeInv /\ FreeInv
    BY DEF FreeInv, Owes, Init, Placed, ReadyInv, WakeInv, InCall, Copies, Waits, SleepsOn
  <1>4. RingInv
    <2>1. (0 + 0) % ByteMod = 0 /\ (0 + 0) % PIPE_BUF_SIZE = 0
      BY SizeFacts, ModSmall
    <2>2. \A p \in Proc : pc[p] # "copy"
      BY DEF Init
    <2> QED
      BY <2>1, <2>2, SizeFacts DEF Init, RingInv, CountIsRight, Copies
  <1>5. QueueInv
    <2>1. \A e \in Ends : Queue(e) = {}
      BY ReachEmpty DEF Init, Queue
    <2>2. \A p \in Proc : Reach(Proc, NULL, wait_next[p], wait_next) = {}
      BY ReachEmpty DEF Init
    <2> QED
      BY <2>1, <2>2, SizeFacts DEF Init, QueueInv, Acyclic
  <1> QED
    BY <1>2, <1>3, <1>4, <1>5 DEF Inv

(* Every step keeps it. *)
LEMMA InvStep == Inv /\ [Next]_vars => Inv'
  BY TypeStep, PlacedStep, ReadyStep, RingStep, QueueStep, WakeStep, FreeStep DEF Inv

(* The inductive invariant of a pipe and its wait queues. *)
THEOREM PipeInvariant == Spec => []Inv
  BY InitInv, InvStep, PTL DEF Spec

(* pipe_read and pipe_write, as long as no two processes copy at once, keep *)
(* the bytes sent and not received in the ring, in order.                   *)
THEOREM PipeIsFifo == Spec => []RingIsFifo
  <1>1. Inv => RingIsFifo
    BY DEF Inv, RingInv, RingIsFifo
  <1> QED
    BY <1>1, PipeInvariant, PTL

(* process_wait_on, the wake-ups, pipe_close, process_destroy and the       *)
(* signals keep every sleeper in the queue it sleeps on and nobody waiting  *)
(* on or closing a pipe that has been freed, unless a closer freed it under *)
(* another one or a destroyed process lost its queue between test and use.  *)
THEOREM PipeQueuesAreSound == Spec => []QueuesAreSound
  <1>1. ASSUME Inv PROVE SleepersAreQueued
    BY <1>1 DEF Inv, QueueInv, Placed, SleepersAreQueued, SleepsOn
  <1>2. ASSUME Inv PROVE FreedPipeHasNoWaiter
    <2> SUFFICES ASSUME freed, ~ stale, NEW p \in Proc
                 PROVE  pc[p] \notin InCall /\ shut[p] = "no" /\ (waiting_on[p] = NULL \/ p \in Poked)
      BY DEF FreedPipeHasNoWaiter, InCall
    <2>1. holds[p] = {} /\ shut[p] = "no"
      BY <1>2 DEF Inv, Placed, FreeInv
    <2>2. pc[p] \notin InCall
      BY <1>2, <2>1 DEF Inv, Placed
    <2> QED
      BY <1>2, <2>1, <2>2 DEF Inv, Placed, InCall
  <1>3. Inv => QueuesAreSound
    BY <1>1, <1>2 DEF QueuesAreSound, Inv
  <1> QED
    BY <1>3, PipeInvariant, PTL

(* A process asleep on a pipe that is ready for it was passed over by a     *)
(* wake-up, or the copy or the close that made it ready has yet to wake it. *)
THEOREM PipeSleeperWasSkipped == Spec => []ReadySleeperWasSkipped
  <1>1. Inv => ReadySleeperWasSkipped
    BY DEF Inv, WakeInv, Waits, Owes, Copies, ReadySleeperWasSkipped
  <1> QED
    BY <1>1, PipeInvariant, PTL

(* sys_read answers end of file while the write end is open only to a       *)
(* reader whose bytes another one took after its check.                     *)
THEOREM PipeEndOfFile == Spec => EndOfFileMeansClosed
  <1>1. ASSUME Inv, [Next]_vars
        PROVE  [\A p \in Proc : pc[p] = "go" /\ end[p] = "r" /\ pc'[p] \in {"user", "zombie"} =>
                  count > 0 \/ "w" \notin open \/ robbed[p]]_vars
    BY <1>1 DEF Inv, ReadyInv
  <1> QED
    BY <1>1, PipeInvariant, PTL DEF Spec, EndOfFileMeansClosed
=============================================================================
