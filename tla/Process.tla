------------------------------ MODULE Process -------------------------------
(***************************************************************************)
(* The life of a process: fork, exit, adoption by init, wait, waitpid,     *)
(* kill and reaping (process.c, syscall.c, kernel/signal.c).               *)
(*                                                                         *)
(* The family tree is kept in the parent, children and sibling pointers of *)
(* process_table.  Syscalls run with interrupts on, so a timer tick may    *)
(* preempt a process between any two steps; sys_fork runs with interrupts  *)
(* off and is one step.  Which ready process runs next is Scheduler.tla's  *)
(* business: here it is any of them.                                       *)
(***************************************************************************)
EXTENDS Integers, Lists

CONSTANTS
    MAX_PROCESSES,   \* slots of process_table; the smallest free slot gets the smallest
                     \* free pid, so a pid is its slot
    Killers,         \* bound: the processes that call sys_kill
    Pidwaiters,      \* bound: the processes that call sys_waitpid
    Blockers         \* bound: the processes that block in a read or a sleep

ASSUME ProcessAssumption ==
    /\ MAX_PROCESSES \in Nat /\ MAX_PROCESSES >= 2
    /\ Killers \subseteq 1 .. MAX_PROCESSES - 1
    /\ Pidwaiters \subseteq 1 .. MAX_PROCESSES - 1
    /\ Blockers \subseteq 1 .. MAX_PROCESSES - 1

NULL == -1
WAIT == -2                             \* in want: sys_wait
ANY == -3                              \* in want: sys_waitpid with pid -1
Slot == 0 .. MAX_PROCESSES - 1
User == 1 .. MAX_PROCESSES - 1
INIT == 1
State == {"UNUSED", "RUNNABLE", "RUNNING", "SLEEPING", "ZOMBIE"}

VARIABLES
    state, parent, children, sibling,  \* fields of process_table[p]
    fatal,      \* p has a pending fatal signal
    current,    \* current_process
    pc,         \* the step p's code stands at
    want,       \* what sys_wait or sys_waitpid looks for
    child, next,\* locals of process_exit, of the wait loops, of sys_kill, and of
                \* process_destroy: the victim and the place that points to it
    torn,       \* history: a stale value was used: a list head written over a newer
                \* one, a dead process made ready, or a new one cleared
    missed      \* history: since p began its last scan a dead child came without
                \* a wake-up that reached p

tree == <<parent, children, sibling>>
locals == <<want, child, next>>
vars == <<state, tree, fatal, current, pc, locals, torn, missed>>

(***************************************************************************)
(* pc: "user" in the program; "reading", "napping" in a read or a sleep    *)
(* that blocks; "exit", "detach", "take", "link", "die" in process_exit;   *)
(* "wait", "scan", "doze", "asleep" in the wait loop; "find", "unlink",    *)
(* "clear" in process_destroy; "kill", "test", "rouse" in sys_kill.        *)
(***************************************************************************)
Pc == {"user", "reading", "napping", "exit", "detach", "take", "link", "die",
       "wait", "scan", "doze", "asleep", "find", "unlink", "clear", "kill", "test", "rouse"}

(* The state kmain leaves: pid 0 idle, pid 1 running. *)
Init ==
    /\ state = [p \in Slot |-> CASE p = 0 -> "RUNNABLE" [] p = INIT -> "RUNNING"
                                  [] OTHER -> "UNUSED"]
    /\ parent = [p \in Slot |-> IF p = INIT THEN 0 ELSE NULL]
    /\ children = [p \in Slot |-> IF p = 0 THEN INIT ELSE NULL]
    /\ sibling = [p \in Slot |-> NULL]
    /\ fatal = [p \in Slot |-> FALSE]
    /\ current = INIT
    /\ pc = [p \in Slot |-> "user"]
    /\ want = [p \in Slot |-> NULL]
    /\ child = [p \in Slot |-> NULL]
    /\ next = [p \in Slot |-> NULL]
    /\ torn = FALSE
    /\ missed = [p \in Slot |-> FALSE]

-----------------------------------------------------------------------------
(* The processes met from q on along the sibling pointers. *)
Chain(q) == Reach(Slot, NULL, q, sibling)

(* Waking: process_wake only acts on a sleeper.  (With the interrupts off,  *)
(* or by a process that the timer does not charge any more; sys_kill below  *)
(* tests first and wakes later.)                                            *)
WakeUnguarded(st, p) == [st EXCEPT ![p] = "RUNNABLE"]
WakeNobody(st, p) == st
Wake(st, p) == IF st[p] = "SLEEPING" THEN [st EXCEPT ![p] = "RUNNABLE"] ELSE st

(* What process_reap_zombies looks for in the table st. *)
ZombiesEvenOwned(st) == {p \in User \ {current} : st[p] = "ZOMBIE"}
Reapable(st) ==
    {p \in User \ {current} : /\ st[p] = "ZOMBIE"
                              /\ parent[p] = NULL \/ st[parent[p]] = "UNUSED"}

(* process_reap_zombies; the other fields of a free slot are never read. *)
Reaped(st) == [p \in Slot |-> IF p \in Reapable(st) THEN "UNUSED" ELSE st[p]]

(***************************************************************************)
(* schedule(): reap, then the current process, in st, gives way to a ready *)
(* one; pid 0 is ready whenever another process runs (Scheduler.tla).      *)
(***************************************************************************)
schedule(st) ==
    \E n \in {p \in Slot : Reaped(st)[p] = "RUNNABLE"} :
       /\ current' = n
       /\ state' = [Reaped(st) EXCEPT
                       ![current] = IF @ = "RUNNING" THEN "RUNNABLE" ELSE @,
                       ![n] = "RUNNING"]

(* A tick ends the slice of the running process, wherever its code stands; *)
(* the idle loop calls schedule() on its own.                              *)
Preempt ==
    /\ ~torn
    /\ schedule(state)
    /\ UNCHANGED <<tree, fatal, pc, locals, torn, missed>>

-----------------------------------------------------------------------------
(* The running process stands at l.  The model follows the kernel up to the *)
(* first use of a stale value.                                              *)
At(l) == ~torn /\ current \in User /\ pc[current] = l
Go(l) == pc' = [pc EXCEPT ![current] = l]

Free == {p \in User : Reaped(state)[p] = "UNUSED"}

(***************************************************************************)
(* sys_fork, with interrupts off: process_create reaps, takes the first    *)
(* free slot and prepends the child to the caller's list.                  *)
(***************************************************************************)
sys_fork ==
    /\ At("user")
    /\ \E p \in Free :
         /\ \A q \in Free : p <= q
         /\ state' = [Reaped(state) EXCEPT ![p] = "RUNNABLE"]
         /\ parent' = [parent EXCEPT ![p] = current]
         /\ sibling' = [sibling EXCEPT ![p] = children[current]]
         /\ children' = [children EXCEPT ![current] = p, ![p] = NULL]
         /\ fatal' = [fatal EXCEPT ![p] = FALSE]
         /\ pc' = [pc EXCEPT ![p] = "user"]
         /\ missed' = [missed EXCEPT ![p] = FALSE]
    /\ UNCHANGED <<current, locals, torn>>

(* No free slot, or the address space cannot be cloned and process_destroy  *)
(* takes the child off the head of the list again.                          *)
ForkFails ==
    /\ At("user")
    /\ state' = Reaped(state)
    /\ UNCHANGED <<tree, fatal, current, pc, locals, torn, missed>>

(* sys_exit, or a fault in user mode. *)
sys_exit ==
    /\ At("user")
    /\ Go("exit")
    /\ UNCHANGED <<state, tree, fatal, current, locals, torn, missed>>

(* process_exit: take the list of children... *)
ExitTakeList ==
    /\ At("exit")
    /\ child' = [child EXCEPT ![current] = children[current]]
    /\ Go("detach")
    /\ UNCHANGED <<state, tree, fatal, current, want, next, torn, missed>>

(* ... and empty it. *)
ExitDetach ==
    /\ At("detach")
    /\ children' = [children EXCEPT ![current] = NULL]
    /\ torn' = (torn \/ children[current] # child[current])
    /\ Go(IF child[current] = NULL THEN "die" ELSE "take")
    /\ UNCHANGED <<state, parent, sibling, fatal, current, want, child, next, missed>>

(* One round of the adoption loop up to the read of init's list head...    *)
(* (pid 1 is never reaped, so process_get_by_pid(1) finds it.)             *)
AdoptTake ==
    /\ At("take")
    /\ LET c == child[current] IN
         /\ next' = [next EXCEPT ![current] = sibling[c]]
         /\ parent' = [parent EXCEPT ![c] = INIT]
         /\ sibling' = [sibling EXCEPT ![c] = children[INIT]]
    /\ Go("link")
    /\ UNCHANGED <<state, children, fatal, current, want, child, torn, missed>>

(* ... and from the write of the head to the end of the round.  Nothing     *)
(* wakes init for a child that is dead already.                             *)
AdoptLinkDropsRest ==
    /\ At("link")
    /\ children' = [children EXCEPT ![INIT] = child[current]]
    /\ torn' = (torn \/ children[INIT] # sibling[child[current]])
    /\ child' = [child EXCEPT ![current] = NULL]
    /\ next' = [next EXCEPT ![current] = NULL]
    /\ Go("die")
    /\ UNCHANGED <<state, parent, sibling, fatal, current, want, missed>>
AdoptLink ==
    /\ At("link")
    /\ LET c == child[current] IN
         /\ children' = [children EXCEPT ![INIT] = c]
         /\ torn' = (torn \/ children[INIT] # sibling[c])
         /\ missed' = [missed EXCEPT ![INIT] = @ \/ state[c] = "ZOMBIE"]
    /\ child' = [child EXCEPT ![current] = next[current]]
    /\ next' = [next EXCEPT ![current] = NULL]
    /\ Go(IF next[current] = NULL THEN "die" ELSE "take")
    /\ UNCHANGED <<state, parent, sibling, fatal, current, want>>

(* The rest of process_exit: become a zombie, wake the parent, give up the  *)
(* CPU.  A zombie is not charged by the timer, so nothing comes between.    *)
Die ==
    /\ At("die")
    /\ LET par == parent[current]
           st  == [state EXCEPT ![current] = "ZOMBIE"]
       IN  /\ schedule(Wake(st, par))
           /\ missed' = [missed EXCEPT ![par] = @ \/ pc[par] \in {"scan", "doze"}]
    /\ UNCHANGED <<tree, fatal, pc, locals, torn>>

-----------------------------------------------------------------------------
(* sys_wait and sys_waitpid.                                               *)

StartWait(w) ==
    /\ At("user")
    /\ want' = [want EXCEPT ![current] = w]
    /\ Go("wait")
    /\ UNCHANGED <<state, tree, fatal, current, child, next, torn, missed>>

sys_wait == StartWait(WAIT)
sys_waitpid(k) == current \in Pidwaiters /\ StartWait(k)

Matches(p, c) == want[p] \in {WAIT, ANY, c}

(* The head of the loop: the scan starts at the first child. *)
ScanStart ==
    /\ At("wait")
    /\ child' = [child EXCEPT ![current] = children[current]]
    /\ missed' = [missed EXCEPT ![current] = FALSE]
    /\ Go("scan")
    /\ UNCHANGED <<state, tree, fatal, current, want, next, torn>>

(* One child is looked at: a dead one that matches is destroyed. *)
ScanChild ==
    /\ At("scan") /\ child[current] # NULL
    /\ LET c == child[current] IN
         IF state[c] = "ZOMBIE" /\ Matches(current, c)
         THEN Go("find") /\ UNCHANGED child
         ELSE child' = [child EXCEPT ![current] = sibling[c]] /\ UNCHANGED pc
    /\ UNCHANGED <<state, tree, fatal, current, want, next, torn, missed>>

(* The list ends: sys_wait without children gives up, any other wait is     *)
(* about to sleep, and a tick may come before it does.                      *)
ScanEnd ==
    /\ At("scan") /\ child[current] = NULL
    /\ IF want[current] = WAIT /\ children[current] = NULL
       THEN Go("user") /\ want' = [want EXCEPT ![current] = NULL]
       ELSE Go("doze") /\ UNCHANGED want
    /\ UNCHANGED <<state, tree, fatal, current, child, next, torn, missed>>

(* With WNOHANG a waitpid that finds nothing returns instead. *)
WaitNoHang ==
    /\ At("doze") /\ want[current] # WAIT
    /\ want' = [want EXCEPT ![current] = NULL]
    /\ Go("user")
    /\ UNCHANGED <<state, tree, fatal, current, child, next, torn, missed>>

WaitSleep ==
    /\ At("doze")
    /\ schedule([state EXCEPT ![current] = "SLEEPING"])
    /\ Go("asleep")
    /\ UNCHANGED <<tree, fatal, locals, torn, missed>>

WaitAgain ==
    /\ At("asleep")
    /\ Go("wait")
    /\ UNCHANGED <<state, tree, fatal, current, locals, torn, missed>>

(* process_destroy: find the pointer to the victim, NULL for the list head... *)
DestroyFind ==
    /\ At("find")
    /\ LET z == child[current]
           list == Chain(children[parent[z]])
       IN  next' = [next EXCEPT ![current] =
             IF children[parent[z]] = z THEN NULL
             ELSE CHOOSE c \in list \cup {NULL} :
                    IF \E d \in list : sibling[d] = z THEN c # NULL /\ sibling[c] = z
                    ELSE c = NULL]
    /\ Go("unlink")
    /\ UNCHANGED <<state, tree, fatal, current, want, child, torn, missed>>

(* ... bypass it and mark the slot UNUSED, whose fields nobody reads until  *)
(* it is taken again...                                                     *)
DestroyUnlink ==
    /\ At("unlink")
    /\ LET z == child[current]
           par == parent[z]
           prev == next[current]
       IN  /\ children' = [children EXCEPT ![par] = IF prev = NULL THEN sibling[z] ELSE @,
                                           ![z] = NULL]
           /\ sibling' = [c \in Slot |-> CASE c = z -> NULL
                                          [] c = prev -> sibling[z]
                                          [] OTHER -> sibling[c]]
           /\ torn' = (torn \/ (prev = NULL /\ children[par] # z))
           /\ parent' = [parent EXCEPT ![z] = NULL]
           /\ state' = [state EXCEPT ![z] = "UNUSED"]
           /\ fatal' = [fatal EXCEPT ![z] = FALSE]
           /\ missed' = [missed EXCEPT ![z] = FALSE]
           /\ pc' = [pc EXCEPT ![current] = "clear", ![z] = "user"]
    /\ next' = [next EXCEPT ![current] = NULL]
    /\ UNCHANGED <<current, want, child>>

(* ... and the memset.  A fork that took the slot in between loses its      *)
(* child, which is on a list and UNUSED.                                    *)
DestroyClear ==
    /\ At("clear")
    /\ LET z == child[current] IN
         /\ torn' = (torn \/ state[z] # "UNUSED")
         /\ state' = [state EXCEPT ![z] = "UNUSED"]
    /\ want' = [want EXCEPT ![current] = NULL]
    /\ child' = [child EXCEPT ![current] = NULL]
    /\ Go("user")
    /\ UNCHANGED <<tree, fatal, current, next, missed>>

-----------------------------------------------------------------------------
(* Signals and the other syscalls.                                         *)

(* A read (l is "reading") or a sleep ("napping") that has to wait. *)
Block(l) ==
    /\ At("user") /\ current \in Blockers
    /\ schedule([state EXCEPT ![current] = "SLEEPING"])
    /\ Go(l)
    /\ UNCHANGED <<tree, fatal, locals, torn, missed>>

(* What a blocked process waits for happens. *)
Event(p) ==
    /\ ~torn
    /\ state[p] = "SLEEPING" /\ pc[p] \in {"reading", "napping"}
    /\ state' = Wake(state, p)
    /\ UNCHANGED <<tree, fatal, current, pc, locals, torn, missed>>

(* A read calls signal_check_current once woken; a sleep just returns. *)
signal_check ==
    /\ At("reading")
    /\ fatal' = [fatal EXCEPT ![current] = FALSE]
    /\ Go(IF fatal[current] THEN "exit" ELSE "user")
    /\ UNCHANGED <<state, tree, current, locals, torn, missed>>

SleepReturns ==
    /\ At("napping")
    /\ Go("user")
    /\ UNCHANGED <<state, tree, fatal, current, locals, torn, missed>>

(* sys_kill: process_get_by_pid finds the target in the table, ... *)
sys_kill(p) ==
    /\ At("user") /\ current \in Killers
    /\ state[p] # "UNUSED"
    /\ child' = [child EXCEPT ![current] = p]
    /\ Go("kill")
    /\ UNCHANGED <<state, tree, fatal, current, want, next, torn, missed>>

(* ... signal_raise (f: a fatal one) sets the bit in whoever has the slot   *)
(* now, ...                                                                 *)
KillRaise(f) ==
    /\ At("kill")
    /\ fatal' = [fatal EXCEPT ![child[current]] = @ \/ f]
    /\ Go("test")
    /\ UNCHANGED <<state, tree, current, locals, torn, missed>>

(* ... process_wake tests for a sleeper, whatever it is asleep for, ... *)
KillTest ==
    /\ At("test")
    /\ LET asleep == state[child[current]] = "SLEEPING" IN
         /\ Go(IF asleep THEN "rouse" ELSE "user")
         /\ child' = [child EXCEPT ![current] = IF asleep THEN @ ELSE NULL]
    /\ UNCHANGED <<state, tree, fatal, current, want, next, torn, missed>>

(* ... and scheduler_make_runnable makes it ready, also when it has been    *)
(* woken, has exited or has been collected in the meantime.                 *)
Rouse(st, p) == IF st[p] \in {"RUNNABLE", "RUNNING"} THEN st ELSE [st EXCEPT ![p] = "RUNNABLE"]
KillWake ==
    /\ At("rouse")
    /\ state' = Rouse(state, child[current])
    /\ torn' = (torn \/ state[child[current]] \in {"ZOMBIE", "UNUSED"})
    /\ child' = [child EXCEPT ![current] = NULL]
    /\ Go("user")
    /\ UNCHANGED <<tree, fatal, current, want, next, missed>>

-----------------------------------------------------------------------------
Exit == ExitTakeList \/ ExitDetach \/ AdoptTake \/ AdoptLink \/ Die
Wait ==
    \/ ScanStart \/ ScanChild \/ ScanEnd \/ WaitNoHang \/ WaitSleep \/ WaitAgain
    \/ DestroyFind \/ DestroyUnlink \/ DestroyClear
Kill == (\E p \in User : sys_kill(p)) \/ (\E f \in BOOLEAN : KillRaise(f)) \/ KillTest \/ KillWake

Next ==
    \/ Preempt \/ (\E p \in User : Event(p))
    \/ sys_fork \/ ForkFails \/ sys_exit \/ Exit
    \/ sys_wait \/ (\E k \in User \cup {ANY} : sys_waitpid(k)) \/ Wait
    \/ (\E l \in {"reading", "napping"} : Block(l)) \/ signal_check \/ SleepReturns
    \/ Kill

Spec == Init /\ [][Next]_vars

-----------------------------------------------------------------------------
(* Properties.                                                             *)

(* The types, and the running process is the current one. *)
TypeOK ==
    /\ state \in [Slot -> State]
    /\ \A p \in Slot : state[p] = "RUNNING" <=> p = current
    /\ parent \in [Slot -> Slot \cup {NULL}]
    /\ children \in [Slot -> User \cup {NULL}]
    /\ sibling \in [Slot -> User \cup {NULL}]
    /\ fatal \in [Slot -> BOOLEAN]
    /\ current \in Slot
    /\ pc \in [Slot -> Pc]
    /\ want \in [Slot -> User \cup {NULL, WAIT, ANY}]
    /\ child \in [Slot -> User \cup {NULL}]
    /\ next \in [Slot -> User \cup {NULL}]
    /\ torn \in BOOLEAN
    /\ missed \in [Slot -> BOOLEAN]

Live == {p \in User : state[p] # "UNUSED"}

(* The children the exiting process e has taken off its list and not put    *)
(* on init's yet.                                                           *)
Transit(e) ==
    CASE pc[e] = "take" -> Chain(child[e])
      [] pc[e] = "link" -> {child[e]} \cup Chain(next[e])
      [] OTHER -> {}

InTransit == UNION {Transit(e) : e \in Live}

(* Every live process is on the children list of its parent, every process  *)
(* on a list has that parent, and no list runs in a circle.                 *)
TreeSound ==
    \A p \in Live \cup {0} :
       /\ Chain(children[p]) = {q \in Live : parent[q] = p} \ InTransit
       /\ Straight(Slot, NULL, children[p], sibling)

(* Until a list head is written from a value read before another process    *)
(* changed it, a dead process is made ready or a new one is cleared, the    *)
(* tree is sound.                                                           *)
TreeSoundUntilTorn == torn \/ TreeSound

(* No process outlives its parent's slot: exit hands the children to init   *)
(* before the slot can be freed, so process_reap_zombies never finds work.  *)
NoOrphans ==
    torn \/ \A p \in Live : /\ parent[p] # NULL
                            /\ state[parent[p]] # "UNUSED"
                            /\ state[parent[p]] = "ZOMBIE" => parent[p] = INIT

(* The pointers of the family tree are sound in every state a tick can      *)
(* show them in, while processes fork, exit, adopt and collect, up to the   *)
(* first tear: types, lists and parents.                                    *)
FamilyIsSound == TypeOK /\ TreeSoundUntilTorn /\ NoOrphans

(* A stale pointer of the running process is about to be written through:   *)
(* of a kill that found p asleep, or of a wait that had p's slot before.    *)
Struck(p) == child[current] = p /\ pc[current] \in {"rouse", "clear"}

(* A dead process stays dead until its own parent collects it: no wake-up,  *)
(* signal or reaper touches it, but the two writes whose test came before   *)
(* its death: scheduler_make_runnable for a kill, and the memset of the     *)
(* slot's last process.                                                     *)
DeadUntilCollected ==
    [][\A p \in User : state[p] = "ZOMBIE" /\ ~torn =>
         \/ state'[p] = "ZOMBIE"
         \/ state'[p] = "UNUSED" /\ current = parent[p] /\ pc[current] = "unlink"
         \/ torn' /\ Struck(p)]_vars

WaitsFor(p, c) == c \in Chain(children[p]) /\ Matches(p, c)
AsleepInWait(p) == state[p] = "SLEEPING" /\ pc[p] = "asleep"

(* A process asleep in wait has no dead child to collect, unless the child  *)
(* died between the scan and the sleep, or came to init dead already.       *)
MissedOnlyInWindow ==
    torn \/ \A p, c \in Live :
              AsleepInWait(p) /\ WaitsFor(p, c) /\ state[c] = "ZOMBIE" => missed[p]
=============================================================================
