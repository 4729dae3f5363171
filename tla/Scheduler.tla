----------------------------- MODULE Scheduler ------------------------------
(***************************************************************************)
(* The scheduler of FrostByteOS: scheduler.c, the state changes of         *)
(* process.c it rests on, the IRQ0 path (irq.c, timer.c) and the part of   *)
(* kmain that starts the first user process.                               *)
(*                                                                         *)
(* One CPU.  IRQ gates and schedule() run with interrupts off, so Tick and *)
(* schedule are single steps; everything else runs with interrupts on (the *)
(* syscall gate is a trap gate), so a Tick may fall between any two steps. *)
(* A pid is its slot: process_create takes the first free slot and the     *)
(* smallest free pid, both from 1 up.                                      *)
(***************************************************************************)
EXTENDS Integers

CONSTANTS
    MAX_PROCESSES,            \* slots of process_table
    SCHED_DEFAULT_TIMESLICE,  \* ticks of a time slice
    SCHED_AGING_MAX,          \* cap of aging_score
    SCHED_PRIORITY_DEFAULT,   \* base priority of a user process
    TickMod,                  \* wakeup_tick is a uint32_t: 2^32
    MaxSleep                  \* bound: longest sleep asked for, in ticks

ASSUME SchedulerAssumption ==
    /\ MAX_PROCESSES \in Nat /\ MAX_PROCESSES >= 2
    /\ SCHED_DEFAULT_TIMESLICE \in Nat /\ SCHED_DEFAULT_TIMESLICE >= 1
    /\ SCHED_AGING_MAX \in Nat
    /\ SCHED_PRIORITY_DEFAULT \in 1 .. 7
    /\ TickMod \in Nat /\ TickMod >= 2
    /\ MaxSleep \in Nat

SCHED_PRIORITY_KERNEL == 0
SCHED_AGING_BOOST == 1

Slot == 0 .. MAX_PROCESSES - 1
User == Slot \ {0}
State == {"UNUSED", "RUNNABLE", "RUNNING", "SLEEPING", "ZOMBIE"}

VARIABLES
    state, time_slice, aging_score, wakeup_tick,   \* fields of process_table[p]
    current,                                       \* current_process
    now,                                           \* (uint32_t)timer_get_ticks()
    pc,                                            \* where each process's code stands
    loaded                                         \* pid 1 has its ELF image

vars == <<state, time_slice, aging_score, wakeup_tick, current, now, pc, loaded>>

(***************************************************************************)
(* pc of a user process: "run" in its program or a syscall body, "sched"   *)
(* committed to call schedule().  pc of pid 0: kmain up to process_create  *)
(* ("boot"), inside elf_load_into_process ("load"), inside process_yield   *)
(* ("yield"), in kmain's final hlt loop ("halt"); "hlt" and "sched" are    *)
(* the two instructions of scheduler_idle_loop.                            *)
(***************************************************************************)
KernelPc == {"boot", "load", "yield", "halt", "hlt", "sched"}
UserPc == {"run", "sched"}

process_init ==
    /\ state = [p \in Slot |-> IF p = 0 THEN "RUNNING" ELSE "UNUSED"]
    /\ time_slice = [p \in Slot |-> IF p = 0 THEN SCHED_DEFAULT_TIMESLICE ELSE 0]
    /\ aging_score = [p \in Slot |-> 0]
    /\ wakeup_tick = [p \in Slot |-> 0]
    /\ current = 0
    /\ now = 0
    /\ pc = [p \in Slot |-> IF p = 0 THEN "boot" ELSE "run"]
    /\ loaded = FALSE

-----------------------------------------------------------------------------
(* Choosing the next process.                                              *)

weight_table == [l \in 0 .. 7 |->
    IF l = 0 THEN 256 ELSE IF l = 1 THEN 224 ELSE IF l = 2 THEN 192
    ELSE IF l = 3 THEN 160 ELSE IF l = 4 THEN 128 ELSE IF l = 5 THEN 112
    ELSE IF l = 6 THEN 96 ELSE 80]

IdlePriorityLowest(p) == IF p = 0 THEN 7 ELSE SCHED_PRIORITY_DEFAULT
base_priority(p) == IF p = 0 THEN SCHED_PRIORITY_KERNEL ELSE SCHED_PRIORITY_DEFAULT
weight(p) == weight_table[base_priority(p)]
score(p, ag) == (base_priority(p) - ag[p]) * 1024

(* Lower score/weight ratio first, compared by cross products; equal ratios *)
(* go to the lower pid.                                                     *)
Better(p, q, ag) ==
    \/ score(p, ag) * weight(q) < score(q, ag) * weight(p)
    \/ /\ score(p, ag) * weight(q) = score(q, ag) * weight(p)
       /\ p < q

Best(C, ag) == {p \in C : \A q \in C \ {p} : Better(p, q, ag)}

(***************************************************************************)
(* The loop of schedule() itself: one pass over the slots, starting behind *)
(* the current one, that keeps the best candidate so far (-1: none).       *)
(***************************************************************************)
NoTieBreak(p, best, ag) == score(p, ag) * weight(best) < score(best, ag) * weight(p)
ScanPrefers(p, best, ag) == Better(p, best, ag)

ScanNext(st, ag) ==
    LET slot(i) == (current + i) % MAX_PROCESSES
        scan[i \in 0 .. MAX_PROCESSES] ==
          IF i = 0 THEN -1
          ELSE LET p == slot(i) IN
               IF st[p] # "RUNNABLE" THEN scan[i - 1]
               ELSE IF scan[i - 1] = -1 \/ ScanPrefers(p, scan[i - 1], ag) THEN p
               ELSE scan[i - 1]
    IN  scan[MAX_PROCESSES]

NoBoost(a) == a
Boosted(a) == IF a < SCHED_AGING_MAX THEN a + SCHED_AGING_BOOST ELSE a

Runnable(st) == {p \in Slot : st[p] = "RUNNABLE"}

(* The zombies process_reap_zombies may destroy.  It takes those with no    *)
(* living parent; parents are Process.tla's state, so any of them may go,   *)
(* except pid 1, whose parent pid 0 lives for ever.                         *)
ReapableEvenCurrent(st) == {p \in User \ {1} : st[p] = "ZOMBIE"}
Reapable(st) == {p \in User \ {1, current} : st[p] = "ZOMBIE"}

(* process_destroy clears the whole slot: its state and its counters. *)
Destroyed(st, Z) == [p \in Slot |-> IF p \in Z THEN "UNUSED" ELSE st[p]]
Cleared(f, Z) == [p \in Slot |-> IF p \in Z THEN 0 ELSE f[p]]

(* scheduler_make_runnable: what waking p does to its time slice. *)
RefreshedSlice(s) ==
    IF s = 0 \/ s > SCHED_DEFAULT_TIMESLICE THEN SCHED_DEFAULT_TIMESLICE ELSE s

(***************************************************************************)
(* schedule(), called with the table st, sl, ag, wk and the program        *)
(* counters pcs.  Switching to pid 0 always restarts scheduler_idle_loop   *)
(* (ensure_idle_kcontext), whatever pid 0 was doing.                       *)
(***************************************************************************)
SwitchToWithoutDemotion(n, st, sl, ag, pcs) ==
    /\ current' = n
    /\ state' = [st EXCEPT ![n] = "RUNNING"]
    /\ aging_score' = [ag EXCEPT ![n] = 0]
    /\ time_slice' = [sl EXCEPT ![n] = SCHED_DEFAULT_TIMESLICE]
    /\ pc' = [pcs EXCEPT ![0] = IF n = 0 THEN "hlt" ELSE @]

SwitchTo(n, st, sl, ag, pcs) ==
    /\ current' = n
    /\ state' = [st EXCEPT ![current] = IF @ = "RUNNING" THEN "RUNNABLE" ELSE @,
                           ![n] = "RUNNING"]
    /\ aging_score' = [ag EXCEPT
            ![current] = IF st[current] = "RUNNING" THEN Boosted(@) ELSE @,
            ![n] = 0]
    /\ time_slice' = [sl EXCEPT ![n] = SCHED_DEFAULT_TIMESLICE]
    /\ pc' = [pcs EXCEPT ![0] = IF n = 0 THEN "hlt" ELSE @]

KeepCpu(st, sl, ag, pcs) ==
    /\ state' = st /\ time_slice' = sl /\ aging_score' = ag /\ pc' = pcs
    /\ UNCHANGED current

schedule(st0, sl0, ag0, wk0, pcs) ==
    \E Z \in SUBSET Reapable(st0) :
      LET st == Destroyed(st0, Z)
          sl == Cleared(sl0, Z)
          ag == Cleared(ag0, Z)
          C  == Runnable(st)
      IN  /\ wakeup_tick' = Cleared(wk0, Z)
          /\ IF C = {} /\ st[current] = "RUNNING"
             THEN KeepCpu(st, [sl EXCEPT ![current] = SCHED_DEFAULT_TIMESLICE], ag, pcs)
             ELSE \E n \in IF C = {} THEN {0} ELSE Best(C, ag) :
                    IF n = current THEN KeepCpu(st, sl, ag, pcs)
                                   ELSE SwitchTo(n, st, sl, ag, pcs)

-----------------------------------------------------------------------------
(* Interrupts.                                                             *)

(* Any interrupt releases pid 0 from the hlt of the idle loop; the hlt loop *)
(* that ends kmain goes back to hlt.                                        *)
AfterHlt(pcs) == [pcs EXCEPT ![0] = IF current = 0 /\ @ = "hlt" THEN "sched" ELSE @]

DueAfter(t) == {p \in Slot : /\ state[p] = "SLEEPING"
                             /\ wakeup_tick[p] # 0
                             /\ t > wakeup_tick[p]}
DueAt(t) == {p \in Slot : /\ state[p] = "SLEEPING"
                          /\ wakeup_tick[p] # 0
                          /\ t >= wakeup_tick[p]}

(* has_other: some process besides the current one could run. *)
HasOther(st) == \E p \in Slot \ {current} : st[p] = "RUNNABLE"

(***************************************************************************)
(* IRQ0: timer_irq_handler, scheduler_tick, and the preemption check of    *)
(* irq_dispatch_with_context, all with interrupts off.                     *)
(***************************************************************************)
Tick ==
    LET t   == (now + 1) % TickMod
        due == DueAt(t)
        st  == [p \in Slot |-> IF p \in due THEN "RUNNABLE" ELSE state[p]]
        ag  == [p \in Slot |-> IF state[p] = "RUNNABLE" /\ p # current
                               THEN Boosted(aging_score[p]) ELSE aging_score[p]]
        sl  == [p \in Slot |-> IF p \in due THEN RefreshedSlice(time_slice[p])
                               ELSE time_slice[p]]
        charged == state[current] = "RUNNING"
        left    == IF sl[current] > 0 THEN sl[current] - 1 ELSE 0
        wk == [p \in Slot |-> IF p \in due THEN 0 ELSE wakeup_tick[p]]
    IN  /\ now' = t
        /\ UNCHANGED loaded
        /\ IF charged /\ left = 0 /\ HasOther(st)
           THEN schedule([st EXCEPT ![current] = "RUNNABLE"],
                         [sl EXCEPT ![current] = SCHED_DEFAULT_TIMESLICE],
                         ag, wk, AfterHlt(pc))
           ELSE /\ KeepCpu(st, IF ~charged THEN sl ELSE
                              [sl EXCEPT ![current] = IF left = 0
                                   THEN SCHED_DEFAULT_TIMESLICE ELSE left],
                           ag, AfterHlt(pc))
                /\ wakeup_tick' = wk

(* scheduler_make_runnable on a sleeper, as process_wake and the wait-queue *)
(* wake functions call it.                                                  *)
MakeRunnable(p) ==
    /\ state' = [state EXCEPT ![p] = "RUNNABLE"]
    /\ time_slice' = [time_slice EXCEPT ![p] = RefreshedSlice(@)]

(* A device interrupt that wakes a process waiting for it. *)
DeviceIrq(p) ==
    /\ state[p] = "SLEEPING"
    /\ MakeRunnable(p)
    /\ pc' = AfterHlt(pc)
    /\ UNCHANGED <<aging_score, wakeup_tick, current, now, loaded>>

-----------------------------------------------------------------------------
(* pid 0: kmain, then the idle loop.                                       *)

Free(st) == {p \in User : st[p] = "UNUSED"}

(* process_create, as far as the scheduler sees it: it reaps, then the      *)
(* first free slot becomes RUNNABLE with a full slice and no aging.         *)
process_create ==
    \E Z \in SUBSET Reapable(state) :
      LET free == Free(Destroyed(state, Z))
      IN  \E p \in free :
            /\ \A q \in free : p <= q
            /\ state' = [Destroyed(state, Z) EXCEPT ![p] = "RUNNABLE"]
            /\ time_slice' = [Cleared(time_slice, Z) EXCEPT ![p] = SCHED_DEFAULT_TIMESLICE]
            /\ aging_score' = [Cleared(aging_score, Z) EXCEPT ![p] = 0]
            /\ wakeup_tick' = [Cleared(wakeup_tick, Z) EXCEPT ![p] = 0]

(* spawn_user_from_vfs creates pid 1 as RUNNABLE before it has an image. *)
KmainCreate ==
    /\ current = 0 /\ pc[0] = "boot"
    /\ process_create
    /\ pc' = [pc EXCEPT ![0] = "load"]
    /\ UNCHANGED <<current, now, loaded>>

(* elf_load_into_process returns 0 and process_yield clears the slice. *)
KmainLoaded ==
    /\ current = 0 /\ pc[0] = "load"
    /\ loaded' = TRUE
    /\ time_slice' = [time_slice EXCEPT ![0] = 0]
    /\ pc' = [pc EXCEPT ![0] = "yield"]
    /\ UNCHANGED <<state, aging_score, wakeup_tick, current, now>>

KmainYield ==
    /\ current = 0 /\ pc[0] = "yield"
    /\ schedule(state, time_slice, aging_score, wakeup_tick, [pc EXCEPT ![0] = "halt"])
    /\ UNCHANGED <<now, loaded>>

IdleSchedule ==
    /\ current = 0 /\ pc[0] = "sched"
    /\ schedule(state, time_slice, aging_score, wakeup_tick, [pc EXCEPT ![0] = "hlt"])
    /\ UNCHANGED <<now, loaded>>

-----------------------------------------------------------------------------
(* The running user process.                                               *)

(* The process on the CPU is in user code or a syscall body. *)
Executing == current \in User /\ pc[current] = "run"

(* pid 1 without its image faults at once: only process_exit applies to it. *)
Sane == Executing /\ (current = 1 => loaded)

CommitToSchedule == pc' = [pc EXCEPT ![current] = "sched"]

sys_fork ==
    /\ Sane
    /\ process_create
    /\ UNCHANGED <<current, now, pc, loaded>>

process_sleep(ticks) ==
    /\ Sane
    /\ wakeup_tick' = [wakeup_tick EXCEPT ![current] = (now + ticks) % TickMod]
    /\ state' = [state EXCEPT ![current] = "SLEEPING"]
    /\ CommitToSchedule
    /\ UNCHANGED <<time_slice, aging_score, current, now, loaded>>

(* process_wait_on, sys_wait: asleep until another party wakes it. *)
process_wait_on ==
    /\ Sane
    /\ state' = [state EXCEPT ![current] = "SLEEPING"]
    /\ CommitToSchedule
    /\ UNCHANGED <<time_slice, aging_score, wakeup_tick, current, now, loaded>>

process_wake(p) ==
    /\ Sane
    /\ state[p] = "SLEEPING"
    /\ MakeRunnable(p)
    /\ UNCHANGED <<aging_score, wakeup_tick, current, now, pc, loaded>>

process_yield ==
    /\ Sane
    /\ time_slice' = [time_slice EXCEPT ![current] = 0]
    /\ CommitToSchedule
    /\ UNCHANGED <<state, aging_score, wakeup_tick, current, now, loaded>>

(* process_exit: zombify, wake the parent W if it sleeps, call schedule(). *)
process_exit ==
    /\ Executing
    /\ \E W \in {{}} \cup {{p} : p \in {q \in User : state[q] = "SLEEPING"}} :
         /\ state' = [p \in Slot |-> IF p = current THEN "ZOMBIE"
                                     ELSE IF p \in W THEN "RUNNABLE" ELSE state[p]]
         /\ time_slice' = [p \in Slot |-> IF p \in W THEN RefreshedSlice(time_slice[p])
                                          ELSE time_slice[p]]
    /\ CommitToSchedule
    /\ UNCHANGED <<aging_score, wakeup_tick, current, now, loaded>>

(* sys_wait collects the zombie z: process_destroy clears the slot. *)
process_destroy(z) ==
    /\ Sane
    /\ z \in Reapable(state)
    /\ state' = Destroyed(state, {z})
    /\ time_slice' = Cleared(time_slice, {z})
    /\ aging_score' = Cleared(aging_score, {z})
    /\ wakeup_tick' = Cleared(wakeup_tick, {z})
    /\ UNCHANGED <<current, now, pc, loaded>>

UserSchedule ==
    /\ current \in User /\ pc[current] = "sched"
    /\ schedule(state, time_slice, aging_score, wakeup_tick, [pc EXCEPT ![current] = "run"])
    /\ UNCHANGED <<now, loaded>>

-----------------------------------------------------------------------------
(* Code the CPU is bound to execute once it has started on it. *)
Kernel == KmainCreate \/ KmainLoaded \/ KmainYield \/ IdleSchedule \/ UserSchedule

UserStep ==
    \/ sys_fork \/ process_wait_on \/ process_yield \/ process_exit
    \/ \E t \in 0 .. MaxSleep : process_sleep(t)
    \/ \E p \in User : process_wake(p) \/ process_destroy(p)

Next == Tick \/ (\E p \in User : DeviceIrq(p)) \/ Kernel \/ UserStep

Spec == process_init /\ [][Next]_vars

(* The timer keeps ticking and the CPU keeps executing kernel code it has   *)
(* started; a user process is not obliged to make any call.                 *)
FairSpec == Spec /\ WF_vars(Tick) /\ WF_vars(Kernel)

-----------------------------------------------------------------------------
(* Properties.                                                             *)

(* Every field holds a value of its C type's meaningful range. *)
TypeOK ==
    /\ state \in [Slot -> State]
    /\ time_slice \in [Slot -> 0 .. SCHED_DEFAULT_TIMESLICE]
    /\ aging_score \in [Slot -> 0 .. SCHED_AGING_MAX]
    /\ wakeup_tick \in [Slot -> 0 .. TickMod - 1]
    /\ current \in Slot
    /\ now \in 0 .. TickMod - 1
    /\ pc \in [Slot -> KernelPc \cup UserPc]
    /\ pc[0] \in KernelPc /\ \A p \in User : pc[p] \in UserPc
    /\ loaded \in BOOLEAN

(* At most one process is PROC_RUNNING and it is current_process: the CPU   *)
(* is never given to a process while another one still counts as running.  *)
OnlyCurrentRuns == \A p \in Slot : state[p] = "RUNNING" => p = current

(* pid 0 is ready whenever it is off the CPU, so schedule() always has a    *)
(* candidate and its fallback to process_table[0] is never what saves it.   *)
IdleIsReady == current # 0 => state[0] = "RUNNABLE"

(* The process states of process_table are those of one CPU: each field in  *)
(* its range, one process running, and pid 0 there to run when no other is, *)
(* after every tick, wake-up, switch and reap.                              *)
StatesAreSound == TypeOK /\ OnlyCurrentRuns /\ IdleIsReady

(* A user process that executes is PROC_RUNNING, so scheduler_tick charges  *)
(* its slice and can preempt it.  schedule() leaves a process it picks      *)
(* again in PROC_RUNNABLE, where no tick is ever charged; the scores keep   *)
(* that from happening to a user process, because pid 0 outranks it.        *)
ExecutingIsCharged ==
    current \in User /\ pc[current] = "run" => state[current] = "RUNNING"

(* The scan of schedule() finds the one best candidate wherever it starts,  *)
(* which is what the actions above take it to do.                           *)
ScanFindsBest ==
    Best(Runnable(state), aging_score) =
        IF Runnable(state) = {} THEN {} ELSE {ScanNext(state, aging_score)}

(* The slot the CPU stands on when a step begins is never destroyed by it:   *)
(* process_destroy frees the kernel stack and the page directory that are in *)
(* use, so a process that exits keeps its slot until schedule() has left it. *)
CurrentNotDestroyed ==
    [][/\ state'[current] # "UNUSED"
       /\ state[current] = "ZOMBIE" => state'[current] = "ZOMBIE"]_vars

(* The table moves only as proc_state_t promises: a process gets the CPU    *)
(* only from ready, blocks or dies only while it has it, and the one that   *)
(* loses it is never left running.                                          *)
Status(p) ==
    IF p = 0 THEN IF current = 0 THEN "running" ELSE "ready"
    ELSE CASE state[p] = "UNUSED"   -> "free"
           [] state[p] = "RUNNABLE" -> "ready"
           [] state[p] = "RUNNING"  -> "running"
           [] state[p] = "SLEEPING" -> "blocked"
           [] state[p] = "ZOMBIE"   -> "dead"

Abs == INSTANCE ProcStates WITH status <- [p \in Slot |-> Status(p)], owner <- current

ImplementsProcStates == Abs!Spec

(* No starvation: once the idle loop runs, a ready process gets the CPU.    *)
NoStarvation ==
    \A p \in User : (state[p] = "RUNNABLE" /\ pc[0] \in {"hlt", "sched"})
                       ~> (current = p \/ state[p] # "RUNNABLE")

(* A timed sleeper with a nonzero wakeup_tick is woken by the clock, also   *)
(* when the 32-bit tick counter wraps in between.                           *)
SleeperWakes ==
    \A p \in User : (state[p] = "SLEEPING" /\ wakeup_tick[p] # 0)
                       ~> (state[p] # "SLEEPING")
=============================================================================
