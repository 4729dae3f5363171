--------------------------- MODULE SchedulerProof ---------------------------
(***************************************************************************)
(* Safety of the scheduler for every table size, slice, aging cap, user    *)
(* priority below the kernel's and tick width.                             *)
(***************************************************************************)
EXTENDS Scheduler, Foundations

(* What every state of process_table looks like between two steps: the      *)
(* checked invariants, strengthened.  The current process has a slot and     *)
(* no aging, and pid 0 is never asleep nor dead; together they make pid 0   *)
(* outrank a user process that schedule() might otherwise pick again.       *)
CurrentNotAged == aging_score[current] = 0
CurrentInUse == state[current] # "UNUSED"
KernelAlive == state[0] \in {"RUNNING", "RUNNABLE"}

Inv == /\ TypeOK /\ OnlyCurrentRuns /\ IdleIsReady /\ ExecutingIsCharged
       /\ CurrentInUse /\ CurrentNotAged /\ KernelAlive

(* The same for a table held in local values, as inside an interrupt. *)
Table(cur, st, sl, ag, wk, pcs) ==
    /\ cur \in Slot
    /\ st \in [Slot -> State]
    /\ sl \in [Slot -> 0 .. SCHED_DEFAULT_TIMESLICE]
    /\ ag \in [Slot -> 0 .. SCHED_AGING_MAX]
    /\ wk \in [Slot -> 0 .. TickMod - 1]
    /\ pcs \in [Slot -> KernelPc \cup UserPc]
    /\ pcs[0] \in KernelPc /\ \A p \in User : pcs[p] \in UserPc
    /\ \A p \in Slot : st[p] = "RUNNING" => p = cur
    /\ cur # 0 => st[0] = "RUNNABLE"
    /\ st[0] \in {"RUNNING", "RUNNABLE"}
    /\ st[cur] # "UNUSED"
    /\ ag[cur] = 0

(* The slots a process can stand in, and pid 0 among them. *)
LEMMA SlotFacts ==
    /\ Slot \subseteq Int /\ 0 \in Slot /\ User \subseteq Slot
    /\ \A p \in User : p > 0
    /\ SCHED_DEFAULT_TIMESLICE \in 0 .. SCHED_DEFAULT_TIMESLICE
    /\ 0 \in 0 .. SCHED_DEFAULT_TIMESLICE /\ 0 \in 0 .. SCHED_AGING_MAX
    /\ 0 \in 0 .. TickMod - 1
  BY SchedulerAssumption DEF Slot, User

(* The tick counter and a wake-up time stay inside their width. *)
LEMMA TickRange == \A a \in Nat : a % TickMod \in 0 .. TickMod - 1
  BY SchedulerAssumption

(* Aging stays between zero and its cap. *)
LEMMA BoostedRange ==
    \A a \in 0 .. SCHED_AGING_MAX : Boosted(a) \in 0 .. SCHED_AGING_MAX
  BY SchedulerAssumption DEF Boosted, SCHED_AGING_BOOST

(* A positive weight for every process. *)
LEMMA WeightFacts ==
    /\ weight(0) = 256
    /\ \A p \in User : weight(p) \in Nat /\ weight(p) > 0
  <1>1. base_priority(0) = 0
    BY DEF base_priority, SCHED_PRIORITY_KERNEL
  <1>2. \A p \in User : base_priority(p) = SCHED_PRIORITY_DEFAULT
    BY SlotFacts DEF base_priority
  <1>3. \A l \in 0 .. 7 : weight_table[l] \in Nat /\ weight_table[l] > 0
    BY DEF weight_table
  <1>4. weight_table[0] = 256
    BY DEF weight_table
  <1> QED
    BY <1>1, <1>2, <1>3, <1>4, SchedulerAssumption DEF weight

(* A user process without aging never outranks pid 0. *)
LEMMA KernelOutranks ==
    ASSUME NEW ag \in [Slot -> 0 .. SCHED_AGING_MAX], NEW p \in User, ag[p] = 0
    PROVE  ~ Better(p, 0, ag)
  <1>1. score(p, ag) = SCHED_PRIORITY_DEFAULT * 1024
    BY SlotFacts, SchedulerAssumption DEF score, base_priority
  <1>2. score(0, ag) = (0 - ag[0]) * 1024
    BY DEF score, base_priority, SCHED_PRIORITY_KERNEL
  <1>3. ag[0] \in Nat
    BY SlotFacts, SchedulerAssumption
  <1> DEFINE w == weight(p)
             a == ag[0]
             d == SCHED_PRIORITY_DEFAULT
  <1>4. w \in Nat /\ w > 0 /\ a \in Nat /\ d \in Nat /\ d > 0
    BY <1>3, WeightFacts, SchedulerAssumption
  <1> HIDE DEF w, a, d
  <1>5. a * w >= 0
    BY <1>4
  <1>6. (d * 1024) * 256 > ((0 - a) * 1024) * w
    <2>1. ((0 - a) * 1024) * w = 0 - 1024 * (a * w)
      BY <1>4
    <2>2. a * w \in Int
      BY <1>4
    <2> QED BY <1>4, <1>5, <2>1, <2>2
  <1>7. score(p, ag) * weight(0) > score(0, ag) * weight(p)
    BY <1>1, <1>2, <1>6, WeightFacts DEF w, a, d
  <1>8. score(p, ag) * weight(0) \in Int /\ score(0, ag) * weight(p) \in Int
    BY <1>1, <1>2, <1>4, WeightFacts DEF w, a, d
  <1> QED
    BY <1>7, <1>8 DEF Better

(* Reaping leaves a table a table: it takes user zombies off the CPU only.  *)
LEMMA ReapTable ==
    ASSUME NEW st, NEW sl, NEW ag, NEW wk, NEW pcs,
           Table(current, st, sl, ag, wk, pcs),
           NEW Z \in SUBSET Reapable(st)
    PROVE  /\ Table(current, Destroyed(st, Z), Cleared(sl, Z), Cleared(ag, Z),
                    Cleared(wk, Z), pcs)
           /\ \A p \in Slot :
                \/ Destroyed(st, Z)[p] = st[p]
                \/ /\ p \in User \ {current} /\ st[p] = "ZOMBIE"
                   /\ Destroyed(st, Z)[p] = "UNUSED"
  BY SlotFacts DEF Table, Reapable, Destroyed, Cleared, State, User

(* Handing the CPU to a ready process n. *)
LEMMA SwitchStep ==
    ASSUME NEW st, NEW sl, NEW ag, NEW wk, NEW pcs,
           Table(current, st, sl, ag, wk, pcs),
           NEW n \in Slot, n # current, st[n] = "RUNNABLE",
           SwitchTo(n, st, sl, ag, pcs), wakeup_tick' = wk
    PROVE  /\ Table(current', state', time_slice', aging_score', wakeup_tick', pc')
           /\ current' = n /\ state'[n] = "RUNNING"
           /\ \A p \in Slot \ {n} :
                \/ state'[p] = st[p]
                \/ p = current /\ st[p] = "RUNNING" /\ state'[p] = "RUNNABLE"
  <1> USE SlotFacts DEF Table, SwitchTo
  <1>1. current' = n /\ state' \in [Slot -> State] /\ state'[n] = "RUNNING"
    BY DEF State
  <1>2. \A p \in Slot \ {n} :
          state'[p] = IF p = current /\ st[p] = "RUNNING" THEN "RUNNABLE" ELSE st[p]
    OBVIOUS
  <1>3. aging_score' \in [Slot -> 0 .. SCHED_AGING_MAX] /\ aging_score'[n] = 0
    BY BoostedRange
  <1>4. time_slice' \in [Slot -> 0 .. SCHED_DEFAULT_TIMESLICE]
    OBVIOUS
  <1>5. /\ pc' \in [Slot -> KernelPc \cup UserPc]
        /\ pc'[0] \in KernelPc /\ \A p \in User : pc'[p] \in UserPc
    BY DEF KernelPc, User
  <1>6. \A p \in Slot : state'[p] = "RUNNING" => p = n
    BY <1>1, <1>2
  <1>7. n # 0 => state'[0] = "RUNNABLE"
    BY <1>2
  <1> QED
    BY <1>1, <1>2, <1>3, <1>4, <1>5, <1>6, <1>7

(* A call of schedule() turns a table into a table.  A user process that    *)
(* has the CPU afterwards is PROC_RUNNING unless it kept a RUNNING state; a *)
(* process that gets the CPU was ready; the others change only by losing    *)
(* the CPU or by being reaped.                                              *)
LEMMA ScheduleStep ==
    ASSUME NEW st, NEW sl, NEW ag, NEW wk, NEW pcs,
           Table(current, st, sl, ag, wk, pcs),
           schedule(st, sl, ag, wk, pcs)
    PROVE  /\ Table(current', state', time_slice', aging_score', wakeup_tick', pc')
           /\ current' \in User => current' # current
           /\ current' # current => /\ st[current'] = "RUNNABLE"
                                    /\ state'[current'] = "RUNNING"
           /\ \A p \in Slot :
                \/ state'[p] = st[p]
                \/ p = current' /\ p # current
                \/ p = current /\ st[p] = "RUNNING" /\ state'[p] = "RUNNABLE"
                \/ p \in User \ {current} /\ st[p] = "ZOMBIE" /\ state'[p] = "UNUSED"
  <1>1. PICK Z \in SUBSET Reapable(st) :
          LET s == Destroyed(st, Z)
              l == Cleared(sl, Z)
              a == Cleared(ag, Z)
              C == Runnable(s)
          IN  /\ wakeup_tick' = Cleared(wk, Z)
              /\ IF C = {} /\ s[current] = "RUNNING"
                 THEN KeepCpu(s, [l EXCEPT ![current] = SCHED_DEFAULT_TIMESLICE], a, pcs)
                 ELSE \E n \in IF C = {} THEN {0} ELSE Best(C, a) :
                        IF n = current THEN KeepCpu(s, l, a, pcs)
                                       ELSE SwitchTo(n, s, l, a, pcs)
    BY DEF schedule
  <1> DEFINE s == Destroyed(st, Z)
             l == Cleared(sl, Z)
             a == Cleared(ag, Z)
             w == Cleared(wk, Z)
             C == Runnable(s)
  <1>2. /\ Table(current, s, l, a, w, pcs)
        /\ \A p \in Slot :
             \/ s[p] = st[p]
             \/ p \in User \ {current} /\ st[p] = "ZOMBIE" /\ s[p] = "UNUSED"
    BY ReapTable
  <1>3. wakeup_tick' = w
    BY <1>1
  <1> HIDE DEF s, l, a, w
  <1>4. CASE current \in User
    <2>1. 0 \in C /\ C # {}
      BY <1>2, <1>4, SlotFacts DEF Table, Runnable, User
    <2>2. PICK n \in Best(C, a) :
            IF n = current THEN KeepCpu(s, l, a, pcs) ELSE SwitchTo(n, s, l, a, pcs)
      BY <1>1, <2>1 DEF s, l, a
    <2>3. n \in Slot /\ s[n] = "RUNNABLE"
      BY DEF Best, Runnable
    <2>4. n # current
      <3>1. ~ Better(current, 0, a)
        BY <1>2, <1>4, KernelOutranks DEF Table
      <3>2. n # 0 => Better(n, 0, a)
        BY <2>1 DEF Best
      <3> QED BY <1>4, <3>1, <3>2 DEF User
    <2>5. SwitchTo(n, s, l, a, pcs)
      BY <2>2, <2>4
    <2>6. /\ Table(current', state', time_slice', aging_score', wakeup_tick', pc')
          /\ current' = n /\ state'[n] = "RUNNING"
          /\ \A p \in Slot \ {n} :
               \/ state'[p] = s[p]
               \/ p = current /\ s[p] = "RUNNING" /\ state'[p] = "RUNNABLE"
      BY <1>2, <1>3, <2>3, <2>4, <2>5, SwitchStep
    <2> QED BY <1>2, <2>3, <2>4, <2>6
  <1>5. CASE current = 0
    <2>1. CASE C = {} /\ s[current] = "RUNNING"
      <3>1. KeepCpu(s, [l EXCEPT ![current] = SCHED_DEFAULT_TIMESLICE], a, pcs)
        BY <1>1, <2>1 DEF s, l, a
      <3> QED BY <1>2, <1>3, <1>5, <3>1, SlotFacts DEF KeepCpu, Table, User
    <2>2. CASE ~(C = {} /\ s[current] = "RUNNING")
      <3>1. C # {}
        BY <1>2, <1>5, <2>2 DEF Table, Runnable
      <3>2. PICK n \in Best(C, a) :
              IF n = current THEN KeepCpu(s, l, a, pcs) ELSE SwitchTo(n, s, l, a, pcs)
        BY <1>1, <2>2, <3>1 DEF s, l, a
      <3>3. n \in Slot /\ s[n] = "RUNNABLE"
        BY DEF Best, Runnable
      <3>4. CASE n = current
        <4>1. KeepCpu(s, l, a, pcs)
          BY <3>2, <3>4
        <4> QED BY <1>2, <1>3, <1>5, <4>1 DEF KeepCpu, Table, User
      <3>5. CASE n # current
        <4>1. SwitchTo(n, s, l, a, pcs)
          BY <3>2, <3>5
        <4>2. /\ Table(current', state', time_slice', aging_score', wakeup_tick', pc')
              /\ current' = n /\ state'[n] = "RUNNING"
              /\ \A p \in Slot \ {n} :
                   \/ state'[p] = s[p]
                   \/ p = current /\ s[p] = "RUNNING" /\ state'[p] = "RUNNABLE"
          BY <1>2, <1>3, <3>3, <3>5, <4>1, SwitchStep
        <4> QED BY <1>2, <3>3, <3>5, <4>2
      <3> QED BY <3>4, <3>5
    <2> QED BY <2>1, <2>2
  <1> QED BY <1>2, <1>4, <1>5 DEF Table, User

-----------------------------------------------------------------------------
(* The invariant as a table, and back. *)
LEMMA InvIsTable ==
    Inv <=> /\ Table(current, state, time_slice, aging_score, wakeup_tick, pc)
            /\ now \in 0 .. TickMod - 1 /\ loaded \in BOOLEAN
            /\ ExecutingIsCharged
  BY DEF Inv, Table, TypeOK, OnlyCurrentRuns, IdleIsReady, CurrentInUse,
         CurrentNotAged, KernelAlive

(* The same after a step. *)
LEMMA InvIsTablePrime ==
    Inv' <=> /\ Table(current', state', time_slice', aging_score', wakeup_tick', pc')
             /\ now' \in 0 .. TickMod - 1 /\ loaded' \in BOOLEAN
             /\ ExecutingIsCharged'
  BY DEF Inv, Table, TypeOK, OnlyCurrentRuns, IdleIsReady, CurrentInUse,
         CurrentNotAged, KernelAlive

(* An interrupt moves at most pid 0, from one instruction of the idle loop  *)
(* to the other.                                                            *)
LEMMA AfterHltPc ==
    ASSUME pc \in [Slot -> KernelPc \cup UserPc], pc[0] \in KernelPc,
           \A p \in User : pc[p] \in UserPc
    PROVE  /\ AfterHlt(pc) \in [Slot -> KernelPc \cup UserPc]
           /\ AfterHlt(pc)[0] \in KernelPc
           /\ \A p \in User : AfterHlt(pc)[p] = pc[p]
  BY SlotFacts DEF AfterHlt, KernelPc, User

(* The table after the wake-ups and the aging of scheduler_tick. *)
LEMMA TickTable ==
    ASSUME Inv, NEW due, due = DueAt((now + 1) % TickMod)
    PROVE  Table(current,
                 [p \in Slot |-> IF p \in due THEN "RUNNABLE" ELSE state[p]],
                 [p \in Slot |-> IF p \in due THEN RefreshedSlice(time_slice[p])
                                 ELSE time_slice[p]],
                 [p \in Slot |-> IF state[p] = "RUNNABLE" /\ p # current
                                 THEN Boosted(aging_score[p]) ELSE aging_score[p]],
                 [p \in Slot |-> IF p \in due THEN 0 ELSE wakeup_tick[p]],
                 AfterHlt(pc))
  <1> DEFINE st == [p \in Slot |-> IF p \in due THEN "RUNNABLE" ELSE state[p]]
             sl == [p \in Slot |-> IF p \in due THEN RefreshedSlice(time_slice[p])
                                   ELSE time_slice[p]]
             ag == [p \in Slot |-> IF state[p] = "RUNNABLE" /\ p # current
                                   THEN Boosted(aging_score[p]) ELSE aging_score[p]]
             wk == [p \in Slot |-> IF p \in due THEN 0 ELSE wakeup_tick[p]]
  <1>1. Table(current, state, time_slice, aging_score, wakeup_tick, pc)
    BY InvIsTable
  <1>2. \A p \in due : p \in Slot /\ state[p] = "SLEEPING"
    BY DEF DueAt
  <1>3. st \in [Slot -> State]
    BY <1>1 DEF Table, State
  <1>4. sl \in [Slot -> 0 .. SCHED_DEFAULT_TIMESLICE]
    BY <1>1, SlotFacts DEF Table, RefreshedSlice
  <1>5. ag \in [Slot -> 0 .. SCHED_AGING_MAX] /\ ag[current] = 0
    BY <1>1, BoostedRange DEF Table
  <1>6. wk \in [Slot -> 0 .. TickMod - 1]
    BY <1>1, SlotFacts DEF Table
  <1>7. /\ \A p \in Slot : st[p] = "RUNNING" => p = current
        /\ current # 0 => st[0] = "RUNNABLE"
        /\ st[0] \in {"RUNNING", "RUNNABLE"}
        /\ st[current] # "UNUSED"
    BY <1>1, <1>2, SlotFacts DEF Table
  <1>8. /\ AfterHlt(pc) \in [Slot -> KernelPc \cup UserPc]
        /\ AfterHlt(pc)[0] \in KernelPc
        /\ \A p \in User : AfterHlt(pc)[p] \in UserPc
    BY <1>1, AfterHltPc DEF Table
  <1> QED
    BY <1>1, <1>3, <1>4, <1>5, <1>6, <1>7, <1>8 DEF Table

(* A table whose current process is demoted or charged is still a table. *)
LEMMA ChargeTable ==
    ASSUME NEW st, NEW sl, NEW ag, NEW wk, NEW pcs,
           Table(current, st, sl, ag, wk, pcs), st[current] = "RUNNING",
           NEW n \in 0 .. SCHED_DEFAULT_TIMESLICE
    PROVE  /\ Table(current, st, [sl EXCEPT ![current] = n], ag, wk, pcs)
           /\ Table(current, [st EXCEPT ![current] = "RUNNABLE"],
                    [sl EXCEPT ![current] = n], ag, wk, pcs)
  BY DEF Table, State

(* IRQ0 keeps the invariant. *)
LEMMA TickStep == Inv /\ Tick => Inv'
  <1> SUFFICES ASSUME Inv, Tick PROVE Inv'
    OBVIOUS
  <1> DEFINE t   == (now + 1) % TickMod
             due == DueAt(t)
             st  == [p \in Slot |-> IF p \in due THEN "RUNNABLE" ELSE state[p]]
             ag  == [p \in Slot |-> IF state[p] = "RUNNABLE" /\ p # current
                                    THEN Boosted(aging_score[p]) ELSE aging_score[p]]
             sl  == [p \in Slot |-> IF p \in due THEN RefreshedSlice(time_slice[p])
                                    ELSE time_slice[p]]
             wk  == [p \in Slot |-> IF p \in due THEN 0 ELSE wakeup_tick[p]]
             charged == state[current] = "RUNNING"
             left    == IF sl[current] > 0 THEN sl[current] - 1 ELSE 0
             charge(n) == [sl EXCEPT ![current] = n]
  <1>1. Table(current, st, sl, ag, wk, AfterHlt(pc))
    BY TickTable
  <1>2. now' \in 0 .. TickMod - 1 /\ loaded' \in BOOLEAN
    <2>1. now \in Nat /\ loaded \in BOOLEAN
      BY SchedulerAssumption, InvIsTable
    <2>2. t \in 0 .. TickMod - 1
      BY <2>1, TickRange
    <2> QED BY <2>1, <2>2 DEF Tick
  <1>3. left \in 0 .. SCHED_DEFAULT_TIMESLICE
    BY <1>1, SchedulerAssumption DEF Table
  <1>4. charged => st[current] = "RUNNING"
    BY <1>1 DEF Table, DueAt
  <1>5. CASE charged /\ left = 0 /\ HasOther(st)
    <2>1. schedule([st EXCEPT ![current] = "RUNNABLE"], charge(SCHED_DEFAULT_TIMESLICE),
                   ag, wk, AfterHlt(pc))
      BY <1>5 DEF Tick
    <2>2. Table(current, [st EXCEPT ![current] = "RUNNABLE"],
                charge(SCHED_DEFAULT_TIMESLICE), ag, wk, AfterHlt(pc))
      BY <1>1, <1>4, <1>5, SlotFacts, ChargeTable
    <2> HIDE DEF st, sl, ag, wk, charge
    <2>3. /\ Table(current', state', time_slice', aging_score', wakeup_tick', pc')
          /\ current' \in User => state'[current'] = "RUNNING"
      BY <2>1, <2>2, ScheduleStep
    <2> QED BY <1>2, <2>3, InvIsTablePrime DEF ExecutingIsCharged
  <1>6. CASE ~(charged /\ left = 0 /\ HasOther(st))
    <2> DEFINE n == IF left = 0 THEN SCHED_DEFAULT_TIMESLICE ELSE left
    <2>1. /\ KeepCpu(st, IF ~charged THEN sl ELSE charge(n), ag, AfterHlt(pc))
          /\ wakeup_tick' = wk
      BY <1>6 DEF Tick
    <2>2. n \in 0 .. SCHED_DEFAULT_TIMESLICE
      BY <1>3, SlotFacts
    <2>3. charged => Table(current, st, charge(n), ag, wk, AfterHlt(pc))
      BY <1>1, <1>4, <2>2, ChargeTable
    <2>4. Table(current', state', time_slice', aging_score', wakeup_tick', pc')
      BY <1>1, <2>1, <2>3 DEF KeepCpu
    <2>5. ExecutingIsCharged'
      <3>1. ASSUME current \in User, AfterHlt(pc)[current] = "run"
            PROVE  st[current] = "RUNNING"
        BY <3>1, <1>4, InvIsTable, AfterHltPc DEF ExecutingIsCharged, Table
      <3> QED BY <2>1, <3>1 DEF KeepCpu, ExecutingIsCharged
    <2> QED BY <1>2, <2>4, <2>5, InvIsTablePrime
  <1> QED BY <1>5, <1>6

(* A call of schedule() by kmain, the idle loop or a user process. *)
LEMMA CallStep ==
    ASSUME Inv, NEW c \in {"halt", "hlt", "run"},
           (current = 0) <=> c \in {"halt", "hlt"},
           schedule(state, time_slice, aging_score, wakeup_tick, [pc EXCEPT ![current] = c]),
           UNCHANGED <<now, loaded>>
    PROVE  Inv'
  <1>1. Table(current, state, time_slice, aging_score, wakeup_tick, [pc EXCEPT ![current] = c])
    BY InvIsTable DEF Table, KernelPc, UserPc, User
  <1>2. /\ Table(current', state', time_slice', aging_score', wakeup_tick', pc')
        /\ current' \in User => state'[current'] = "RUNNING"
    BY <1>1, ScheduleStep
  <1> QED BY <1>2, InvIsTable, InvIsTablePrime DEF ExecutingIsCharged

(* process_create fills a free slot. *)
LEMMA CreateStep ==
    ASSUME Inv, process_create, current' = current, now' = now,
           loaded' = loaded, pc' \in [Slot -> KernelPc \cup UserPc],
           pc'[0] \in KernelPc, \A p \in User : pc'[p] = pc[p]
    PROVE  Inv'
  <1>1. Table(current, state, time_slice, aging_score, wakeup_tick, pc)
    BY InvIsTable
  <1>2. PICK Z \in SUBSET Reapable(state) : \E p \in Free(Destroyed(state, Z)) :
            /\ state' = [Destroyed(state, Z) EXCEPT ![p] = "RUNNABLE"]
            /\ time_slice' = [Cleared(time_slice, Z) EXCEPT ![p] = SCHED_DEFAULT_TIMESLICE]
            /\ aging_score' = [Cleared(aging_score, Z) EXCEPT ![p] = 0]
            /\ wakeup_tick' = [Cleared(wakeup_tick, Z) EXCEPT ![p] = 0]
    BY DEF process_create
  <1> DEFINE st == Destroyed(state, Z)
             sl == Cleared(time_slice, Z)
             ag == Cleared(aging_score, Z)
             wk == Cleared(wakeup_tick, Z)
  <1>3. Table(current, st, sl, ag, wk, pc)
    BY <1>1, ReapTable
  <1>4. PICK p \in Free(st) :
            /\ state' = [st EXCEPT ![p] = "RUNNABLE"]
            /\ time_slice' = [sl EXCEPT ![p] = SCHED_DEFAULT_TIMESLICE]
            /\ aging_score' = [ag EXCEPT ![p] = 0]
            /\ wakeup_tick' = [wk EXCEPT ![p] = 0]
    BY <1>2
  <1>5. st[current] = state[current]
    BY <1>1 DEF Table, Destroyed, Reapable
  <1> HIDE DEF st, sl, ag, wk
  <1>6. p \in User /\ p # current /\ p # 0
    BY <1>3, <1>4, SlotFacts DEF Free, Table, User
  <1>7. /\ state' \in [Slot -> State]
        /\ time_slice' \in [Slot -> 0 .. SCHED_DEFAULT_TIMESLICE]
        /\ aging_score' \in [Slot -> 0 .. SCHED_AGING_MAX]
        /\ wakeup_tick' \in [Slot -> 0 .. TickMod - 1]
    BY <1>3, <1>4, SlotFacts DEF Table, State
  <1>8. /\ state'[current] = st[current] /\ aging_score'[current] = 0
        /\ state'[0] = st[0]
        /\ \A q \in Slot : state'[q] = "RUNNING" => st[q] = "RUNNING"
    BY <1>3, <1>4, <1>6, SlotFacts DEF Table
  <1>9. Table(current', state', time_slice', aging_score', wakeup_tick', pc')
    BY <1>1, <1>3, <1>7, <1>8 DEF Table
  <1> QED
    BY <1>5, <1>8, <1>9, InvIsTable, InvIsTablePrime DEF ExecutingIsCharged

(* Waking a sleeper, from an interrupt or from a running process. *)
LEMMA WakeStep ==
    ASSUME Inv, NEW p \in User, state[p] = "SLEEPING", MakeRunnable(p),
           UNCHANGED <<aging_score, wakeup_tick, current, now, loaded>>,
           pc' \in [Slot -> KernelPc \cup UserPc],
           pc'[0] \in KernelPc, \A q \in User : pc'[q] = pc[q]
    PROVE  Inv'
  <1>1. Table(current, state, time_slice, aging_score, wakeup_tick, pc)
    BY InvIsTable
  <1>2. /\ state' \in [Slot -> State]
        /\ time_slice' \in [Slot -> 0 .. SCHED_DEFAULT_TIMESLICE]
    BY <1>1, SlotFacts DEF Table, MakeRunnable, RefreshedSlice, State
  <1>3. \A q \in Slot \ {p} : state'[q] = state[q]
    BY <1>1 DEF Table, MakeRunnable
  <1>4. state'[p] = "RUNNABLE" /\ p # 0
    BY <1>1, SlotFacts DEF Table, MakeRunnable
  <1>5. Table(current', state', time_slice', aging_score', wakeup_tick', pc')
    BY <1>1, <1>2, <1>3, <1>4, SlotFacts DEF Table
  <1>6. ExecutingIsCharged'
    BY <1>1, <1>3, InvIsTable DEF ExecutingIsCharged, Table
  <1> QED BY <1>5, <1>6, InvIsTable, InvIsTablePrime

(* Every step keeps the invariant. *)
LEMMA InvStep == Inv /\ [Next]_vars => Inv'
  <1> SUFFICES ASSUME Inv, [Next]_vars PROVE Inv'
    OBVIOUS
  <1>0. Table(current, state, time_slice, aging_score, wakeup_tick, pc)
    BY InvIsTable
  <1>1. CASE Tick
    BY <1>1, TickStep
  <1>2. CASE \E p \in User : DeviceIrq(p)
    <2>1. PICK p \in User : DeviceIrq(p)
      BY <1>2
    <2> QED BY <1>0, <2>1, WakeStep, AfterHltPc DEF DeviceIrq, Table
  <1>3. CASE KmainCreate
    BY <1>0, <1>3, CreateStep, SlotFacts DEF KmainCreate, Table, KernelPc, User
  <1>4. CASE KmainLoaded
    <2>1. Table(current', state', time_slice', aging_score', wakeup_tick', pc')
      BY <1>0, <1>4, SlotFacts DEF KmainLoaded, Table, KernelPc, User
    <2>2. ExecutingIsCharged'
      BY <1>0, <1>4 DEF KmainLoaded, ExecutingIsCharged, User
    <2> QED BY <1>4, <2>1, <2>2, InvIsTable, InvIsTablePrime DEF KmainLoaded
  <1>5. CASE KmainYield
    BY <1>0, <1>5, CallStep DEF KmainYield
  <1>6. CASE IdleSchedule
    BY <1>0, <1>6, CallStep DEF IdleSchedule
  <1>7. CASE UserSchedule
    BY <1>0, <1>7, CallStep DEF UserSchedule, User
  <1>8. CASE sys_fork
    BY <1>0, <1>8, CreateStep DEF sys_fork, Table
  <1>9. CASE process_wait_on
    <2>1. Table(current', state', time_slice', aging_score', wakeup_tick', pc')
      BY <1>0, <1>9, SlotFacts DEF process_wait_on, Sane, Executing, CommitToSchedule,
         Table, State, UserPc, User
    <2> QED BY <1>9, <2>1, <1>0, InvIsTable, InvIsTablePrime
            DEF process_wait_on, CommitToSchedule, ExecutingIsCharged, Table
  <1>10. CASE process_yield
    <2>1. Table(current', state', time_slice', aging_score', wakeup_tick', pc')
      BY <1>0, <1>10, SlotFacts DEF process_yield, Sane, Executing, CommitToSchedule,
         Table, UserPc, User
    <2> QED BY <1>10, <2>1, <1>0, InvIsTable, InvIsTablePrime
            DEF process_yield, CommitToSchedule, ExecutingIsCharged, Table
  <1>11. CASE process_exit
    <2>1. PICK W \in {{}} \cup {{p} : p \in {q \in User : state[q] = "SLEEPING"}} :
            /\ state' = [p \in Slot |-> IF p = current THEN "ZOMBIE"
                                        ELSE IF p \in W THEN "RUNNABLE" ELSE state[p]]
            /\ time_slice' = [p \in Slot |-> IF p \in W THEN RefreshedSlice(time_slice[p])
                                             ELSE time_slice[p]]
      BY <1>11 DEF process_exit
    <2>2. \A p \in W : p \in User
      OBVIOUS
    <2>3. /\ state' \in [Slot -> State]
          /\ time_slice' \in [Slot -> 0 .. SCHED_DEFAULT_TIMESLICE]
      BY <1>0, <2>1, SlotFacts DEF Table, State, RefreshedSlice
    <2>4. current \in User /\ current # 0 /\ UNCHANGED <<aging_score, wakeup_tick, current, now, loaded>>
          /\ pc' = [pc EXCEPT ![current] = "sched"]
      BY <1>11, SlotFacts DEF process_exit, Executing, CommitToSchedule
    <2>5. /\ state'[0] = "RUNNABLE" /\ state'[current] = "ZOMBIE"
          /\ \A p \in Slot : state'[p] # "RUNNING"
      BY <1>0, <2>1, <2>2, <2>4, SlotFacts DEF Table, User
    <2>6. Table(current', state', time_slice', aging_score', wakeup_tick', pc')
      BY <1>0, <2>3, <2>4, <2>5, SlotFacts DEF Table, UserPc, User
    <2>7. ExecutingIsCharged'
      BY <1>0, <2>4 DEF ExecutingIsCharged, Table
    <2> QED BY <2>4, <2>6, <2>7, InvIsTable, InvIsTablePrime
  <1>12. CASE \E t \in 0 .. MaxSleep : process_sleep(t)
    <2>1. PICK t \in 0 .. MaxSleep : process_sleep(t)
      BY <1>12
    <2>2. (now + t) % TickMod \in 0 .. TickMod - 1
      <3>1. now + t \in Nat
        BY SchedulerAssumption, InvIsTable
      <3> QED BY <3>1, TickRange
    <2>3. Table(current', state', time_slice', aging_score', wakeup_tick', pc')
      BY <1>0, <2>1, <2>2, SlotFacts DEF process_sleep, Sane, Executing, CommitToSchedule,
         Table, State, UserPc, User
    <2> QED BY <2>1, <2>3, <1>0, InvIsTable, InvIsTablePrime
            DEF process_sleep, CommitToSchedule, ExecutingIsCharged, Table
  <1>13. CASE \E p \in User : process_wake(p)
    <2>1. PICK p \in User : process_wake(p)
      BY <1>13
    <2> QED BY <1>0, <2>1, WakeStep DEF process_wake, Table
  <1>14. CASE \E p \in User : process_destroy(p)
    <2>1. PICK z \in User : process_destroy(z)
      BY <1>14
    <2>2. Table(current, Destroyed(state, {z}), Cleared(time_slice, {z}),
                Cleared(aging_score, {z}), Cleared(wakeup_tick, {z}), pc)
      BY <1>0, <2>1, ReapTable DEF process_destroy
    <2>3. Table(current', state', time_slice', aging_score', wakeup_tick', pc')
      BY <2>1, <2>2 DEF process_destroy
    <2>4. ExecutingIsCharged'
      BY <1>0, <2>1, InvIsTable
         DEF process_destroy, ExecutingIsCharged, Destroyed, Reapable, Table
    <2> QED BY <2>1, <2>3, <2>4, InvIsTable, InvIsTablePrime DEF process_destroy
  <1>15. CASE UNCHANGED vars
    BY <1>0, <1>15, InvIsTable, InvIsTablePrime DEF vars, ExecutingIsCharged
  <1> QED
    BY <1>1, <1>2, <1>3, <1>4, <1>5, <1>6, <1>7, <1>8, <1>9, <1>10, <1>11, <1>12,
       <1>13, <1>14, <1>15 DEF Next, Kernel, UserStep

(* The table process_init leaves satisfies the invariant. *)
LEMMA InvInit == process_init => Inv
  <1>1. SUFFICES ASSUME process_init PROVE Inv
    OBVIOUS
  <1>2. /\ current = 0 /\ loaded = FALSE /\ aging_score[0] = 0 /\ state[0] = "RUNNING" /\ pc[0] = "boot"
        /\ \A p \in User : state[p] = "UNUSED" /\ pc[p] = "run"
        /\ \A p \in Slot : p = 0 \/ p \in User
    BY <1>1, SlotFacts DEF process_init, User
  <1>3. TypeOK
    <2>1. loaded \in BOOLEAN
      BY <1>2, Zenon
    <2> QED
      BY <1>1, <1>2, <2>1, SlotFacts, SchedulerAssumption
         DEF process_init, TypeOK, State, KernelPc, UserPc
  <1> QED
    BY <1>2, <1>3, SlotFacts
       DEF Inv, OnlyCurrentRuns, IdleIsReady, ExecutingIsCharged, CurrentInUse, CurrentNotAged, KernelAlive

(* The inductive invariant holds in every reachable state. *)
THEOREM Invariance == Spec => []Inv
  <1>1. process_init => Inv
    BY InvInit
  <1>2. Inv /\ [Next]_vars => Inv'
    BY InvStep
  <1> QED BY <1>1, <1>2, PTL DEF Spec

(* For every table size, slice, aging cap, priority and tick width, every   *)
(* field of process_table keeps its range.                                  *)
THEOREM TypeCorrect == Spec => []TypeOK
  BY Invariance, PTL DEF Inv

(* No two processes run at once and current_process is the one that does.   *)
THEOREM MutualExclusion == Spec => []OnlyCurrentRuns
  BY Invariance, PTL DEF Inv

(* schedule() always finds pid 0 when no user process is ready. *)
THEOREM IdleAlwaysReady == Spec => []IdleIsReady
  BY Invariance, PTL DEF Inv

(* The process states are sound whatever the table size and the slice. *)
THEOREM StatesSound == Spec => []StatesAreSound
  BY Invariance, PTL DEF Inv, StatesAreSound

(* A user process that executes is charged for its ticks, because pid 0     *)
(* outranks it whenever schedule() could pick it again.                     *)
THEOREM AlwaysCharged == Spec => []ExecutingIsCharged
  BY Invariance, PTL DEF Inv

-----------------------------------------------------------------------------
(* Refinement.  A step as the table sees it: slots keep their state or make *)
(* one of the moves of ProcStates, and the CPU goes to a ready process.     *)
SlotMove(p, old, new) ==
    \/ old = new
    \/ old \in {"UNUSED", "SLEEPING"} /\ new = "RUNNABLE"
    \/ old = "ZOMBIE" /\ new \in {"UNUSED", "RUNNABLE"} /\ p # current
    \/ old = "RUNNING" /\ new \in {"RUNNABLE", "SLEEPING", "ZOMBIE"} /\ p = current

TableMove ==
    /\ \A p \in User : (p # current' \/ p = current) => SlotMove(p, state[p], state'[p])
    /\ (current' # current /\ current' \in User) =>
           /\ state[current'] \in {"RUNNABLE", "SLEEPING"}
           /\ state'[current'] = "RUNNING"

(* Such a step is a step of ProcStates. *)
LEMMA MoveRefines ==
    ASSUME Inv, Inv', TableMove
    PROVE  Abs!Next
  <1>1. /\ current \in Slot /\ current' \in Slot /\ 0 \in Slot
        /\ state \in [Slot -> State] /\ state' \in [Slot -> State]
        /\ \A p \in Slot : state'[p] = "RUNNING" => p = current'
        /\ Slot = Abs!Slot /\ User = Slot \ {0}
    BY InvIsTable, InvIsTablePrime, SlotFacts DEF Table, Abs!Slot, Slot, User
  <1> DEFINE status == [p \in Slot |-> Status(p)]
             statusN == [p \in Slot |-> Status(p)']
  <1>2. status \in [Slot -> Abs!Phase] /\ statusN \in [Slot -> Abs!Phase]
    BY <1>1 DEF Status, Abs!Phase, State
  <1>3. \A p \in Slot : p # current' \/ p = current =>
          Abs!LocalMove(p, status[p], statusN[p])
    <2> TAKE p \in Slot
    <2> HAVE p # current' \/ p = current
    <2>1. CASE p = 0
      BY <1>1, <2>1 DEF Status, Abs!LocalMove
    <2>2. CASE p # 0
      BY <1>1, <2>2 DEF TableMove, SlotMove, Status, Abs!LocalMove, State
    <2> QED BY <2>1, <2>2
  <1>4. CASE current' = current
    <2>1. \A p \in Slot : Abs!LocalMove(p, status[p], statusN[p])
      BY <1>3, <1>4
    <2> QED BY <1>1, <1>2, <1>4, <2>1 DEF Abs!Next, Abs!Run
  <1>5. CASE current' # current
    <2>1. status[current'] \in {"ready", "blocked"} /\ statusN[current'] = "running"
      BY <1>1, <1>5 DEF TableMove, Status
    <2>2. statusN[current] # "running"
      BY <1>1, <1>5 DEF Status, State
    <2>3. Abs!Dispatch(current')
      BY <1>1, <1>2, <1>3, <1>5, <2>1, <2>2 DEF Abs!Dispatch
    <2> QED BY <1>1, <2>3 DEF Abs!Next
  <1> QED BY <1>4, <1>5

(* schedule(), called after at most some wake-ups and the demotion of the   *)
(* current process, makes such a step.                                      *)
LEMMA ScheduleMoves ==
    ASSUME NEW st, NEW sl, NEW ag, NEW wk, NEW pcs,
           Table(current, st, sl, ag, wk, pcs),
           schedule(st, sl, ag, wk, pcs),
           \A p \in Slot : \/ st[p] = state[p]
                           \/ state[p] = "SLEEPING" /\ st[p] = "RUNNABLE"
                           \/ p = current /\ state[p] = "RUNNING" /\ st[p] = "RUNNABLE"
    PROVE  TableMove
  <1>1. /\ current' # current => st[current'] = "RUNNABLE" /\ state'[current'] = "RUNNING"
        /\ \A p \in Slot :
             \/ state'[p] = st[p]
             \/ p = current' /\ p # current
             \/ p = current /\ st[p] = "RUNNING" /\ state'[p] = "RUNNABLE"
             \/ p \in User \ {current} /\ st[p] = "ZOMBIE" /\ state'[p] = "UNUSED"
    BY ScheduleStep
  <1>2. \A p \in User : (p # current' \/ p = current) => SlotMove(p, state[p], state'[p])
    BY <1>1, SlotFacts DEF SlotMove
  <1> QED BY <1>1, <1>2, SlotFacts DEF TableMove

(* Each kind of step of the scheduler is such a step. *)
LEMMA NextMoves == Inv /\ Next => TableMove
  <1> SUFFICES ASSUME Inv, Next PROVE TableMove
    OBVIOUS
  <1>0. Table(current, state, time_slice, aging_score, wakeup_tick, pc)
    BY InvIsTable
  <1>1. CASE Tick
    <2> DEFINE due == DueAt((now + 1) % TickMod)
               st  == [p \in Slot |-> IF p \in due THEN "RUNNABLE" ELSE state[p]]
               ag  == [p \in Slot |-> IF state[p] = "RUNNABLE" /\ p # current
                                      THEN Boosted(aging_score[p]) ELSE aging_score[p]]
               sl  == [p \in Slot |-> IF p \in due THEN RefreshedSlice(time_slice[p])
                                      ELSE time_slice[p]]
               wk  == [p \in Slot |-> IF p \in due THEN 0 ELSE wakeup_tick[p]]
               st2 == [st EXCEPT ![current] = "RUNNABLE"]
               sl2 == [sl EXCEPT ![current] = SCHED_DEFAULT_TIMESLICE]
    <2>1. \/ /\ state[current] = "RUNNING"
             /\ schedule(st2, sl2, ag, wk, AfterHlt(pc))
          \/ state' = st /\ current' = current
      BY <1>1 DEF Tick, KeepCpu
    <2>2. \A p \in Slot : st[p] = state[p] \/ (state[p] = "SLEEPING" /\ st[p] = "RUNNABLE")
      BY DEF DueAt
    <2>3. CASE state[current] = "RUNNING" /\ schedule(st2, sl2, ag, wk, AfterHlt(pc))
      <3>1. Table(current, st, sl, ag, wk, AfterHlt(pc))
        BY TickTable
      <3>2. st[current] = "RUNNING"
        BY <1>0, <2>3 DEF DueAt, Table
      <3>3. Table(current, st2, sl2, ag, wk, AfterHlt(pc))
        BY <3>1, <3>2, SlotFacts, ChargeTable
      <3>4. \A p \in Slot : \/ st2[p] = state[p]
                            \/ state[p] = "SLEEPING" /\ st2[p] = "RUNNABLE"
                            \/ p = current /\ state[p] = "RUNNING" /\ st2[p] = "RUNNABLE"
        BY <1>0, <2>2, <2>3 DEF Table
      <3> HIDE DEF st2, sl2, ag, wk
      <3> QED BY <2>3, <3>3, <3>4, ScheduleMoves
    <2>4. CASE state' = st /\ current' = current
      BY <2>2, <2>4, SlotFacts DEF TableMove, SlotMove
    <2> QED BY <2>1, <2>3, <2>4
  <1>2. CASE \E p \in User : DeviceIrq(p) \/ process_wake(p)
    BY <1>0, <1>2, SlotFacts
       DEF DeviceIrq, process_wake, MakeRunnable, TableMove, SlotMove, Table
  <1>3. CASE KmainCreate \/ sys_fork
    <2>1. current' = current /\ process_create
      BY <1>3 DEF KmainCreate, sys_fork
    <2>2. PICK Z \in SUBSET Reapable(state) : \E p \in Free(Destroyed(state, Z)) :
            state' = [Destroyed(state, Z) EXCEPT ![p] = "RUNNABLE"]
      BY <2>1 DEF process_create
    <2> QED BY <1>0, <2>1, <2>2, SlotFacts
            DEF TableMove, SlotMove, Free, Destroyed, Reapable, Table
  <1>4. CASE KmainLoaded
    BY <1>4 DEF KmainLoaded, TableMove, SlotMove
  <1>5. CASE KmainYield \/ IdleSchedule \/ UserSchedule
    <2>1. PICK c \in {"halt", "hlt", "run"} :
            /\ (current = 0) <=> c \in {"halt", "hlt"}
            /\ schedule(state, time_slice, aging_score, wakeup_tick,
                        [pc EXCEPT ![current] = c])
      BY <1>0, <1>5 DEF KmainYield, IdleSchedule, UserSchedule, User, Table
    <2>2. Table(current, state, time_slice, aging_score, wakeup_tick,
                [pc EXCEPT ![current] = c])
      BY <1>0, <2>1 DEF Table, KernelPc, UserPc, User
    <2> QED BY <2>1, <2>2, ScheduleMoves
  <1>6. CASE process_wait_on \/ \E t \in 0 .. MaxSleep : process_sleep(t)
    BY <1>0, <1>6, InvIsTable, SlotFacts
       DEF process_wait_on, process_sleep, Sane, Executing, ExecutingIsCharged,
           TableMove, SlotMove, Table
  <1>7. CASE process_yield
    BY <1>7 DEF process_yield, TableMove, SlotMove
  <1>8. CASE process_exit
    <2>1. current' = current /\ state[current] = "RUNNING"
      BY <1>8, InvIsTable DEF process_exit, Executing, ExecutingIsCharged
    <2>2. PICK W \in {{}} \cup {{p} : p \in {q \in User : state[q] = "SLEEPING"}} :
            state' = [p \in Slot |-> IF p = current THEN "ZOMBIE"
                                     ELSE IF p \in W THEN "RUNNABLE" ELSE state[p]]
      BY <1>8 DEF process_exit
    <2>3. \A p \in W : state[p] = "SLEEPING"
      OBVIOUS
    <2> QED BY <2>1, <2>2, <2>3, SlotFacts DEF TableMove, SlotMove
  <1>9. CASE \E p \in User : process_destroy(p)
    BY <1>0, <1>9, SlotFacts
       DEF process_destroy, Destroyed, Reapable, TableMove, SlotMove, Table
  <1> QED
    BY <1>1, <1>2, <1>3, <1>4, <1>5, <1>6, <1>7, <1>8, <1>9 DEF Next, Kernel, UserStep

(* The detailed scheduler implements the process-state machine the rest of  *)
(* the kernel relies on, for every value of the constants.                  *)
THEOREM SchedulerImplementsProcStates == Spec => ImplementsProcStates
  <1>1. process_init => Abs!Init
    BY SlotFacts DEF process_init, Abs!Init, Abs!Slot, Slot, Status
  <1>2. Inv /\ Inv' /\ [Next]_vars => [Abs!Next]_(Abs!vars)
    <2> SUFFICES ASSUME Inv, Inv', [Next]_vars PROVE [Abs!Next]_(Abs!vars)
      OBVIOUS
    <2>1. CASE Next
      BY <2>1, NextMoves, MoveRefines
    <2>2. CASE UNCHANGED vars
      BY <2>2 DEF vars, Abs!vars, Status
    <2> QED BY <2>1, <2>2
  <1> QED BY <1>1, <1>2, Invariance, PTL DEF Spec, ImplementsProcStates, Abs!Spec

(* Reaping never frees the kernel stack the CPU stands on: a process that   *)
(* has exited keeps its slot until schedule() has left it.                  *)
THEOREM StackNotFreed == Spec => CurrentNotDestroyed
  <1> DEFINE Kept == /\ state'[current] # "UNUSED"
                     /\ state[current] = "ZOMBIE" => state'[current] = "ZOMBIE"
  <1>1. Inv /\ Inv' /\ [Next]_vars => [Kept]_vars
    <2> SUFFICES ASSUME Inv, Inv', Next PROVE Kept
      OBVIOUS
    <2>1. /\ current \in Slot /\ state[current] # "UNUSED"
          /\ state[0] # "ZOMBIE" /\ state'[0] # "UNUSED"
      BY DEF Inv, TypeOK, CurrentInUse, KernelAlive
    <2>2. CASE current = 0
      BY <2>1, <2>2
    <2>3. CASE current \in User
      <3>1. SlotMove(current, state[current], state'[current])
        BY <2>3, NextMoves DEF TableMove
      <3> QED BY <2>1, <3>1 DEF SlotMove
    <2> QED BY <2>1, <2>2, <2>3 DEF User
  <1> QED BY <1>1, Invariance, PTL DEF Spec, CurrentNotDestroyed

-----------------------------------------------------------------------------
(* A weight and a score in one number: the ratio schedule() compares. *)
LEMMA RankExists ==
    ASSUME NEW ag \in [Slot -> 0 .. SCHED_AGING_MAX]
    PROVE  \E r \in [Slot -> Int] : \A p, q \in Slot :
             Better(p, q, ag) <=> r[p] < r[q] \/ (r[p] = r[q] /\ p < q)
  <1>1. PICK w \in {224, 192, 160, 128, 112, 96, 80} : \A p \in Slot : p # 0 => weight(p) = w
    <2>1. PICK w \in {224, 192, 160, 128, 112, 96, 80} : w = weight_table[SCHED_PRIORITY_DEFAULT]
      BY SchedulerAssumption DEF weight_table
    <2> QED
      BY <2>1 DEF weight, base_priority
  <1>2. weight(0) = 256
    BY WeightFacts
  <1>3. \A p \in Slot : score(p, ag) \in Int
    BY SchedulerAssumption DEF score, base_priority, SCHED_PRIORITY_KERNEL
  <1>4. PICK r : r = [p \in Slot |-> IF p = 0 THEN score(p, ag) * w ELSE score(p, ag) * 256]
    OBVIOUS
  <1>5. r \in [Slot -> Int]
    BY <1>3, <1>4
  <1>6. ASSUME NEW p \in Slot, NEW q \in Slot
        PROVE  Better(p, q, ag) <=> r[p] < r[q] \/ (r[p] = r[q] /\ p < q)
    <2>1. PICK a \in Int, b \in Int : a = score(p, ag) /\ b = score(q, ag)
      BY <1>3
    <2>2. Better(p, q, ag) <=> a * weight(q) < b * weight(p) \/ (a * weight(q) = b * weight(p) /\ p < q)
      BY <2>1 DEF Better
    <2>3. CASE p = 0 /\ q = 0
      BY <1>2, <1>4, <2>1, <2>2, <2>3
    <2>4. CASE p = 0 /\ q # 0
      BY <1>1, <1>2, <1>4, <2>1, <2>2, <2>4
    <2>5. CASE p # 0 /\ q = 0
      BY <1>1, <1>2, <1>4, <2>1, <2>2, <2>5
    <2>6. CASE p # 0 /\ q # 0
      BY <1>1, <1>4, <2>1, <2>2, <2>6
    <2> QED
      BY <2>3, <2>4, <2>5, <2>6
  <1> QED
    BY <1>5, <1>6

(* The slot round i of the scan looks at. *)
ScanSlot(i) == (current + i) % MAX_PROCESSES

(* The rounds look at all slots. *)
LEMMA ScanCovers ==
    ASSUME current \in Slot
    PROVE  /\ \A i \in Nat : ScanSlot(i) \in Slot
           /\ \A p \in Slot : \E i \in 1 .. MAX_PROCESSES : ScanSlot(i) = p
  <1>1. PICK m \in Nat : m = MAX_PROCESSES /\ m >= 2
    BY SchedulerAssumption
  <1>2. \A x \in Int : x % m \in 0 .. m - 1
    BY <1>1
  <1>3. \A x \in 0 .. m - 1 : x % m = x /\ (x + m) % m = x
    BY <1>1
  <1>4. current \in 0 .. m - 1 /\ Slot = 0 .. m - 1
    BY <1>1 DEF Slot
  <1>5. ASSUME NEW p \in Slot PROVE \E i \in 1 .. m : (current + i) % m = p
    <2>1. PICK x : x = IF p > current THEN p ELSE p + m
      OBVIOUS
    <2>2. x % m = p
      BY <1>3, <1>4, <2>1
    <2>3. x - current \in 1 .. m /\ current + (x - current) = x
      BY <1>1, <1>4, <2>1
    <2>4. PICK i \in 1 .. m : i = x - current
      BY <2>3
    <2>5. (current + i) % m = p
      BY <2>2, <2>3, <2>4
    <2> QED
      BY <2>5
  <1>6. \A i \in Nat : (current + i) % m \in Slot
    <2>1. \A i \in Nat : current + i \in Int
      BY <1>4
    <2> QED
      BY <1>2, <1>4, <2>1
  <1> QED
    BY <1>1, <1>5, <1>6 DEF ScanSlot

(* f has the candidate after each round: the recursion of ScanNext. *)
IsScan(f, st, ag) ==
    f = [i \in 0 .. MAX_PROCESSES |->
          IF i = 0 THEN -1
          ELSE IF st[ScanSlot(i)] # "RUNNABLE" THEN f[i - 1]
          ELSE IF f[i - 1] = -1 \/ ScanPrefers(ScanSlot(i), f[i - 1], ag) THEN ScanSlot(i)
          ELSE f[i - 1]]

(* ScanNext is the last value of a function that satisfies it. *)
LEMMA ScanIsLoop ==
    ASSUME NEW st, NEW ag
    PROVE  ScanNext(st, ag) = (CHOOSE f : IsScan(f, st, ag))[MAX_PROCESSES]
  BY DEF ScanNext, IsScan, ScanSlot

(* After i rounds the scan has the best of the candidates it has looked at. *)
Leads(b, i, st, ag) ==
    LET Seen == {ScanSlot(j) : j \in 1 .. i} \cap Runnable(st) IN
    IF Seen = {} THEN b = -1 ELSE b \in Best(Seen, ag)

(* There is such a history, so the CHOOSE of the recursion has one. *)
LEMMA ScanExists ==
    ASSUME NEW st, NEW ag, current \in Slot
    PROVE  \E f : IsScan(f, st, ag)
  <1> DEFINE S == Slot \cup {-1}
             n == MAX_PROCESSES
             D == [x \in S \X (1 .. n) |->
                    IF st[ScanSlot(x[2])] # "RUNNABLE" THEN x[1]
                    ELSE IF x[1] = -1 \/ ScanPrefers(ScanSlot(x[2]), x[1], ag) THEN ScanSlot(x[2])
                    ELSE x[1]]
  <1>1. n \in Nat /\ -1 \in S
    BY SchedulerAssumption
  <1>2. \A i \in 1 .. n : ScanSlot(i) \in Slot
    BY ScanCovers, <1>1
  <1>3. D \in [S \X (1 .. n) -> S]
    <2> HIDE DEF n
    <2> QED
      BY <1>2
  <1>4. PICK f : Loop(f, S, n, -1, D)
    <2> HIDE DEF D, n, S
    <2> QED
      BY <1>1, <1>3, LoopExists
  <1>5. f \in [0 .. n -> S] /\ f[0] = -1 /\ \A i \in 1 .. n : f[i] = D[<<f[i - 1], i>>]
    <2> HIDE DEF D, n, S
    <2> QED
      BY <1>4 DEF Loop
  <1>6. ASSUME NEW i \in 1 .. n
        PROVE  f[i] = IF st[ScanSlot(i)] # "RUNNABLE" THEN f[i - 1]
                      ELSE IF f[i - 1] = -1 \/ ScanPrefers(ScanSlot(i), f[i - 1], ag) THEN ScanSlot(i)
                      ELSE f[i - 1]
    <2>1. i - 1 \in 0 .. n
      BY <1>1
    <2>2. f[i - 1] \in S
      <3> HIDE DEF D, n, S
      <3> QED
        BY <1>5, <2>1
    <2>3. <<f[i - 1], i>> \in S \X (1 .. n)
      <3> HIDE DEF n, S
      <3> QED
        BY <2>2
    <2>4. f[i] = D[<<f[i - 1], i>>]
      <3> HIDE DEF D, n, S
      <3> QED
        BY <1>5
    <2> HIDE DEF n, S
    <2> QED
      BY <2>3, <2>4
  <1>7. IsScan(f, st, ag)
    <2> HIDE DEF D
    <2>1. DOMAIN f = 0 .. n /\ f = [i \in 0 .. n |-> f[i]]
      BY <1>5
    <2>2. \A i \in 0 .. n : i # 0 => i \in 1 .. n
      BY <1>1
    <2>3. f = [i \in 0 .. n |->
                IF i = 0 THEN -1
                ELSE IF st[ScanSlot(i)] # "RUNNABLE" THEN f[i - 1]
                ELSE IF f[i - 1] = -1 \/ ScanPrefers(ScanSlot(i), f[i - 1], ag) THEN ScanSlot(i)
                ELSE f[i - 1]]
      <3> HIDE DEF n, S
      <3> QED
        BY <1>5, <1>6, <2>1, <2>2
    <2> QED
      BY <2>3 DEF IsScan
  <1> QED
    BY <1>7

(* Whatever satisfies the recursion has its values among the slots. *)
LEMMA OnlyScan ==
    ASSUME NEW f, NEW st, NEW ag, current \in Slot, IsScan(f, st, ag)
    PROVE  f \in [0 .. MAX_PROCESSES -> Slot \cup {-1}]
  <1>1. PICK n \in Nat : n = MAX_PROCESSES
    BY SchedulerAssumption
  <1> DEFINE T == {i \in Nat : i <= n => f[i] \in Slot \cup {-1}}
  <1>2. \A i \in 0 .. n :
          f[i] = IF i = 0 THEN -1
                 ELSE IF st[ScanSlot(i)] # "RUNNABLE" THEN f[i - 1]
                 ELSE IF f[i - 1] = -1 \/ ScanPrefers(ScanSlot(i), f[i - 1], ag) THEN ScanSlot(i)
                 ELSE f[i - 1]
    BY <1>1 DEF IsScan
  <1>3. 0 \in T
    BY <1>1, <1>2
  <1>4. ASSUME NEW i \in T PROVE i + 1 \in T
    <2>1. SUFFICES ASSUME i + 1 <= n PROVE f[i + 1] \in Slot \cup {-1}
      OBVIOUS
    <2>2. PICK k : k = i + 1
      OBVIOUS
    <2>3. k \in 0 .. n /\ k # 0 /\ k \in Nat /\ k - 1 = i
      BY <1>1, <2>1, <2>2
    <2>4. f[k - 1] \in Slot \cup {-1}
      BY <1>1, <2>1, <2>3
    <2>5. ScanSlot(k) \in Slot
      BY <2>3, ScanCovers
    <2>6. f[k] \in Slot \cup {-1}
      BY <1>2, <2>3, <2>4, <2>5
    <2> QED
      BY <2>2, <2>6
  <1>5. T = Nat
    <2>1. T \in SUBSET Nat
      OBVIOUS
    <2> HIDE DEF T
    <2> QED
      BY <1>3, <1>4, <2>1, CountUp
  <1>6. \A i \in 0 .. n : f[i] \in Slot \cup {-1}
    BY <1>5
  <1>7. f = [i \in 0 .. n |-> f[i]]
    BY <1>1 DEF IsScan
  <1> HIDE DEF T
  <1> QED
    BY <1>1, <1>6, <1>7

(* One round: the candidate is kept or the new one is better than all. *)
LEMMA RoundLeads ==
    ASSUME TypeOK, NEW f, IsScan(f, state, aging_score),
           f \in [0 .. MAX_PROCESSES -> Slot \cup {-1}],
           NEW i \in Nat, i + 1 <= MAX_PROCESSES, Leads(f[i], i, state, aging_score)
    PROVE  Leads(f[i + 1], i + 1, state, aging_score)
  <1>1. PICK s \in Slot : s = ScanSlot(i + 1)
    BY ScanCovers DEF TypeOK
  <1>2. PICK A, B : /\ A = {ScanSlot(j) : j \in 1 .. i} \cap Runnable(state)
                    /\ B = {ScanSlot(j) : j \in 1 .. i + 1} \cap Runnable(state)
    OBVIOUS
  <1>3. B = A \cup ({s} \cap Runnable(state))
    <2>1. \A j \in 1 .. i + 1 : j \in 1 .. i \/ j = i + 1
      OBVIOUS
    <2>2. \A j \in 1 .. i : j \in 1 .. i + 1
      OBVIOUS
    <2>3. i + 1 \in 1 .. i + 1
      OBVIOUS
    <2>4. {ScanSlot(j) : j \in 1 .. i + 1} = {ScanSlot(j) : j \in 1 .. i} \cup {s}
      BY <1>1, <2>1, <2>2, <2>3
    <2> QED
      BY <1>2, <2>4
  <1>4. A \subseteq Slot
    BY <1>2 DEF Runnable
  <1>5. IF A = {} THEN f[i] = -1 ELSE f[i] \in Best(A, aging_score)
    BY <1>2 DEF Leads
  <1>6. f[i + 1] = IF state[s] # "RUNNABLE" THEN f[i]
                   ELSE IF f[i] = -1 \/ ScanPrefers(s, f[i], aging_score) THEN s
                   ELSE f[i]
    <2>1. i + 1 \in 0 .. MAX_PROCESSES /\ i + 1 # 0 /\ i + 1 - 1 = i
      BY SchedulerAssumption
    <2>2. PICK k : k = i + 1
      OBVIOUS
    <2>3. k \in 0 .. MAX_PROCESSES /\ k # 0
      BY <2>1, <2>2
    <2>4. f[k] = IF state[ScanSlot(k)] # "RUNNABLE" THEN f[k - 1]
                 ELSE IF f[k - 1] = -1 \/ ScanPrefers(ScanSlot(k), f[k - 1], aging_score) THEN ScanSlot(k)
                 ELSE f[k - 1]
      BY <2>3 DEF IsScan
    <2>5. ScanSlot(k) = s /\ k - 1 = i
      BY <1>1, <2>1, <2>2
    <2> QED
      BY <2>2, <2>4, <2>5
  <1>7. IF B = {} THEN f[i + 1] = -1 ELSE f[i + 1] \in Best(B, aging_score)
    <2>1. CASE state[s] # "RUNNABLE"
      <3>1. B = A
        BY <1>3, <2>1 DEF Runnable
      <3> QED
        BY <1>5, <1>6, <2>1, <3>1
    <2>2. CASE state[s] = "RUNNABLE"
      <3>1. B = A \cup {s}
        BY <1>1, <1>3, <2>2 DEF Runnable
      <3>2. PICK r \in [Slot -> Int] : \A p, q \in Slot :
              Better(p, q, aging_score) <=> r[p] < r[q] \/ (r[p] = r[q] /\ p < q)
        BY RankExists DEF TypeOK
      <3>3. CASE A = {}
        <4>1. f[i + 1] = s /\ B = {s}
          BY <1>5, <1>6, <2>2, <3>1, <3>3
        <4> QED
          BY <4>1 DEF Best
      <3>4. CASE A # {}
        <4>1. PICK b \in A : b = f[i] /\ \A q \in A \ {b} : Better(b, q, aging_score)
          BY <1>5, <3>4 DEF Best
        <4>2. b \in Slot /\ b # -1 /\ b \in Int /\ s \in Int
          BY <1>4, <4>1, <1>1 DEF Slot
        <4>3. CASE Better(s, b, aging_score)
          <5>1. f[i + 1] = s
            BY <1>6, <2>2, <4>1, <4>3 DEF ScanPrefers
          <5>2. ASSUME NEW q \in B, q # s PROVE Better(s, q, aging_score)
            <6>1. q \in A /\ q \in Slot
              BY <1>4, <3>1, <5>2
            <6>2. q \in Int
              BY <6>1 DEF Slot
            <6>3. CASE q = b
              BY <4>3, <6>3
            <6>4. CASE q # b
              BY <3>2, <4>1, <4>2, <4>3, <6>1, <6>2, <6>4
            <6> QED
              BY <6>3, <6>4
          <5> QED
            BY <3>1, <5>1, <5>2 DEF Best
        <4>4. CASE ~ Better(s, b, aging_score)
          <5>1. f[i + 1] = b
            BY <1>6, <2>2, <4>1, <4>2, <4>4 DEF ScanPrefers
          <5>2. s # b => Better(b, s, aging_score)
            BY <3>2, <4>2, <4>4
          <5> QED
            BY <3>1, <4>1, <5>1, <5>2 DEF Best
        <4> QED
          BY <4>3, <4>4
      <3> QED
        BY <3>3, <3>4
    <2> QED
      BY <2>1, <2>2
  <1> QED
    BY <1>2, <1>7 DEF Leads

(* The candidate the whole scan ends with is the best there is. *)
LEMMA ScanLeads ==
    ASSUME TypeOK
    PROVE  ScanFindsBest
  <1>1. PICK n \in Nat : n = MAX_PROCESSES
    BY SchedulerAssumption
  <1>2. \E f : IsScan(f, state, aging_score)
    BY ScanExists DEF TypeOK
  <1>3. PICK f : f = CHOOSE g : IsScan(g, state, aging_score)
    OBVIOUS
  <1>4. IsScan(f, state, aging_score)
    BY <1>2, <1>3
  <1>5. ScanNext(state, aging_score) = f[n]
    BY <1>1, <1>3, ScanIsLoop
  <1>6. f \in [0 .. MAX_PROCESSES -> Slot \cup {-1}]
    BY OnlyScan, <1>4 DEF TypeOK
  <1> DEFINE T == {i \in Nat : i <= n => Leads(f[i], i, state, aging_score)}
  <1>7. 0 \in T
    <2>1. f[0] = -1
      BY <1>1, <1>4, SchedulerAssumption DEF IsScan
    <2>2. 1 .. 0 = {}
      OBVIOUS
    <2>3. {ScanSlot(j) : j \in 1 .. 0} = {}
      BY <2>2
    <2> QED
      BY <2>1, <2>3 DEF Leads
  <1>8. ASSUME NEW i \in T PROVE i + 1 \in T
    <2>1. SUFFICES ASSUME i + 1 <= n PROVE Leads(f[i + 1], i + 1, state, aging_score)
      OBVIOUS
    <2>2. i \in Nat /\ Leads(f[i], i, state, aging_score)
      BY <2>1
    <2> HIDE DEF T
    <2> QED
      BY <1>1, <1>4, <1>6, <2>1, <2>2, RoundLeads
  <1>9. T = Nat
    <2>1. T \in SUBSET Nat
      OBVIOUS
    <2> HIDE DEF T
    <2> QED
      BY <1>7, <1>8, <2>1, CountUp
  <1>10. Leads(f[n], n, state, aging_score)
    BY <1>9
  <1> HIDE DEF T
  <1>11. {ScanSlot(j) : j \in 1 .. n} \cap Runnable(state) = Runnable(state)
    <2>1. Runnable(state) \subseteq Slot
      BY DEF Runnable
    <2>2. current \in Slot
      BY DEF TypeOK
    <2>3. \A p \in Slot : \E i \in 1 .. n : ScanSlot(i) = p
      BY <1>1, <2>2, ScanCovers
    <2>4. \A p \in Slot : p \in {ScanSlot(j) : j \in 1 .. n}
      BY <2>3
    <2> QED
      BY <2>1, <2>4
  <1>12. IF Runnable(state) = {} THEN f[n] = -1 ELSE f[n] \in Best(Runnable(state), aging_score)
    BY <1>10, <1>11 DEF Leads
  <1>13. \A p, q \in Best(Runnable(state), aging_score) : p = q
    <2>1. PICK r \in [Slot -> Int] : \A p, q \in Slot :
              Better(p, q, aging_score) <=> r[p] < r[q] \/ (r[p] = r[q] /\ p < q)
      BY RankExists DEF TypeOK
    <2>2. SUFFICES ASSUME NEW p \in Runnable(state), NEW q \in Runnable(state), p # q,
                          Better(p, q, aging_score), Better(q, p, aging_score)
                   PROVE  FALSE
      BY DEF Best
    <2>3. p \in Slot /\ q \in Slot /\ p \in Int /\ q \in Int
      BY DEF Runnable, Slot
    <2> QED
      BY <2>1, <2>2, <2>3
  <1>14. CASE Runnable(state) = {}
    BY <1>14 DEF ScanFindsBest, Best
  <1>15. CASE Runnable(state) # {}
    <2>1. f[n] \in Best(Runnable(state), aging_score)
      BY <1>12, <1>15
    <2>2. Best(Runnable(state), aging_score) = {f[n]}
      BY <1>13, <2>1
    <2> QED
      BY <1>5, <1>15, <2>2 DEF ScanFindsBest
  <1> QED
    BY <1>14, <1>15

(* The one pass schedule() makes over the table, wherever it starts, finds  *)
(* the one best candidate: the declarative choice the actions make is what  *)
(* the loop computes, for every table size and aging.                       *)
THEOREM ScanIsRight == Spec => []ScanFindsBest
  <1>1. TypeOK => ScanFindsBest
    BY ScanLeads
  <1> QED
    BY <1>1, TypeCorrect, PTL
=============================================================================
