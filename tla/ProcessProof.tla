---------------------------- MODULE ProcessProof ----------------------------
(***************************************************************************)
(* Safety of the family tree for every size of process_table.              *)
(***************************************************************************)
EXTENDS Process, Foundations

(* pid 0 and pid 1 never go away, and a dead process stands at the end of   *)
(* process_exit.                                                            *)
Founders ==
    /\ state[0] \in {"RUNNABLE", "RUNNING"}
    /\ INIT \in Live /\ parent[INIT] = 0
    /\ \A p \in User : state[p] = "ZOMBIE" => pc[p] = "die"

(* A process in the adoption loop has an empty list, unless init adopts its *)
(* own children, and holds children of its own.  No child is held twice.    *)
ExitsAt(e) ==
    /\ pc[e] \in {"take", "link"} => child[e] # NULL
    /\ pc[e] \in {"take", "link", "die"} /\ e # INIT => children[e] = NULL
    /\ pc[e] = "take" => /\ \A q \in Chain(child[e]) : q \in Live /\ parent[q] = e
                         /\ Straight(Slot, NULL, child[e], sibling)
    /\ pc[e] = "link" => /\ child[e] \in Live /\ parent[child[e]] = INIT
                         /\ child[e] \notin Chain(next[e])
                         /\ \A q \in Chain(next[e]) : q \in Live /\ parent[q] = e
                         /\ Straight(Slot, NULL, next[e], sibling)

Exiting ==
    /\ \A e \in Live : ExitsAt(e)
    /\ \A e, f \in Live : e # f => Transit(e) \cap Transit(f) = {}

(* A process in the wait loop stands on its own list, and process_destroy   *)
(* takes a dead child off it; it and sys_kill have a victim.                *)
CollectsAt(p) ==
    /\ pc[p] \in {"scan", "find", "unlink"} => child[p] \in Chain(children[p]) \cup {NULL}
    /\ pc[p] \in {"find", "unlink"} => child[p] # NULL /\ state[child[p]] = "ZOMBIE"
    /\ pc[p] \in {"clear", "kill", "test", "rouse"} => child[p] # NULL
    /\ pc[p] = "clear" => child[p] # p
    /\ pc[p] = "unlink" => IF next[p] = NULL THEN TRUE
                           ELSE next[p] \in Chain(children[p]) /\ sibling[next[p]] = child[p]

Collecting == \A p \in Live : CollectsAt(p)

(* The children p has looked at since it began its scan. *)
Passed(p) ==
    CASE pc[p] = "scan" -> Chain(children[p]) \ Chain(child[p])
      [] pc[p] = "doze" -> Chain(children[p])
      [] pc[p] = "asleep" /\ state[p] = "SLEEPING" -> Chain(children[p])
      [] OTHER -> {}

(* None of them was dead and wanted, unless it was missed. *)
NoneMissedAt(p) ==
    \A c \in Passed(p) : Matches(p, c) /\ state[c] = "ZOMBIE" => missed[p]

NoneMissed == \A p \in Live : NoneMissedAt(p)

(* Who lives has a parent in the table, and a dead one only in init. *)
Parented ==
    \A p \in Live : /\ parent[p] # NULL
                    /\ state[parent[p]] # "UNUSED"
                    /\ state[parent[p]] = "ZOMBIE" => parent[p] = INIT

(* What holds until a list was written from a stale value (torn). *)
TreeInv == Founders /\ TreeSound /\ Exiting /\ Collecting /\ Parented /\ NoneMissed

(* The inductive invariant. *)
Inv == TypeOK /\ (torn \/ TreeInv)

-----------------------------------------------------------------------------
(* The slots of the table. *)
LEMMA SlotFacts ==
    /\ 0 \in Slot /\ 0 \notin User /\ INIT \in User /\ User \subseteq Slot /\ User \subseteq Int
    /\ NULL \notin Slot /\ NULL \notin User /\ Slot = User \cup {0} /\ INIT # 0
    /\ WAIT \notin User /\ ANY \notin User /\ Slot \subseteq Int
  BY ProcessAssumption DEF Slot, User, INIT, NULL, WAIT, ANY

(* A list of children holds user processes only. *)
LEMMA ChainInUser ==
    ASSUME TypeOK, NEW q \in User \cup {NULL}
    PROVE  /\ IsList(Slot, NULL, q, sibling)
           /\ Chain(q) \subseteq User
  <1>1. IsList(Slot, NULL, q, sibling)
    BY SlotFacts DEF IsList, TypeOK
  <1>2. \A m \in User : sibling[m] # NULL => sibling[m] \in User
    BY SlotFacts DEF TypeOK
  <1>3. User \in SUBSET Slot
    BY SlotFacts
  <1>4. Reach(Slot, NULL, q, sibling) \subseteq User
    BY <1>2, <1>3, ReachLeast
  <1> QED
    BY <1>1, <1>4 DEF Chain

(* No slot is reaped: a parent outlives its children. *)
LEMMA NobodyIsReaped ==
    ASSUME TypeOK, Parented, NEW st \in [Slot -> State],
           \A p \in Slot : st[p] = "UNUSED" <=> state[p] = "UNUSED"
    PROVE  Reaped(st) = st
  <1>1. ASSUME NEW p \in User, st[p] = "ZOMBIE" PROVE parent[p] # NULL /\ st[parent[p]] # "UNUSED"
    <2>1. p \in Live
      BY <1>1, SlotFacts DEF Live
    <2>2. parent[p] # NULL /\ state[parent[p]] # "UNUSED"
      BY <2>1 DEF Parented
    <2>3. parent[p] \in Slot
      BY <2>2, SlotFacts DEF TypeOK
    <2> QED
      BY <2>2, <2>3
  <1>2. Reapable(st) = {}
    BY <1>1 DEF Reapable
  <1> QED
    BY <1>2 DEF Reaped

(* What schedule() does to the states: the current process gives way. *)
LEMMA ScheduleMoves ==
    ASSUME TypeOK, Parented, NEW st \in [Slot -> State], schedule(st),
           \A p \in Slot : st[p] = "UNUSED" <=> state[p] = "UNUSED",
           \A p \in Slot \ {current} : st[p] # "RUNNING"
    PROVE  /\ state' \in [Slot -> State] /\ current' \in Slot
           /\ \A p \in Slot : state'[p] = "RUNNING" <=> p = current'
           /\ \A p \in Slot, s \in {"UNUSED", "ZOMBIE", "SLEEPING"} : state'[p] = s <=> st[p] = s
  <1>1. Reaped(st) = st
    BY NobodyIsReaped
  <1>2. PICK n \in Slot :
           /\ st[n] = "RUNNABLE" /\ current' = n
           /\ state' = [st EXCEPT ![current] = IF @ = "RUNNING" THEN "RUNNABLE" ELSE @, ![n] = "RUNNING"]
    BY <1>1 DEF schedule
  <1>3. current \in Slot
    BY DEF TypeOK
  <1>4. \A p \in Slot : state'[p] = IF p = n THEN "RUNNING"
                                    ELSE IF p = current /\ st[p] = "RUNNING" THEN "RUNNABLE" ELSE st[p]
    BY <1>2, <1>3
  <1>5. state' \in [Slot -> State]
    BY <1>2, <1>3 DEF State
  <1> QED
    BY <1>2, <1>4, <1>5

(* What process_wake does to the table: a sleeper becomes ready. *)
LEMMA WakeMoves ==
    ASSUME NEW st \in [Slot -> State], NEW p \in Slot
    PROVE  /\ Wake(st, p) \in [Slot -> State]
           /\ \A q \in Slot : \/ Wake(st, p)[q] = st[q]
                              \/ q = p /\ st[q] = "SLEEPING" /\ Wake(st, p)[q] = "RUNNABLE"
           /\ Wake(st, p)[p] # "SLEEPING"
  BY DEF Wake, State

-----------------------------------------------------------------------------
(* The steps, in groups.  A step of the first group leaves the tree and the *)
(* exiting processes alone.                                                 *)
Calm ==
    \/ Preempt \/ (\E p \in User : Event(p)) \/ ForkFails \/ sys_exit \/ ExitTakeList \/ Die
    \/ (\E k \in User \cup {WAIT, ANY} : StartWait(k))
    \/ ScanStart \/ ScanChild \/ ScanEnd \/ WaitNoHang \/ WaitSleep \/ WaitAgain \/ DestroyFind
    \/ (\E l \in {"reading", "napping"} : Block(l)) \/ signal_check \/ SleepReturns
    \/ (\E p \in User : sys_kill(p)) \/ (\E f \in BOOLEAN : KillRaise(f)) \/ KillTest
    \/ (KillWake /\ state[child[current]] \notin {"ZOMBIE", "UNUSED"})
    \/ (DestroyClear /\ state[child[current]] = "UNUSED")

(* A write through a stale pointer, which the model does not follow. *)
Strike ==
    \/ KillWake /\ state[child[current]] \in {"ZOMBIE", "UNUSED"}
    \/ DestroyClear /\ state[child[current]] # "UNUSED"

(* The steps that change the tree, and the calm ones, which do not. *)
LEMMA Steps ==
    Next => /\ ~ torn
            /\ Calm \/ Strike \/ sys_fork \/ ExitDetach \/ AdoptTake \/ AdoptLink \/ DestroyUnlink
  <1>1. Next => Calm \/ Strike \/ sys_fork \/ ExitDetach \/ AdoptTake \/ AdoptLink \/ DestroyUnlink
    BY DEF Next, Calm, Strike, Exit, Wait, Kill, sys_wait, sys_waitpid
  <1>2. Calm => ~ torn
    BY DEF Calm, Preempt, Event, ForkFails, sys_exit, ExitTakeList, Die, StartWait, ScanStart, ScanChild, ScanEnd,
           WaitNoHang, WaitSleep, WaitAgain, DestroyFind, Block, signal_check, SleepReturns, sys_kill, KillRaise,
           KillTest, KillWake, DestroyClear, At
  <1>3. Strike \/ sys_fork \/ ExitDetach \/ AdoptTake \/ AdoptLink \/ DestroyUnlink => ~ torn
    BY DEF Strike, KillWake, DestroyClear, sys_fork, ExitDetach, AdoptTake, AdoptLink, DestroyUnlink, At
  <1> QED
    BY <1>1, <1>2, <1>3

(* What every calm step keeps to. *)
Mild ==
    /\ UNCHANGED <<tree, torn>>
    /\ TypeOK'
    /\ \A p \in Slot : /\ state'[p] = "UNUSED" <=> state[p] = "UNUSED"
                       /\ state[p] = "ZOMBIE" => state'[p] = "ZOMBIE"
                       /\ state'[p] = "ZOMBIE" /\ state[p] # "ZOMBIE" => p \in User /\ pc[p] = "die"
    /\ state'[0] \in {"RUNNABLE", "RUNNING"}
    /\ \A e \in Slot : {pc[e], pc'[e]} \cap {"take", "link", "die"} # {} =>
                         pc'[e] = pc[e] /\ child'[e] = child[e] /\ next'[e] = next[e]
    /\ \A p \in Slot \ {current} :
         /\ pc'[p] = pc[p] /\ child'[p] = child[p] /\ next'[p] = next[p] /\ want'[p] = want[p]
         /\ missed[p] => missed'[p]
         /\ state'[p] = "SLEEPING" => state[p] = "SLEEPING"
         /\ state'[p] = "ZOMBIE" => state[p] = "ZOMBIE"

(* Steps that change no state of a process. *)
LEMMA QuietMild ==
    ASSUME TypeOK, Founders, UNCHANGED <<state, current, tree, torn>>,
           current \in User, pc[current] \notin {"take", "link", "die"},
           NEW l \in Pc \ {"take", "link", "die"}, pc' \in {pc, [pc EXCEPT ![current] = l]},
           NEW w \in User \cup {NULL, WAIT, ANY}, want' \in {want, [want EXCEPT ![current] = w]},
           NEW c \in User \cup {NULL}, child' \in {child, [child EXCEPT ![current] = c]},
           NEW n \in User \cup {NULL}, next' \in {next, [next EXCEPT ![current] = n]},
           missed' \in {missed, [missed EXCEPT ![current] = FALSE]}, fatal' \in [Slot -> BOOLEAN]
    PROVE  Mild
  <1>1. current \in Slot
    BY DEF TypeOK
  <1>2. missed' \in [Slot -> BOOLEAN]
    BY <1>1 DEF TypeOK
  <1>4. pc' \in [Slot -> Pc] /\ pc'[current] \notin {"take", "link", "die"}
        /\ \A e \in Slot \ {current} : pc'[e] = pc[e] /\ child'[e] = child[e] /\ next'[e] = next[e]
    BY <1>1 DEF TypeOK
  <1>5. /\ want' \in [Slot -> User \cup {NULL, WAIT, ANY}]
        /\ \A e \in Slot \ {current} : want'[e] = want[e] /\ missed'[e] = missed[e]
    BY <1>1 DEF TypeOK
  <1>6. child' \in [Slot -> User \cup {NULL}] /\ next' \in [Slot -> User \cup {NULL}]
    BY <1>1 DEF TypeOK
  <1>7. TypeOK'
    BY <1>2, <1>4, <1>5, <1>6 DEF TypeOK, tree
  <1>8. state'[0] \in {"RUNNABLE", "RUNNING"}
    BY DEF Founders
  <1> QED
    BY <1>4, <1>5, <1>7, <1>8 DEF Mild

(* Steps that end in schedule(). *)
LEMMA ScheduleMild ==
    ASSUME TypeOK, Founders, Parented, NEW st \in [Slot -> State], schedule(st),
           \A p \in Slot : st[p] = "UNUSED" <=> state[p] = "UNUSED",
           \A p \in Slot \ {current} : st[p] # "RUNNING",
           \A p \in Slot : /\ state[p] = "ZOMBIE" => st[p] = "ZOMBIE"
                           /\ st[p] = "ZOMBIE" /\ state[p] # "ZOMBIE" => p \in User /\ pc[p] = "die",
           st[0] # "SLEEPING",
           \A p \in Slot \ {current} : /\ st[p] \in {"SLEEPING", "ZOMBIE"} => st[p] = state[p]
                                       /\ pc'[p] = pc[p] /\ (missed[p] => missed'[p]),
           UNCHANGED <<tree, fatal, locals, torn>>, missed' \in [Slot -> BOOLEAN], pc' \in [Slot -> Pc],
           \A e \in Slot : {pc[e], pc'[e]} \cap {"take", "link", "die"} # {} => pc'[e] = pc[e]
    PROVE  Mild
  <1>1. /\ state' \in [Slot -> State] /\ current' \in Slot
        /\ \A p \in Slot : state'[p] = "RUNNING" <=> p = current'
        /\ \A p \in Slot, s \in {"UNUSED", "ZOMBIE", "SLEEPING"} : state'[p] = s <=> st[p] = s
    BY ScheduleMoves
  <1>2. TypeOK'
    BY <1>1 DEF TypeOK, tree, locals
  <1>3. state'[0] \in {"RUNNABLE", "RUNNING"}
    <2>1. st[0] \notin {"UNUSED", "ZOMBIE", "SLEEPING"}
      BY SlotFacts DEF Founders
    <2>2. state'[0] \notin {"UNUSED", "ZOMBIE", "SLEEPING"} /\ state'[0] \in State
      BY <1>1, <2>1, SlotFacts
    <2> QED
      BY <2>2 DEF State
  <1>4. \A p \in Slot : /\ state'[p] = "UNUSED" <=> state[p] = "UNUSED"
                        /\ state[p] = "ZOMBIE" => state'[p] = "ZOMBIE"
                        /\ state'[p] = "ZOMBIE" /\ state[p] # "ZOMBIE" => p \in User /\ pc[p] = "die"
    BY <1>1
  <1>5. \A p \in Slot \ {current} : /\ state'[p] = "SLEEPING" => state[p] = "SLEEPING"
                                    /\ state'[p] = "ZOMBIE" => state[p] = "ZOMBIE"
    BY <1>1
  <1> QED
    BY <1>2, <1>3, <1>4, <1>5 DEF Mild, locals

(* Steps that wake a process. *)
LEMMA WakeMild ==
    ASSUME TypeOK, Founders, NEW p \in User, state' = Wake(state, p), fatal' \in [Slot -> BOOLEAN],
           UNCHANGED <<tree, current, pc, locals, torn, missed>>
    PROVE  Mild
  <1>1. /\ state' \in [Slot -> State]
        /\ \A q \in Slot :
             \/ state'[q] = state[q]
             \/ q = p /\ state[q] = "SLEEPING" /\ state'[q] = "RUNNABLE"
    <2>1. state \in [Slot -> State] /\ p \in Slot
      BY SlotFacts DEF TypeOK
    <2>2. CASE state[p] = "SLEEPING"
      BY <2>1, <2>2 DEF Wake, State
    <2>3. CASE state[p] # "SLEEPING"
      BY <2>1, <2>3 DEF Wake
    <2> QED
      BY <2>2, <2>3
  <1>2. TypeOK'
    BY <1>1 DEF TypeOK, tree, locals
  <1>3. state'[0] \in {"RUNNABLE", "RUNNING"}
    BY <1>1, SlotFacts DEF Founders
  <1> QED
    BY <1>1, <1>2, <1>3 DEF Mild, locals

(* scheduler_make_runnable for a process that lives. *)
LEMMA RouseMild ==
    ASSUME TypeOK, Founders, KillWake, child[current] # NULL, state[child[current]] \notin {"ZOMBIE", "UNUSED"}
    PROVE  Mild
  <1>1. /\ current \in User /\ current \in Slot /\ pc[current] = "rouse" /\ child[current] \in Slot
        /\ state \in [Slot -> State] /\ ~ torn
    BY SlotFacts DEF KillWake, At, TypeOK
  <1>a. torn = FALSE /\ torn' = FALSE
    <2>1. torn' = (torn \/ state[child[current]] \in {"ZOMBIE", "UNUSED"})
      BY DEF KillWake
    <2> QED
      BY <1>1, <2>1 DEF TypeOK
  <1>2. UNCHANGED <<tree, torn, fatal, current, want, next, missed>>
    BY <1>a DEF KillWake
  <1>3. PICK p \in Slot : p = child[current] /\ state' = Rouse(state, p) /\ state[p] \in {"RUNNABLE", "RUNNING", "SLEEPING"}
    BY <1>1 DEF KillWake, State
  <1>4. /\ state' \in [Slot -> State]
        /\ \A q \in Slot : \/ state'[q] = state[q]
                           \/ q = p /\ state[q] = "SLEEPING" /\ state'[q] = "RUNNABLE"
    BY <1>1, <1>3 DEF Rouse, State
  <1>5. /\ pc' \in [Slot -> Pc] /\ child' \in [Slot -> User \cup {NULL}] /\ pc'[current] = "user"
        /\ \A e \in Slot \ {current} : pc'[e] = pc[e] /\ child'[e] = child[e]
    BY <1>1 DEF KillWake, Go, TypeOK, Pc
  <1>6. TypeOK'
    BY <1>2, <1>4, <1>5 DEF TypeOK, tree
  <1>7. state'[0] \in {"RUNNABLE", "RUNNING"}
    BY <1>4, SlotFacts DEF Founders
  <1> QED
    BY <1>1, <1>2, <1>4, <1>5, <1>6, <1>7 DEF Mild

(* A calm step moves states and program counters in a mild way: nobody      *)
(* dies unnoticed, nobody collects.                                         *)
LEMMA CalmMild ==
    ASSUME TypeOK, TreeInv, Calm
    PROVE  Mild
  <1> USE DEF TreeInv
  <1> DEFINE Off == {"take", "link", "die"}
  <1>0. /\ Founders /\ Parented /\ state \in [Slot -> State] /\ current \in Slot /\ pc \in [Slot -> Pc]
        /\ state[current] = "RUNNING" /\ \A p \in Slot \ {current} : state[p] # "RUNNING"
        /\ missed \in [Slot -> BOOLEAN] /\ fatal \in [Slot -> BOOLEAN]
        /\ state[0] \notin {"SLEEPING", "ZOMBIE", "UNUSED"}
    BY DEF TypeOK, Founders
  <1>1. CASE Preempt
    BY <1>0, <1>1, ScheduleMild DEF Preempt
  <1>2. ASSUME NEW p \in User, Event(p) PROVE Mild
    BY <1>0, <1>2, WakeMild DEF Event
  <1>3. CASE ForkFails
    <2>1. state' = state
      BY <1>0, <1>3, NobodyIsReaped DEF ForkFails
    <2> QED
      BY <1>0, <1>3, <2>1, QuietMild DEF ForkFails, At, locals, Pc
  <1>4. CASE sys_exit
    BY <1>0, <1>4, QuietMild DEF sys_exit, At, Go, locals, Pc
  <1>5. CASE ExitTakeList
    <2>1. children[current] \in User \cup {NULL}
      BY <1>0 DEF TypeOK
    <2> QED
      BY <1>0, <1>5, <2>1, QuietMild DEF ExitTakeList, At, Go, Pc
  <1>6. CASE Die
    <2> DEFINE st == [state EXCEPT ![current] = "ZOMBIE"]
               wk == Wake(st, parent[current])
    <2>1. current \in User /\ pc[current] = "die" /\ schedule(wk)
          /\ UNCHANGED <<tree, fatal, pc, locals, torn>>
      BY <1>6 DEF Die, At
    <2>2. current \in Live
      BY <1>0, <2>1 DEF Live
    <2>3. parent[current] \in Slot
      BY <1>0, <2>2 DEF Parented, TypeOK
    <2>4. st \in [Slot -> State] /\ st[current] = "ZOMBIE" /\ \A q \in Slot \ {current} : st[q] = state[q]
      BY <1>0 DEF State
    <2>5. missed' \in [Slot -> BOOLEAN] /\ \A p \in Slot \ {current} : missed[p] => missed'[p]
      BY <1>0, <2>3, <1>6 DEF Die
    <2> HIDE DEF st
    <2>6. /\ wk \in [Slot -> State]
          /\ \A q \in Slot :
               \/ wk[q] = st[q]
               \/ q = parent[current] /\ st[q] = "SLEEPING" /\ wk[q] = "RUNNABLE"
      <3>1. CASE st[parent[current]] = "SLEEPING"
        BY <2>3, <2>4, <3>1 DEF Wake, State
      <3>2. CASE st[parent[current]] # "SLEEPING"
        BY <2>4, <3>2 DEF Wake
      <3> QED
        BY <3>1, <3>2
    <2> HIDE DEF wk
    <2>7. /\ \A p \in Slot : wk[p] = "UNUSED" <=> state[p] = "UNUSED"
          /\ \A p \in Slot \ {current} : wk[p] # "RUNNING"
          /\ wk[0] # "SLEEPING"
          /\ \A p \in Slot \ {current} : wk[p] \in {"SLEEPING", "ZOMBIE"} => wk[p] = state[p]
      BY <1>0, <2>1, <2>4, <2>6, SlotFacts
    <2>8. \A p \in Slot : /\ state[p] = "ZOMBIE" => wk[p] = "ZOMBIE"
                          /\ wk[p] = "ZOMBIE" /\ state[p] # "ZOMBIE" => p \in User /\ pc[p] = "die"
      BY <1>0, <2>1, <2>4, <2>6
    <2> QED
      BY <1>0, <2>1, <2>5, <2>6, <2>7, <2>8, ScheduleMild
  <1>7. ASSUME NEW k \in User \cup {WAIT, ANY}, StartWait(k) PROVE Mild
    BY <1>0, <1>7, QuietMild DEF StartWait, At, Go, Pc
  <1>8. CASE ScanStart
    <2>1. children[current] \in User \cup {NULL}
      BY <1>0 DEF TypeOK
    <2> QED
      BY <1>0, <1>8, <2>1, QuietMild DEF ScanStart, At, Go, Pc
  <1>9. CASE ScanChild
    <2>1. child[current] \in User /\ sibling[child[current]] \in User \cup {NULL}
      BY <1>0, <1>9, SlotFacts DEF ScanChild, TypeOK
    <2> QED
      BY <1>0, <1>9, <2>1, QuietMild DEF ScanChild, At, Go, Pc
  <1>10. CASE ScanEnd
    BY <1>0, <1>10, QuietMild DEF ScanEnd, At, Go, Pc
  <1>11. CASE WaitNoHang
    BY <1>0, <1>11, QuietMild DEF WaitNoHang, At, Go, Pc
  <1>s. ASSUME current \in User, pc[current] \notin Off, NEW l \in Pc \ Off, pc' = [pc EXCEPT ![current] = l],
               schedule([state EXCEPT ![current] = "SLEEPING"]), UNCHANGED <<tree, fatal, locals, torn, missed>>
        PROVE  Mild
    <2> DEFINE st == [state EXCEPT ![current] = "SLEEPING"]
    <2>1. st \in [Slot -> State] /\ st[current] = "SLEEPING" /\ \A q \in Slot \ {current} : st[q] = state[q]
      BY <1>0 DEF State
    <2>2. schedule(st)
      BY <1>s
    <2> HIDE DEF st
    <2>3. /\ \A p \in Slot : st[p] = "UNUSED" <=> state[p] = "UNUSED"
          /\ \A p \in Slot \ {current} : st[p] # "RUNNING"
          /\ st[0] # "SLEEPING"
          /\ \A p \in Slot \ {current} : st[p] \in {"SLEEPING", "ZOMBIE"} => st[p] = state[p]
      BY <1>0, <1>s, <2>1, SlotFacts
    <2>4. \A p \in Slot : /\ state[p] = "ZOMBIE" => st[p] = "ZOMBIE"
                          /\ st[p] = "ZOMBIE" /\ state[p] # "ZOMBIE" => p \in User /\ pc[p] = "die"
      BY <1>0, <2>1
    <2>5. /\ pc' \in [Slot -> Pc] /\ missed' \in [Slot -> BOOLEAN]
          /\ \A p \in Slot \ {current} : pc'[p] = pc[p] /\ (missed[p] => missed'[p])
          /\ \A e \in Slot : {pc[e], pc'[e]} \cap {"take", "link", "die"} # {} => pc'[e] = pc[e]
      BY <1>0, <1>s
    <2> QED
      BY <1>0, <1>s, <2>1, <2>2, <2>3, <2>4, <2>5, ScheduleMild
  <1>12. CASE WaitSleep
    BY <1>12, <1>s DEF WaitSleep, At, Go, Pc
  <1>13. CASE WaitAgain
    BY <1>0, <1>13, QuietMild DEF WaitAgain, At, Go, locals, Pc
  <1>14. CASE DestroyFind
    <2>1. PICK n : next' = [next EXCEPT ![current] = n] /\ n \in User \cup {NULL}
      <3>1. PICK z : z = child[current]
        OBVIOUS
      <3>2. child[current] \in User /\ parent[child[current]] \in Slot
        <4>1. current \in Live /\ pc[current] = "find"
          BY <1>0, <1>14 DEF DestroyFind, At, Live
        <4>2. child[current] \in User /\ child[current] \in Chain(children[current])
          BY <4>1, SlotFacts DEF Collecting, CollectsAt, TypeOK, Live
        <4>3. child[current] \in Live
          BY <4>1, <4>2 DEF TreeSound
        <4> QED
          BY <4>2, <4>3, SlotFacts DEF Parented, TypeOK
      <3>3. PICK list : list = Chain(children[parent[z]])
        OBVIOUS
      <3>4. list \subseteq User
        BY <3>1, <3>2, <3>3, ChainInUser DEF TypeOK
      <3>5. PICK n : n = IF children[parent[z]] = z THEN NULL
             ELSE CHOOSE c \in list \cup {NULL} :
                    IF \E d \in list : sibling[d] = z THEN c # NULL /\ sibling[c] = z
                    ELSE c = NULL
        OBVIOUS
      <3>6. next' = [next EXCEPT ![current] = n]
        BY <1>14, <3>1, <3>3, <3>5 DEF DestroyFind
      <3>7. \E c \in list \cup {NULL} :
                    IF \E d \in list : sibling[d] = z THEN c # NULL /\ sibling[c] = z
                    ELSE c = NULL
        BY <3>4, SlotFacts
      <3>8. n \in list \cup {NULL}
        BY <3>5, <3>7
      <3> QED
        BY <3>4, <3>6, <3>8
    <2> QED
      BY <1>0, <1>14, <2>1, QuietMild DEF DestroyFind, At, Go, Pc
  <1>15. ASSUME NEW l \in {"reading", "napping"}, Block(l) PROVE Mild
    BY <1>15, <1>s DEF Block, At, Go, Pc
  <1>16. CASE signal_check
    <2>1. fatal' \in [Slot -> BOOLEAN]
      BY <1>0, <1>16 DEF signal_check
    <2> QED
      BY <1>0, <1>16, <2>1, QuietMild DEF signal_check, At, Go, locals, Pc
  <1>17. CASE SleepReturns
    BY <1>0, <1>17, QuietMild DEF SleepReturns, At, Go, locals, Pc
  <1>18. ASSUME NEW p \in User, sys_kill(p) PROVE Mild
    BY <1>0, <1>18, QuietMild DEF sys_kill, At, Go, Pc
  <1>c. current \in User /\ pc[current] \in {"clear", "kill", "test", "rouse"} => child[current] \in User
    BY <1>0, SlotFacts DEF TypeOK, Collecting, CollectsAt, Live
  <1>19. ASSUME NEW f \in BOOLEAN, KillRaise(f) PROVE Mild
    <2>1. fatal' \in [Slot -> BOOLEAN]
      BY <1>0, <1>19 DEF KillRaise
    <2> QED
      BY <1>0, <1>19, <2>1, QuietMild DEF KillRaise, At, Go, locals, Pc
  <1>20. CASE KillTest
    <2>1. child[current] \in User
      BY <1>20, <1>c DEF KillTest, At
    <2>2. PICK l \in {"rouse", "user"} : pc' = [pc EXCEPT ![current] = l]
      BY <1>20 DEF KillTest, Go
    <2>3. PICK c \in User \cup {NULL} : child' = [child EXCEPT ![current] = c]
      BY <1>20, <2>1 DEF KillTest
    <2> QED
      BY <1>0, <1>20, <2>2, <2>3, QuietMild DEF KillTest, At, Pc
  <1>21. ASSUME KillWake, state[child[current]] \notin {"ZOMBIE", "UNUSED"} PROVE Mild
    BY <1>0, <1>21, <1>c, RouseMild, SlotFacts DEF KillWake, At
  <1>22. ASSUME DestroyClear, state[child[current]] = "UNUSED" PROVE Mild
    <2>1. child[current] \in Slot /\ ~ torn
      BY <1>22, <1>c, SlotFacts DEF DestroyClear, At
    <2>2. state' = state /\ torn' = torn
      BY <1>0, <1>22, <2>1 DEF DestroyClear, TypeOK
    <2> QED
      BY <1>0, <1>22, <2>2, QuietMild DEF DestroyClear, At, Go, Pc
  <1> QED
    BY <1>1, <1>2, <1>3, <1>4, <1>5, <1>6, <1>7, <1>8, <1>9, <1>10, <1>11, <1>12, <1>13, <1>14, <1>15, <1>16,
       <1>17, <1>18, <1>19, <1>20, <1>21, <1>22 DEF Calm

(* A calm step leaves every list, and what is in transit, as it is. *)
LEMMA MildTree ==
    ASSUME TypeOK, TreeInv, Mild
    PROVE  /\ Live' = Live /\ InTransit' = InTransit
           /\ \A e \in Live : Transit(e)' = Transit(e)
           /\ TreeSound'
  <1>1. /\ children' = children /\ sibling' = sibling /\ parent' = parent
        /\ \A p \in Slot : state'[p] = "UNUSED" <=> state[p] = "UNUSED"
        /\ \A e \in Slot : {pc[e], pc'[e]} \cap {"take", "link", "die"} # {} =>
                             pc'[e] = pc[e] /\ child'[e] = child[e] /\ next'[e] = next[e]
    BY DEF Mild, tree
  <1>2. Live' = Live
    BY <1>1, SlotFacts DEF Live
  <1>3. ASSUME NEW e \in Live PROVE Transit(e)' = Transit(e)
    <2>1. e \in Slot
      BY SlotFacts DEF Live
    <2>2. CASE pc[e] \in {"take", "link"}
      <3>1. pc'[e] = pc[e] /\ child'[e] = child[e] /\ next'[e] = next[e]
        BY <1>1, <2>1, <2>2
      <3> QED
        BY <1>1, <2>2, <3>1 DEF Transit, Chain
    <2>3. CASE pc[e] \notin {"take", "link"}
      <3>1. pc'[e] \notin {"take", "link"}
        BY <1>1, <2>1, <2>3
      <3> QED
        BY <2>3, <3>1 DEF Transit
    <2> QED
      BY <2>2, <2>3
  <1>4. InTransit' = InTransit
    BY <1>2, <1>3 DEF InTransit
  <1>5. TreeSound'
    <2>1. TreeSound
      BY DEF TreeInv
    <2>2. SUFFICES ASSUME NEW p \in Live \cup {0}
          PROVE /\ Reach(Slot, NULL, children'[p], sibling') = {q \in Live' : parent'[q] = p} \ InTransit'
                /\ Straight(Slot, NULL, children'[p], sibling')
      BY <1>2 DEF TreeSound, Chain
    <2>3. /\ Reach(Slot, NULL, children[p], sibling) = {q \in Live : parent[q] = p} \ InTransit
          /\ Straight(Slot, NULL, children[p], sibling)
      BY <2>1, <2>2 DEF TreeSound, Chain
    <2> QED
      BY <1>1, <1>2, <1>4, <2>3
  <1> QED
    BY <1>2, <1>3, <1>4, <1>5

(* A process with an empty list that is not in the adoption loop is nobody's *)
(* parent, init aside.                                                       *)
LEMMA ChildlessIsNobodysParent ==
    ASSUME TypeOK, TreeInv, NEW q \in Live, children[q] = NULL, q # INIT, pc[q] \notin {"take", "link"},
           NEW p \in Live
    PROVE  parent[p] # q
  <1>1. Chain(children[q]) = {}
    BY ReachEmpty DEF Chain
  <1>2. p \in InTransit \/ parent[p] # q
    BY <1>1 DEF TreeInv, TreeSound
  <1>3. ASSUME p \in InTransit PROVE parent[p] # q
    <2>1. PICK e \in Live : p \in Transit(e)
      BY <1>3 DEF InTransit
    <2>2. CASE pc[e] = "take"
      BY <2>1, <2>2 DEF Transit, TreeInv, Exiting, ExitsAt
    <2>3. CASE pc[e] = "link"
      BY <2>1, <2>3 DEF Transit, TreeInv, Exiting, ExitsAt
    <2>4. CASE pc[e] \notin {"take", "link"}
      BY <2>1, <2>4 DEF Transit
    <2> QED
      BY <2>2, <2>3, <2>4
  <1> QED
    BY <1>2, <1>3

(* A mild step keeps everything the tree invariant says of the lists. *)
LEMMA MildRest ==
    ASSUME TypeOK, TreeInv, Mild
    PROVE  Founders' /\ Exiting' /\ Parented'
  <1>1. /\ children' = children /\ sibling' = sibling /\ parent' = parent
        /\ \A p \in Slot : /\ state'[p] = "UNUSED" <=> state[p] = "UNUSED"
                           /\ state[p] = "ZOMBIE" => state'[p] = "ZOMBIE"
                           /\ state'[p] = "ZOMBIE" /\ state[p] # "ZOMBIE" => p \in User /\ pc[p] = "die"
        /\ state'[0] \in {"RUNNABLE", "RUNNING"}
    BY DEF Mild, tree
  <1>2. \A e \in Slot : {pc[e], pc'[e]} \cap {"take", "link", "die"} # {} =>
                             pc'[e] = pc[e] /\ child'[e] = child[e] /\ next'[e] = next[e]
    BY DEF Mild
  <1>3. Live' = Live /\ \A e \in Live : Transit(e)' = Transit(e)
    BY MildTree
  <1>4. Live \subseteq User /\ Live \subseteq Slot
    BY SlotFacts DEF Live
  <1>5. Founders'
    <2>1. Founders
      BY DEF TreeInv
    <2>2. INIT \in Live' /\ parent'[INIT] = 0
      BY <1>1, <1>3, <2>1 DEF Founders
    <2>3. \A p \in User : state'[p] = "ZOMBIE" => pc'[p] = "die"
      <3>1. SUFFICES ASSUME NEW p \in User, state'[p] = "ZOMBIE" PROVE pc'[p] = "die"
        OBVIOUS
      <3>2. p \in Slot
        BY SlotFacts
      <3>3. pc[p] = "die"
        BY <1>1, <2>1, <3>1, <3>2 DEF Founders
      <3> QED
        BY <1>2, <3>2, <3>3
    <2> QED
      BY <1>1, <2>2, <2>3 DEF Founders
  <1>6. Parented'
    <2>1. SUFFICES ASSUME NEW p \in Live
          PROVE /\ parent[p] # NULL /\ state'[parent[p]] # "UNUSED"
                /\ state'[parent[p]] = "ZOMBIE" => parent[p] = INIT
      BY <1>1, <1>3 DEF Parented
    <2>2. /\ parent[p] # NULL /\ state[parent[p]] # "UNUSED"
          /\ state[parent[p]] = "ZOMBIE" => parent[p] = INIT
      BY DEF TreeInv, Parented
    <2>3. parent[p] \in Slot
      BY <1>4, <2>2 DEF TypeOK
    <2>4. ASSUME state'[parent[p]] = "ZOMBIE", state[parent[p]] # "ZOMBIE", parent[p] # INIT PROVE FALSE
      <3>1. parent[p] \in User /\ pc[parent[p]] = "die"
        BY <1>1, <2>3, <2>4
      <3>2. parent[p] \in Live
        BY <2>2, <3>1 DEF Live
      <3>3. children[parent[p]] = NULL
        BY <2>4, <3>1, <3>2 DEF TreeInv, Exiting, ExitsAt
      <3> QED
        BY <2>4, <3>1, <3>2, <3>3, ChildlessIsNobodysParent
    <2> QED
      BY <1>1, <2>2, <2>3, <2>4
  <1>7. Exiting'
    <2>1. \A e, f \in Live' : e # f => Transit(e)' \cap Transit(f)' = {}
      BY <1>3 DEF TreeInv, Exiting
    <2>2. ASSUME NEW e \in Live
          PROVE  /\ pc'[e] \in {"take", "link"} => child'[e] # NULL
                 /\ pc'[e] \in {"take", "link", "die"} /\ e # INIT => children'[e] = NULL
                 /\ pc'[e] = "take" => /\ \A q \in Chain(child[e])' : q \in Live' /\ parent'[q] = e
                                       /\ Straight(Slot, NULL, child'[e], sibling')
                 /\ pc'[e] = "link" => /\ child'[e] \in Live' /\ parent'[child'[e]] = INIT
                                       /\ child'[e] \notin Chain(next[e])'
                                       /\ \A q \in Chain(next[e])' : q \in Live' /\ parent'[q] = e
                                       /\ Straight(Slot, NULL, next'[e], sibling')
      <3>1. CASE pc'[e] \in {"take", "link", "die"}
        <4>1. pc'[e] = pc[e] /\ child'[e] = child[e] /\ next'[e] = next[e]
          BY <1>2, <1>4, <3>1
        <4>2. Chain(child[e])' = Chain(child[e]) /\ Chain(next[e])' = Chain(next[e])
          BY <1>1, <4>1 DEF Chain
        <4>3. /\ pc[e] \in {"take", "link"} => child[e] # NULL
              /\ pc[e] \in {"take", "link", "die"} /\ e # INIT => children[e] = NULL
              /\ pc[e] = "take" => /\ \A q \in Chain(child[e]) : q \in Live /\ parent[q] = e
                                   /\ Straight(Slot, NULL, child[e], sibling)
              /\ pc[e] = "link" => /\ child[e] \in Live /\ parent[child[e]] = INIT
                                   /\ child[e] \notin Chain(next[e])
                                   /\ \A q \in Chain(next[e]) : q \in Live /\ parent[q] = e
                                   /\ Straight(Slot, NULL, next[e], sibling)
          BY DEF TreeInv, Exiting, ExitsAt
        <4> QED
          BY <1>1, <1>3, <4>1, <4>2, <4>3
      <3>2. CASE pc'[e] \notin {"take", "link", "die"}
        BY <3>2
      <3> QED
        BY <3>1, <3>2
    <2> QED
      BY <1>3, <2>1, <2>2 DEF Exiting, ExitsAt
  <1> QED
    BY <1>5, <1>6, <1>7

(* A process that a calm step leaves alone, in the wait loop. *)
LEMMA WaiterLeftAlone ==
    ASSUME TypeOK, TreeInv, Mild, NEW p \in Live,
           pc'[p] = pc[p], child'[p] = child[p], next'[p] = next[p], want'[p] = want[p],
           missed[p] => missed'[p],
           state'[p] = "SLEEPING" => state[p] = "SLEEPING",
           \A c \in Chain(children[p]) : \/ state'[c] = "ZOMBIE" => state[c] = "ZOMBIE"
                                         \/ missed'[p]
                                         \/ pc[p] = "asleep" /\ state'[p] # "SLEEPING"
                                         \/ pc[p] \notin {"scan", "doze", "asleep"}
    PROVE  CollectsAt(p)' /\ NoneMissedAt(p)'
  <1>1. /\ children' = children /\ sibling' = sibling /\ parent' = parent
        /\ \A q \in Slot : state[q] = "ZOMBIE" => state'[q] = "ZOMBIE"
    BY DEF Mild, tree
  <1>2. Chain(children[p])' = Chain(children[p]) /\ Chain(child[p])' = Chain(child[p])
    BY <1>1 DEF Chain
  <1>3. CollectsAt(p) /\ NoneMissedAt(p)
    BY DEF TreeInv, Collecting, NoneMissed
  <1>4. child[p] \in User \cup {NULL} /\ p \in Slot
    BY SlotFacts DEF TypeOK, Live
  <1>5. CollectsAt(p)'
    <2>1. /\ pc'[p] \in {"scan", "find", "unlink"} => child'[p] \in Chain(children[p])' \cup {NULL}
          /\ pc'[p] = "unlink" => IF next'[p] = NULL THEN TRUE
                                  ELSE next'[p] \in Chain(children[p])' /\ sibling'[next'[p]] = child'[p]
      BY <1>1, <1>2, <1>3 DEF CollectsAt
    <2>2. pc'[p] \in {"find", "unlink"} => child'[p] # NULL /\ state'[child'[p]] = "ZOMBIE"
      BY <1>1, <1>3, <1>4, SlotFacts DEF CollectsAt
    <2>3. (pc'[p] \in {"clear", "kill", "test", "rouse"} => child'[p] # NULL) /\ (pc'[p] = "clear" => child'[p] # p)
      BY <1>3 DEF CollectsAt
    <2> QED
      BY <2>1, <2>2, <2>3 DEF CollectsAt
  <1>6. NoneMissedAt(p)'
    <2>1. SUFFICES ASSUME NEW c \in Passed(p)', Matches(p, c)', state'[c] = "ZOMBIE" PROVE missed'[p]
      BY DEF NoneMissedAt
    <2>2. Matches(p, c)
      BY <2>1 DEF Matches
    <2>3. c \in Passed(p) /\ c \in Chain(children[p]) /\ pc[p] \in {"scan", "doze", "asleep"}
          /\ (pc[p] = "asleep" => state'[p] = "SLEEPING")
      <3>1. CASE pc[p] = "scan"
        BY <1>2, <2>1, <3>1 DEF Passed
      <3>2. CASE pc[p] = "doze"
        BY <1>2, <2>1, <3>2 DEF Passed
      <3>3. CASE pc[p] \notin {"scan", "doze"}
        BY <1>2, <2>1, <3>3 DEF Passed
      <3> QED
        BY <3>1, <3>2, <3>3
    <2>4. CASE state[c] = "ZOMBIE"
      BY <1>3, <2>2, <2>3, <2>4 DEF NoneMissedAt
    <2>5. CASE state[c] # "ZOMBIE"
      BY <2>1, <2>3, <2>5
    <2> QED
      BY <2>4, <2>5
  <1> QED
    BY <1>5, <1>6

(* A calm step kills nobody but Die, and puts nobody to sleep but the two   *)
(* that say so.                                                             *)
LEMMA CalmKills ==
    ASSUME TypeOK, TreeInv, Calm, NEW p, p = current
    PROVE  /\ state'[p] = "ZOMBIE" => Die
           /\ Preempt \/ (\E q \in User : Event(q)) \/ ForkFails => state'[p] # "SLEEPING"
  <1>0. /\ Parented /\ state \in [Slot -> State] /\ current \in Slot /\ state[current] = "RUNNING"
        /\ p \in Slot /\ state[p] = "RUNNING" /\ \A q \in Slot \ {current} : state[q] # "RUNNING"
    BY DEF TypeOK, TreeInv
  <1>1. Preempt => state'[p] \notin {"ZOMBIE", "SLEEPING"}
    <2>1. SUFFICES ASSUME schedule(state) PROVE state'[p] \notin {"ZOMBIE", "SLEEPING"}
      BY DEF Preempt
    <2> QED
      BY <1>0, <2>1, ScheduleMoves
  <1>2. ASSUME NEW q \in User, Event(q)
        PROVE  state'[p] \notin {"ZOMBIE", "SLEEPING"}
    <2>1. state' = Wake(state, q) /\ q \in Slot
      BY <1>2, SlotFacts DEF Event
    <2> QED
      BY <1>0, <2>1 DEF Wake
  <1>3. ForkFails => state'[p] \notin {"ZOMBIE", "SLEEPING"}
    <2>1. Reaped(state) = state
      BY <1>0, NobodyIsReaped
    <2> QED
      BY <1>0, <2>1 DEF ForkFails
  <1>4. ASSUME schedule([state EXCEPT ![current] = "SLEEPING"]) PROVE state'[p] # "ZOMBIE"
    <2> DEFINE st == [state EXCEPT ![current] = "SLEEPING"]
    <2>1. st \in [Slot -> State] /\ st[current] = "SLEEPING" /\ \A q \in Slot \ {current} : st[q] = state[q]
      BY <1>0 DEF State
    <2>2. schedule(st)
      BY <1>4
    <2> HIDE DEF st
    <2>3. /\ \A q \in Slot : st[q] = "UNUSED" <=> state[q] = "UNUSED"
          /\ \A q \in Slot \ {current} : st[q] # "RUNNING"
      BY <1>0, <2>1
    <2> QED
      BY <1>0, <2>1, <2>2, <2>3, ScheduleMoves
  <1>5. WaitSleep \/ (\E l \in {"reading", "napping"} : Block(l)) => state'[p] # "ZOMBIE"
    BY <1>4 DEF WaitSleep, Block
  <1>6. sys_exit \/ ExitTakeList \/ (\E k \in User \cup {WAIT, ANY} : StartWait(k))
        \/ ScanStart \/ ScanChild \/ ScanEnd \/ WaitNoHang \/ WaitAgain \/ DestroyFind \/ signal_check \/ SleepReturns
        \/ (\E q \in User : sys_kill(q)) \/ (\E f \in BOOLEAN : KillRaise(f)) \/ KillTest
          => state' = state
    BY DEF sys_exit, ExitTakeList, StartWait, ScanStart, ScanChild, ScanEnd, WaitNoHang, WaitAgain, DestroyFind,
           signal_check, SleepReturns, sys_kill, KillRaise, KillTest
  <1>7. ASSUME KillWake \/ DestroyClear, p \in User PROVE state'[p] # "ZOMBIE"
    <2>1. child[current] \in Slot
      <3>1. child[current] \in User
        BY <1>0, <1>7, SlotFacts DEF KillWake, DestroyClear, At, TypeOK, TreeInv, Collecting, CollectsAt, Live
      <3> QED
        BY <3>1, SlotFacts
    <2> QED
      BY <1>0, <1>7, <2>1 DEF KillWake, DestroyClear, Rouse
  <1>8. KillWake \/ DestroyClear => p \in User
    BY DEF KillWake, DestroyClear, At
  <1> QED
    BY <1>0, <1>1, <1>2, <1>3, <1>5, <1>6, <1>7, <1>8 DEF Calm

(* A dying process is missed by no parent that is not in the wait loop's    *)
(* window: a sleeping parent is woken.                                      *)
LEMMA DieTells ==
    ASSUME TypeOK, TreeInv, Die, NEW p \in Live, p = parent[current]
    PROVE  state'[p] # "SLEEPING" /\ (pc[p] \in {"scan", "doze"} => missed'[p])
  <1>0. /\ Parented /\ state \in [Slot -> State] /\ current \in Slot /\ state[current] = "RUNNING"
        /\ p \in Slot /\ \A q \in Slot \ {current} : state[q] # "RUNNING"
        /\ missed \in [Slot -> BOOLEAN]
    BY SlotFacts DEF TypeOK, TreeInv, Live
  <1>1. missed' = [missed EXCEPT ![p] = @ \/ pc[p] \in {"scan", "doze"}]
    BY DEF Die
  <1>2. pc[p] \in {"scan", "doze"} => missed'[p]
    BY <1>0, <1>1
  <1>3. PICK st : st = [state EXCEPT ![current] = "ZOMBIE"]
    OBVIOUS
  <1>4. PICK wk : wk = Wake(st, p)
    OBVIOUS
  <1>5. schedule(wk)
    BY <1>3, <1>4 DEF Die
  <1>6. st \in [Slot -> State] /\ st[current] = "ZOMBIE" /\ \A q \in Slot \ {current} : st[q] = state[q]
    BY <1>0, <1>3 DEF State
  <1>7. /\ wk \in [Slot -> State] /\ wk[p] # "SLEEPING"
        /\ \A q \in Slot : \/ wk[q] = st[q]
                           \/ q = p /\ st[q] = "SLEEPING" /\ wk[q] = "RUNNABLE"
    BY <1>0, <1>4, <1>6, WakeMoves
  <1>8. /\ \A q \in Slot : wk[q] = "UNUSED" <=> state[q] = "UNUSED"
        /\ \A q \in Slot \ {current} : wk[q] # "RUNNING"
    BY <1>0, <1>6, <1>7
  <1>9. \A q \in Slot, s \in {"UNUSED", "ZOMBIE", "SLEEPING"} : state'[q] = s <=> wk[q] = s
    BY <1>0, <1>5, <1>7, <1>8, ScheduleMoves
  <1> QED
    BY <1>0, <1>2, <1>7, <1>9

(* The steps of the wait loop, for the process p that takes them. *)
LEMMA ScanKeeps ==
    ASSUME TypeOK, TreeInv, ScanStart \/ ScanChild \/ ScanEnd, NEW p, p = current
    PROVE  CollectsAt(p)' /\ NoneMissedAt(p)'
  <1>0. /\ p \in Slot /\ p \in Live /\ CollectsAt(p) /\ NoneMissedAt(p)
        /\ children[p] \in User \cup {NULL} /\ child[p] \in User \cup {NULL}
        /\ pc \in [Slot -> Pc] /\ child \in [Slot -> User \cup {NULL}]
    BY DEF TypeOK, TreeInv, Collecting, NoneMissed, Live, ScanStart, ScanChild, ScanEnd, At
  <1>1. /\ state' = state /\ children' = children /\ sibling' = sibling
        /\ ScanStart \/ missed' = missed
        /\ Chain(children[p])' = Chain(children[p])
    BY DEF ScanStart, ScanChild, ScanEnd, tree, Chain
  <1>2. IsList(Slot, NULL, children[p], sibling)
    BY <1>0, ChainInUser
  <1>3. /\ children[p] # NULL => children[p] \in Chain(children[p])
        /\ \A m \in Chain(children[p]) : sibling[m] # NULL => sibling[m] \in Chain(children[p])
    BY <1>2, ReachClosed DEF Chain
  <1>4. CASE ScanStart
    <2>1. pc'[p] = "scan" /\ child'[p] = children[p] /\ want' = want
      BY <1>0, <1>4 DEF ScanStart, Go
    <2>2. CollectsAt(p)'
      BY <1>1, <1>3, <2>1 DEF CollectsAt
    <2>3. Chain(child[p])' = Chain(children[p])
      BY <1>1, <2>1 DEF Chain
    <2>4. Passed(p)' = {}
      BY <1>1, <2>1, <2>3 DEF Passed
    <2> QED
      BY <2>2, <2>4 DEF NoneMissedAt
  <1>5. CASE ScanChild
    <2>1. pc[p] = "scan" /\ child[p] # NULL /\ want' = want
      BY <1>5 DEF ScanChild, At
    <2>2. child[p] \in Chain(children[p]) /\ child[p] \in Slot
      BY <1>0, <2>1, SlotFacts DEF CollectsAt
    <2>3. CASE state[child[p]] = "ZOMBIE" /\ Matches(p, child[p])
      <3>1. pc'[p] = "find" /\ child'[p] = child[p]
        BY <1>0, <1>5, <2>3 DEF ScanChild, Go
      <3>2. CollectsAt(p)'
        BY <1>1, <2>1, <2>2, <2>3, <3>1 DEF CollectsAt
      <3>3. Passed(p)' = {}
        BY <3>1 DEF Passed
      <3> QED
        BY <3>2, <3>3 DEF NoneMissedAt
    <2>4. CASE ~ (state[child[p]] = "ZOMBIE" /\ Matches(p, child[p]))
      <3>1. pc'[p] = "scan" /\ child'[p] = sibling[child[p]]
        BY <1>0, <1>5, <2>1, <2>4 DEF ScanChild
      <3>2. CollectsAt(p)'
        BY <1>1, <1>3, <2>2, <3>1 DEF CollectsAt
      <3>3. Chain(child[p]) = {child[p]} \cup Chain(sibling[child[p]])
        <4>1. IsList(Slot, NULL, child[p], sibling)
          BY <1>0, ChainInUser
        <4> QED
          BY <2>2, <4>1, ReachUnfold DEF Chain
      <3>4. Chain(child[p])' = Chain(sibling[child[p]])
        BY <1>1, <3>1 DEF Chain
      <3>5. SUFFICES ASSUME NEW c \in Passed(p)', Matches(p, c)', state'[c] = "ZOMBIE" PROVE missed'[p]
        BY <3>2 DEF NoneMissedAt
      <3>6. c \in Passed(p) \cup {child[p]}
        BY <1>1, <2>1, <3>1, <3>3, <3>4, <3>5 DEF Passed
      <3>7. Matches(p, c) /\ state[c] = "ZOMBIE"
        BY <1>1, <2>1, <3>5 DEF Matches
      <3>8. missed'[p] = missed[p]
        BY <1>5 DEF ScanChild
      <3> QED
        BY <1>0, <2>4, <3>6, <3>7, <3>8 DEF NoneMissedAt
    <2> QED
      BY <2>3, <2>4
  <1>6. CASE ScanEnd
    <2>1. pc[p] = "scan" /\ child[p] = NULL /\ missed' = missed
      BY <1>6 DEF ScanEnd, At
    <2>2. CASE pc'[p] = "user"
      <3>1. Passed(p)' = {}
        BY <2>2 DEF Passed
      <3> QED
        BY <2>2, <3>1 DEF CollectsAt, NoneMissedAt
    <2>3. CASE pc'[p] # "user"
      <3>1. pc'[p] = "doze" /\ want' = want
        BY <1>0, <1>6, <2>3 DEF ScanEnd, Go
      <3>2. CollectsAt(p)'
        BY <3>1 DEF CollectsAt
      <3>3. Chain(child[p]) = {}
        BY <2>1, ReachEmpty DEF Chain
      <3>4. Passed(p)' = Passed(p)
        BY <1>1, <2>1, <3>1, <3>3 DEF Passed
      <3> QED
        BY <1>0, <1>1, <2>1, <3>1, <3>2, <3>4 DEF NoneMissedAt, Matches
    <2> QED
      BY <2>2, <2>3
  <1> QED
    BY <1>4, <1>5, <1>6

(* process_destroy finding the child in its list keeps the tree. *)
LEMMA FindKeeps ==
    ASSUME TypeOK, TreeInv, DestroyFind, NEW p, p = current
    PROVE  CollectsAt(p)' /\ NoneMissedAt(p)'
  <1>0. /\ p \in Slot /\ p \in Live /\ CollectsAt(p) /\ pc[p] = "find" /\ TreeSound
        /\ children[p] \in User \cup {NULL} /\ child[p] \in User \cup {NULL}
        /\ pc \in [Slot -> Pc] /\ next \in [Slot -> User \cup {NULL}]
    BY DEF TypeOK, TreeInv, Collecting, Live, DestroyFind, At
  <1>1. /\ state' = state /\ children' = children /\ sibling' = sibling /\ child' = child
        /\ pc'[p] = "unlink" /\ Chain(children[p])' = Chain(children[p])
    BY <1>0 DEF DestroyFind, tree, Chain, Go
  <1>2. IsList(Slot, NULL, children[p], sibling) /\ Chain(children[p]) \subseteq User
    BY <1>0, ChainInUser
  <1>3. PICK z : z = child[p]
    OBVIOUS
  <1>4. z # NULL /\ z \in Chain(children[p])
    BY <1>0, <1>3 DEF CollectsAt
  <1>5. parent[z] = p
    BY <1>0, <1>4 DEF TreeSound
  <1>6. PICK list : list = Chain(children[p])
    OBVIOUS
  <1>7. PICK n : n = IF children[p] = z THEN NULL
             ELSE CHOOSE c \in list \cup {NULL} :
                    IF \E d \in list : sibling[d] = z THEN c # NULL /\ sibling[c] = z
                    ELSE c = NULL
    OBVIOUS
  <1>8. next' = [next EXCEPT ![p] = n]
    BY <1>3, <1>5, <1>6, <1>7 DEF DestroyFind
  <1>9. IF n = NULL THEN TRUE ELSE n \in list /\ sibling[n] = z
    <2>1. CASE children[p] = z
      BY <1>7, <2>1
    <2>2. CASE children[p] # z
      <3>1. \E d \in list : sibling[d] = z
        BY <1>2, <1>4, <1>6, <2>2, ReachPred DEF Chain
      <3>2. \A d \in list : d # NULL
        BY <1>2, <1>6, SlotFacts
      <3>3. n = CHOOSE c \in list \cup {NULL} : c # NULL /\ sibling[c] = z
        BY <1>7, <2>2, <3>1
      <3>4. \E c \in list \cup {NULL} : c # NULL /\ sibling[c] = z
        BY <3>1, <3>2
      <3> QED
        BY <3>3, <3>4
    <2> QED
      BY <2>1, <2>2
  <1>10. next'[p] = n
    BY <1>0, <1>8
  <1>11. Passed(p)' = {}
    BY <1>1 DEF Passed
  <1>12. CollectsAt(p)'
    BY <1>0, <1>1, <1>3, <1>6, <1>9, <1>10 DEF CollectsAt
  <1> QED
    BY <1>11, <1>12 DEF NoneMissedAt

(* A parent going to sleep keeps the tree; a dead child it did not see      *)
(* came in the window.                                                      *)
LEMMA SleepKeeps ==
    ASSUME TypeOK, TreeInv, WaitSleep, Mild, NEW p, p = current
    PROVE  CollectsAt(p)' /\ NoneMissedAt(p)'
  <1>0. /\ p \in Slot /\ p \in Live /\ NoneMissedAt(p) /\ pc[p] = "doze" /\ pc \in [Slot -> Pc]
    BY DEF TypeOK, TreeInv, NoneMissed, Live, WaitSleep, At
  <1>1. /\ children' = children /\ sibling' = sibling /\ pc'[p] = "asleep" /\ want' = want /\ missed' = missed
        /\ Chain(children[p])' = Chain(children[p]) /\ Chain(children[p]) \subseteq User
    BY <1>0, ChainInUser DEF WaitSleep, tree, locals, Chain, Go, TypeOK
  <1>2. \A c \in Slot : state'[c] = "ZOMBIE" => state[c] = "ZOMBIE"
    <2>1. ~ Die
      BY <1>0 DEF Die, At
    <2>2. Calm
      BY DEF Calm
    <2>3. state'[p] # "ZOMBIE"
      BY <2>1, <2>2, CalmKills
    <2> QED
      BY <2>3 DEF Mild
  <1>3. SUFFICES ASSUME NEW c \in Passed(p)', Matches(p, c)', state'[c] = "ZOMBIE" PROVE missed'[p]
    BY <1>1 DEF NoneMissedAt, CollectsAt
  <1>4. c \in Passed(p) /\ c \in Slot
    BY <1>0, <1>1, <1>3, SlotFacts DEF Passed
  <1>5. Matches(p, c) /\ state[c] = "ZOMBIE"
    BY <1>1, <1>2, <1>3, <1>4 DEF Matches
  <1> QED
    BY <1>0, <1>1, <1>4, <1>5 DEF NoneMissedAt

(* A calm step, for the wait loops of everyone. *)
LEMMA CalmWaits ==
    ASSUME TypeOK, TreeInv, Calm, Mild
    PROVE  Collecting' /\ NoneMissed'
  <1>0. Live' = Live /\ current \in Slot /\ Live \subseteq User /\ User \subseteq Slot
    BY MildTree, SlotFacts DEF TypeOK, Live
  <1>1. SUFFICES ASSUME NEW p \in Live PROVE CollectsAt(p)' /\ NoneMissedAt(p)'
    BY <1>0 DEF Collecting, NoneMissed
  <1>2. Chain(children[p]) \subseteq Slot /\ \A c \in Chain(children[p]) : parent[c] = p
    <2>1. children[p] \in User \cup {NULL}
      BY <1>0 DEF TypeOK
    <2> QED
      BY <1>0, <2>1, ChainInUser DEF TreeInv, TreeSound
  <1>3. CASE p # current
    <2>1. /\ pc'[p] = pc[p] /\ child'[p] = child[p] /\ next'[p] = next[p] /\ want'[p] = want[p]
          /\ missed[p] => missed'[p]
          /\ state'[p] = "SLEEPING" => state[p] = "SLEEPING"
      BY <1>0, <1>3 DEF Mild
    <2>2. ASSUME NEW c \in Chain(children[p])
          PROVE  \/ state'[c] = "ZOMBIE" => state[c] = "ZOMBIE"
                 \/ missed'[p]
                 \/ pc[p] = "asleep" /\ state'[p] # "SLEEPING"
                 \/ pc[p] \notin {"scan", "doze", "asleep"}
      <3>1. CASE c # current
        BY <1>2, <3>1 DEF Mild
      <3>2. CASE c = current /\ ~ Die
        BY <3>2, CalmKills
      <3>3. CASE c = current /\ Die
        BY <1>2, <3>3, DieTells
      <3> QED
        BY <3>1, <3>2, <3>3
    <2> QED
      BY <2>1, <2>2, WaiterLeftAlone
  <1>4. CASE p = current
    <2>1. CASE ScanStart \/ ScanChild \/ ScanEnd
      BY <1>4, <2>1, ScanKeeps
    <2>2. CASE DestroyFind
      BY <1>4, <2>2, FindKeeps
    <2>3. CASE WaitSleep
      BY <1>4, <2>3, SleepKeeps
    <2>4. ASSUME Preempt \/ (\E q \in User : Event(q)) \/ ForkFails
          PROVE  CollectsAt(p)' /\ NoneMissedAt(p)'
      <3>1. state'[p] # "SLEEPING"
        BY <1>4, <2>4, CalmKills
      <3>2. UNCHANGED <<pc, locals, missed>>
        BY <2>4 DEF Preempt, Event, ForkFails
      <3>3. CASE Die
        <4>1. pc[p] = "die"
          BY <1>4, <3>3 DEF Die, At
        <4> QED
          BY <1>2, <3>1, <3>2, <4>1, WaiterLeftAlone DEF locals
      <3>4. CASE ~ Die
        <4>1. \A c \in Slot : state'[c] = "ZOMBIE" => state[c] = "ZOMBIE"
          BY <1>4, <3>4, CalmKills DEF Mild
        <4> QED
          BY <1>2, <3>1, <3>2, <4>1, WaiterLeftAlone DEF locals
      <3> QED
        BY <3>3, <3>4
    <2>5. ASSUME sys_exit \/ ExitTakeList \/ Die \/ (\E k \in User \cup {WAIT, ANY} : StartWait(k)) \/ WaitNoHang
                 \/ WaitAgain \/ (\E l \in {"reading", "napping"} : Block(l)) \/ signal_check \/ SleepReturns
                 \/ KillWake \/ DestroyClear
          PROVE  CollectsAt(p)' /\ NoneMissedAt(p)'
      <3>1. pc \in [Slot -> Pc] /\ p \in Slot
        BY <1>0 DEF TypeOK
      <3>2. pc'[p] \notin {"scan", "find", "unlink", "doze", "asleep", "clear", "kill", "test", "rouse"}
        BY <1>4, <2>5, <3>1 DEF sys_exit, ExitTakeList, Die, StartWait, WaitNoHang, WaitAgain, Block, signal_check,
               SleepReturns, KillWake, DestroyClear, Go, At
      <3>3. Passed(p)' = {}
        BY <3>2 DEF Passed
      <3> QED
        BY <3>2, <3>3 DEF CollectsAt, NoneMissedAt
    <2>6. ASSUME (\E q \in User : sys_kill(q)) \/ (\E f \in BOOLEAN : KillRaise(f)) \/ KillTest
          PROVE  CollectsAt(p)' /\ NoneMissedAt(p)'
      <3>1. pc \in [Slot -> Pc] /\ child \in [Slot -> User \cup {NULL}] /\ p \in Slot
            /\ (pc[p] \in {"kill", "test"} => child[p] # NULL)
        BY <1>0 DEF TypeOK, TreeInv, Collecting, CollectsAt
      <3>2. pc'[p] \in {"kill", "test", "rouse", "user"} /\ (pc'[p] # "user" => child'[p] # NULL)
        BY <1>4, <2>6, <3>1, SlotFacts DEF sys_kill, KillRaise, KillTest, Go, At, locals
      <3>3. Passed(p)' = {}
        BY <3>2 DEF Passed
      <3> QED
        BY <3>2, <3>3 DEF CollectsAt, NoneMissedAt
    <2> QED
      BY <2>1, <2>2, <2>3, <2>4, <2>5, <2>6 DEF Calm
  <1> QED
    BY <1>3, <1>4

(* Calm steps keep the invariant. *)
LEMMA CalmKeeps ==
    ASSUME TypeOK, TreeInv, Calm
    PROVE  TypeOK' /\ TreeInv'
  <1>1. Mild
    BY CalmMild
  <1>2. TypeOK'
    BY <1>1 DEF Mild
  <1> QED
    BY <1>1, <1>2, MildTree, MildRest, CalmWaits DEF TreeInv

-----------------------------------------------------------------------------
(* The steps that change the tree.  First, what a list or a process keeps   *)
(* when a step touches none of its members.                                 *)
LEMMA ChainFrame ==
    ASSUME TypeOK, sibling' \in [Slot -> User \cup {NULL}], NEW h \in User \cup {NULL},
           \A m \in Chain(h) : sibling'[m] = sibling[m]
    PROVE  /\ Reach(Slot, NULL, h, sibling') = Chain(h)
           /\ Straight(Slot, NULL, h, sibling) => Straight(Slot, NULL, h, sibling')
  <1>1. IsList(Slot, NULL, h, sibling)
    BY ChainInUser
  <1>2. IsList(Slot, NULL, h, sibling')
    BY SlotFacts DEF IsList
  <1>3. \A m \in Reach(Slot, NULL, h, sibling) : sibling'[m] = sibling[m]
    BY DEF Chain
  <1>4. Reach(Slot, NULL, h, sibling') = Reach(Slot, NULL, h, sibling)
    BY <1>1, <1>2, <1>3, ReachFrame
  <1>5. Straight(Slot, NULL, h, sibling) => Straight(Slot, NULL, h, sibling')
    BY <1>1, <1>2, <1>3, StraightFrame
  <1> QED
    BY <1>4, <1>5 DEF Chain

(* A waiting parent stays right when another family's list changes. *)
LEMMA WaiterKept ==
    ASSUME TypeOK, TreeInv, NEW p \in Live, sibling' \in [Slot -> User \cup {NULL}],
           pc'[p] = pc[p], child'[p] = child[p], next'[p] = next[p], want'[p] = want[p], state'[p] = state[p],
           missed[p] => missed'[p],
           \A m \in Chain(children[p]) : sibling'[m] = sibling[m] /\ state'[m] = state[m],
           NEW L, L = Chain(children[p])', Chain(children[p]) \subseteq L,
           \A c \in L \ Chain(children[p]) : state'[c] = "ZOMBIE" => missed'[p]
    PROVE  CollectsAt(p)' /\ NoneMissedAt(p)'
  <1>1. CollectsAt(p) /\ NoneMissedAt(p) /\ child[p] \in User \cup {NULL} /\ children[p] \in User \cup {NULL}
        /\ IsList(Slot, NULL, children[p], sibling)
    <2>1. CollectsAt(p) /\ NoneMissedAt(p) /\ child[p] \in User \cup {NULL} /\ children[p] \in User \cup {NULL}
      BY SlotFacts DEF TreeInv, Collecting, NoneMissed, TypeOK, Live
    <2> QED
      BY <2>1, ChainInUser
  <1>2. CollectsAt(p)'
    BY <1>1 DEF CollectsAt
  <1>3. ASSUME pc[p] = "scan" PROVE Chain(child[p])' = Chain(child[p])
    <2>1. CASE child[p] = NULL
      BY <2>1, ReachEmpty DEF Chain
    <2>2. CASE child[p] # NULL
      <3>1. child[p] \in Chain(children[p])
        BY <1>1, <1>3, <2>2 DEF CollectsAt
      <3>2. Chain(child[p]) \subseteq Chain(children[p])
        BY <1>1, <3>1, ReachSuffix DEF Chain
      <3>3. Reach(Slot, NULL, child[p], sibling') = Chain(child[p])
        BY <1>1, <3>2, ChainFrame
      <3> QED
        BY <3>3 DEF Chain
    <2> QED
      BY <2>1, <2>2
  <1>4. NoneMissedAt(p)'
    <2>1. SUFFICES ASSUME NEW c \in Passed(p)', Matches(p, c)', state'[c] = "ZOMBIE" PROVE missed'[p]
      BY DEF NoneMissedAt
    <2>2. Matches(p, c)
      BY <2>1 DEF Matches
    <2>3. c \in L /\ (c \in Chain(children[p]) => c \in Passed(p))
      <3>1. CASE pc[p] = "scan"
        BY <1>3, <2>1, <3>1 DEF Passed
      <3>2. CASE pc[p] = "doze"
        BY <2>1, <3>2 DEF Passed
      <3>3. CASE pc[p] \notin {"scan", "doze"}
        BY <2>1, <3>3 DEF Passed
      <3> QED
        BY <3>1, <3>2, <3>3
    <2>4. CASE c \in Chain(children[p])
      BY <1>1, <2>1, <2>2, <2>3, <2>4 DEF NoneMissedAt
    <2>5. CASE c \notin Chain(children[p])
      BY <2>1, <2>3, <2>5
    <2> QED
      BY <2>4, <2>5
  <1> QED
    BY <1>2, <1>4

(* An exiting process stays right when another family's list changes. *)
LEMMA ExitKept ==
    ASSUME TypeOK, TreeInv, NEW f \in Live, sibling' \in [Slot -> User \cup {NULL}],
           pc'[f] = pc[f], child'[f] = child[f], next'[f] = next[f],
           children'[f] = children[f] \/ f = INIT,
           \A m \in Transit(f) : sibling'[m] = sibling[m] /\ parent'[m] = parent[m] /\ m \in Live'
    PROVE  ExitsAt(f)' /\ Transit(f)' = Transit(f)
  <1>1. ExitsAt(f) /\ child[f] \in User \cup {NULL} /\ next[f] \in User \cup {NULL}
    BY SlotFacts DEF TreeInv, Exiting, TypeOK, Live
  <1>2. CASE pc[f] = "take"
    <2>1. Transit(f) = Chain(child[f])
      BY <1>2 DEF Transit
    <2>2. /\ Reach(Slot, NULL, child[f], sibling') = Chain(child[f])
          /\ Straight(Slot, NULL, child[f], sibling) => Straight(Slot, NULL, child[f], sibling')
      BY <1>1, <2>1, ChainFrame
    <2>3. Chain(child[f])' = Chain(child[f])
      BY <2>2 DEF Chain
    <2>4. Transit(f)' = Transit(f)
      BY <1>2, <2>1, <2>3 DEF Transit
    <2>5. ExitsAt(f)'
      BY <1>1, <1>2, <2>1, <2>2, <2>3 DEF ExitsAt
    <2> QED
      BY <2>4, <2>5
  <1>3. CASE pc[f] = "link"
    <2>1. Transit(f) = {child[f]} \cup Chain(next[f])
      BY <1>3 DEF Transit
    <2>2. /\ Reach(Slot, NULL, next[f], sibling') = Chain(next[f])
          /\ Straight(Slot, NULL, next[f], sibling) => Straight(Slot, NULL, next[f], sibling')
      BY <1>1, <2>1, ChainFrame
    <2>3. Chain(next[f])' = Chain(next[f])
      BY <2>2 DEF Chain
    <2>4. Transit(f)' = Transit(f)
      BY <1>3, <2>1, <2>3 DEF Transit
    <2>5. ExitsAt(f)'
      BY <1>1, <1>3, <2>1, <2>2, <2>3 DEF ExitsAt
    <2> QED
      BY <2>4, <2>5
  <1>4. CASE pc[f] \notin {"take", "link"}
    <2>1. Transit(f)' = Transit(f)
      BY <1>4 DEF Transit
    <2>2. ExitsAt(f)'
      BY <1>1, <1>4 DEF ExitsAt
    <2> QED
      BY <2>1, <2>2
  <1> QED
    BY <1>2, <1>3, <1>4

(* The running process, and where the lists are. *)
LEMMA TreeFacts ==
    ASSUME TypeOK, TreeInv
    PROVE  /\ Live \subseteq User /\ Live \subseteq Slot
           /\ current \in User => current \in Live /\ state[current] = "RUNNING"
           /\ \A p \in Live \cup {0} :
                /\ children[p] \in User \cup {NULL} /\ Chain(children[p]) \cap InTransit = {}
                /\ \A q \in Chain(children[p]) : q \in Live /\ parent[q] = p
           /\ \A e \in Live : Transit(e) \subseteq InTransit /\ Transit(e) \subseteq Live
  <1>1. Live \subseteq User /\ Live \subseteq Slot
    BY SlotFacts DEF Live
  <1>2. current \in User => current \in Live /\ state[current] = "RUNNING"
    BY DEF Live, TypeOK
  <1>3. \A p \in Live \cup {0} : children[p] \in User \cup {NULL}
    BY <1>1, SlotFacts DEF TypeOK
  <1>4. \A p \in Live \cup {0} : /\ Chain(children[p]) \cap InTransit = {}
                                 /\ \A q \in Chain(children[p]) : q \in Live /\ parent[q] = p
    BY DEF TreeInv, TreeSound
  <1>5. ASSUME NEW e \in Live PROVE Transit(e) \subseteq InTransit /\ Transit(e) \subseteq Live
    <2>1. Transit(e) \subseteq InTransit
      BY DEF InTransit
    <2>2. ExitsAt(e)
      BY DEF TreeInv, Exiting
    <2>3. Transit(e) \subseteq Live
      <3>1. CASE pc[e] = "take"
        BY <2>2, <3>1 DEF ExitsAt, Transit
      <3>2. CASE pc[e] = "link"
        BY <2>2, <3>2 DEF ExitsAt, Transit
      <3>3. CASE pc[e] \notin {"take", "link"}
        BY <3>3 DEF Transit
      <3> QED
        BY <3>1, <3>2, <3>3
    <2> QED
      BY <2>1, <2>3
  <1> QED
    BY <1>1, <1>2, <1>3, <1>4, <1>5

(* process_exit taking its children's list keeps the tree. *)
LEMMA DetachKeeps ==
    ASSUME TypeOK, TreeInv, ExitDetach
    PROVE  TypeOK' /\ (torn' \/ TreeInv')
  <1>1. PICK e : e = current
    OBVIOUS
  <1>2. /\ e \in User /\ e \in Live /\ e \in Slot /\ state[e] = "RUNNING" /\ pc[e] = "detach"
        /\ children \in [Slot -> User \cup {NULL}] /\ pc \in [Slot -> Pc]
        /\ child[e] \in User \cup {NULL}
    BY <1>1, TreeFacts, SlotFacts DEF ExitDetach, At, TypeOK
  <1>3. /\ state' = state /\ parent' = parent /\ sibling' = sibling /\ fatal' = fatal /\ current' = current
        /\ want' = want /\ child' = child /\ next' = next /\ missed' = missed
        /\ children' = [children EXCEPT ![e] = NULL]
        /\ pc' = [pc EXCEPT ![e] = IF child[e] = NULL THEN "die" ELSE "take"]
    BY <1>1 DEF ExitDetach, Go
  <1>4. /\ \A f \in Slot \ {e} : children'[f] = children[f] /\ pc'[f] = pc[f]
        /\ children'[e] = NULL /\ pc'[e] = IF child[e] = NULL THEN "die" ELSE "take"
        /\ children' \in [Slot -> User \cup {NULL}] /\ pc' \in [Slot -> Pc]
    BY <1>2, <1>3 DEF Pc
  <1>5. torn' \in BOOLEAN
    BY DEF ExitDetach, TypeOK
  <1>6. TypeOK'
    BY <1>3, <1>4, <1>5 DEF TypeOK
  <1>7. SUFFICES ASSUME ~ torn' PROVE TreeInv'
    BY <1>6
  <1>8. children[e] = child[e]
    BY <1>1, <1>7 DEF ExitDetach
  <1>9. Live' = Live
    BY <1>3 DEF Live
  <1>10. PICK L : L = Chain(children[e])
    OBVIOUS
  <1>11. L = {q \in Live : parent[q] = e} \ InTransit /\ Straight(Slot, NULL, child[e], sibling)
    BY <1>2, <1>8, <1>10 DEF TreeInv, TreeSound
  <1>12. Transit(e)' = L /\ Transit(e) = {}
    <2>1. CASE child[e] = NULL
      <3>1. L = {}
        BY <1>8, <1>10, <2>1, ReachEmpty DEF Chain
      <3> QED
        BY <1>2, <1>4, <2>1, <3>1 DEF Transit
    <2>2. CASE child[e] # NULL
      <3>1. Chain(child[e])' = L
        BY <1>3, <1>8, <1>10 DEF Chain
      <3> QED
        BY <1>2, <1>4, <2>2, <3>1 DEF Transit
    <2> QED
      BY <2>1, <2>2
  <1>13. ASSUME NEW f \in Live, f # e PROVE ExitsAt(f)' /\ Transit(f)' = Transit(f)
    <2>1. f \in Slot /\ sibling' \in [Slot -> User \cup {NULL}]
      BY <1>6, TreeFacts DEF TypeOK
    <2>2. pc'[f] = pc[f] /\ children'[f] = children[f] /\ child'[f] = child[f] /\ next'[f] = next[f]
      BY <1>3, <1>4, <1>13, <2>1
    <2>3. \A m \in Transit(f) : sibling'[m] = sibling[m] /\ parent'[m] = parent[m] /\ m \in Live'
      BY <1>3, <1>9, TreeFacts
    <2> QED
      BY <2>1, <2>2, <2>3, ExitKept
  <1>14. InTransit' = InTransit \cup L
    BY <1>2, <1>9, <1>12, <1>13 DEF InTransit
  <1>15. TreeSound'
    <2>1. SUFFICES ASSUME NEW p \in Live \cup {0}
          PROVE /\ Reach(Slot, NULL, children'[p], sibling') = {q \in Live' : parent'[q] = p} \ InTransit'
                /\ Straight(Slot, NULL, children'[p], sibling')
      BY <1>9 DEF TreeSound, Chain
    <2>2. CASE p = e
      <3>1. Reach(Slot, NULL, children'[p], sibling') = {}
        BY <1>4, <2>2, ReachEmpty
      <3> QED
        BY <1>3, <1>9, <1>11, <1>14, <2>2, <3>1 DEF Straight
    <2>3. CASE p # e
      <3>1. children'[p] = children[p]
        BY <1>4, <2>3, TreeFacts, SlotFacts
      <3>2. /\ Reach(Slot, NULL, children[p], sibling) = {q \in Live : parent[q] = p} \ InTransit
            /\ Straight(Slot, NULL, children[p], sibling)
        BY DEF TreeInv, TreeSound, Chain
      <3>3. {q \in Live' : parent'[q] = p} \ InTransit' = {q \in Live : parent[q] = p} \ InTransit
        BY <1>3, <1>9, <1>11, <1>14, <2>3
      <3> QED
        BY <1>3, <3>1, <3>2, <3>3
    <2> QED
      BY <2>2, <2>3
  <1>16. Exiting'
    <2>1. Chain(child[e])' = L
      BY <1>3, <1>8, <1>10 DEF Chain
    <2>2. ExitsAt(e)'
      BY <1>3, <1>4, <1>9, <1>11, <2>1 DEF ExitsAt
    <2>3. \A f, g \in Live : f # g => Transit(f)' \cap Transit(g)' = {}
      <3>1. \A f, g \in Live : f # g => Transit(f) \cap Transit(g) = {}
        BY DEF TreeInv, Exiting
      <3>2. \A f \in Live : Transit(f) \cap L = {}
        BY <1>11, TreeFacts
      <3> QED
        BY <1>12, <1>13, <3>1, <3>2
    <2> QED
      BY <1>9, <1>13, <2>2, <2>3 DEF Exiting
  <1>17. ASSUME NEW p \in Live PROVE CollectsAt(p)' /\ NoneMissedAt(p)'
    <2>1. CASE p = e
      <3>1. pc'[p] \in {"die", "take"}
        BY <1>4, <2>1
      <3>2. Passed(p)' = {}
        BY <3>1 DEF Passed
      <3> QED
        BY <3>1, <3>2 DEF CollectsAt, NoneMissedAt
    <2>2. CASE p # e
      <3>1. pc'[p] = pc[p] /\ children'[p] = children[p] /\ p \in Slot /\ sibling' \in [Slot -> User \cup {NULL}]
        BY <1>4, <1>6, <2>2, TreeFacts DEF TypeOK
      <3>2. Chain(children[p])' = Chain(children[p])
        BY <1>3, <3>1 DEF Chain
      <3> QED
        BY <1>3, <3>1, <3>2, WaiterKept
    <2> QED
      BY <2>1, <2>2
  <1>18. Founders'
    <2>1. Founders
      BY DEF TreeInv
    <2>2. \A p \in User : state'[p] = "ZOMBIE" => pc'[p] = "die"
      BY <1>2, <1>3, <1>4, <2>1, SlotFacts DEF Founders
    <2> QED
      BY <1>3, <1>9, <2>1, <2>2 DEF Founders
  <1>19. Parented'
    BY <1>3, <1>9 DEF TreeInv, Parented
  <1> QED
    BY <1>9, <1>15, <1>16, <1>17, <1>18, <1>19 DEF TreeInv, Collecting, NoneMissed

(* Adoption taking the next child off the old list keeps the tree. *)
LEMMA TakeKeeps ==
    ASSUME TypeOK, TreeInv, AdoptTake
    PROVE  TypeOK' /\ TreeInv'
  <1>1. PICK e : e = current
    OBVIOUS
  <1>2. /\ e \in User /\ e \in Live /\ e \in Slot /\ state[e] = "RUNNING" /\ pc[e] = "take"
        /\ ExitsAt(e) /\ child[e] \in User \cup {NULL}
    BY <1>1, TreeFacts, SlotFacts DEF AdoptTake, At, TypeOK, TreeInv, Exiting
  <1>3. PICK c : c = child[e]
    OBVIOUS
  <1>4. PICK L : L = Chain(sibling[c])
    OBVIOUS
  <1>5. c \in Slot /\ c \in User /\ IsList(Slot, NULL, c, sibling) /\ sibling[c] \in User \cup {NULL}
    <2>1. c \in User
      BY <1>2, <1>3 DEF ExitsAt
    <2> QED
      BY <2>1, ChainInUser, SlotFacts DEF TypeOK
  <1>6. Chain(c) = {c} \cup L
    BY <1>4, <1>5, ReachUnfold DEF Chain
  <1>7. Transit(e) = {c} \cup L
    BY <1>2, <1>3, <1>6 DEF Transit
  <1>8. /\ Straight(Slot, NULL, c, sibling)
        /\ \A q \in {c} \cup L : q \in Live /\ parent[q] = e
    BY <1>2, <1>3, <1>6 DEF ExitsAt
  <1>9. c \notin L /\ Straight(Slot, NULL, sibling[c], sibling)
    <2>1. c \in Reach(Slot, NULL, c, sibling)
      BY <1>6 DEF Chain
    <2>2. Straight(Slot, NULL, sibling[c], sibling)
      BY <1>5, <1>8, <2>1, StraightTail
    <2>3. c \notin Reach(Slot, NULL, sibling[c], sibling)
      BY <1>8, <2>1 DEF Straight, NoReturn
    <2> QED
      BY <1>4, <2>2, <2>3 DEF Chain
  <1>10. c # INIT /\ c # 0
    BY <1>2, <1>5, <1>8, SlotFacts DEF TreeInv, Founders
  <1>11. /\ state' = state /\ children' = children /\ fatal' = fatal /\ current' = current
         /\ want' = want /\ child' = child /\ missed' = missed /\ torn' = torn
         /\ next' = [next EXCEPT ![e] = sibling[c]]
         /\ parent' = [parent EXCEPT ![c] = INIT]
         /\ sibling' = [sibling EXCEPT ![c] = children[INIT]]
         /\ pc' = [pc EXCEPT ![e] = "link"]
    BY <1>1, <1>3 DEF AdoptTake, Go
  <1>12. INIT \in Slot /\ children[INIT] \in User \cup {NULL}
    BY SlotFacts DEF TypeOK
  <1>13. /\ \A f \in Slot \ {e} : next'[f] = next[f] /\ pc'[f] = pc[f]
         /\ next'[e] = sibling[c] /\ pc'[e] = "link"
         /\ next' \in [Slot -> User \cup {NULL}] /\ pc' \in [Slot -> Pc]
    BY <1>2, <1>5, <1>11 DEF Pc, TypeOK
  <1>14. /\ \A q \in Slot \ {c} : parent'[q] = parent[q] /\ sibling'[q] = sibling[q]
         /\ parent'[c] = INIT /\ sibling'[c] = children[INIT]
         /\ parent' \in [Slot -> Slot \cup {NULL}] /\ sibling' \in [Slot -> User \cup {NULL}]
    BY <1>5, <1>11, <1>12 DEF TypeOK
  <1>15. TypeOK'
    BY <1>11, <1>13, <1>14 DEF TypeOK
  <1>16. Live' = Live
    BY <1>11 DEF Live
  <1>17. c \in InTransit
    BY <1>2, <1>7, TreeFacts
  <1>18. L \subseteq Slot
    BY <1>8, TreeFacts
  <1>19. Chain(next[e])' = L /\ Straight(Slot, NULL, next'[e], sibling')
    <2>1. \A m \in Chain(sibling[c]) : sibling'[m] = sibling[m]
      BY <1>4, <1>9, <1>14, <1>18
    <2>2. /\ Reach(Slot, NULL, sibling[c], sibling') = L
          /\ Straight(Slot, NULL, sibling[c], sibling')
      BY <1>4, <1>5, <1>9, <1>14, <2>1, ChainFrame
    <2> QED
      BY <1>13, <2>2 DEF Chain
  <1>20. Transit(e)' = Transit(e)
    BY <1>3, <1>7, <1>11, <1>13, <1>19 DEF Transit
  <1>21. ASSUME NEW f \in Live, f # e PROVE ExitsAt(f)' /\ Transit(f)' = Transit(f)
    <2>1. f \in Slot
      BY TreeFacts
    <2>2. pc'[f] = pc[f] /\ children'[f] = children[f] /\ child'[f] = child[f] /\ next'[f] = next[f]
      BY <1>11, <1>13, <1>21, <2>1
    <2>3. c \notin Transit(f)
      BY <1>2, <1>7, <1>21 DEF TreeInv, Exiting
    <2>4. \A m \in Transit(f) : sibling'[m] = sibling[m] /\ parent'[m] = parent[m] /\ m \in Live'
      BY <1>14, <1>16, <2>3, TreeFacts
    <2> QED
      BY <1>14, <2>2, <2>4, ExitKept
  <1>22. InTransit' = InTransit
    BY <1>2, <1>16, <1>20, <1>21 DEF InTransit
  <1>23. ASSUME NEW p \in Live \cup {0}
         PROVE  /\ c \notin Chain(children[p])
                /\ Reach(Slot, NULL, children'[p], sibling') = Chain(children[p])
                /\ Straight(Slot, NULL, children'[p], sibling')
    <2>1. c \notin Chain(children[p]) /\ Chain(children[p]) \subseteq Slot /\ children[p] \in User \cup {NULL}
      BY <1>17, TreeFacts
    <2>2. \A m \in Chain(children[p]) : sibling'[m] = sibling[m]
      BY <1>14, <2>1
    <2>3. Straight(Slot, NULL, children[p], sibling)
      BY DEF TreeInv, TreeSound
    <2> QED
      BY <1>11, <1>14, <2>1, <2>2, <2>3, ChainFrame
  <1>24. TreeSound'
    <2>1. SUFFICES ASSUME NEW p \in Live \cup {0}
          PROVE Chain(children[p]) = {q \in Live' : parent'[q] = p} \ InTransit'
      BY <1>16, <1>23 DEF TreeSound, Chain
    <2>2. Chain(children[p]) = {q \in Live : parent[q] = p} \ InTransit
      BY DEF TreeInv, TreeSound
    <2> QED
      BY <1>14, <1>16, <1>17, <1>22, <2>2, TreeFacts
  <1>25. Exiting'
    <2>1. /\ c \in Live' /\ parent'[c] = INIT /\ child'[e] = c
          /\ \A q \in L : q \in Live' /\ parent'[q] = e
      BY <1>3, <1>8, <1>9, <1>11, <1>14, <1>16, <1>18
    <2>2. e # INIT => children'[e] = NULL
      BY <1>2, <1>11 DEF ExitsAt
    <2>3. c # NULL
      BY <1>5, SlotFacts
    <2>4. ExitsAt(e)'
      BY <1>9, <1>13, <1>19, <2>1, <2>2, <2>3 DEF ExitsAt
    <2>5. \A f, g \in Live : f # g => Transit(f)' \cap Transit(g)' = {}
      BY <1>20, <1>21 DEF TreeInv, Exiting
    <2> QED
      BY <1>16, <1>21, <2>4, <2>5 DEF Exiting
  <1>26. ASSUME NEW p \in Live PROVE CollectsAt(p)' /\ NoneMissedAt(p)'
    <2>1. CASE p = e
      <3>1. Passed(p)' = {}
        BY <1>13, <2>1 DEF Passed
      <3> QED
        BY <1>13, <2>1, <3>1 DEF CollectsAt, NoneMissedAt
    <2>2. CASE p # e
      <3>1. pc'[p] = pc[p] /\ next'[p] = next[p] /\ p \in Slot /\ Chain(children[p]) \subseteq Slot
        BY <1>13, <2>2, TreeFacts
      <3>2. Chain(children[p])' = Chain(children[p])
        BY <1>23 DEF Chain
      <3>3. \A m \in Chain(children[p]) : sibling'[m] = sibling[m]
        BY <1>14, <1>23, <3>1
      <3> QED
        BY <1>11, <1>14, <3>1, <3>2, <3>3, WaiterKept
    <2> QED
      BY <2>1, <2>2
  <1>27. Founders'
    <2>1. Founders
      BY DEF TreeInv
    <2>2. \A p \in User : state'[p] = "ZOMBIE" => pc'[p] = "die"
      BY <1>2, <1>11, <1>13, <2>1, SlotFacts DEF Founders
    <2>3. parent'[INIT] = 0
      BY <1>10, <1>12, <1>14, <2>1 DEF Founders
    <2> QED
      BY <1>11, <1>16, <2>1, <2>2, <2>3 DEF Founders
  <1>28. Parented'
    <2>1. state[INIT] # "UNUSED" /\ INIT # NULL
      BY SlotFacts DEF TreeInv, Founders, Live
    <2> QED
      BY <1>11, <1>14, <1>16, <2>1, TreeFacts DEF TreeInv, Parented
  <1> QED
    BY <1>15, <1>16, <1>24, <1>25, <1>26, <1>27, <1>28 DEF TreeInv, Collecting, NoneMissed

(* Adoption putting the child in front of init's list keeps the tree. *)
LEMMA LinkKeeps ==
    ASSUME TypeOK, TreeInv, AdoptLink
    PROVE  TypeOK' /\ (torn' \/ TreeInv')
  <1>1. PICK e : e = current
    OBVIOUS
  <1>2. /\ e \in User /\ e \in Live /\ e \in Slot /\ state[e] = "RUNNING" /\ pc[e] = "link"
        /\ ExitsAt(e) /\ child[e] \in User \cup {NULL} /\ next[e] \in User \cup {NULL}
    BY <1>1, TreeFacts, SlotFacts DEF AdoptLink, At, TypeOK, TreeInv, Exiting
  <1>3. PICK c : c = child[e]
    OBVIOUS
  <1>4. PICK L : L = Chain(next[e])
    OBVIOUS
  <1>5. /\ c \in Live /\ parent[c] = INIT /\ c \notin L /\ c \in User /\ c \in Slot
        /\ \A q \in L : q \in Live /\ parent[q] = e
        /\ Straight(Slot, NULL, next[e], sibling)
    BY <1>2, <1>3, <1>4, TreeFacts DEF ExitsAt
  <1>6. Transit(e) = {c} \cup L
    BY <1>2, <1>3, <1>4 DEF Transit
  <1>7. /\ state' = state /\ parent' = parent /\ sibling' = sibling /\ fatal' = fatal /\ current' = current
        /\ want' = want
        /\ children' = [children EXCEPT ![INIT] = c]
        /\ missed' = [missed EXCEPT ![INIT] = @ \/ state[c] = "ZOMBIE"]
        /\ child' = [child EXCEPT ![e] = next[e]]
        /\ next' = [next EXCEPT ![e] = NULL]
        /\ pc' = [pc EXCEPT ![e] = IF next[e] = NULL THEN "die" ELSE "take"]
        /\ torn' = (torn \/ children[INIT] # sibling[c])
    BY <1>1, <1>3 DEF AdoptLink, Go
  <1>8. INIT \in Slot /\ INIT \in Live /\ missed \in [Slot -> BOOLEAN]
    BY SlotFacts DEF TypeOK, TreeInv, Founders
  <1>9. /\ \A f \in Slot \ {e} : next'[f] = next[f] /\ pc'[f] = pc[f] /\ child'[f] = child[f]
        /\ next'[e] = NULL /\ child'[e] = next[e] /\ pc'[e] = IF next[e] = NULL THEN "die" ELSE "take"
        /\ next' \in [Slot -> User \cup {NULL}] /\ pc' \in [Slot -> Pc] /\ child' \in [Slot -> User \cup {NULL}]
    BY <1>2, <1>7 DEF Pc, TypeOK
  <1>10. /\ \A q \in Slot \ {INIT} : children'[q] = children[q]
         /\ children'[INIT] = c /\ children' \in [Slot -> User \cup {NULL}]
    BY <1>5, <1>7, <1>8 DEF TypeOK
  <1>11. /\ missed' \in [Slot -> BOOLEAN]
         /\ \A q \in Slot : missed[q] => missed'[q]
         /\ state[c] = "ZOMBIE" => missed'[INIT]
    BY <1>7, <1>8
  <1>12. torn' \in BOOLEAN
    BY <1>7 DEF TypeOK
  <1>13. TypeOK'
    BY <1>7, <1>9, <1>10, <1>11, <1>12 DEF TypeOK
  <1>14. SUFFICES ASSUME ~ torn' PROVE TreeInv'
    BY <1>13
  <1>15. children[INIT] = sibling[c]
    BY <1>7, <1>14
  <1>16. Live' = Live
    BY <1>7 DEF Live
  <1>17. Transit(e)' = L
    <2>1. CASE next[e] = NULL
      <3>1. L = {}
        BY <1>4, <2>1, ReachEmpty DEF Chain
      <3> QED
        BY <1>9, <2>1, <3>1 DEF Transit
    <2>2. CASE next[e] # NULL
      <3>1. Chain(child[e])' = L
        BY <1>4, <1>7, <1>9 DEF Chain
      <3> QED
        BY <1>9, <2>2, <3>1 DEF Transit
    <2> QED
      BY <2>1, <2>2
  <1>18. ASSUME NEW f \in Live, f # e PROVE ExitsAt(f)' /\ Transit(f)' = Transit(f)
    <2>1. f \in Slot /\ sibling' \in [Slot -> User \cup {NULL}]
      BY <1>13, TreeFacts DEF TypeOK
    <2>2. /\ pc'[f] = pc[f] /\ child'[f] = child[f] /\ next'[f] = next[f]
          /\ children'[f] = children[f] \/ f = INIT
      BY <1>9, <1>10, <1>18, <2>1
    <2>3. \A m \in Transit(f) : sibling'[m] = sibling[m] /\ parent'[m] = parent[m] /\ m \in Live'
      BY <1>7, <1>16, TreeFacts
    <2> QED
      BY <2>1, <2>2, <2>3, ExitKept
  <1>19. c \in InTransit
    BY <1>2, <1>6, TreeFacts
  <1>20. InTransit' = InTransit \ {c}
    <2>1. \A f \in Live \ {e} : c \notin Transit(f)
      BY <1>2, <1>6 DEF TreeInv, Exiting
    <2>2. \A f \in Live : Transit(f)' = Transit(f) \ {c}
      BY <1>5, <1>6, <1>17, <1>18, <2>1
    <2> QED
      BY <1>16, <2>2 DEF InTransit
  <1>21. Chain(c) = Chain(children[INIT]) \cup {c} /\ Straight(Slot, NULL, c, sibling)
    <2>1. children[INIT] \in User \cup {NULL} /\ c \notin Chain(children[INIT])
      BY <1>8, <1>19, TreeFacts
    <2>2. IsList(Slot, NULL, children[INIT], sibling)
      BY <2>1, ChainInUser
    <2>3. Straight(Slot, NULL, children[INIT], sibling)
      BY <1>8 DEF TreeInv, TreeSound
    <2>4. c \notin Reach(Slot, NULL, children[INIT], sibling)
      BY <2>1 DEF Chain
    <2>5. /\ Reach(Slot, NULL, c, sibling) = Reach(Slot, NULL, children[INIT], sibling) \cup {c}
          /\ Straight(Slot, NULL, c, sibling)
      BY <1>5, <1>15, <2>2, <2>3, <2>4, StraightPush
    <2> QED
      BY <2>5 DEF Chain
  <1>22. TreeSound'
    <2>1. SUFFICES ASSUME NEW p \in Live \cup {0}
          PROVE /\ Reach(Slot, NULL, children'[p], sibling') = {q \in Live' : parent'[q] = p} \ InTransit'
                /\ Straight(Slot, NULL, children'[p], sibling')
      BY <1>16 DEF TreeSound, Chain
    <2>2. /\ Reach(Slot, NULL, children[p], sibling) = {q \in Live : parent[q] = p} \ InTransit
          /\ Straight(Slot, NULL, children[p], sibling)
      BY DEF TreeInv, TreeSound, Chain
    <2>3. CASE p = INIT
      <3>1. Reach(Slot, NULL, c, sibling) = ({q \in Live : parent[q] = p} \ InTransit) \cup {c}
        BY <1>21, <2>2, <2>3 DEF Chain
      <3>2. ({q \in Live : parent[q] = p} \ InTransit) \cup {c} = {q \in Live : parent[q] = p} \ (InTransit \ {c})
        BY <1>5, <2>3
      <3> QED
        BY <1>7, <1>10, <1>16, <1>20, <1>21, <2>3, <3>1, <3>2
    <2>4. CASE p # INIT
      <3>1. children'[p] = children[p]
        BY <1>10, <2>4, TreeFacts, SlotFacts
      <3>2. {q \in Live : parent[q] = p} \ InTransit = {q \in Live : parent[q] = p} \ (InTransit \ {c})
        BY <1>5, <2>4
      <3> QED
        BY <1>7, <1>16, <1>20, <2>2, <3>1, <3>2
    <2> QED
      BY <2>3, <2>4
  <1>23. Exiting'
    <2>1. Chain(child[e])' = L
      BY <1>4, <1>7, <1>9 DEF Chain
    <2>2. \A q \in L : q \in Live' /\ parent'[q] = e
      BY <1>5, <1>7, <1>16
    <2>3. e # INIT => children'[e] = NULL
      BY <1>2, <1>10 DEF ExitsAt
    <2>4. ExitsAt(e)'
      BY <1>5, <1>7, <1>9, <2>1, <2>2, <2>3 DEF ExitsAt
    <2>5. \A f, g \in Live : f # g => Transit(f)' \cap Transit(g)' = {}
      BY <1>6, <1>17, <1>18 DEF TreeInv, Exiting
    <2> QED
      BY <1>16, <1>18, <2>4, <2>5 DEF Exiting
  <1>24. ASSUME NEW p \in Live PROVE CollectsAt(p)' /\ NoneMissedAt(p)'
    <2>1. CASE p = e
      <3>1. pc'[p] \in {"die", "take"}
        BY <1>9, <2>1
      <3>2. Passed(p)' = {}
        BY <3>1 DEF Passed
      <3> QED
        BY <3>1, <3>2 DEF CollectsAt, NoneMissedAt
    <2>2. CASE p # e
      <3>1. /\ pc'[p] = pc[p] /\ next'[p] = next[p] /\ child'[p] = child[p] /\ (missed[p] => missed'[p])
            /\ sibling' \in [Slot -> User \cup {NULL}]
        BY <1>9, <1>11, <1>13, <2>2, TreeFacts DEF TypeOK
      <3>2. PICK M : M = Chain(children[p])'
        OBVIOUS
      <3>3. Chain(children[p]) \subseteq M /\ \A d \in M \ Chain(children[p]) : state'[d] = "ZOMBIE" => missed'[p]
        <4>1. CASE p = INIT
          <5>1. M = Chain(children[p]) \cup {c}
            BY <1>7, <1>10, <1>21, <3>2, <4>1 DEF Chain
          <5> QED
            BY <1>7, <1>11, <4>1, <5>1
        <4>2. CASE p # INIT
          <5>1. M = Chain(children[p])
            BY <1>7, <1>10, <3>2, <4>2, TreeFacts DEF Chain
          <5> QED
            BY <5>1
        <4> QED
          BY <4>1, <4>2
      <3> QED
        BY <1>7, <3>1, <3>2, <3>3, WaiterKept
    <2> QED
      BY <2>1, <2>2
  <1>25. Founders'
    <2>1. Founders
      BY DEF TreeInv
    <2>2. \A p \in User : state'[p] = "ZOMBIE" => pc'[p] = "die"
      BY <1>2, <1>7, <1>9, <2>1, SlotFacts DEF Founders
    <2> QED
      BY <1>7, <1>16, <2>1, <2>2 DEF Founders
  <1>26. Parented'
    BY <1>7, <1>16 DEF TreeInv, Parented
  <1> QED
    BY <1>16, <1>22, <1>23, <1>24, <1>25, <1>26 DEF TreeInv, Collecting, NoneMissed

(* sys_fork putting the new child in front of its parent's list keeps the   *)
(* tree.                                                                    *)
LEMMA ForkKeeps ==
    ASSUME TypeOK, TreeInv, sys_fork
    PROVE  TypeOK' /\ TreeInv'
  <1>1. PICK e : e = current
    OBVIOUS
  <1>2. /\ e \in User /\ e \in Live /\ e \in Slot /\ state[e] = "RUNNING" /\ pc[e] = "user"
        /\ children[e] \in User \cup {NULL}
    BY <1>1, TreeFacts, SlotFacts DEF sys_fork, At, TypeOK
  <1>3. Reaped(state) = state
    BY NobodyIsReaped DEF TypeOK, TreeInv
  <1>4. PICK n \in User :
          /\ state[n] = "UNUSED"
          /\ state' = [state EXCEPT ![n] = "RUNNABLE"]
          /\ parent' = [parent EXCEPT ![n] = e]
          /\ sibling' = [sibling EXCEPT ![n] = children[e]]
          /\ children' = [children EXCEPT ![e] = n, ![n] = NULL]
          /\ fatal' = [fatal EXCEPT ![n] = FALSE]
          /\ pc' = [pc EXCEPT ![n] = "user"]
          /\ missed' = [missed EXCEPT ![n] = FALSE]
    BY <1>1, <1>3 DEF sys_fork, Free
  <1>5. current' = current /\ want' = want /\ child' = child /\ next' = next /\ torn' = torn
    BY DEF sys_fork, locals
  <1>6. n \in Slot /\ n # e /\ n \notin Live /\ n # 0 /\ n # current /\ n # NULL
    BY <1>1, <1>2, <1>4, SlotFacts DEF Live
  <1>7. /\ \A q \in Slot \ {n} : /\ state'[q] = state[q] /\ parent'[q] = parent[q] /\ sibling'[q] = sibling[q]
                                 /\ pc'[q] = pc[q]
        /\ state'[n] = "RUNNABLE" /\ parent'[n] = e /\ sibling'[n] = children[e] /\ pc'[n] = "user"
    BY <1>4, <1>6 DEF TypeOK
  <1>8. /\ \A q \in Slot \ {n, e} : children'[q] = children[q]
        /\ children'[e] = n /\ children'[n] = NULL
    BY <1>2, <1>4, <1>6 DEF TypeOK
  <1>9. missed' \in [Slot -> BOOLEAN] /\ \A q \in Slot \ {n} : missed'[q] = missed[q]
    BY <1>4, <1>6 DEF TypeOK
  <1>10. /\ state' \in [Slot -> State] /\ parent' \in [Slot -> Slot \cup {NULL}]
         /\ children' \in [Slot -> User \cup {NULL}] /\ sibling' \in [Slot -> User \cup {NULL}]
    BY <1>2, <1>4, <1>6 DEF TypeOK, State
  <1>11. fatal' \in [Slot -> BOOLEAN] /\ pc' \in [Slot -> Pc]
    BY <1>4, <1>6 DEF TypeOK, Pc
  <1>12. \A p \in Slot : state'[p] = "RUNNING" <=> p = current'
    BY <1>5, <1>6, <1>7 DEF TypeOK
  <1>13. TypeOK'
    BY <1>5, <1>9, <1>10, <1>11, <1>12 DEF TypeOK
  <1>14. Live' = Live \cup {n}
    BY <1>4, <1>7, SlotFacts DEF Live
  <1>15. ASSUME NEW f \in Live PROVE ExitsAt(f)' /\ Transit(f)' = Transit(f)
    <2>1. f \in Slot /\ f # n
      BY <1>6, TreeFacts
    <2>2. n \notin Transit(f) /\ Transit(f) \subseteq Slot
      BY <1>6, TreeFacts
    <2>3. \A m \in Transit(f) : sibling'[m] = sibling[m] /\ parent'[m] = parent[m] /\ m \in Live'
      BY <1>7, <1>14, <2>2, TreeFacts
    <2>4. CASE f # e
      BY <1>5, <1>7, <1>8, <1>10, <2>1, <2>3, <2>4, ExitKept
    <2>5. CASE f = e
      BY <1>2, <1>7, <2>1, <2>5 DEF ExitsAt, Transit
    <2> QED
      BY <2>4, <2>5
  <1>16. Transit(n)' = {}
    BY <1>7 DEF Transit
  <1>17. InTransit' = InTransit
    BY <1>14, <1>15, <1>16 DEF InTransit
  <1>18. ASSUME NEW p \in Live \cup {0}
         PROVE  /\ n \notin Chain(children[p]) /\ Chain(children[p]) \subseteq Slot
                /\ Reach(Slot, NULL, children[p], sibling') = Chain(children[p])
                /\ Straight(Slot, NULL, children[p], sibling')
    <2>1. n \notin Chain(children[p]) /\ Chain(children[p]) \subseteq Slot /\ children[p] \in User \cup {NULL}
      BY <1>6, TreeFacts
    <2>2. \A m \in Chain(children[p]) : sibling'[m] = sibling[m]
      BY <1>7, <2>1
    <2>3. Straight(Slot, NULL, children[p], sibling)
      BY DEF TreeInv, TreeSound
    <2> QED
      BY <1>10, <2>1, <2>2, <2>3, ChainFrame
  <1>19. /\ Reach(Slot, NULL, n, sibling') = Chain(children[e]) \cup {n}
         /\ Straight(Slot, NULL, n, sibling')
    <2>1. IsList(Slot, NULL, children[e], sibling)
      BY <1>2, ChainInUser
    <2>2. IsList(Slot, NULL, children[e], sibling')
      BY <1>2, <1>10, SlotFacts DEF IsList
    <2>3. Straight(Slot, NULL, children[e], sibling)
      BY <1>2 DEF TreeInv, TreeSound
    <2>4. n \notin Reach(Slot, NULL, children[e], sibling)
      BY <1>2, <1>18 DEF Chain
    <2>5. \A m \in Reach(Slot, NULL, children[e], sibling) : sibling'[m] = sibling[m]
      BY <1>2, <1>7, <1>18 DEF Chain
    <2>6. /\ Reach(Slot, NULL, n, sibling') = Reach(Slot, NULL, children[e], sibling) \cup {n}
          /\ Straight(Slot, NULL, n, sibling')
      BY <1>6, <1>7, <2>1, <2>2, <2>3, <2>4, <2>5, StraightPush
    <2> QED
      BY <2>6 DEF Chain
  <1>20. TreeSound'
    <2>1. SUFFICES ASSUME NEW p \in Live \cup {n, 0}
          PROVE /\ Reach(Slot, NULL, children'[p], sibling') = {q \in Live' : parent'[q] = p} \ InTransit'
                /\ Straight(Slot, NULL, children'[p], sibling')
      BY <1>14 DEF TreeSound, Chain
    <2>2. \A q \in Live : parent'[q] = parent[q]
      BY <1>6, <1>7, TreeFacts
    <2>3. n \notin InTransit
      BY <1>6, TreeFacts DEF InTransit
    <2>4. CASE p = n
      <3>1. \A q \in Live : parent[q] # n
        BY <1>4 DEF TreeInv, Parented
      <3>2. {q \in Live' : parent'[q] = p} = {}
        BY <1>6, <1>7, <1>14, <2>2, <2>4, <3>1
      <3>3. Reach(Slot, NULL, children'[p], sibling') = {}
        BY <1>8, <2>4, ReachEmpty
      <3> QED
        BY <3>2, <3>3 DEF Straight
    <2>5. CASE p = e
      <3>1. Chain(children[e]) = {q \in Live : parent[q] = e} \ InTransit
        BY <1>2 DEF TreeInv, TreeSound
      <3>2. {q \in Live' : parent'[q] = e} = {q \in Live : parent[q] = e} \cup {n}
        BY <1>7, <1>14, <2>2
      <3> QED
        BY <1>8, <1>17, <1>19, <2>3, <2>5, <3>1, <3>2
    <2>6. CASE p # e /\ p # n
      <3>1. p \in Live \cup {0} /\ p \in Slot
        BY <2>6, TreeFacts, SlotFacts
      <3>2. Chain(children[p]) = {q \in Live : parent[q] = p} \ InTransit
        BY <3>1 DEF TreeInv, TreeSound
      <3>3. {q \in Live' : parent'[q] = p} = {q \in Live : parent[q] = p}
        BY <1>7, <1>14, <2>2, <2>6
      <3>4. children'[p] = children[p]
        BY <1>8, <2>6, <3>1
      <3> QED
        BY <1>17, <1>18, <3>1, <3>2, <3>3, <3>4
    <2> QED
      BY <2>4, <2>5, <2>6
  <1>21. Exiting'
    <2>1. ExitsAt(n)'
      BY <1>7 DEF ExitsAt
    <2>2. \A f, g \in Live \cup {n} : f # g => Transit(f)' \cap Transit(g)' = {}
      BY <1>15, <1>16 DEF TreeInv, Exiting
    <2> QED
      BY <1>14, <1>15, <2>1, <2>2 DEF Exiting
  <1>22. ASSUME NEW p \in Live \cup {n} PROVE CollectsAt(p)' /\ NoneMissedAt(p)'
    <2>1. CASE p \in {e, n}
      <3>1. pc'[p] = "user"
        BY <1>2, <1>6, <1>7, <2>1
      <3>2. Passed(p)' = {}
        BY <3>1 DEF Passed
      <3> QED
        BY <3>1, <3>2 DEF CollectsAt, NoneMissedAt
    <2>2. CASE p \notin {e, n}
      <3>1. p \in Live /\ p \in Slot \ {n}
        BY <2>2, TreeFacts
      <3>2. children'[p] = children[p] /\ pc'[p] = pc[p] /\ state'[p] = state[p] /\ missed'[p] = missed[p]
        BY <1>7, <1>8, <1>9, <2>2, <3>1
      <3>3. Chain(children[p])' = Chain(children[p])
        BY <1>18, <3>1, <3>2 DEF Chain
      <3>4. \A m \in Chain(children[p]) : sibling'[m] = sibling[m] /\ state'[m] = state[m]
        BY <1>7, <1>18, <3>1
      <3> QED
        BY <1>5, <1>10, <3>1, <3>2, <3>3, <3>4, WaiterKept
    <2> QED
      BY <2>1, <2>2
  <1>23. Founders'
    <2>1. Founders /\ INIT # n
      BY <1>6 DEF TreeInv, Founders
    <2>2. \A p \in User : state'[p] = "ZOMBIE" => pc'[p] = "die"
      BY <1>7, <2>1, SlotFacts DEF Founders
    <2>3. state'[0] = state[0] /\ parent'[INIT] = parent[INIT]
      BY <1>6, <1>7, <2>1, SlotFacts
    <2> QED
      BY <1>14, <2>1, <2>2, <2>3 DEF Founders
  <1>24. Parented'
    <2>1. SUFFICES ASSUME NEW q \in Live \cup {n}
          PROVE  /\ parent'[q] # NULL /\ state'[parent'[q]] # "UNUSED"
                 /\ state'[parent'[q]] = "ZOMBIE" => parent'[q] = INIT
      BY <1>14 DEF Parented
    <2>2. CASE q = n
      BY <1>2, <1>6, <1>7, <2>2, SlotFacts
    <2>3. CASE q # n
      <3>1. q \in Live /\ parent'[q] = parent[q] /\ q \in Slot
        BY <1>7, <2>3, TreeFacts
      <3>2. /\ parent[q] # NULL /\ state[parent[q]] # "UNUSED"
            /\ state[parent[q]] = "ZOMBIE" => parent[q] = INIT
        BY <3>1 DEF TreeInv, Parented
      <3>3. parent[q] \in Slot \ {n}
        BY <1>4, <3>1, <3>2 DEF TypeOK
      <3> QED
        BY <1>7, <3>1, <3>2, <3>3
    <2> QED
      BY <2>2, <2>3
  <1> QED
    BY <1>13, <1>14, <1>20, <1>21, <1>22, <1>23, <1>24 DEF TreeInv, Collecting, NoneMissed

(* process_destroy taking the child out of its parent's list keeps the      *)
(* tree.                                                                    *)
LEMMA UnlinkKeeps ==
    ASSUME TypeOK, TreeInv, DestroyUnlink
    PROVE  TypeOK' /\ (torn' \/ TreeInv')
  <1>1. PICK e : e = current
    OBVIOUS
  <1>2. /\ e \in User /\ e \in Live /\ e \in Slot /\ state[e] = "RUNNING" /\ pc[e] = "unlink"
        /\ CollectsAt(e) /\ children[e] \in User \cup {NULL} /\ next[e] \in User \cup {NULL}
    BY <1>1, TreeFacts, SlotFacts DEF DestroyUnlink, At, TypeOK, TreeInv, Collecting
  <1>3. PICK z : z = child[e]
    OBVIOUS
  <1>4. PICK prev : prev = next[e]
    OBVIOUS
  <1>5. /\ z \in Chain(children[e]) /\ z # NULL /\ state[z] = "ZOMBIE"
        /\ prev \in User \cup {NULL}
        /\ prev # NULL => prev \in Chain(children[e]) /\ sibling[prev] = z
    BY <1>2, <1>3, <1>4 DEF CollectsAt
  <1>6. /\ z \in Live /\ parent[z] = e /\ z \in User /\ z \in Slot /\ z # e /\ z # 0
        /\ sibling[z] \in User \cup {NULL} /\ pc[z] = "die" /\ z # current
        /\ prev # NULL => prev \in Slot /\ parent[prev] = e
    <2>1. z \in Live /\ parent[z] = e /\ z \in User /\ z \in Slot
      BY <1>2, <1>5, TreeFacts
    <2>2. z # e /\ z # 0 /\ z # current
      BY <1>1, <1>2, <1>5, <2>1, SlotFacts
    <2>3. prev # NULL => prev \in Slot /\ parent[prev] = e
      BY <1>2, <1>5, TreeFacts
    <2>4. pc[z] = "die"
      BY <1>5, <2>1 DEF TreeInv, Founders
    <2> QED
      BY <2>1, <2>2, <2>3, <2>4 DEF TypeOK
  <1>7. z # INIT
    BY <1>2, <1>6, SlotFacts DEF TreeInv, Founders
  <1>70. z \notin Chain(sibling[z]) /\ prev # z
    <2>1. IsList(Slot, NULL, z, sibling) /\ Straight(Slot, NULL, children[e], sibling)
      BY <1>2, <1>6, ChainInUser DEF TreeInv, TreeSound
    <2>2. z \notin Chain(sibling[z])
      BY <1>5, <2>1 DEF Straight, NoReturn, Chain
    <2>3. z \in Chain(z)
      BY <1>5, <2>1, ReachClosed DEF Chain
    <2> QED
      BY <1>5, <2>2, <2>3
  <1>8. /\ children' = [children EXCEPT ![e] = IF prev = NULL THEN sibling[z] ELSE @, ![z] = NULL]
        /\ sibling' = [c \in Slot |-> CASE c = z -> NULL
                                       [] c = prev -> sibling[z]
                                       [] OTHER -> sibling[c]]
        /\ torn' = (torn \/ (prev = NULL /\ children[e] # z))
        /\ parent' = [parent EXCEPT ![z] = NULL]
        /\ state' = [state EXCEPT ![z] = "UNUSED"]
        /\ fatal' = [fatal EXCEPT ![z] = FALSE]
        /\ missed' = [missed EXCEPT ![z] = FALSE]
        /\ pc' = [pc EXCEPT ![e] = "clear", ![z] = "user"]
        /\ next' = [next EXCEPT ![e] = NULL]
        /\ current' = current /\ want' = want /\ child' = child
    BY <1>1, <1>3, <1>4, <1>6 DEF DestroyUnlink
  <1>9. /\ \A q \in Slot \ {z} : state'[q] = state[q] /\ parent'[q] = parent[q]
        /\ state'[z] = "UNUSED" /\ parent'[z] = NULL
        /\ state' \in [Slot -> State] /\ parent' \in [Slot -> Slot \cup {NULL}]
    BY <1>6, <1>8 DEF TypeOK, State
  <1>10. /\ \A q \in Slot \ {z} : missed'[q] = missed[q]
         /\ missed' \in [Slot -> BOOLEAN]
    BY <1>6, <1>8 DEF TypeOK
  <1>11. fatal' \in [Slot -> BOOLEAN]
    BY <1>6, <1>8 DEF TypeOK
  <1>12. /\ \A q \in Slot \ {e, z} : children'[q] = children[q] /\ pc'[q] = pc[q]
         /\ children'[e] = IF prev = NULL THEN sibling[z] ELSE children[e]
         /\ children'[z] = NULL /\ pc'[e] = "clear" /\ pc'[z] = "user"
         /\ children' \in [Slot -> User \cup {NULL}] /\ pc' \in [Slot -> Pc]
    BY <1>2, <1>6, <1>8 DEF TypeOK, Pc
  <1>13. /\ \A q \in Slot \ {e} : want'[q] = want[q] /\ child'[q] = child[q] /\ next'[q] = next[q]
         /\ want' \in [Slot -> User \cup {NULL, WAIT, ANY}]
         /\ child' \in [Slot -> User \cup {NULL}] /\ next' \in [Slot -> User \cup {NULL}]
    BY <1>2, <1>8 DEF TypeOK
  <1>14. /\ \A q \in Slot \ {z, prev} : sibling'[q] = sibling[q]
         /\ sibling'[z] = NULL
         /\ prev # NULL /\ prev # z => sibling'[prev] = sibling[z]
         /\ sibling' \in [Slot -> User \cup {NULL}]
    <2>1. \A q \in Slot : sibling'[q] = IF q = z THEN NULL ELSE IF q = prev THEN sibling[z] ELSE sibling[q]
      <3>1. SUFFICES ASSUME NEW q \in Slot
            PROVE sibling'[q] = IF q = z THEN NULL ELSE IF q = prev THEN sibling[z] ELSE sibling[q]
        OBVIOUS
      <3>2. sibling'[q] = CASE q = z -> NULL [] q = prev -> sibling[z] [] OTHER -> sibling[q]
        BY <1>8
      <3>3. CASE q = z
        BY <1>70, <3>2, <3>3
      <3>4. CASE q # z /\ q = prev
        BY <3>2, <3>4
      <3>5. CASE q # z /\ q # prev
        BY <3>2, <3>5
      <3> QED
        BY <3>3, <3>4, <3>5
    <2>2. \A q \in Slot : sibling'[q] \in User \cup {NULL}
      BY <1>6, <2>1 DEF TypeOK
    <2>3. sibling' = [q \in Slot |-> sibling'[q]]
      BY <1>8
    <2>4. sibling' \in [Slot -> User \cup {NULL}]
      BY <2>2, <2>3
    <2> QED
      BY <1>6, <2>1, <2>4
  <1>15. torn' \in BOOLEAN
    BY <1>8 DEF TypeOK
  <1>16. \A p \in Slot : state'[p] = "RUNNING" <=> p = current'
    BY <1>6, <1>8, <1>9 DEF TypeOK
  <1>17. TypeOK'
    BY <1>8, <1>9, <1>10, <1>11, <1>12, <1>13, <1>14, <1>15, <1>16 DEF TypeOK
  <1>18. SUFFICES ASSUME ~ torn' PROVE TreeInv'
    BY <1>17
  <1>19. prev = NULL => children[e] = z
    BY <1>8, <1>18
  <1>20. Live' = Live \ {z}
    BY <1>6, <1>9, SlotFacts DEF Live
  <1>21. Transit(z) = {} /\ Transit(e) = {} /\ z \notin InTransit /\ prev \notin InTransit
    <2>1. Chain(children[e]) \cap InTransit = {}
      BY <1>2, TreeFacts
    <2>2. InTransit \subseteq Live
      BY TreeFacts DEF InTransit
    <2>3. NULL \notin Live
      BY TreeFacts, SlotFacts
    <2> QED
      BY <1>2, <1>5, <1>6, <2>1, <2>2, <2>3 DEF Transit
  <1>22. ASSUME NEW f \in Live, f # z PROVE ExitsAt(f)' /\ Transit(f)' = Transit(f)
    <2>1. f \in Slot
      BY TreeFacts
    <2>2. Transit(f) \subseteq Slot \ {z, prev} /\ Transit(f) \subseteq Live
      BY <1>21, TreeFacts
    <2>3. \A m \in Transit(f) : sibling'[m] = sibling[m] /\ parent'[m] = parent[m] /\ m \in Live'
      BY <1>9, <1>14, <1>20, <2>2
    <2>4. CASE f # e
      BY <1>12, <1>13, <1>14, <1>22, <2>1, <2>3, <2>4, ExitKept
    <2>5. CASE f = e
      BY <1>12, <1>21, <2>5 DEF ExitsAt, Transit
    <2> QED
      BY <2>4, <2>5
  <1>23. InTransit' = InTransit
    BY <1>20, <1>21, <1>22 DEF InTransit
  <1>24. ASSUME NEW p \in Live' \cup {0}, p # e
         PROVE  /\ children'[p] = children[p] /\ Chain(children[p]) \subseteq Slot \ {z, prev}
                /\ Reach(Slot, NULL, children'[p], sibling') = Chain(children[p])
                /\ Straight(Slot, NULL, children'[p], sibling')
    <2>1. p \in Live \cup {0} /\ p \in Slot /\ p # z
      BY <1>6, <1>20, TreeFacts, SlotFacts
    <2>2. children'[p] = children[p]
      BY <1>12, <1>24, <2>1
    <2>3. Chain(children[p]) \subseteq Slot \ {z, prev} /\ children[p] \in User \cup {NULL}
      <3>1. \A q \in Chain(children[p]) : q \in Slot /\ parent[q] = p
        BY <2>1, TreeFacts
      <3>2. NULL \notin Slot
        BY SlotFacts
      <3> QED
        BY <1>6, <1>24, <2>1, <3>1, <3>2, TreeFacts
    <2>4. \A m \in Chain(children[p]) : sibling'[m] = sibling[m]
      BY <1>14, <2>3
    <2>5. Straight(Slot, NULL, children[p], sibling)
      BY <2>1 DEF TreeInv, TreeSound
    <2> QED
      BY <1>14, <2>2, <2>3, <2>4, <2>5, ChainFrame
  <1>25. /\ Reach(Slot, NULL, children'[e], sibling') = Chain(children[e]) \ {z}
         /\ Straight(Slot, NULL, children'[e], sibling')
    <2>1. IsList(Slot, NULL, children[e], sibling) /\ IsList(Slot, NULL, z, sibling)
      BY <1>2, <1>6, ChainInUser
    <2>2. Straight(Slot, NULL, children[e], sibling)
      BY <1>2 DEF TreeInv, TreeSound
    <2>3. z \in Reach(Slot, NULL, children[e], sibling)
      BY <1>5 DEF Chain
    <2>4. z \notin Chain(sibling[z])
      BY <1>70
    <2>5. Chain(z) = {z} \cup Chain(sibling[z])
      BY <1>6, <2>1, ReachUnfold DEF Chain
    <2>6. CASE prev = NULL
      <3>1. children[e] = z /\ children'[e] = sibling[z]
        BY <1>12, <1>19, <2>6
      <3>2. Straight(Slot, NULL, sibling[z], sibling)
        BY <2>1, <2>2, <2>3, StraightTail
      <3>3. Chain(sibling[z]) \subseteq User
        BY <1>6, ChainInUser
      <3>4. \A m \in Chain(sibling[z]) : sibling'[m] = sibling[m]
        BY <1>14, <2>4, <2>6, <3>3, SlotFacts
      <3>5. /\ Reach(Slot, NULL, sibling[z], sibling') = Chain(sibling[z])
            /\ Straight(Slot, NULL, sibling[z], sibling')
        BY <1>6, <1>14, <3>2, <3>4, ChainFrame
      <3>6. Chain(children[e]) \ {z} = Chain(sibling[z])
        BY <2>4, <2>5, <3>1
      <3> QED
        BY <3>1, <3>5, <3>6
    <2>7. CASE prev # NULL
      <3>1. prev \in Chain(children[e]) /\ sibling[prev] = z /\ children'[e] = children[e] /\ prev \in Slot
        BY <1>5, <1>6, <1>12, <2>7
      <3>2. IsList(Slot, NULL, sibling[z], sibling)
        BY <1>6, ChainInUser
      <3>3. \A m \in Chain(sibling[z]) : sibling[m] # NULL => sibling[m] \in Chain(sibling[z])
        BY <3>2, ReachClosed DEF Chain
      <3>4. prev \notin Chain(sibling[z])
        BY <1>5, <2>4, <3>1, <3>3
      <3>5. prev # z
        BY <1>70
      <3>6. children[e] # z
        BY <2>5, <3>1, <3>4, <3>5
      <3>7. sibling'[prev] = sibling[z] /\ sibling'[z] = NULL
        BY <1>14, <2>7, <3>5
      <3>8. IsList(Slot, NULL, children[e], sibling')
        BY <1>2, <1>14, SlotFacts DEF IsList
      <3>9. Reach(Slot, NULL, children[e], sibling) \subseteq Slot
        BY <2>1, ReachClosed
      <3>10. \A k \in Reach(Slot, NULL, children[e], sibling) \ {prev, z} : sibling'[k] = sibling[k]
        BY <1>14, <3>9
      <3>11. prev \in Reach(Slot, NULL, children[e], sibling)
        BY <3>1 DEF Chain
      <3>12. /\ Reach(Slot, NULL, children[e], sibling') = Reach(Slot, NULL, children[e], sibling) \ {z}
             /\ Straight(Slot, NULL, children[e], sibling')
        BY <2>1, <2>2, <2>3, <3>1, <3>6, <3>7, <3>8, <3>10, <3>11, StraightSplice
      <3> QED
        BY <3>1, <3>12 DEF Chain
    <2> QED
      BY <2>6, <2>7
  <1>26. TreeSound'
    <2>1. SUFFICES ASSUME NEW p \in Live' \cup {0}
          PROVE /\ Reach(Slot, NULL, children'[p], sibling') = {q \in Live' : parent'[q] = p} \ InTransit'
                /\ Straight(Slot, NULL, children'[p], sibling')
      BY DEF TreeSound, Chain
    <2>2. \A q \in Live' : q \in Live /\ q # z /\ parent'[q] = parent[q]
      BY <1>9, <1>20, TreeFacts
    <2>3. p \in Live \cup {0}
      BY <1>20
    <2>4. Chain(children[p]) = {q \in Live : parent[q] = p} \ InTransit
      BY <2>3 DEF TreeInv, TreeSound
    <2>5. {q \in Live' : parent'[q] = p} = {q \in Live : parent[q] = p} \ {z}
      BY <1>20, <2>2
    <2>6. CASE p = e
      <3>1. Chain(children[e]) \ {z} = ({q \in Live : parent[q] = p} \ {z}) \ InTransit
        BY <2>4, <2>6
      <3> QED
        BY <1>23, <1>25, <2>5, <2>6, <3>1
    <2>7. CASE p # e
      <3>1. z \notin Chain(children[p])
        BY <1>24, <2>7
      <3>2. Chain(children[p]) = ({q \in Live : parent[q] = p} \ {z}) \ InTransit
        BY <2>4, <3>1
      <3> QED
        BY <1>23, <1>24, <2>5, <2>7, <3>2
    <2> QED
      BY <2>6, <2>7
  <1>27. Exiting'
    <2>1. \A f, g \in Live' : f # g => Transit(f)' \cap Transit(g)' = {}
      BY <1>20, <1>22 DEF TreeInv, Exiting
    <2> QED
      BY <1>20, <1>22, <2>1 DEF Exiting
  <1>28. ASSUME NEW p \in Live' PROVE CollectsAt(p)' /\ NoneMissedAt(p)'
    <2>1. CASE p = e
      <3>1. Passed(p)' = {}
        BY <1>12, <2>1 DEF Passed
      <3> QED
        BY <1>3, <1>5, <1>6, <1>8, <1>12, <2>1, <3>1 DEF CollectsAt, NoneMissedAt
    <2>2. CASE p # e
      <3>1. p \in Live /\ p \in Slot \ {e, z}
        BY <1>20, <2>2, TreeFacts
      <3>2. /\ children'[p] = children[p] /\ pc'[p] = pc[p] /\ state'[p] = state[p] /\ missed'[p] = missed[p]
            /\ child'[p] = child[p] /\ next'[p] = next[p] /\ want'[p] = want[p]
        BY <1>9, <1>10, <1>12, <1>13, <3>1
      <3>3. Chain(children[p])' = Chain(children[p])
        BY <1>24, <2>2 DEF Chain
      <3>4. \A m \in Chain(children[p]) : sibling'[m] = sibling[m] /\ state'[m] = state[m]
        BY <1>9, <1>14, <1>24, <2>2
      <3> QED
        BY <1>14, <3>1, <3>2, <3>3, <3>4, WaiterKept
    <2> QED
      BY <2>1, <2>2
  <1>29. Founders'
    <2>1. Founders
      BY DEF TreeInv
    <2>2. \A p \in User : state'[p] = "ZOMBIE" => pc'[p] = "die"
      BY <1>2, <1>9, <1>12, <2>1, SlotFacts DEF Founders
    <2>3. state'[0] = state[0] /\ parent'[INIT] = parent[INIT]
      BY <1>6, <1>7, <1>9, SlotFacts
    <2> QED
      BY <1>7, <1>20, <2>1, <2>2, <2>3 DEF Founders
  <1>30. Parented'
    <2>1. SUFFICES ASSUME NEW q \in Live'
          PROVE  /\ parent'[q] # NULL /\ state'[parent'[q]] # "UNUSED"
                 /\ state'[parent'[q]] = "ZOMBIE" => parent'[q] = INIT
      BY DEF Parented
    <2>2. q \in Live /\ parent'[q] = parent[q] /\ q \in Slot
      BY <1>9, <1>20, TreeFacts
    <2>3. /\ parent[q] # NULL /\ state[parent[q]] # "UNUSED"
          /\ state[parent[q]] = "ZOMBIE" => parent[q] = INIT
      BY <2>2 DEF TreeInv, Parented
    <2>4. parent[q] \in Slot \ {z}
      BY <1>5, <1>7, <2>2, <2>3 DEF TypeOK
    <2> QED
      BY <1>9, <2>2, <2>3, <2>4
  <1> QED
    BY <1>26, <1>27, <1>28, <1>29, <1>30 DEF TreeInv, Collecting, NoneMissed

(* A write through a stale pointer keeps the types. *)
LEMMA StrikeKeeps ==
    ASSUME TypeOK, TreeInv, Strike
    PROVE  TypeOK' /\ torn'
  <1>1. /\ current \in User /\ current \in Slot /\ state \in [Slot -> State] /\ state[current] = "RUNNING"
        /\ child[current] \in Slot
    <2>1. current \in User /\ pc[current] \in {"rouse", "clear"}
      BY DEF Strike, KillWake, DestroyClear, At
    <2>2. current \in Live /\ current \in Slot /\ state[current] = "RUNNING"
      BY <2>1, TreeFacts
    <2>3. child[current] \in User
      BY <2>1, <2>2, SlotFacts DEF TypeOK, TreeInv, Collecting, CollectsAt
    <2> QED
      BY <2>1, <2>2, <2>3, SlotFacts DEF TypeOK
  <1>2. PICK z \in Slot : z = child[current]
    BY <1>1
  <1>3. DestroyClear => z # current
    <2>1. SUFFICES ASSUME DestroyClear PROVE z # current
      OBVIOUS
    <2>2. current \in Live /\ pc[current] = "clear"
      BY <2>1, TreeFacts DEF DestroyClear, At
    <2> QED
      BY <1>2, <2>2 DEF TreeInv, Collecting, CollectsAt
  <1>4. CASE KillWake /\ state[z] \in {"ZOMBIE", "UNUSED"}
    <2>1. state' = [state EXCEPT ![z] = "RUNNABLE"]
      BY <1>2, <1>4 DEF KillWake, Rouse
    <2>2. /\ state' \in [Slot -> State] /\ torn'
          /\ \A p \in Slot : state'[p] = "RUNNING" <=> state[p] = "RUNNING"
      BY <1>1, <1>2, <1>4, <2>1 DEF KillWake, State
    <2>3. pc' \in [Slot -> Pc] /\ child' \in [Slot -> User \cup {NULL}]
      BY <1>1, <1>4 DEF KillWake, Go, TypeOK, Pc
    <2>4. torn' \in BOOLEAN
      BY <1>4 DEF KillWake
    <2> QED
      BY <1>4, <2>2, <2>3, <2>4 DEF KillWake, TypeOK, tree
  <1>5. CASE DestroyClear /\ state[z] # "UNUSED"
    <2>1. state' = [state EXCEPT ![z] = "UNUSED"] /\ torn'
      BY <1>2, <1>5 DEF DestroyClear
    <2>2. state' \in [Slot -> State] /\ \A p \in Slot : state'[p] = "RUNNING" <=> state[p] = "RUNNING"
      BY <1>1, <1>2, <1>3, <1>5, <2>1 DEF State, TypeOK
    <2>3. /\ pc' \in [Slot -> Pc] /\ child' \in [Slot -> User \cup {NULL}]
          /\ want' \in [Slot -> User \cup {NULL, WAIT, ANY}]
      BY <1>1, <1>5 DEF DestroyClear, Go, TypeOK, Pc
    <2> QED
      BY <1>5, <2>1, <2>2, <2>3 DEF DestroyClear, TypeOK, tree
  <1> QED
    BY <1>2, <1>4, <1>5 DEF Strike

-----------------------------------------------------------------------------
(* The table process_init leaves, with pid 1, satisfies the invariant. *)
LEMMA InitHolds == Init => Inv
  <1> SUFFICES ASSUME Init PROVE Inv
    OBVIOUS
  <1>1. TypeOK
    BY SlotFacts DEF Init, TypeOK, State, Pc
  <1>2. Live = {INIT} /\ InTransit = {} /\ \A p \in Slot : Transit(p) = {} /\ Passed(p) = {}
    BY SlotFacts DEF Init, Live, InTransit, Transit, Passed
  <1>3. Chain(NULL) = {}
    BY ReachEmpty DEF Chain
  <1>4. Chain(INIT) = {INIT} /\ Straight(Slot, NULL, INIT, sibling)
    <2>1. IsList(Slot, NULL, INIT, sibling) /\ INIT \in Slot /\ sibling[INIT] = NULL
      BY <1>1, ChainInUser, SlotFacts DEF Init
    <2>2. Chain(INIT) = {INIT}
      BY <1>3, <2>1, ReachUnfold DEF Chain
    <2>3. NoReturn(Slot, NULL, INIT, sibling)
      BY <1>3, <2>1 DEF NoReturn, Chain
    <2> QED
      BY <2>2, <2>3 DEF Straight, Chain
  <1>5. Straight(Slot, NULL, NULL, sibling)
    BY <1>3 DEF Straight, Chain
  <1>6. children[0] = INIT /\ children[INIT] = NULL /\ parent[INIT] = 0 /\ pc[INIT] = "user"
    BY SlotFacts DEF Init
  <1>7. TreeSound
    BY <1>2, <1>3, <1>4, <1>5, <1>6, SlotFacts DEF TreeSound
  <1>8. Founders
    BY <1>2, <1>6, SlotFacts DEF Founders, Init
  <1>9. Exiting
    BY <1>2, <1>6, SlotFacts DEF Exiting, ExitsAt
  <1>10. Collecting /\ NoneMissed
    BY <1>2, <1>6, SlotFacts DEF Collecting, CollectsAt, NoneMissed, NoneMissedAt
  <1>11. Parented
    BY <1>2, <1>6, SlotFacts DEF Parented, Init
  <1> QED
    BY <1>1, <1>7, <1>8, <1>9, <1>10, <1>11 DEF Inv, TreeInv

(* Every step keeps it. *)
LEMMA NextKeeps == Inv /\ [Next]_vars => Inv'
  <1> SUFFICES ASSUME Inv, [Next]_vars PROVE Inv'
    OBVIOUS
  <1>1. CASE Next
    <2>1. TypeOK /\ TreeInv
      BY <1>1, Steps DEF Inv
    <2>2. CASE Calm
      BY <2>1, <2>2, CalmKeeps DEF Inv
    <2>3. CASE sys_fork
      BY <2>1, <2>3, ForkKeeps DEF Inv
    <2>4. CASE ExitDetach
      BY <2>1, <2>4, DetachKeeps DEF Inv
    <2>5. CASE AdoptTake
      BY <2>1, <2>5, TakeKeeps DEF Inv
    <2>6. CASE AdoptLink
      BY <2>1, <2>6, LinkKeeps DEF Inv
    <2>7. CASE DestroyUnlink
      BY <2>1, <2>7, UnlinkKeeps DEF Inv
    <2>8. CASE Strike
      BY <2>1, <2>8, StrikeKeeps DEF Inv
    <2> QED
      BY <1>1, <2>2, <2>3, <2>4, <2>5, <2>6, <2>7, <2>8, Steps
  <1>2. CASE UNCHANGED vars
    <2>1. /\ state' = state /\ parent' = parent /\ children' = children /\ sibling' = sibling /\ fatal' = fatal
          /\ current' = current /\ pc' = pc /\ want' = want /\ child' = child /\ next' = next /\ torn' = torn
          /\ missed' = missed
      BY <1>2 DEF vars, tree, locals
    <2>2. TypeOK' = TypeOK
      BY <2>1 DEF TypeOK
    <2>3. ASSUME TreeInv PROVE TreeInv'
      BY <2>1, <2>3, SMTT(30) DEF TreeInv, Founders, TreeSound, Exiting, ExitsAt, Collecting, CollectsAt, Parented, NoneMissed,
         NoneMissedAt, Passed, Matches, Live, InTransit, Transit, Chain
    <2> QED
      BY <2>1, <2>2, <2>3 DEF Inv
  <1> QED
    BY <1>1, <1>2

(***************************************************************************)
(* The invariant holds for every size of process_table and every choice of *)
(* the processes that kill, wait for a pid or block.                       *)
(***************************************************************************)
THEOREM ProcessInvariant == Spec => []Inv
  <1>1. Init => Inv
    BY InitHolds
  <1>2. Inv /\ [Next]_vars => Inv'
    BY NextKeeps
  <1> QED
    BY <1>1, <1>2, PTL DEF Spec

(* The family tree that process_create, process_exit and process_destroy    *)
(* keep is sound until a stale value is used (a list head, a process that   *)
(* sys_kill found asleep, a slot that process_destroy has freed): the lists *)
(* hold exactly the live children, none runs in a circle, and no parent's   *)
(* slot is freed under a child.                                             *)
THEOREM ProcessFamilyIsSound == Spec => []FamilyIsSound
  <1>1. Inv => FamilyIsSound
    BY DEF Inv, TreeInv, FamilyIsSound, TreeSoundUntilTorn, NoOrphans, Parented
  <1> QED
    BY <1>1, ProcessInvariant, PTL

(* A parent asleep in sys_wait or sys_waitpid has no dead child to collect  *)
(* but one that died between its scan and its sleep, or that init adopted   *)
(* dead.                                                                    *)
THEOREM ProcessMissedOnlyInWindow == Spec => []MissedOnlyInWindow
  <1>1. Inv => MissedOnlyInWindow
    <2>1. SUFFICES ASSUME TreeInv, NEW p \in Live, NEW c \in Live,
                          AsleepInWait(p), WaitsFor(p, c), state[c] = "ZOMBIE"
                   PROVE  missed[p]
      BY DEF Inv, MissedOnlyInWindow
    <2>2. c \in Passed(p) /\ Matches(p, c)
      BY <2>1 DEF AsleepInWait, WaitsFor, Passed
    <2> QED
      BY <2>1, <2>2 DEF TreeInv, NoneMissed, NoneMissedAt
  <1> QED
    BY <1>1, ProcessInvariant, PTL

(* No wake-up, signal or reaper touches a dead process: it stays dead until *)
(* its own parent destroys it, or a sys_kill or process_destroy whose test  *)
(* came before its death writes to it.                                      *)
THEOREM ProcessDeadUntilCollected == Spec => DeadUntilCollected
  <1> DEFINE Kept == \A p \in User : state[p] = "ZOMBIE" /\ ~torn =>
                       \/ state'[p] = "ZOMBIE"
                       \/ state'[p] = "UNUSED" /\ current = parent[p] /\ pc[current] = "unlink"
                       \/ torn' /\ Struck(p)
  <1>1. Inv /\ [Next]_vars => [Kept]_vars
    <2>1. SUFFICES ASSUME Inv, Next, NEW p \in User, state[p] = "ZOMBIE", ~torn
                   PROVE  \/ state'[p] = "ZOMBIE"
                          \/ state'[p] = "UNUSED" /\ current = parent[p] /\ pc[current] = "unlink"
                          \/ torn' /\ Struck(p)
      OBVIOUS
    <2>2. TypeOK /\ TreeInv /\ p \in Slot
      BY <2>1, SlotFacts DEF Inv
    <2>3. CASE Calm
      BY <2>1, <2>2, <2>3, CalmMild DEF Mild
    <2>4. CASE sys_fork
      <3>1. Reaped(state) = state
        BY <2>2, NobodyIsReaped DEF TypeOK, TreeInv
      <3>2. PICK n \in User : state[n] = "UNUSED" /\ state' = [state EXCEPT ![n] = "RUNNABLE"]
        BY <2>4, <3>1 DEF sys_fork, Free
      <3> QED
        BY <2>1, <2>2, <3>2 DEF TypeOK
    <2>5. CASE ExitDetach \/ AdoptTake \/ AdoptLink
      BY <2>1, <2>5 DEF ExitDetach, AdoptTake, AdoptLink
    <2>6. CASE DestroyUnlink
      <3>1. PICK z : z = child[current]
        OBVIOUS
      <3>2. current \in Live /\ pc[current] = "unlink" /\ state' = [state EXCEPT ![z] = "UNUSED"]
        BY <2>2, <2>6, <3>1, TreeFacts DEF DestroyUnlink, At
      <3>3. z \in Slot /\ parent[z] = current
        <4>1. z \in Chain(children[current])
          BY <2>2, <3>1, <3>2 DEF TreeInv, Collecting, CollectsAt
        <4> QED
          BY <2>2, <3>2, <4>1, TreeFacts
      <3> QED
        BY <2>1, <2>2, <3>2, <3>3 DEF TypeOK
    <2>7. CASE Strike
      <3>1. torn' /\ pc[current] \in {"rouse", "clear"}
        BY <2>2, <2>7, StrikeKeeps DEF Strike, KillWake, DestroyClear, At
      <3>2. CASE child[current] = p
        BY <3>1, <3>2 DEF Struck
      <3>3. CASE child[current] # p
        BY <2>1, <2>2, <2>7, <3>3 DEF Strike, KillWake, DestroyClear, Rouse, TypeOK
      <3> QED
        BY <3>2, <3>3
    <2> QED
      BY <2>1, <2>3, <2>4, <2>5, <2>6, <2>7, Steps
  <1>2. Spec => []Inv /\ [][Next]_vars
    BY ProcessInvariant, PTL DEF Spec
  <1> QED
    BY <1>1, <1>2, PTL DEF DeadUntilCollected
=============================================================================
