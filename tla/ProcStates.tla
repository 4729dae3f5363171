----------------------------- MODULE ProcStates -----------------------------
(***************************************************************************)
(* What proc_state_t (process.h) promises to the rest of the kernel, with  *)
(* no scores, slices or clocks: which slots of process_table hold a        *)
(* process, which one owns the CPU, and the only moves between the states. *)
(* Scheduler.tla implements this specification.                            *)
(***************************************************************************)
EXTENDS Integers

CONSTANT MAX_PROCESSES

VARIABLES
    status,    \* the phase of the process in each slot
    owner      \* the slot whose code the CPU executes

vars == <<status, owner>>

Slot == 0 .. MAX_PROCESSES - 1
Phase == {"free", "ready", "running", "blocked", "dead"}

Init == /\ owner = 0
        /\ status = [p \in Slot |-> IF p = 0 THEN "running" ELSE "free"]

(* The moves of a slot the CPU is not handed to.  A dead process is cleared *)
(* away, and its slot may be taken by a new one in the same step.           *)
LocalMove(p, old, new) ==
    \/ old = new
    \/ old = "free"    /\ new = "ready"
    \/ old = "blocked" /\ new = "ready"
    \/ old = "dead"    /\ new \in {"free", "ready"} /\ p # owner
    \/ old = "running" /\ new \in {"ready", "blocked", "dead"} /\ p = owner

(* The CPU stays with its owner. *)
Run == /\ owner' = owner
       /\ status' \in [Slot -> Phase]
       /\ \A p \in Slot : LocalMove(p, status[p], status'[p])

(* The CPU is handed to a process that was ready, or had just become so.   *)
Dispatch(n) ==
    /\ n # owner
    /\ owner' = n
    /\ status' \in [Slot -> Phase]
    /\ status[n] \in {"ready", "blocked"} /\ status'[n] = "running"
    /\ \A p \in Slot \ {n} : LocalMove(p, status[p], status'[p])
    /\ status'[owner] # "running"

Next == Run \/ \E n \in Slot : Dispatch(n)

Spec == Init /\ [][Next]_vars
=============================================================================
