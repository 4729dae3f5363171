-------------------------------- MODULE Disk --------------------------------
(***************************************************************************)
(* The disk drivers ahci.c and ata.c, their partition devices, and the     *)
(* device manager: reads and writes of a drive through the whole device or *)
(* a partition, the rescan of the partition table, and handles (mounts,    *)
(* open device files) that keep a pointer to a partition device.           *)
(*                                                                         *)
(* The drive is external: it completes a command, reports an error, or is  *)
(* too late for the driver's wait.  A port with an error stays stopped,    *)
(* for nothing restarts it.  Processes run with interrupts on, so a second *)
(* access may start inside the first.  Sector 0 holds the partition table: *)
(* the value of byte 0 stands for all of it.  SectorSize stands for the    *)
(* 512 bytes that both drivers move per sector; ata.c on a drive with      *)
(* another sector size is the driver "wide".  `hole` is the first case the *)
(* drivers do not handle; want says, for each byte of the drive, what it   *)
(* may be after the writes asked for so far.                               *)
(***************************************************************************)
EXTENDS Integers, Sequences, FiniteSets, SequencesExt

CONSTANTS
    Procs,
    Sectors, SectorSize, \* of the drive
    OffMod,    \* byte offsets are taken modulo this (2^32)
    CountMod,  \* ata.c: sector counts are taken modulo this (2^8)
    BounceCap, \* ahci.c: sectors in the bounce buffer
    Slots,     \* ahci.c: command slots
    MaxParts,  \* partition devices
    Tables,    \* partition tables: sequences of [start, count]
    Offsets, Sizes, Vals, \* of the accesses
    MaxOps     \* bound: accesses, rescans and new tables

ASSUME DiskAssumption ==
    /\ {Sectors, SectorSize, OffMod, CountMod, BounceCap, Slots} \subseteq Nat \ {0}
    /\ Offsets \cup Sizes \cup {MaxParts, MaxOps} \subseteq Nat

VARIABLES
    kind,   \* the driver: "ahci", "ata" or "wide"
    bytes,  \* the drive
    parts,  \* partition devices, by index
    list,   \* device_list_head: newest first; 0 is the drive
    port,   \* the AHCI port; for ata.c whether the drive is still at an old command
    proc,   \* where each process stands in the driver
    handle, \* the partition device each process keeps a pointer to
    ops, want, wrong, hole
vars == <<kind, bytes, parts, list, port, proc, handle, ops, want, wrong, hole>>

Bytes == {0} \cup SectorSize .. Sectors * SectorSize - 1   \* 0: the table
Gone == [start |-> 0, count |-> 0]                \* a device that was cleared
Whole == [start |-> 0, count |-> Sectors]
Idle == [at |-> "user"]
NoHandle == [part |-> 0, meant |-> Gone]
Broken(why) == IF hole = "none" THEN why ELSE hole
Up(n) == (n + SectorSize - 1) \div SectorSize

(* ahci_register_partitions, ata_register_partitions: an entry that is not *)
(* empty becomes a device as long as there is room.                        *)
Registered(t) ==
    LET used == SelectSeq(t, LAMBDA e : e.count # 0) IN
    SubSeq(used, 1, IF Len(used) < MaxParts THEN Len(used) ELSE MaxParts)

(* ahci_probe_and_register, ata_probe_and_register *)
Init ==
    /\ kind \in {"ahci", "ata", "wide"}
    /\ \E t \in Tables : bytes = [b \in Bytes |-> IF b = 0 THEN t ELSE 0]
    /\ want = [b \in Bytes |-> {bytes[b]}]
    /\ parts = Registered(bytes[0])
    /\ list = Reverse([i \in 1 .. Len(parts) + 1 |-> i - 1])
    /\ port = [ci |-> <<>>, err |-> FALSE, old |-> FALSE, bounce |-> [i \in 0 .. BounceCap * SectorSize - 1 |-> 0]]
    /\ proc = [p \in Procs |-> Idle] /\ handle = [p \in Procs |-> NoHandle]
    /\ ops = 0 /\ wrong = FALSE /\ hole = "none"

(* device_find_by_name, for a mount or a file under /dev. *)
OpenPart(p) ==
    /\ proc[p].at = "user" /\ handle[p].part = 0
    /\ \E i \in 1 .. Len(parts) :
         /\ i \in Range(list)
         /\ handle' = [handle EXCEPT ![p] = [part |-> i, meant |-> parts[i]]]
    /\ UNCHANGED <<kind, bytes, parts, list, port, proc, ops, want, wrong, hole>>

(***************************************************************************)
(* An access: device_read or device_write down to the command.             *)
(***************************************************************************)
(* Mutant: the partition's end is checked against the offset only. *)
InPartitionOffset(d, off, size) == off <= d.count * SectorSize
(* ahci_part_read, ata_part_read and the writes: inside the partition. *)
InPartition(d, off, size) == off + size <= d.count * SectorSize
AbsOff(d, off) == (d.start * SectorSize + off) % OffMod

Busy(p) == \E q \in Procs \ {p} : proc[q].at # "user"
Late == port.old \/ (kind = "ahci" /\ ~ port.err /\ DOMAIN port.ci # {})

(* Mutant: the last sector is forgotten when it is not asked for whole. *)
SectorCountDown(size) == size \div SectorSize
(* The sectors the driver asks for, from a byte offset and size. *)
SectorCount(size) == IF kind = "ata" THEN Up(size) % CountMod ELSE Up(size)

(* ahci_find_cmdslot *)
FreeSlots == 1 .. Slots \ DOMAIN port.ci

(* The cases of an access the drivers get wrong.  "late": an old command,  *)
(* which the driver gave up, is still to be completed over the bounce      *)
(* buffer (ahci.c), or takes or gives the data of the new one (ata.c).     *)
Odd(p, d, dir, off, size) ==
    CASE Busy(p) -> "overlap"
      [] ~ Busy(p) /\ Late -> "late"
      [] OTHER -> IF kind = "wide" THEN "wide"
                  ELSE IF d.start * SectorSize + off >= OffMod THEN "wrap"
                  ELSE IF off % SectorSize # 0 THEN "unaligned"
                  ELSE IF size % SectorSize # 0 /\ (dir = "write" \/ kind = "ata") THEN "tail"
                  ELSE IF kind = "ahci" /\ Up(size) > BounceCap THEN "bounce"
                  ELSE IF kind = "ata" /\ Up(size) >= CountMod THEN "truncated"
                  ELSE "none"

(* A read of sector 0; Access and WriteTable fill in theirs. *)
Op == [at |-> "setup", for |-> "data", dir |-> "read", lba |-> 0, count |-> 1, slot |-> 0, done |-> 0,
       size |-> SectorSize, val |-> 0, asked |-> 0, got |-> <<>>, limit |-> SectorSize, err |-> FALSE]

Access(p, dir) ==
    \E viaPart \in BOOLEAN, off \in Offsets, size \in Sizes \ {0}, v \in IF dir = "read" THEN {0} ELSE Vals :
        LET h == handle[p]
            d == IF viaPart THEN parts[h.part] ELSE Whole
            m == IF viaPart THEN h.meant ELSE Whole
            odd == Odd(p, d, dir, off, size)
            op == [Op EXCEPT !.dir = dir, !.lba = AbsOff(d, off) \div SectorSize,
                             !.count = SectorCount(size), !.size = size, !.val = v,
                             !.asked = m.start * SectorSize + off,
                             !.limit = (m.start + m.count) * SectorSize] IN
        /\ proc[p].at = "user" /\ ops < MaxOps /\ ops' = ops + 1
        /\ viaPart => h.part # 0
        /\ ~ viaPart => off >= SectorSize /\ off + size <= Sectors * SectorSize
        /\ IF viaPart /\ (d = Gone \/ ~ InPartition(d, off, size))
           THEN UNCHANGED <<proc, hole>>
           ELSE /\ proc' = [proc EXCEPT ![p] = op]
                /\ hole' = IF viaPart /\ d # m THEN Broken("rescan")
                           ELSE IF odd = "none" THEN hole ELSE Broken(odd)
        /\ UNCHANGED <<kind, bytes, parts, list, port, handle, want, wrong>>

(* The end of an access: r is what was read (<<>> for a write), or the     *)
(* access failed and a write may have happened or not.                     *)
(* A rescan registers the partitions of the table it has read.             *)
AskedBytes(o) == o.asked .. o.asked + o.size - 1
Return(p, good, got) ==
    LET o == proc[p]
        new == Registered(got[0])
        old == IF Len(new) < Len(parts) THEN SubSeq(parts, Len(new) + 1, Len(parts)) ELSE <<>> IN
    /\ proc' = [proc EXCEPT ![p] = Idle]
    /\ IF o.for = "rescan" /\ good
       THEN /\ parts' = new \o old
            /\ list' = Reverse([i \in 1 .. Len(new) |-> i]) \o list
       ELSE UNCHANGED <<parts, list>>
    /\ want' = IF o.dir = "read" THEN want
               ELSE [b \in Bytes |-> IF b \in AskedBytes(o)
                                     THEN IF good THEN {o.val} ELSE want[b] \cup {o.val}
                                     ELSE want[b]]
    /\ wrong' = (wrong \/ (good /\ o.dir = "read" /\
                           \E b \in AskedBytes(o) \cap Bytes : got[b - o.asked] \notin want[b]))

(***************************************************************************)
(* ahci.c                                                                  *)
(***************************************************************************)
(* The slot found, the data copied to the bounce buffer, the command       *)
(* issued.                                                                 *)
Issue(p) ==
    LET o == proc[p]
        slot == CHOOSE s \in FreeSlots : \A t \in FreeSlots : s <= t
        cmd == [dir |-> o.dir, lba |-> o.lba, count |-> o.count] IN
    /\ kind = "ahci" /\ o.at = "setup"
    /\ IF FreeSlots = {}
       THEN Return(p, FALSE, <<>>) /\ UNCHANGED port
       ELSE /\ port' = [port EXCEPT !.ci = [s \in DOMAIN @ \cup {slot} |-> IF s = slot THEN cmd ELSE @[s]],
                                    !.bounce = [i \in DOMAIN @ |->
                                       IF o.dir = "write" /\ i < o.size THEN o.val ELSE @[i]]]
            /\ proc' = [proc EXCEPT ![p].at = "wait", ![p].slot = slot]
            /\ UNCHANGED <<parts, list, want, wrong>>
    /\ UNCHANGED <<kind, bytes, handle, ops, hole>>

Cleared(s) == [t \in DOMAIN port.ci \ {s} |-> port.ci[t]]

(* The drive: a command is done, by DMA on the one bounce buffer ... *)
Complete(s) ==
    LET c == port.ci[s]
        at == c.lba * SectorSize
        inside == {i \in DOMAIN port.bounce : i < c.count * SectorSize /\ at + i \in Bytes} IN
    /\ s \in DOMAIN port.ci /\ ~ port.err
    /\ port' = [port EXCEPT !.ci = Cleared(s),
                            !.bounce = IF c.dir # "read" THEN @
                                       ELSE [i \in DOMAIN @ |-> IF i \in inside THEN bytes[at + i] ELSE @[i]]]
    /\ bytes' = IF c.dir # "write" THEN bytes
                ELSE [b \in Bytes |-> IF b - at \in inside THEN port.bounce[b - at] ELSE bytes[b]]
    /\ UNCHANGED <<kind, parts, list, proc, handle, ops, want, wrong, hole>>
(* ... or the port reports an error and stops. *)
Fault(s) ==
    /\ s \in DOMAIN port.ci /\ ~ port.err /\ port' = [port EXCEPT !.err = TRUE]
    /\ UNCHANGED <<kind, bytes, parts, list, proc, handle, ops, want, wrong, hole>>

Waited(p) == proc[p].at = "wait" /\ proc[p].slot \notin DOMAIN port.ci

(* The command is done.  A write goes on with a flush. *)
ReadDone(p) ==
    /\ Waited(p) /\ proc[p].dir = "read" /\ Return(p, TRUE, port.bounce)
    /\ UNCHANGED <<kind, bytes, port, handle, ops, hole>>
WriteDone(p) ==
    /\ Waited(p) /\ proc[p].dir = "write" /\ proc' = [proc EXCEPT ![p].at = "flush"]
    /\ UNCHANGED <<kind, bytes, parts, list, port, handle, ops, want, wrong, hole>>
(* The write has succeeded whatever becomes of the flush; one that is not  *)
(* done in time stays in its slot.                                         *)
Flush(p) ==
    /\ proc[p].at = "flush" /\ Return(p, TRUE, <<>>)
    /\ \/ UNCHANGED port
       \/ \E s \in FreeSlots :
            /\ \A t \in FreeSlots : s <= t
            /\ port' = [port EXCEPT !.ci = [t \in DOMAIN @ \cup {s} |->
                          IF t = s THEN [dir |-> "flush", lba |-> 0, count |-> 0] ELSE @[t]]]
    /\ UNCHANGED <<kind, bytes, handle, ops, hole>>

(* The wait is over without an answer, or with one at the very last try,   *)
(* which counts as none; or the error bit is seen.  The command stays      *)
(* where it is.                                                            *)
WaitFails(p) ==
    /\ proc[p].at = "wait" /\ Return(p, FALSE, <<>>)
    /\ UNCHANGED <<kind, bytes, port, handle, ops, hole>>

(***************************************************************************)
(* ata.c: programmed transfers, a sector at a time.                        *)
(***************************************************************************)
(* A sector, which the drive may fail to store.  The driver looks for the  *)
(* error before the next sector, and after the last one it does not look.  *)
SectorDone(p, stored) ==
    LET o == proc[p]
        at == (o.lba + o.done) * SectorSize
        got == [i \in 0 .. (o.done + 1) * SectorSize - 1 |->
                  IF i < o.done * SectorSize THEN o.got[i]
                  ELSE IF at + i - o.done * SectorSize \in Bytes THEN bytes[at + i - o.done * SectorSize] ELSE 0] IN
    /\ kind = "ata" /\ o.at = "setup" /\ o.done < o.count /\ ~ o.err
    /\ stored \/ o.dir = "write"
    /\ proc' = [proc EXCEPT ![p].done = @ + 1, ![p].got = IF o.dir = "read" THEN got ELSE @,
                            ![p].err = ~ stored]
    /\ bytes' = IF o.dir = "read" \/ ~ stored THEN bytes
                ELSE [b \in Bytes |-> IF b \in at .. at + SectorSize - 1 THEN o.val ELSE bytes[b]]
    /\ hole' = IF ~ stored /\ o.done + 1 = o.count THEN Broken("unseen") ELSE hole
    /\ UNCHANGED <<kind, parts, list, port, handle, ops, want, wrong>>
TransferDone(p) ==
    /\ kind = "ata" /\ proc[p].at = "setup" /\ proc[p].done = proc[p].count
    /\ Return(p, TRUE, proc[p].got)
    /\ UNCHANGED <<kind, bytes, port, handle, ops, hole>>
(* The drive has an error, or ata_wait_bsy or ata_wait_drq give up, after  *)
(* a written sector's flush too; a command that was given up in the middle *)
(* is still the drive's.                                                   *)
TransferFails(p, gaveUp) ==
    LET o == proc[p] IN
    /\ kind = "ata" /\ o.at = "setup" /\ (o.done < o.count \/ o.dir = "write")
    /\ gaveUp => o.done < o.count /\ ~ o.err
    /\ Return(p, FALSE, <<>>)
    /\ port' = [port EXCEPT !.old = @ \/ gaveUp]
    /\ UNCHANGED <<kind, bytes, handle, ops, hole>>

(***************************************************************************)
(* Partition tables.                                                       *)
(***************************************************************************)
(* An access to sector 0, with the cases that the drivers get wrong. *)
AccessTable(p, op) ==
    LET odd == Odd(p, Whole, op.dir, 0, SectorSize) IN
    /\ proc[p].at = "user" /\ ops < MaxOps /\ ops' = ops + 1
    /\ proc' = [proc EXCEPT ![p] = op]
    /\ hole' = IF odd = "none" THEN hole ELSE Broken(odd)

(* write_mbr of the partitioning program. *)
WriteTable(p) ==
    /\ \E t \in Tables : AccessTable(p, [Op EXCEPT !.dir = "write", !.val = t])
    /\ UNCHANGED <<kind, bytes, parts, list, port, handle, want, wrong>>

(* ahci_rescan_partitions, ata_rescan_partitions: the devices are taken    *)
(* off the list and cleared where they are; the table is read, and they    *)
(* are registered again, unless that fails (Return).                       *)
Unregistered(l) == SelectSeq(l, LAMBDA i : i = 0)
Rescan(p) ==
    /\ AccessTable(p, [Op EXCEPT !.for = "rescan"])
    /\ parts' = [i \in DOMAIN parts |-> Gone]
    /\ list' = Unregistered(list)
    /\ UNCHANGED <<kind, bytes, port, handle, want, wrong>>

Rest == ops = MaxOps /\ (\A p \in Procs : proc[p].at = "user") /\ UNCHANGED vars

Next ==
    \/ \E p \in Procs :
        \/ OpenPart(p) \/ Access(p, "read") \/ Access(p, "write")
        \/ Issue(p) \/ ReadDone(p) \/ WriteDone(p) \/ Flush(p) \/ WaitFails(p)
        \/ TransferDone(p) \/ WriteTable(p) \/ Rescan(p)
    \/ \E p \in Procs, b \in BOOLEAN : SectorDone(p, b) \/ TransferFails(p, b)
    \/ \E s \in 1 .. Slots : Complete(s) \/ Fault(s)
    \/ Rest

Spec == Init /\ [][Next]_vars

(***************************************************************************)
(* Properties, as long as no hole of the drivers was met.                  *)
(***************************************************************************)

(* A read that succeeds returns what was last written to the bytes asked   *)
(* for (one of the candidates after a write that failed), and when nothing *)
(* is under way the drive holds it: after errors and failed waits, for     *)
(* every way to a byte, the whole device or a partition, and for the       *)
(* partition table (ahci.c, ata.c).  The holes are where it ends: the last *)
(* sector's error that ata.c does not look for ("unseen") and the access   *)
(* after a command that was given up ("late") among them.                  *)
TransfersAreRight ==
    hole = "none" =>
        /\ ~ wrong
        /\ DOMAIN port.ci = {} /\ (\A p \in Procs : proc[p].at = "user") =>
             \A b \in Bytes : bytes[b] \in want[b]

(* What goes to the drive through a handle stays inside the partition that *)
(* was opened, rescans of an unchanged table included (ahci_part_write,    *)
(* ata_part_write, ahci_rescan_partitions, ata_rescan_partitions).         *)
HandlesKeepToTheirPartition ==
    hole = "none" =>
        \A p \in Procs : proc[p].at \in {"setup", "wait", "flush"} =>
            /\ proc[p].lba * SectorSize = proc[p].asked
            /\ (proc[p].lba + proc[p].count) * SectorSize <= proc[p].limit

(* The device list names every partition device that is set up, once, and  *)
(* no other: no cleared device can be found by name, and none is lost      *)
(* (device_register, device_unregister).                                   *)
ListIsSound ==
    /\ IsInjective(list)
    /\ Range(list) = {0} \cup {i \in DOMAIN parts : parts[i] # Gone}

(* A partition device keeps its place: through handles, in the list and    *)
(* across rescans.                                                         *)
PartitionsAreKept == HandlesKeepToTheirPartition /\ ListIsSound

UpToFirstHole == hole = "none"
=============================================================================
