------------------------------- MODULE Loader -------------------------------
(***************************************************************************)
(* The dynamic loader dynlink.c with the calls that drive it: elf_execve   *)
(* of a program with PT_DYNAMIC, sys_dlopen, and the constructors and      *)
(* destructors libc takes from sys_dl_get_init and sys_dl_get_fini.        *)
(* sys_dlsym and sys_dlclose change nothing and are left out.              *)
(*                                                                         *)
(* One process is followed through exec, and through fork on the child's   *)
(* side.  A word that relocation writes is the sequence of what was added  *)
(* up in it: an object's index stands for an address inside that object,   *)
(* so a relocation done twice, or against another object, shows.  Where    *)
(* the pages of an object come from is in Memory.tla; here a load may fail *)
(* for want of them.  Files may change between two loads; a file that      *)
(* changes while it is read is the hole "torn", the others are "copied",   *)
(* "aliased", "retried", "stale" and "forked", each named where it is met. *)
(***************************************************************************)
EXTENDS Naturals, Sequences, FiniteSets, SequencesExt, FiniteSetsExt

CONSTANTS
    Libs, Progs, \* shared objects; programs
    Object,      \* what the image of each holds: see ObjectOK
    Dirs, Names, \* directories and file names
    LibDir,      \* "/lib"
    LdPath,      \* LD_LIBRARY_PATH, where the environment has it
    Bare,        \* the directory of a name without a slash
    NoFile,      \* no file, or one that is not an ET_DYN for the 386
    Disks,       \* what the file system may hold
    Asked,       \* what programs ask dlopen for
    MaxObjs,     \* DYNLINK_MAX_OBJS
    MaxOps       \* bound: calls and changes of the file system

ObjectOK(o) ==
    /\ o.needs \in Seq([dir : Dirs \cup {Bare}, name : Names])   \* DT_NEEDED
    /\ \A k \in DOMAIN o.rels :   \* DT_REL, then DT_JMPREL
         o.rels[k].type \in {"RELATIVE", "COPY", "SLOT", "ABS"}
    /\ o.array \in Nat /\ o.func \in BOOLEAN   \* DT_INIT_ARRAY, DT_INIT (and FINI)
    /\ o.runpath \in Seq(Dirs) /\ o.soname \in Names

ASSUME LoaderAssumption ==
    /\ \A x \in Libs \cup Progs : ObjectOK(Object[x])
    /\ MaxObjs \in Nat \ {0} /\ MaxOps \in Nat
    /\ Bare \notin Dirs /\ LibDir \in Dirs /\ LdPath \in Seq(Dirs)

VARIABLES
    disk,    \* [Dirs \X Names -> Libs \cup {NoFile}]
    image,   \* the address space the process runs in
    ctx,     \* process_t.dlctx
    job,     \* the exec or dlopen under way
    handles, \* what dlopen returned to the program: [h, lib]
    failed,  \* the objects of ctx that a dlopen which returned -1 left there
    ctors, dtors, \* what __libc_run_ctors and __libc_run_dtors called
    ops, hole
vars == <<disk, image, ctx, job, handles, failed, ctors, dtors, ops, hole>>

NoCtx == [dir |-> 0, objs |-> <<>>, ld |-> <<>>]
NoJob == [kind |-> "none"]
NotRun == <<"not run">>

(* dlctx.dir is the address space exec destroyed. *)
Stale == ctx.dir \notin {0, image}

(* The first program was started by elf_load_into_process, which links     *)
(* nothing.                                                                *)
Init ==
    /\ disk \in Disks /\ image = 1 /\ ctx = NoCtx /\ job = NoJob
    /\ handles = {} /\ failed = {} /\ ctors = NotRun /\ dtors = NotRun
    /\ ops = 0 /\ hole = {}

Counted == ops < MaxOps /\ ops' = ops + 1
Running == job = NoJob /\ dtors = NotRun
Calling == Running /\ ctors # NotRun /\ Counted   \* a call main makes

(***************************************************************************)
(* Objects                                                                 *)
(***************************************************************************)
Mapped(x, name) ==
    [lib |-> x, name |-> name, word |-> [k \in DOMAIN Object[x].rels |-> <<>>]]

(* dynlink_attach_from_memory: the program, mapped already. *)
Attached(p) == <<Mapped(p, "(main)")>>

(* dynlink_load_shared fails before it maps anything: no slot, no file, or *)
(* not a shared object.                                                    *)
Loadable(objs, path) == Len(objs) < MaxObjs /\ disk[path.dir, path.name] # NoFile

(* dynlink_load_shared, to its end: the next slot, with the base name. *)
LoadShared(objs, path) == Append(objs, Mapped(disk[path.dir, path.name], path.name))

(* map_segment_into_dir reads page by page and does not look whether a     *)
(* read succeeds, and the headers are read three times: when the file      *)
(* changes meanwhile, or a read fails, the object is a mixture.  It is not *)
(* followed.                                                               *)
LoadTorn(objs, paths) ==
    /\ \E k \in DOMAIN paths : Loadable(objs, paths[k])
    /\ hole' = hole \cup {"torn"} /\ job' = NoJob

(* dynlink_find_loaded and already_loaded: by base name, or by SONAME when *)
(* the name has no directory.                                              *)
Matches(o, req) ==
    \/ o.name = req.name
    \/ req.dir = Bare /\ o.lib \in Libs /\ Object[o.lib].soname = req.name
FindLoaded(objs, req) == {i \in DOMAIN objs : Matches(objs[i], req)}

(* try_dirlist and the fallback: where a name is looked for.  plist is the *)
(* object's own DT_RUNPATH or DT_RPATH.                                    *)
Search(ld, plist, req) ==
    IF req.dir # Bare THEN <<req>>
    ELSE LET dirs == ld \o plist \o <<LibDir>> IN
         [k \in DOMAIN dirs |-> [dir |-> dirs[k], name |-> req.name]]

(* The candidates that may be the one that loads: the first that can be    *)
(* loaded, or, when page frames run out in the earlier ones, a later one.  *)
Candidates(objs, paths) == {k \in DOMAIN paths : Loadable(objs, paths[k])}

(***************************************************************************)
(* Relocation                                                              *)
(***************************************************************************)
(* resolve_symbol_across, dyn_lookup_in_obj: the first object in load      *)
(* order that defines the name; 0 when none does.                          *)
Definers(objs, s) == {i \in DOMAIN objs : s \in Object[objs[i].lib].defs}
Resolve(objs, s) == IF Definers(objs, s) = {} THEN 0 ELSE Min(Definers(objs, s))

(* apply_rel_table, one entry: what is in the word afterwards.  A copy     *)
(* from the object's own symbol onto itself changes nothing.               *)
Value(objs, i, r, addend) ==
    LET s == Resolve(objs, r.sym) IN
    CASE r.type = "RELATIVE" -> Append(addend, i)
      [] r.type = "SLOT" -> <<s>>
      [] r.type = "ABS" -> Append(addend, s)
      [] r.type = "COPY" -> IF s = i THEN addend ELSE <<s>>

(* apply_rel_table: up to the first entry whose symbol nobody defines. *)
ApplyRelTable(objs, i) ==
    LET rels == Object[objs[i].lib].rels
        bad == {k \in DOMAIN rels : rels[k].type # "RELATIVE" /\ Resolve(objs, rels[k].sym) = 0}
        done == {k \in DOMAIN rels : \A b \in bad : k < b} IN
    [ok |-> bad = {},
     objs |-> [objs EXCEPT ![i].word = [k \in DOMAIN rels |->
                  IF k \in done THEN Value(objs, i, rels[k], @[k]) ELSE @[k]]]]

(* R_386_COPY of a symbol that the object defines itself, as a program     *)
(* does with the room it has for the copy: it is copied onto itself.       *)
CopiesItself(objs, i) ==
    \E r \in Range(Object[objs[i].lib].rels) : r.type = "COPY" /\ Resolve(objs, r.sym) = i
Copied(objs, start) ==
    IF \E i \in start .. Len(objs) : CopiesItself(objs, i) THEN hole \cup {"copied"} ELSE hole

(* The objects in the order given, up to the first that fails. *)
ApplyInOrder(objs, order) ==
    FoldLeft(LAMBDA r, i : IF r.ok THEN ApplyRelTable(r.objs, i) ELSE r,
             [ok |-> TRUE, objs |-> objs], order)

(* dynlink_apply_relocations: the libraries first, then the program. *)
ApplyRelocations(objs) ==
    ApplyInOrder(objs, [k \in DOMAIN objs |-> IF k = Len(objs) THEN 1 ELSE k + 1])

ApplyRelocationsFrom(objs, start) ==
    ApplyInOrder(objs, [k \in 1 .. Len(objs) + 1 - start |-> start + k - 1])

(***************************************************************************)
(* Calls                                                                   *)
(***************************************************************************)
(* elf_execve of a program with PT_DYNAMIC: a context of its own, the      *)
(* program attached as its first object.                                   *)
ExecDynamic(p, ld) ==
    /\ Calling /\ p \in Progs
    /\ job' = [kind |-> "exec", dir |-> image + 1, objs |-> Attached(p),
               ld |-> ld, start |-> 1, stack |-> <<[obj |-> 1, next |-> 1]>>]
    /\ UNCHANGED <<disk, image, ctx, handles, failed, ctors, dtors, hole>>

(* elf_execve of a program without PT_DYNAMIC: dlctx is left as it was. *)
ExecStatic ==
    /\ Calling
    /\ image' = image + 1 /\ handles' = {} /\ ctors' = NotRun
    /\ hole' = IF ctx.dir # 0 THEN hole \cup {"stale"} ELSE hole
    /\ UNCHANGED <<disk, ctx, job, failed, dtors>>

(* process_create clears the child's dlctx and fork does not fill it in:   *)
(* the child has the libraries mapped and knows of none.                   *)
Fork ==
    /\ Calling /\ ctx.dir # 0
    /\ image' = image + 1 /\ ctx' = NoCtx /\ failed' = {}
    /\ hole' = hole \cup {"forked"}
    /\ UNCHANGED <<disk, job, handles, ctors, dtors>>

(* sys_dlopen: a process without objects gets a context. *)
Begun == IF ctx.dir = 0 THEN [NoCtx EXCEPT !.dir = image] ELSE ctx

(* sys_dlopen without a name: the handle of the program itself. *)
OpenMain ==
    /\ Calling /\ ctx' = Begun
    /\ UNCHANGED <<disk, image, job, handles, failed, ctors, dtors, hole>>

(* sys_dlopen of a name that is loaded: whatever became of its             *)
(* relocations.                                                            *)
Open(req) ==
    /\ Calling /\ ctx' = Begun
    /\ LET there == FindLoaded(ctx.objs, req) IN
       /\ there # {}
       /\ handles' = handles \cup {[h |-> Min(there), lib |-> ctx.objs[Min(there)].lib]}
       /\ hole' = IF Min(there) \in failed THEN hole \cup {"retried"} ELSE hole
    /\ UNCHANGED <<disk, image, job, failed, ctors, dtors>>

(* sys_dlopen of another name: the first part, up to the object itself.    *)
(* On a stale context it writes to page tables that were freed, and is     *)
(* left out.                                                               *)
OpenNew(req) ==
    /\ Calling /\ ~ Stale
    /\ FindLoaded(ctx.objs, req) = {} /\ ctx' = Begun
    /\ LET paths == Search(ctx.ld, <<>>, req)
           aliased == IF \E o \in Range(ctx.objs) : Matches(o, [req EXCEPT !.dir = Bare])
                      THEN hole \cup {"aliased"} ELSE hole IN
       \/ /\ \E k \in Candidates(ctx.objs, paths) :
               job' = [kind |-> "dlopen", dir |-> image, ld |-> ctx.ld,
                       objs |-> LoadShared(ctx.objs, paths[k]), start |-> Len(ctx.objs) + 1,
                       stack |-> <<[obj |-> Len(ctx.objs) + 1, next |-> 1]>>]
          /\ hole' = aliased
       \/ UNCHANGED <<job, hole>>   \* -1
       \/ LoadTorn(ctx.objs, paths)
    /\ UNCHANGED <<disk, image, handles, failed, ctors, dtors>>

(* dynlink_load_needed: the innermost call looks at its next DT_NEEDED     *)
(* entry, and goes into the object it loads.  A name that cannot be loaded *)
(* is passed over.                                                         *)
Frame == Last(job.stack)
Onward == ReplaceAt(job.stack, Len(job.stack), [Frame EXCEPT !.next = @ + 1])
Root == Object[job.objs[Frame.obj].lib]
LoadNeeded ==
    /\ job # NoJob /\ job.stack # <<>>
    /\ \/ /\ Frame.next > Len(Root.needs)
          /\ job' = [job EXCEPT !.stack = Front(@)] /\ UNCHANGED hole
       \/ /\ Frame.next <= Len(Root.needs)
          /\ FindLoaded(job.objs, Root.needs[Frame.next]) # {}
          /\ job' = [job EXCEPT !.stack = Onward] /\ UNCHANGED hole
       \/ /\ Frame.next <= Len(Root.needs)
          /\ FindLoaded(job.objs, Root.needs[Frame.next]) = {}
          /\ LET paths == Search(job.ld, Root.runpath, Root.needs[Frame.next]) IN
             \/ /\ \E k \in Candidates(job.objs, paths) :
                     job' = [job EXCEPT !.objs = LoadShared(@, paths[k]),
                                        !.stack = Append(Onward, [obj |-> Len(job.objs) + 1, next |-> 1])]
                /\ UNCHANGED hole
             \/ job' = [job EXCEPT !.stack = Onward] /\ UNCHANGED hole
             \/ LoadTorn(job.objs, paths)
    /\ UNCHANGED <<disk, image, ctx, handles, failed, ctors, dtors, ops>>

(* elf_execve once everything is loaded: relocate; dlctx and the address   *)
(* space change only when that succeeds.                                   *)
ExecLinked ==
    /\ job.kind = "exec" /\ job.stack = <<>>
    /\ LET r == ApplyRelocations(job.objs) IN
       IF r.ok THEN /\ ctx' = [dir |-> job.dir, objs |-> r.objs, ld |-> job.ld]
                    /\ image' = job.dir /\ handles' = {} /\ failed' = {} /\ ctors' = NotRun
                    /\ hole' = Copied(job.objs, 1)
               ELSE UNCHANGED <<ctx, image, handles, failed, ctors, hole>>
    /\ job' = NoJob
    /\ UNCHANGED <<disk, dtors, ops>>

(* The rest of sys_dlopen: the new objects stay, whether they could be     *)
(* relocated or not.                                                       *)
OpenLinked ==
    /\ job.kind = "dlopen" /\ job.stack = <<>>
    /\ LET r == ApplyRelocationsFrom(job.objs, job.start) IN
       /\ ctx' = [dir |-> job.dir, objs |-> r.objs, ld |-> job.ld]
       /\ IF r.ok THEN /\ handles' = handles \cup {[h |-> job.start, lib |-> r.objs[job.start].lib]}
                       /\ UNCHANGED failed
                  ELSE /\ failed' = failed \cup (job.start .. Len(r.objs))
                       /\ UNCHANGED handles
       /\ hole' = Copied(job.objs, job.start)
    /\ job' = NoJob
    /\ UNCHANGED <<disk, image, ctors, dtors, ops>>

(***************************************************************************)
(* Constructors and destructors                                            *)
(***************************************************************************)
(* What sys_dl_get_init answers for 0, 1, ...: for each object the entries *)
(* of its array, then its function (0).                                    *)
Inits(objs) == FlattenSeq([i \in DOMAIN objs |->
    LET o == Object[objs[i].lib] IN
    [k \in 1 .. o.array |-> <<objs[i].lib, k>>] \o (IF o.func THEN <<<<objs[i].lib, 0>>>> ELSE <<>>)])

(* What sys_dl_get_fini answers: the last object first, its function, then *)
(* its array backwards.                                                    *)
FinisForward(objs) == Inits(Reverse(objs))   \* mutant: arrays forward, function last
Finis(objs) == FlattenSeq([j \in DOMAIN objs |->
    LET i == Len(objs) + 1 - j
        o == Object[objs[i].lib] IN
    (IF o.func THEN <<<<objs[i].lib, 0>>>> ELSE <<>>) \o
        [k \in 1 .. o.array |-> <<objs[i].lib, o.array + 1 - k>>]])

(* crt0: __libc_run_ctors, before main. *)
RunCtors ==
    /\ Running /\ ctors = NotRun
    /\ ctors' = Inits(ctx.objs)
    /\ UNCHANGED <<disk, image, ctx, job, handles, failed, dtors, ops, hole>>

(* exit: __libc_run_dtors, once. *)
RunDtors ==
    /\ Running /\ ctors # NotRun
    /\ dtors' = Finis(ctx.objs)
    /\ UNCHANGED <<disk, image, ctx, job, handles, failed, ctors, ops, hole>>

(* Another process installs or removes a library. *)
Install ==
    /\ Counted /\ disk' \in Disks \ {disk}
    /\ UNCHANGED <<image, ctx, job, handles, failed, ctors, dtors, hole>>

Next ==
    \/ \E p \in Progs, ld \in {<<>>, LdPath} : ExecDynamic(p, ld)
    \/ ExecStatic \/ Fork \/ OpenMain
    \/ \E req \in Asked : Open(req) \/ OpenNew(req)
    \/ LoadNeeded \/ ExecLinked \/ OpenLinked
    \/ RunCtors \/ RunDtors \/ Install

Spec == Init /\ [][Next]_vars

(***************************************************************************)
(* Properties                                                              *)
(***************************************************************************)
(* The words of an object hold what they should: the address of the first  *)
(* definition in load order, or the object's own, added once; for a copy,  *)
(* the data of another object's definition.                                *)
RightWord(i, k) ==
    LET r == Object[ctx.objs[i].lib].rels[k] IN
    CASE r.type = "RELATIVE" -> ctx.objs[i].word[k] = <<i>>
      [] r.type = "COPY" -> \E j \in Definers(ctx.objs, r.sym) \ {i} : ctx.objs[i].word[k] = <<j>>
      [] OTHER -> ctx.objs[i].word[k] = <<Resolve(ctx.objs, r.sym)>>

(* Whatever is executed and opened, in whatever order, and however loads   *)
(* fail in between: every object of the process, but those a failed dlopen *)
(* left behind, has been relocated exactly once, against the first         *)
(* definition in load order; and a handle dlopen returned names the        *)
(* library it stood for, relocated, unless dlopen was tried again after a  *)
(* failure or the process is a forked child.  A program's own copy of      *)
(* library data is not made (dynlink.c:592): the hole "copied".            *)
BoundOnce ==
    /\ \A i \in DOMAIN ctx.objs \ failed :
         LET rels == Object[ctx.objs[i].lib].rels IN
         \A k \in DOMAIN rels : (rels[k].type = "COPY" /\ "copied" \in hole) \/ RightWord(i, k)
    /\ "forked" \notin hole => \A x \in handles :
         /\ x.h \in DOMAIN ctx.objs /\ ctx.objs[x.h].lib = x.lib
         /\ "retried" \notin hole => x.h \notin failed

(* A library that is asked for by the file name it was loaded from, or by  *)
(* its SONAME without a directory, is not loaded again, also when two      *)
(* objects need each other: a second copy has another file name than the   *)
(* first, and not the SONAME ("aliased": a path that ends in the SONAME    *)
(* is not compared with it).  already_loaded and dynlink_find_loaded let   *)
(* through what is left: the library under a file name of its own after it *)
(* was loaded under another one, its SONAME for example.                   *)
LoadedOncePerName ==
    "aliased" \notin hole => \A i, j \in DOMAIN ctx.objs :
        i < j /\ ctx.objs[i].lib = ctx.objs[j].lib =>
            /\ ctx.objs[i].name # ctx.objs[j].name
            /\ ctx.objs[j].name # Object[ctx.objs[j].lib].soname


(* What exit tears down is what start-up built, in the opposite order,     *)
(* when the program has not opened further libraries (their constructors   *)
(* are never run, their destructors are), was not forked, and was not      *)
(* executed over a linked one (whose dlctx it then has).                   *)
TornDownAsBuilt ==
    dtors # NotRun /\ handles = {} /\ failed = {} /\ hole \subseteq {"copied"} => dtors = Reverse(ctors)

(* An object that was read while its file changed is not followed. *)
Followed == "torn" \notin hole
=============================================================================
