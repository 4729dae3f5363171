---------------------------- MODULE WindowServer ----------------------------
(***************************************************************************)
(* FrostyWM and its client library: the server's loop of select, accept,   *)
(* one message per ready client, mouse and composite (frostywm.c), the     *)
(* calls of libfwm.c, the window buffers in shared memory, and the screen. *)
(*                                                                         *)
(* The screen has one dimension: rectangles are intervals, and the server  *)
(* treats both axes alike.  A pixel is the background, the cursor, or a    *)
(* window with the drawing it shows.  Messages are whole: a client's calls *)
(* send one each.  A client that ends closes its socket, which makes the   *)
(* kernel forget what the server has not read.  Applications run           *)
(* concurrently with every step of the server's loop.  `torn` and `holes`  *)
(* record the cases that the server, the library or the kernel under them  *)
(* does not handle, told the drawing that was last committed.              *)
(*                                                                         *)
(* A detachment or an exit frees the frames of a buffer that others still  *)
(* use (Memory.tla): from then on its picture is anything.  So is that of  *)
(* a window narrower than its buffer, whose rows the server reads with the *)
(* wrong length.                                                           *)
(***************************************************************************)
EXTENDS Integers, Sequences, FiniteSets, SequencesExt

CONSTANTS
    Width, CursorWidth, \* of the screen and of the cursor, in pixels
    MaxClients,         \* slots of the server's client table (MAX_CLIENTS)
    MaxWindows,         \* entries of the server's window table (MAX_WINDOWS)
    MaxSegs,            \* segments the kernel has
    Places, Widths,     \* where windows are put and how wide they are made
    Resizes,            \* widths asked for later
    Spots,              \* where the mouse goes
    MaxApps, MaxCalls, MaxMoves, \* bounds: applications, starts and calls, motions
    MaxPending          \* bound: messages of an application on their way

ASSUME WindowAssumption ==
    /\ Width \in Nat \ {0} /\ CursorWidth \in 1 .. Width
    /\ Places \subseteq Int /\ Spots \subseteq 0 .. Width - 1 /\ Widths \cup Resizes \subseteq Nat
    /\ {MaxClients, MaxWindows, MaxSegs, MaxApps, MaxCalls, MaxMoves, MaxPending} \subseteq Nat

VARIABLES
    apps,   \* applications in the order they were started
    srv,    \* the server
    segs,   \* shared memory by key: slot, size, drawing, attachments
    calls, moves, \* spent bounds
    told, torn, holes
vars == <<apps, srv, segs, calls, moves, told, torn, holes>>

Background == <<0, 0>>
Cursor == <<0, 1>>
Black == <<0, 2>>
Anything == 2          \* what a buffer shows that is no longer whole
Pixels == 0 .. Width - 1
Least(a, b) == IF a < b THEN a ELSE b
Most(a, b) == IF a > b THEN a ELSE b
Broken(why) == holes \cup {why}
NoRect == [valid |-> FALSE, x1 |-> 0, x2 |-> 0]

(* mark_dirty_region: the marked interval, clipped, joins the dirty one. *)
Mark(r, x, w) ==
    LET a == Most(x, 0)
        b == Least(x + w, Width) IN
    CASE w = 0 \/ a >= b -> r
      [] ~ r.valid -> [valid |-> TRUE, x1 |-> a, x2 |-> b]
      [] OTHER -> [valid |-> TRUE, x1 |-> Least(r.x1, a), x2 |-> Most(r.x2, b)]
MarkWindow(r, win) == Mark(r, win.x, win.w)

(* get_cursor_visible_rect *)
CursorArea(m) == m .. Least(m + CursorWidth, Width) - 1

(***************************************************************************)
(* Shared memory.  shmdt takes the first valid segment, whatever the       *)
(* address: the one it should take, or the count of another goes down.     *)
(***************************************************************************)
Segment(slot, size, old) ==
    [slot |-> slot, size |-> size, content |-> 0, att |-> 1, freed |-> FALSE, old |-> old]
FreeSlots(t) == (1 .. MaxSegs) \ {t[k].slot : k \in DOMAIN t}
Detach(d, key) ==
    LET f == CHOOSE k \in DOMAIN d.t : \A j \in DOMAIN d.t : d.t[k].slot <= d.t[j].slot IN
    [t |-> [k \in DOMAIN d.t |-> [d.t[k] EXCEPT !.att = IF k = f THEN @ - 1 ELSE @, !.freed = @ \/ k = key]],
     wrong |-> d.wrong \/ f # key]
DetachAll(t, wins) == FoldLeft(LAMBDA d, win : Detach(d, win.key), [t |-> t, wrong |-> FALSE], wins)
Whole(t, win) == ~ t[win.key].freed /\ win.w = t[win.key].size

(* init_framebuffer, init_mouse, create_listen_socket.  A server that ran  *)
(* before may have left a segment with the first key.                      *)
Init ==
    /\ apps = <<>> /\ calls = 0 /\ moves = 0
    /\ segs \in {<<>>, [k \in {1} |-> Segment(1, 1, TRUE)]}
    /\ told = <<>> /\ torn = FALSE /\ holes = {}
    /\ srv = [at |-> "select", ready |-> {}, slots |-> <<>>, windows |-> <<>>,
              nextId |-> 1, nextKey |-> 1,
              rect |-> Mark(Mark(NoRect, 0, Width), Width \div 2, CursorWidth),
              first |-> TRUE, mouse |-> Width \div 2,
              backup |-> [valid |-> FALSE, x |-> 0, pix |-> <<>>],
              back |-> [x \in Pixels |-> Black], fb |-> [x \in Pixels |-> Black]]

(***************************************************************************)
(* The library.  A call sends one message; connect, create and poll wait   *)
(* for the reply.                                                          *)
(***************************************************************************)
App == [at |-> "queued", wins |-> <<>>, in |-> <<>>, out |-> <<>>, want |-> "connect"]
Message(op, id, x, w) == [op |-> op, id |-> id, x |-> x, w |-> w]
Known(a) == {apps[a].wins[i].id : i \in DOMAIN apps[a].wins}

(* The bound: calls are made up to the first hole. *)
MayCall == holes = {} /\ calls < MaxCalls /\ calls' = calls + 1

(* fwm_connect: the socket is queued at the listener. *)
Launch ==
    /\ MayCall /\ Len(apps) < MaxApps /\ apps' = Append(apps, App)
    /\ UNCHANGED <<srv, segs, moves, told, torn, holes>>

(* ... and when it is accepted, the connect message is sent. *)
Connected(a) ==
    /\ apps[a].at = "accepted"
    /\ apps' = [apps EXCEPT ![a].at = "wait", ![a].in = Append(@, Message("connect", 0, 0, 0))]
    /\ UNCHANGED <<srv, segs, calls, moves, told, torn, holes>>

Call(a) == apps[a].at = "user" /\ Len(apps[a].in) < MaxPending /\ MayCall
Send(a, m) ==
    /\ Call(a) /\ apps' = [apps EXCEPT ![a].in = Append(@, m)]
    /\ UNCHANGED <<srv, segs, moves, told, torn, holes>>
Ask(a, m) ==
    /\ Call(a) /\ apps' = [apps EXCEPT ![a].in = Append(@, m), ![a].at = "wait", ![a].want = m.op]
    /\ UNCHANGED <<srv, segs, moves, told, torn, holes>>

CreateWindow(a) == \E x \in Places, w \in Widths : Ask(a, Message("create", 0, x, w))
PollEvent(a) == Ask(a, Message("poll", 0, 0, 0))
ShowWindow(a) == \E id \in 1 .. srv.nextId - 1 : Send(a, Message("show", id, 0, 0))
HideWindow(a) == \E id \in Known(a) : Send(a, Message("hide", id, 0, 0))
MoveWindow(a) == \E id \in Known(a), x \in Places : Send(a, Message("move", id, x, 0))
ResizeWindow(a) == \E id \in Known(a), w \in Resizes : Send(a, Message("resize", id, 0, w))
SetTitle(a) == \E id \in Known(a) : Send(a, Message("title", id, 0, 0))
Damage(a) == \E id \in Known(a), w \in Widths : Send(a, Message("damage", id, 0, w))
Commit(a) == \E id \in Known(a) : Send(a, Message("commit", id, 0, 0))

(* The application draws in the buffer of a window. *)
Draw(a) ==
    /\ holes = {} /\ apps[a].at = "user"
    /\ \E i \in DOMAIN apps[a].wins :
         /\ segs[apps[a].wins[i].key].content = 0
         /\ segs' = [segs EXCEPT ![apps[a].wins[i].key].content = 1]
    /\ UNCHANGED <<apps, srv, calls, moves, told, torn, holes>>

(* fwm_destroy_window detaches the buffer, whatever window the id names. *)
DestroyWindow(a) ==
    /\ Call(a) /\ \E id \in 1 .. srv.nextId - 1 :
         LET d == DetachAll(segs, SelectSeq(apps[a].wins, LAMBDA e : e.id = id)) IN
         /\ apps' = [apps EXCEPT ![a].in = Append(@, Message("destroy", id, 0, 0)),
                                 ![a].wins = SelectSeq(@, LAMBDA e : e.id # id)]
         /\ segs' = d.t
         /\ holes' = IF d.wrong THEN Broken("segment") ELSE holes
    /\ UNCHANGED <<srv, moves, told, torn>>

(* recv_message, and for a new window the attachment of its buffer. *)
Receive(a) ==
    LET r == Head(apps[a].out)
        new == r.op = "created"
        right == r.op = CASE apps[a].want = "connect" -> "connected"
                          [] apps[a].want = "poll" -> "noevent"
                          [] OTHER -> r.op IN
    /\ apps[a].at = "wait" /\ apps[a].out # <<>>
    /\ apps' = [apps EXCEPT ![a].out = Tail(@), ![a].at = IF right THEN "user" ELSE "lost",
                            ![a].wins = IF new THEN Append(@, [id |-> r.id, key |-> r.x]) ELSE @]
    /\ segs' = IF new THEN [segs EXCEPT ![r.x].att = @ + 1] ELSE segs
    /\ UNCHANGED <<srv, calls, moves, told, torn, holes>>

At(a) == IF a \in DOMAIN apps THEN apps[a].at ELSE "none"
MayGoOn(a) == At(a) = "accepted" \/ (At(a) = "wait" /\ apps[a].out # <<>>)

(* The answer came between the check of connect or read and the sleep: the *)
(* application sleeps on (Socket!SleeperHasReason).                        *)
WakeMissed(a) ==
    /\ holes = {} /\ MayGoOn(a)
    /\ apps' = [apps EXCEPT ![a].at = "asleep"] /\ holes' = Broken("missed")
    /\ UNCHANGED <<srv, segs, calls, moves, told, torn>>

(* The header arrives in two pieces: recv_message starts over and takes    *)
(* the second piece for the beginning of a header.                         *)
ReceivePartly(a) ==
    /\ holes = {} /\ apps[a].at = "wait" /\ apps[a].out # <<>>
    /\ apps' = [apps EXCEPT ![a].at = "lost"] /\ holes' = Broken("partly")
    /\ UNCHANGED <<srv, segs, calls, moves, told, torn>>

(* fwm_disconnect: detach every buffer, send, and then close. *)
Disconnect(a) ==
    LET d == DetachAll(segs, apps[a].wins) IN
    /\ Call(a)
    /\ apps' = [apps EXCEPT ![a].at = "closing", ![a].wins = <<>>,
                            ![a].in = Append(@, Message("disconnect", 0, 0, 0))]
    /\ segs' = d.t
    /\ holes' = IF d.wrong THEN Broken("segment") ELSE holes
    /\ UNCHANGED <<srv, moves, told, torn>>

(* The socket is closed, by the library or by the kernel when the          *)
(* application dies: what the server has not read is gone.  A death frees  *)
(* the frames of the buffers and detaches nothing.                         *)
Close(a) ==
    /\ \/ apps[a].at = "closing" /\ calls' = calls
       \/ apps[a].at \in {"user", "wait", "lost"} /\ MayCall
    /\ apps' = [apps EXCEPT ![a].at = "gone", ![a].in = <<>>, ![a].out = <<>>, ![a].wins = <<>>]
    /\ segs' = [k \in DOMAIN segs |->
         [segs[k] EXCEPT !.freed = @ \/ \E i \in DOMAIN apps[a].wins : apps[a].wins[i].key = k]]
    /\ UNCHANGED <<srv, moves, told, torn, holes>>

(***************************************************************************)
(* The server's handlers.  e is the server with what a handler changes     *)
(* besides: segments, committed drawings, the reply, `torn` and `holes`.   *)
(***************************************************************************)
Effect == [s |-> srv, segs |-> segs, told |-> told, torn |-> torn, holes |-> holes, reply |-> <<>>]
FindWindow(s, id) == {i \in DOMAIN s.windows : s.windows[i].id = id}
ReplyOf(op, id, key) == <<[op |-> op, id |-> id, x |-> key]>>

(* handle_create_window: the segment, the window and the reply.  shmget of *)
(* a key that exists returns the old segment, whatever its size ...        *)
WindowCreated(e, client, m) ==
    LET key == e.s.nextKey
        win == [id |-> e.s.nextId, client |-> client, x |-> m.x, w |-> m.w,
                visible |-> FALSE, dirty |-> TRUE, key |-> key] IN
    [e EXCEPT !.s.nextKey = @ + 1, !.s.nextId = @ + 1,
              !.s.windows = Append(@, win), !.s.rect = MarkWindow(@, win),
              !.segs = [k \in DOMAIN @ \cup {key} |->
                          IF k # key THEN @[k]
                          ELSE IF key \in DOMAIN @ THEN [@[key] EXCEPT !.att = @ + 1]
                          ELSE Segment(Min(FreeSlots(@)), m.w, FALSE)],
              !.holes = IF key \in DOMAIN e.segs THEN @ \cup {"key"} ELSE @,
              !.told = [k \in DOMAIN @ \cup {key} |-> IF k = key THEN 0 ELSE @[k]],
              !.reply = ReplyOf("created", win.id, key)]

(* Mutant: a request that cannot be granted is dropped without a reply. *)
HandleCreateSilent(e, client, m) ==
    IF Len(e.s.windows) >= MaxWindows \/ (FreeSlots(e.segs) = {} /\ e.s.nextKey \notin DOMAIN e.segs) THEN e
    ELSE WindowCreated(e, client, m)
(* ... or an error; the key is spent when the kernel has no segment. *)
HandleCreate(e, client, m) ==
    IF Len(e.s.windows) >= MaxWindows \/ m.w = 0 THEN [e EXCEPT !.reply = ReplyOf("error", 0, 0)]
    ELSE IF FreeSlots(e.segs) = {} /\ e.s.nextKey \notin DOMAIN e.segs
    THEN [e EXCEPT !.s.nextKey = @ + 1, !.reply = ReplyOf("error", 0, 0)]
    ELSE WindowCreated(e, client, m)

(* handle_destroy_window: shmdt and IPC_RMID, which only an unattached     *)
(* segment heeds; the entries behind move up.                              *)
HandleDestroy(e, i, m) ==
    LET win == e.s.windows[i]
        d == DetachAll(e.segs, <<win>>)
        gone == IF d.t[win.key].att = 0 THEN {win.key} ELSE {} IN
    [e EXCEPT !.s.rect = MarkWindow(@, win), !.s.windows = RemoveAt(@, i),
              !.segs = [k \in DOMAIN @ \ gone |-> d.t[k]],
              !.holes = IF d.wrong THEN @ \cup {"segment"} ELSE @,
              !.torn = @ \/ win.visible]

HandleShow(e, i, m) ==
    [e EXCEPT !.s.rect = MarkWindow(@, e.s.windows[i]),
              !.s.windows[i].visible = TRUE, !.s.windows[i].dirty = TRUE]
HandleHide(e, i, m) ==
    [e EXCEPT !.s.rect = MarkWindow(@, e.s.windows[i]),
              !.s.windows[i].visible = FALSE, !.s.windows[i].dirty = TRUE]

HandleMove(e, i, m) ==
    LET win == [e.s.windows[i] EXCEPT !.x = m.x, !.dirty = TRUE] IN
    [e EXCEPT !.s.rect = MarkWindow(MarkWindow(@, e.s.windows[i]), win), !.s.windows[i] = win]

(* Mutant: a window grows beyond its buffer. *)
HandleResizeGrowing(e, i, m) ==
    LET win == [e.s.windows[i] EXCEPT !.w = m.w, !.dirty = TRUE] IN
    [e EXCEPT !.s.rect = MarkWindow(MarkWindow(@, e.s.windows[i]), win), !.s.windows[i] = win]
(* handle_resize_window: never beyond the present size. *)
HandleResize(e, i, m) ==
    LET win == [e.s.windows[i] EXCEPT !.w = Least(@, m.w), !.dirty = TRUE] IN
    IF m.w = 0 THEN e
    ELSE [e EXCEPT !.s.rect = MarkWindow(MarkWindow(@, e.s.windows[i]), win), !.s.windows[i] = win]

HandleTitle(e, i, m) ==
    [e EXCEPT !.s.rect = MarkWindow(@, e.s.windows[i]), !.s.windows[i].dirty = TRUE]
HandleDamage(e, i, m) ==
    [e EXCEPT !.s.rect = Mark(@, e.s.windows[i].x + m.x, m.w), !.s.windows[i].dirty = TRUE]
HandleCommit(e, i, m) ==
    [e EXCEPT !.s.rect = MarkWindow(@, e.s.windows[i]), !.s.windows[i].dirty = TRUE,
              !.told[e.s.windows[i].key] = e.segs[e.s.windows[i].key].content]

(* The windows a request of a client may change: its own.  A request for   *)
(* another window, or for one that is gone, does nothing.                  *)
Owned(e, client, m) == {i \in FindWindow(e.s, m.id) : e.s.windows[i].client = client}
OnWindow(e, client, m) ==
    LET found == Owned(e, client, m)
        i == CHOOSE j \in found : TRUE IN
    IF found = {} THEN e
    ELSE CASE m.op = "destroy" -> HandleDestroy(e, i, m)
           [] m.op = "show" -> HandleShow(e, i, m)
           [] m.op = "hide" -> HandleHide(e, i, m)
           [] m.op = "move" -> HandleMove(e, i, m)
           [] m.op = "resize" -> HandleResize(e, i, m)
           [] m.op = "title" -> HandleTitle(e, i, m)
           [] m.op = "damage" -> HandleDamage(e, i, m)
           [] m.op = "commit" -> HandleCommit(e, i, m)

(* handle_client_message: dispatch. *)
Dispatch(client, m) ==
    CASE m.op = "connect" -> [Effect EXCEPT !.reply = ReplyOf("connected", 0, 0)]
      [] m.op = "poll" -> [Effect EXCEPT !.reply = ReplyOf("noevent", 0, 0)]
      [] m.op = "create" -> HandleCreate(Effect, client, m)
      [] m.op = "disconnect" -> [Effect EXCEPT !.s.slots[client].active = FALSE]
      [] OTHER -> OnWindow(Effect, client, m)

(***************************************************************************)
(* The server's loop: select, then the ready slots in turn, then the frame. *)
(***************************************************************************)
Readable(i) ==
    LET a == srv.slots[i].app IN
    srv.slots[i].active /\ (apps[a].in # <<>> \/ apps[a].at = "gone")
Queued == {a \in DOMAIN apps : apps[a].at = "queued"}

(* select, and accept_new_client for the first in the queue.  The table of *)
(* clients only grows: when it is full, nobody is accepted any more.  An   *)
(* accept that fails has taken the application off the queue (sys_accept). *)
Select(fails) ==
    /\ srv.at = "select"
    /\ LET room == Len(srv.slots) < MaxClients
           a == CHOOSE b \in Queued : \A c \in Queued : b <= c
           taken == Queued # {} /\ room /\ ~ fails IN
       /\ fails => Queued # {} /\ room /\ holes = {}
       /\ srv' = [srv EXCEPT !.at = "serve", !.ready = {i \in DOMAIN srv.slots : Readable(i)},
                             !.slots = IF taken THEN Append(@, [app |-> a, active |-> TRUE]) ELSE @]
       /\ apps' = CASE taken -> [apps EXCEPT ![a].at = "accepted"]
                    [] fails -> [apps EXCEPT ![a].at = "dropped"]
                    [] OTHER -> apps
       /\ holes' = CASE Queued # {} /\ ~ room -> Broken("full")
                     [] fails -> Broken("refused")
                     [] OTHER -> holes
    /\ UNCHANGED <<segs, calls, moves, told, torn>>

(* handle_client_message: one message of a ready client; a read that fails *)
(* frees nothing but the descriptor.                                       *)
Handle ==
    LET i == CHOOSE j \in srv.ready : \A k \in srv.ready : j <= k
        a == srv.slots[i].app
        e == Dispatch(i, Head(apps[a].in)) IN
    /\ srv.ready # {}
    /\ IF apps[a].at = "gone"
       THEN srv' = [srv EXCEPT !.ready = @ \ {i}, !.slots[i].active = FALSE] /\ UNCHANGED <<apps, segs, told, torn, holes>>
       ELSE /\ srv' = [e.s EXCEPT !.ready = @ \ {i}]
            /\ segs' = e.segs /\ told' = e.told /\ torn' = e.torn /\ holes' = e.holes
            /\ apps' = [apps EXCEPT ![a].in = Tail(@), ![a].out = @ \o e.reply]
    /\ UNCHANGED <<calls, moves>>

(* save_cursor_underlay, restore_cursor_underlay and draw_cursor_sprite. *)
Saved(s) == [s EXCEPT !.backup = [valid |-> TRUE, x |-> s.mouse,
                                  pix |-> [x \in CursorArea(s.mouse) |-> s.back[x]]]]
(* Mutant: what was under the cursor is not put back. *)
RestoredNot(s) == [s EXCEPT !.backup.valid = FALSE]
Restored(s) ==
    IF ~ s.backup.valid THEN s
    ELSE [s EXCEPT !.back = [x \in Pixels |-> IF x \in DOMAIN s.backup.pix THEN s.backup.pix[x] ELSE @[x]],
                   !.backup.valid = FALSE]
Drawn(s) == [s EXCEPT !.back = [x \in Pixels |-> IF x \in CursorArea(s.mouse) THEN Cursor ELSE @[x]]]
Blit(s, region) == [s EXCEPT !.fb = [x \in Pixels |-> IF x \in region THEN s.back[x] ELSE @[x]]]

Covers(win, x) == win.visible /\ x \in win.x .. win.x + win.w - 1
Over(s, x) == {i \in DOMAIN s.windows : Covers(s.windows[i], x)}
TopOf(s, x) == s.windows[CHOOSE i \in Over(s, x) : \A j \in Over(s, x) : j <= i]

(* composite_windows: background and windows in the dirty region ... *)
Painted(s, region) ==
    [s EXCEPT !.back = [x \in Pixels |->
                CASE x \notin region -> @[x]
                  [] x \in region /\ Over(s, x) = {} -> Background
                  [] OTHER -> <<TopOf(s, x).id, IF Whole(segs, TopOf(s, x))
                                                THEN segs[TopOf(s, x).key].content ELSE Anything>>],
              !.windows = [i \in DOMAIN @ |->
                [@[i] EXCEPT !.dirty = @ /\ ~ \E x \in region : Covers(s.windows[i], x)]],
              !.rect.valid = FALSE, !.first = FALSE]

WindowsDirty(s) == s.first \/ \E i \in DOMAIN s.windows : s.windows[i].dirty
Region(s) == IF s.rect.valid THEN s.rect.x1 .. s.rect.x2 - 1 ELSE Pixels

(* ... or, when no window is dirty, only the cursor; the dirty region then *)
(* stays.                                                                  *)
Composite(s) ==
    IF WindowsDirty(s) THEN Blit(Drawn(Saved(Painted(s, Region(s)))), Region(s))
    ELSE IF ~ s.rect.valid THEN s
    ELSE LET old == IF s.backup.valid THEN s.backup.x ELSE s.mouse IN
         Blit(Drawn(Saved(Restored(s))),
              Least(old, s.mouse) .. Least(Most(old, s.mouse) + CursorWidth, Width) - 1)

(* process_mouse_events: where the motions read lead to. *)
Moved(m) == [srv EXCEPT !.mouse = m,
                        !.rect = IF m = srv.mouse THEN @
                                 ELSE Mark(Mark(@, srv.mouse, CursorWidth), m, CursorWidth)]

(* The rest of the loop.  Two cases leave a wrong picture: a window that   *)
(* was destroyed while no other is dirty, and a repaint beside the cursor, *)
(* whose own pixels are then saved as the underlay.                        *)
Frame(m) ==
    LET s == Moved(m)
        full == WindowsDirty(s) IN
    /\ srv.at = "serve" /\ srv.ready = {}
    /\ holes = {} \/ m = srv.mouse
    /\ moves' = (IF m = srv.mouse THEN moves ELSE moves + 1) /\ moves' <= MaxMoves
    /\ srv' = [Composite(s) EXCEPT !.at = "select"]
    /\ torn' = (torn /\ ~ full)
    /\ holes' = IF full /\ s.backup.valid /\ ~ (DOMAIN s.backup.pix \subseteq Region(s)) THEN Broken("trail")
               ELSE IF ~ full /\ torn THEN Broken("left") ELSE holes
    /\ UNCHANGED <<apps, segs, calls, told>>

Next ==
    \/ Launch \/ Handle
    \/ \E fails \in BOOLEAN : Select(fails)
    \/ \E m \in Spots \cup {srv.mouse} : Frame(m)
    \/ \E a \in DOMAIN apps :
        \/ Connected(a) \/ Receive(a) \/ ReceivePartly(a) \/ WakeMissed(a) \/ Close(a) \/ Disconnect(a)
        \/ CreateWindow(a) \/ DestroyWindow(a) \/ ShowWindow(a) \/ HideWindow(a)
        \/ MoveWindow(a) \/ ResizeWindow(a) \/ SetTitle(a) \/ Damage(a) \/ Commit(a)
        \/ Draw(a) \/ PollEvent(a)

(* The scheduler runs the server and an application that can go on again   *)
(* and again (Scheduler!NoStarvation).  The server's loop never blocks:    *)
(* weak fairness of its steps is to pass select and serve for ever.  Weak  *)
(* fairness of Connected and Receive, which disable themselves, is that    *)
(* they do not stay possible: an application that sleeps on (WakeMissed)   *)
(* is not helped by it.                                                    *)
Fairness ==
    /\ []<>(srv.at = "select") /\ []<>(srv.at = "serve")
    /\ \A a \in 1 .. MaxApps : []<>(~ MayGoOn(a))
Spec == Init /\ [][Next]_vars /\ Fairness

(***************************************************************************)
(* Properties.                                                             *)
(***************************************************************************)

(* After every pass of the loop the screen shows the cursor where the      *)
(* mouse is and elsewhere the topmost visible window, with a drawing no    *)
(* older than the one last committed, or the background (frostywm.c        *)
(* composite_windows and the marks of every handler), until one of the two *)
(* cases that Frame names is met or shmdt or shmget have mixed up buffers. *)
(* What a buffer shows that was freed or is wider than its window is not   *)
(* known, only where it shows.                                             *)
ScreenIsCurrent ==
    srv.at = "select" /\ ~ srv.first /\ holes \cap {"trail", "left", "segment", "key"} = {} =>
        \A x \in Pixels :
            CASE x \in CursorArea(srv.mouse) -> srv.fb[x] = Cursor
              [] x \notin CursorArea(srv.mouse) /\ Over(srv, x) = {} -> srv.fb[x] = Background
              [] OTHER -> LET win == TopOf(srv, x) IN
                          /\ srv.fb[x][1] = win.id
                          /\ Whole(segs, win) => srv.fb[x][2] \in told[win.key] .. segs[win.key].content

(* Every window of the server has a segment of its own, at least as wide   *)
(* as the window and attached, by its application too if that has it, no   *)
(* new segment is without a window, and every window an application knows  *)
(* is still the server's, with the same buffer (handle_create_window,      *)
(* handle_destroy_window, handle_resize_window and libfwm.c): until shmdt  *)
(* has taken another segment or shmget an old one.                         *)
WindowsAreBacked ==
    LET ws == srv.windows IN
    holes \cap {"segment", "key"} = {} =>
    /\ \A i, j \in DOMAIN ws : ws[i].key = ws[j].key \/ ws[i].id = ws[j].id => i = j
    /\ {ws[i].key : i \in DOMAIN ws} = {k \in DOMAIN segs : ~ segs[k].old}
    /\ \A i \in DOMAIN ws : segs[ws[i].key].att >= 1 /\ ws[i].w <= segs[ws[i].key].size
    /\ \A a \in DOMAIN apps : \A k \in DOMAIN apps[a].wins :
         LET own == apps[a].wins[k] IN
         /\ segs[own.key].att = 2
         /\ \E i \in DOMAIN ws : ws[i].id = own.id /\ ws[i].key = own.key /\ srv.slots[ws[i].client].app = a

(* An application that waits for the server, in connect or for a reply, is *)
(* answered or ends, unless the client table is full, accept failed, the   *)
(* wake-up was missed or a header came in two pieces (accept_new_client,   *)
(* recv_message, sys_connect, socket_vfs_read).                            *)
RequestIsAnswered ==
    \A a \in 1 .. MaxApps :
        At(a) \in {"queued", "accepted", "wait"}
            ~> At(a) \in {"user", "gone"} \/ holes \cap {"full", "refused", "missed", "partly"} # {}
=============================================================================
