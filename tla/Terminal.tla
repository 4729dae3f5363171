------------------------------ MODULE Terminal ------------------------------
(***************************************************************************)
(* Keyboard, mouse and terminal: the PS/2 bytes that arrive on one port,   *)
(* the interrupt handlers of keyboard.c and mouse.c, the polling fallback  *)
(* of kb_poll, the event queues behind /dev/input, and tty_read_mode with  *)
(* its loop of kbd_getevent.                                               *)
(*                                                                         *)
(* Hands and hardware are the environment: `held` are the keys that are    *)
(* down, `wire` the bytes the controller still has.  The handlers are      *)
(* atomic (interrupts are off in them).  kb_poll reads the status and then *)
(* the data with interrupts on: a handler may run in between, and also in  *)
(* the middle of what it does with the data (Overlap).  The time of a      *)
(* repeat is left open, and each event queue has one reader.  `hole`       *)
(* records the first case the drivers do not handle; the ghosts say what   *)
(* was typed and not yet read (typed) and what was reported (down,         *)
(* buttons, sent).                                                         *)
(***************************************************************************)
EXTENDS Integers, Sequences

CONSTANTS
    Readers,   \* processes that read the terminal
    Letters,   \* keys with a letter; "c" with control interrupts
    Others,    \* "enter", "bs": keys whose character no modifier changes
    Shifts, LeftCtrl, RightCtrl, \* modifier keys; RightCtrl is extended
    Arrows,    \* extended keys that are reported
    EvCap, IevCap,   \* room in evbuf and keybuf; in the event queues
    LineSize,  \* bytes a terminal read asks for
    MaxInputs, \* bound: key strokes, mouse packets and terminal reads
    MaxWire    \* bound: more input comes only when fewer bytes wait

ASSUME CapAssumption == EvCap \in Nat /\ IevCap \in Nat /\ LineSize \in Nat \ {0} /\ MaxInputs \in Nat

VARIABLES
    held, wire, inputs, \* environment
    kbd,      \* the keyboard driver
    mouse,    \* the mouse driver
    reading,  \* g_tty_reading
    reader,   \* where each terminal reader stands
    typed, down, buttons, sent, garbled, overlapped, hit, hole
ghosts == <<typed, down, buttons, sent, garbled, overlapped, hit, hole>>
vars == <<held, wire, inputs, kbd, mouse, reading, reader, ghosts>>

Ctrls == {LeftCtrl, RightCtrl}
Extended == Arrows \cup {RightCtrl}
Keys == Letters \cup Others \cup Shifts \cup Ctrls \cup Arrows
(* Every key has a scan code of its own. *)
ASSUME KeyAssumption ==
    /\ Letters \cap (Others \cup Shifts \cup Ctrls \cup Arrows) = {}
    /\ Others \cap (Shifts \cup Ctrls \cup Arrows) = {}
    /\ Shifts \cap (Ctrls \cup Arrows) = {} /\ Ctrls \cap Arrows = {}
    /\ LeftCtrl # RightCtrl /\ "none" \notin Keys
Codes == {"lower", "upper", "ctrl", "plain"}
Idle == [at |-> "user", canon |-> TRUE, line |-> 0, saw |-> 0]

(* sc_to_ascii: the character of a key under the modifiers. *)
ScToAscii(k, shift, ctrl) ==
    IF k \in Others THEN <<k, "plain">>
    ELSE <<k, IF ctrl THEN "ctrl" ELSE IF shift THEN "upper" ELSE "lower">>
Interrupt == <<"c", "ctrl">>
Printable(c) == c[2] # "ctrl" /\ c # <<"bs", "plain">>

Init ==
    /\ held = {} /\ inputs = 0
    /\ wire \in {<<>>} \cup {<<[src |-> "aux", part |-> 2, key |-> 0, sync |-> b]>> : b \in BOOLEAN}
    /\ kbd = [keys |-> {}, ext |-> {}, e0 |-> FALSE, shift |-> FALSE, ctrl |-> FALSE,
              ev |-> <<>>, buf |-> <<>>, iev |-> <<>>, rep |-> "none"]
    /\ mouse = [got |-> <<>>, pkt |-> <<>>, iev |-> <<>>, last |-> 0]
    /\ reading = FALSE /\ reader = [p \in Readers |-> Idle]
    /\ typed = <<>> /\ down = {} /\ buttons = 0 /\ sent = 0 /\ garbled = FALSE
    /\ overlapped = FALSE /\ hit = FALSE /\ hole = "none"

Broken(why) == IF hole = "none" THEN why ELSE hole

(***************************************************************************)
(* The environment.                                                        *)
(***************************************************************************)
Bytes(k, part) ==
    (IF k \in Extended THEN <<[src |-> "kbd", part |-> "e0", key |-> k, sync |-> FALSE]>> ELSE <<>>)
        \o <<[src |-> "kbd", part |-> part, key |-> k, sync |-> FALSE]>>

Press(k) ==
    /\ inputs < MaxInputs /\ inputs' = inputs + 1 /\ Len(wire) < MaxWire
    /\ k \notin held /\ held' = held \cup {k}
    /\ wire' = wire \o Bytes(k, "down")
    /\ typed' = CASE k \in Letters \cup Others ->
                       Append(typed, ScToAscii(k, held \cap Shifts # {}, held \cap Ctrls # {}))
                  [] k \in Arrows -> Append(typed, <<k, "ext">>)
                  [] OTHER -> typed
    /\ hole' = IF k \in Shifts \cup Ctrls /\ held \cap Letters # {} THEN Broken("modifier") ELSE hole
    /\ UNCHANGED <<kbd, mouse, reading, reader, down, buttons, sent, garbled, overlapped, hit>>

(* A modifier that is released while its twin is down: the drivers keep    *)
(* one flag for both.  A letter released under other modifiers than it was *)
(* pressed with (they change while it is down) is reported as another key. *)
Release(k) ==
    LET twin == (k \in Shifts /\ held \cap Shifts # {k}) \/ (k \in Ctrls /\ held \cap Ctrls # {k})
        letter == k \in Shifts \cup Ctrls /\ held \cap Letters # {} IN
    /\ k \in held /\ held' = held \ {k} /\ Len(wire) < MaxWire
    /\ wire' = wire \o Bytes(k, "up")
    /\ hole' = IF twin THEN Broken("twin") ELSE IF letter THEN Broken("modifier") ELSE hole
    /\ UNCHANGED <<inputs, kbd, mouse, reading, reader, typed, down, buttons, sent, garbled, overlapped, hit>>

(* A packet of three bytes: the mouse has moved, by bytes that look like a *)
(* first one (bit 3 is set), or it has not.                                *)
Move(btn, moved) ==
    /\ inputs < MaxInputs /\ inputs' = inputs + 1 /\ Len(wire) < MaxWire
    /\ wire' = wire \o [i \in 1 .. 3 |->
          [src |-> "aux", part |-> i - 1, key |-> btn, sync |-> (i = 1 \/ moved)]]
    /\ sent' = btn
    /\ UNCHANGED <<held, kbd, mouse, reading, reader, typed, down, buttons, garbled, overlapped, hit, hole>>

(***************************************************************************)
(* The keyboard driver.  d is the driver with the ghosts it changes.       *)
(***************************************************************************)
Driver == [k |-> kbd, down |-> down, hole |-> hole, int |-> FALSE]

(* evbuf_push and keybuf_push: a full ring drops what comes. *)
PushChar(d, c) ==
    IF Len(d.k.ev) < EvCap /\ Len(d.k.buf) < EvCap
    THEN [d EXCEPT !.k.ev = Append(@, c), !.k.buf = IF c[2] = "ext" THEN @ ELSE Append(@, c)]
    ELSE [d EXCEPT !.k.ev = IF Len(@) < EvCap THEN Append(@, c) ELSE @,
                   !.hole = IF Len(d.k.ev) < EvCap THEN @ ELSE Broken("overflow")]

(* iev_push, and what a reader of /dev/input will believe to be down. *)
PushEvent(d, code, type) ==
    IF Len(d.k.iev) < IevCap
    THEN [d EXCEPT !.k.iev = Append(@, <<code, type>>),
                   !.down = IF type = 0 THEN @ \ {code} ELSE @ \cup {code}]
    ELSE [d EXCEPT !.hole = Broken("overflow")]

KeyUpExt(d, k, polled) ==
    LET e == [d EXCEPT !.k.ext = @ \ {k}, !.k.e0 = FALSE,
                       !.k.ctrl = IF k = RightCtrl THEN FALSE ELSE @,
                       !.k.rep = IF @ = k /\ ~ polled THEN "none" ELSE @] IN
    IF polled THEN [e EXCEPT !.hole = Broken("polled")] ELSE PushEvent(e, <<k, "ext">>, 0)

(* Mutant: a repeat goes on after the key is up. *)
KeyUpRepeating(d, k, polled) ==
    LET e == [d EXCEPT !.k.keys = @ \ {k},
                       !.k.shift = IF k \in Shifts THEN FALSE ELSE @,
                       !.k.ctrl = IF k = LeftCtrl THEN FALSE ELSE @] IN
    IF k \in Shifts \cup Ctrls THEN PushEvent(e, <<k, "mod">>, 0)
    ELSE PushEvent(e, ScToAscii(k, e.k.shift, e.k.ctrl), 0)
KeyUp(d, k, polled) ==
    LET e == [d EXCEPT !.k.keys = @ \ {k},
                       !.k.shift = IF k \in Shifts THEN FALSE ELSE @,
                       !.k.ctrl = IF k = LeftCtrl THEN FALSE ELSE @,
                       !.k.rep = IF @ = k /\ ~ polled THEN "none" ELSE @,
                       !.hole = IF polled /\ d.k.rep = k THEN Broken("polled") ELSE @] IN
    IF k \in Shifts \cup Ctrls THEN PushEvent(e, <<k, "mod">>, 0)
    ELSE PushEvent(e, ScToAscii(k, e.k.shift, e.k.ctrl), 0)

(* Mutant: the prefix is remembered after the key it belongs to. *)
KeyDownExtSticky(d, k, polled) ==
    IF k = RightCtrl THEN [d EXCEPT !.k.ctrl = TRUE]
    ELSE IF k \in d.k.ext THEN d
    ELSE PushEvent(PushChar([d EXCEPT !.k.ext = @ \cup {k}, !.k.rep = IF polled THEN @ ELSE k],
                            <<k, "ext">>), <<k, "ext">>, 1)
(* Arrows are reported, the right control key is only remembered. *)
KeyDownExt(d, k, polled) ==
    LET e == [d EXCEPT !.k.e0 = FALSE] IN
    IF k = RightCtrl THEN [e EXCEPT !.k.ctrl = TRUE]
    ELSE IF k \in e.k.ext THEN e
    ELSE PushEvent(PushChar([e EXCEPT !.k.ext = @ \cup {k}, !.k.rep = IF polled THEN @ ELSE k],
                            <<k, "ext">>), <<k, "ext">>, 1)

KeyDown(d, k, polled) ==
    LET c == ScToAscii(k, d.k.shift, d.k.ctrl)
        rep == IF polled THEN d.k.rep ELSE IF Printable(c) THEN k ELSE "none" IN
    IF k \in Shifts THEN PushEvent([d EXCEPT !.k.shift = TRUE], <<k, "mod">>, 1)
    ELSE IF k \in Ctrls THEN PushEvent([d EXCEPT !.k.ctrl = TRUE], <<k, "mod">>, 1)
    ELSE IF k \in d.k.keys THEN d
    ELSE PushEvent(PushChar([d EXCEPT !.k.keys = @ \cup {k}, !.k.rep = rep, !.int = (c = Interrupt)], c), c, 1)

(* One scan code, in the handler or in kb_poll. *)
Scancode(b, polled) ==
    LET d == Driver IN
    CASE b.part = "e0" -> [d EXCEPT !.k.e0 = TRUE]
      [] b.part = "up" -> IF d.k.e0 THEN KeyUpExt(d, b.key, polled) ELSE KeyUp(d, b.key, polled)
      [] b.part = "down" -> IF d.k.e0 THEN KeyDownExt(d, b.key, polled) ELSE KeyDown(d, b.key, polled)

(* Control-C while nobody reads the terminal signals the current process.  *)
Apply(d) ==
    /\ kbd' = d.k /\ down' = d.down /\ hole' = d.hole
    /\ hit' = (hit \/ (d.int /\ ~ reading /\ \E p \in Readers : reader[p].at # "user"))

KeyboardIrq ==
    /\ wire # <<>> /\ Head(wire).src = "kbd"
    /\ Apply(Scancode(Head(wire), FALSE))
    /\ wire' = Tail(wire)
    /\ UNCHANGED <<held, inputs, mouse, reading, reader, typed, buttons, sent, garbled, overlapped>>

(***************************************************************************)
(* The mouse driver: three bytes make a packet; the first must have bit 3. *)
(***************************************************************************)
Cut(s) == SubSeq(s, 1, IF Len(s) < IevCap THEN Len(s) ELSE IevCap)
NewEvents(m) ==
    (IF m.got[1].key # m.last THEN <<<<m.got[1].key, "button">>>> ELSE <<>>)
        \o (IF m.got[2].sync THEN <<<<0, "motion">>>> ELSE <<>>)
PacketEvents(m) ==
    [m EXCEPT !.iev = Cut(@ \o NewEvents(m)), !.last = m.got[1].key, !.got = <<>>,
              !.pkt = IF Len(@) < EvCap THEN Append(@, m.got[1].key) ELSE @]

CollectNoSync(m, b) == [m EXCEPT !.got = Append(@, b)]   \* mutant: no resynchronisation
Collect(m, b) == IF m.got = <<>> /\ ~ b.sync THEN m ELSE [m EXCEPT !.got = Append(@, b)]

MouseIrq ==
    LET b == Head(wire)
        m == Collect(mouse, b)
        full == Len(m.got) = 3 IN
    /\ wire # <<>> /\ b.src = "aux"
    /\ wire' = Tail(wire)
    /\ mouse' = IF full THEN PacketEvents(m) ELSE m
    /\ garbled' = (garbled \/ (full /\ \E i \in 1 .. 3 : m.got[i].part # i - 1))
    /\ buttons' = IF full /\ m.got[1].key # mouse.last /\ Len(mouse.iev) < IevCap
                  THEN m.got[1].key ELSE buttons
    /\ hole' = IF full /\ Len(mouse.iev) + Len(NewEvents(m)) > IevCap
               THEN Broken("overflow")
               ELSE IF b.part # 0 /\ b.sync /\ mouse.got = <<>> THEN Broken("sync") ELSE hole
    /\ UNCHANGED <<held, inputs, kbd, reading, reader, typed, down, sent, overlapped, hit>>

(* /dev/input/mouse and /dev/input/kbd0: what is queued. *)
ReadMouse ==
    /\ mouse.iev # <<>> /\ mouse' = [mouse EXCEPT !.iev = <<>>, !.pkt = <<>>]
    /\ UNCHANGED <<held, wire, inputs, kbd, reading, reader>> /\ UNCHANGED ghosts
ReadKeyboard ==
    /\ kbd.iev # <<>> /\ kbd' = [kbd EXCEPT !.iev = <<>>]
    /\ UNCHANGED <<held, wire, inputs, mouse, reading, reader>> /\ UNCHANGED ghosts

(***************************************************************************)
(* tty_read_mode.                                                          *)
(***************************************************************************)
TtyRead(p, canon) ==
    /\ reader[p].at = "user" /\ inputs < MaxInputs /\ inputs' = inputs + 1
    /\ reader' = [reader EXCEPT ![p] = [Idle EXCEPT !.at = "get", !.canon = canon]]
    /\ overlapped' = (overlapped \/ \E q \in Readers \ {p} : reader[q].at # "user")
    /\ reading' = TRUE
    /\ UNCHANGED <<held, wire, kbd, mouse, typed, down, buttons, sent, garbled, hit, hole>>

(* What one event does to the length of the line: arrows are skipped in    *)
(* canonical mode and become three bytes in raw mode, backspace erases,    *)
(* control-C ends the read.                                                *)
Line(line, c, canon) ==
    CASE c[2] = "ext" -> IF canon \/ line + 3 > LineSize THEN line ELSE line + 3
      [] c = <<"bs", "plain">> /\ canon -> IF line > 0 THEN line - 1 ELSE 0
      [] (Printable(c) \/ ~ canon) /\ line < LineSize /\ c[2] # "ext"
            /\ c # Interrupt /\ ~ (c = <<"bs", "plain">> /\ canon) -> line + 1
      [] OTHER -> line
Ends(line, c, canon) ==
    IF canon THEN c = Interrupt \/ c = <<"enter", "plain">> \/ line >= LineSize
    ELSE line >= LineSize \/ c = Interrupt

(* Mutant: the flag is cleared after every event. *)
FeedClearing(p, c) ==
    LET line == Line(reader[p].line, c, reader[p].canon) IN
    /\ reader' = [reader EXCEPT ![p] = IF Ends(line, c, @.canon) THEN Idle ELSE [@ EXCEPT !.line = line, !.at = "get"]]
    /\ reading' = FALSE
Feed(p, c) ==
    LET line == Line(reader[p].line, c, reader[p].canon) IN
    IF Ends(line, c, reader[p].canon)
    THEN reader' = [reader EXCEPT ![p] = Idle] /\ reading' = FALSE
    ELSE reader' = [reader EXCEPT ![p].line = line, ![p].at = "get"] /\ UNCHANGED reading

(* The next key typed has been read, if this is it. *)
Read(c) == typed' = IF typed # <<>> /\ Head(typed) = c THEN Tail(typed) ELSE <<"lost">> \o typed

(* kbd_getevent: the event ring first ... *)
GetEvent(p) ==
    /\ reader[p].at = "get" /\ kbd.ev # <<>>
    /\ kbd' = [kbd EXCEPT !.ev = Tail(@)]
    /\ Read(Head(kbd.ev))
    /\ Feed(p, Head(kbd.ev))
    /\ UNCHANGED <<held, wire, inputs, mouse, down, buttons, sent, garbled, overlapped, hit, hole>>

(* ... then kb_poll: an old character is thrown away, or else the status   *)
(* is read; a mouse byte is left alone ...                                 *)
PollStatus(p) ==
    /\ reader[p].at = "get" /\ kbd.ev = <<>>
    /\ IF kbd.buf # <<>>
       THEN kbd' = [kbd EXCEPT !.buf = Tail(@)] /\ UNCHANGED reader
       ELSE /\ wire # <<>> /\ Head(wire).src = "kbd"
            /\ reader' = [reader EXCEPT ![p].at = "data", ![p].saw = Len(wire)]
            /\ UNCHANGED kbd
    /\ UNCHANGED <<held, wire, inputs, mouse, reading>> /\ UNCHANGED ghosts

(* ... and then the data, which an interrupt may have taken meanwhile: the *)
(* read then returns an old byte or somebody else's.                       *)
PollData(p) ==
    /\ reader[p].at = "data"
    /\ reader' = [reader EXCEPT ![p].at = "get"]
    /\ IF wire = <<>> \/ Head(wire).src # "kbd" \/ Len(wire) < reader[p].saw
       THEN hole' = Broken("reread") /\ UNCHANGED <<wire, kbd, down, hit>>
       ELSE Apply(Scancode(Head(wire), TRUE)) /\ wire' = Tail(wire)
    /\ UNCHANGED <<held, inputs, mouse, reading, typed, buttons, sent, garbled, overlapped>>

(* A raw read that has a byte goes on as long as kbd_poll_event has one. *)
Drained(p) ==
    /\ reader[p].at = "get" /\ ~ reader[p].canon /\ reader[p].line > 0 /\ kbd.ev = <<>>
    /\ reader' = [reader EXCEPT ![p] = Idle] /\ reading' = FALSE
    /\ UNCHANGED <<held, wire, inputs, kbd, mouse>> /\ UNCHANGED ghosts

(* The software repeat: the held key is read again. *)
Repeat(p) ==
    LET k == kbd.rep
        c == IF k \in Arrows THEN <<k, "ext">> ELSE ScToAscii(k, kbd.shift, kbd.ctrl)
        d == PushEvent(Driver, c, 2) IN
    /\ reader[p].at = "get" /\ kbd.ev = <<>> /\ kbd.buf = <<>> /\ k # "none"
    /\ kbd' = d.k /\ hole' = d.hole
    /\ Feed(p, c)
    /\ UNCHANGED <<held, wire, inputs, mouse, typed, down, buttons, sent, garbled, overlapped, hit>>

(***************************************************************************)
(* kb_poll, kbd_getevent and the repeat change the driver's flags, tables  *)
(* and rings with interrupts on.  The actions above are the runs that are  *)
(* not disturbed in there.  Overlap is a disturbed one, which is not       *)
(* followed further: the hole names it.                                    *)
(***************************************************************************)
(* The handler comes, or another reader, while p works on its scan code;   *)
(* or the handler comes while p reports a repeat.                          *)
Mixed(p) ==
    \/ reader[p].at = "data" /\ Len(wire) >= 2 /\ wire[2].src = "kbd"
    \/ reader[p].at = "data" /\ \E q \in Readers \ {p} : reader[q].at # "user"
    \/ reader[p].at = "get" /\ kbd.ev = <<>> /\ kbd.rep # "none" /\ wire # <<>> /\ Head(wire).src = "kbd"
(* Two readers take from one ring: evbuf_pop or keybuf_pop gives both the  *)
(* same event, or skips one.                                               *)
Shared(p) ==
    /\ reader[p].at = "get" /\ (kbd.ev # <<>> \/ kbd.buf # <<>>)
    /\ \E q \in Readers \ {p} : reader[q].at = "get"
Overlap(p) ==
    /\ \/ Mixed(p) /\ hole' = Broken("mixed")
       \/ Shared(p) /\ hole' = Broken("shared")
    /\ UNCHANGED <<held, wire, inputs, kbd, mouse, reading, reader>>
    /\ UNCHANGED <<typed, down, buttons, sent, garbled, overlapped, hit>>

Rest == wire = <<>> /\ UNCHANGED vars

Next ==
    \/ \E k \in Keys : Press(k) \/ Release(k)
    \/ \E btn \in {0, 1}, moved \in BOOLEAN : Move(btn, moved)
    \/ KeyboardIrq \/ MouseIrq \/ ReadMouse \/ ReadKeyboard
    \/ \E p \in Readers, canon \in BOOLEAN : TtyRead(p, canon)
    \/ \E p \in Readers : GetEvent(p) \/ PollStatus(p) \/ PollData(p) \/ Drained(p) \/ Repeat(p)
                          \/ Overlap(p)
    \/ Rest

Spec == Init /\ [][Next]_vars

(***************************************************************************)
(* Properties, as long as no hole of the drivers was met.                  *)
(***************************************************************************)
KeyboardQuiet == \A i \in DOMAIN wire : wire[i].src # "kbd"

(* What has been read from the event ring and what is still in it is what  *)
(* was typed, each key once, in order and under the right modifiers,       *)
(* whether the handler or kb_poll took the bytes (keyboard.c).             *)
KeysArriveAsTyped ==
    hole = "none" /\ KeyboardQuiet => kbd.ev = typed

(* When every key is up, no modifier is on, no key repeats, and a reader   *)
(* of the event queue has seen every key that went down come up.           *)
NothingSticks ==
    hole = "none" /\ held = {} /\ KeyboardQuiet =>
        /\ ~ kbd.shift /\ ~ kbd.ctrl /\ kbd.keys = {} /\ kbd.ext = {} /\ kbd.rep = "none"
        /\ down = {}

(* Control-C is never turned into a signal while a process reads the       *)
(* terminal, unless two processes read it at once: the first that returns  *)
(* clears the one flag (g_tty_reading).                                    *)
InterruptSparesReader == hit => overlapped

(* The packets put together are the packets the mouse sent, also when the  *)
(* driver starts in the middle of one, and the buttons reported are the    *)
(* buttons pressed (mouse_irq_handler, pkt_push).                          *)
MouseIsTracked ==
    hole = "none" => ~ garbled /\ (wire = <<>> /\ mouse.got = <<>> => buttons = sent)

UpToFirstHole == hole = "none"
=============================================================================
