---------------------------- MODULE TerminalProof ---------------------------
(***************************************************************************)
(* The mouse packets, the flag g_tty_reading and the keys, for any keys,   *)
(* readers and sizes of the rings.                                         *)
(***************************************************************************)
EXTENDS Terminal, Foundations, SequenceTheorems, TLAPS

(* The bytes of the two devices and the events of the mouse. *)
KeyByte == [src : {"kbd"}, part : {"e0", "up", "down"}, key : Keys, sync : BOOLEAN]
AuxByte == [src : {"aux"}, part : 0 .. 2, key : {0, 1}, sync : BOOLEAN]
Octet == KeyByte \cup AuxByte
MouseEvent == {0, 1} \X {"button", "motion"}
MouseState == [got : Seq(AuxByte), pkt : Seq({0, 1}), iev : Seq(MouseEvent), last : {0, 1}]

(* The types of what the two properties depend on. *)
Types ==
    /\ wire \in Seq(Octet)
    /\ mouse \in MouseState
    /\ DOMAIN reader = Readers
    /\ \A p \in Readers : DOMAIN reader[p] = {"at", "canon", "line", "saw"}
    /\ reading \in BOOLEAN /\ garbled \in BOOLEAN /\ overlapped \in BOOLEAN /\ hit \in BOOLEAN

(* Unless two reads of the terminal overlapped, the flag is up while a read *)
(* goes on, because there is one such read and only its end clears it.      *)
OneReads ==
    \A p \in Readers : reader[p].at # "user" =>
       /\ reading
       /\ \A q \in Readers : reader[q].at # "user" => q = p

(* The bytes of a packet lie side by side on the wire.  Only the first byte *)
(* of the wire can be the rest of a packet whose beginning is gone.         *)
Aux(i) == wire[i].src = "aux"
Follows(a, b) == b.src = "aux" /\ b.part = a.part + 1 /\ b.key = a.key
Packets ==
    \A i \in 1 .. Len(wire) : Aux(i) =>
       /\ wire[i].part = 0 => wire[i].sync
       /\ wire[i].part # 2 => i < Len(wire) /\ Follows(wire[i], wire[i + 1])
       /\ wire[i].part # 0 /\ i > 1 => Aux(i - 1) /\ Follows(wire[i - 1], wire[i])

(* The driver is in step with them: it has the first bytes of the packet    *)
(* whose next byte is the next on the wire.                                 *)
InStep ==
    /\ Len(mouse.got) <= 2
    /\ \A i \in 1 .. Len(mouse.got) : mouse.got[i].part = i - 1
    /\ mouse.got # <<>> =>
         wire # <<>> /\ Aux(1) /\ wire[1].part = Len(mouse.got) /\ wire[1].key = mouse.got[1].key
    /\ mouse.got = <<>> /\ wire # <<>> /\ Aux(1) => wire[1].part # 1
    /\ ~ garbled

(* The last packet that was sent is the last on the wire or has been taken. *)
Latest ==
    /\ buttons = mouse.last
    /\ \A i \in 1 .. Len(wire) :
         Aux(i) /\ (\A j \in i + 1 .. Len(wire) : ~ Aux(j)) => wire[i].key = sent
    /\ mouse.got = <<>> /\ (\A i \in 1 .. Len(wire) : Aux(i) => wire[i].part = 2) => mouse.last = sent

(* The inductive invariant. *)
Inv == /\ Types /\ Packets
       /\ overlapped \/ OneReads
       /\ hit => overlapped
       /\ hole = "none" => InStep /\ Latest

-----------------------------------------------------------------------------
(* A hole once met stays met. *)
LEMMA BrokenFacts == \A why : why # "none" => Broken(why) # "none"
  BY DEF Broken

(* Records of the shape of Driver: what the keyboard driver's operators     *)
(* leave of them, and that they never forget a hole.                        *)
IsDriver(d) == DOMAIN d = {"k", "down", "hole", "int"}
Keeps(d, e) == IsDriver(e) /\ (e.hole = "none" => d.hole = "none")

(* evbuf_push keeps a hole. *)
LEMMA PushCharKeeps ==
    ASSUME NEW d, IsDriver(d), NEW c
    PROVE  Keeps(d, PushChar(d, c))
  BY BrokenFacts DEF PushChar, Keeps, IsDriver

(* iev_push keeps a hole. *)
LEMMA PushEventKeeps ==
    ASSUME NEW d, IsDriver(d), NEW c, NEW t
    PROVE  Keeps(d, PushEvent(d, c, t))
  BY BrokenFacts DEF PushEvent, Keeps, IsDriver

(* A release keeps a hole, of an extended key ... *)
LEMMA KeyUpExtKeeps ==
    ASSUME NEW d, IsDriver(d), NEW k, NEW polled
    PROVE  Keeps(d, KeyUpExt(d, k, polled))
  <1> DEFINE e == [d EXCEPT !.k.ext = @ \ {k}, !.k.e0 = FALSE,
                            !.k.ctrl = IF k = RightCtrl THEN FALSE ELSE @,
                            !.k.rep = IF @ = k /\ ~ polled THEN "none" ELSE @]
  <1>1. IsDriver(e) /\ e.hole = d.hole
    BY DEF IsDriver
  <1>2. KeyUpExt(d, k, polled) =
          IF polled THEN [e EXCEPT !.hole = Broken("polled")] ELSE PushEvent(e, <<k, "ext">>, 0)
    BY DEF KeyUpExt
  <1> HIDE DEF e
  <1>3. CASE polled
    BY <1>1, <1>2, <1>3, BrokenFacts DEF Keeps, IsDriver
  <1>4. CASE ~ polled
    BY <1>1, <1>2, <1>4, PushEventKeeps DEF Keeps
  <1> QED
    BY <1>3, <1>4

(* ... and of any other. *)
LEMMA KeyUpKeeps ==
    ASSUME NEW d, IsDriver(d), NEW k, NEW polled
    PROVE  Keeps(d, KeyUp(d, k, polled))
  <1> DEFINE e == [d EXCEPT !.k.keys = @ \ {k},
                            !.k.shift = IF k \in Shifts THEN FALSE ELSE @,
                            !.k.ctrl = IF k = LeftCtrl THEN FALSE ELSE @,
                            !.k.rep = IF @ = k /\ ~ polled THEN "none" ELSE @,
                            !.hole = IF polled /\ d.k.rep = k THEN Broken("polled") ELSE @]
  <1>1. Keeps(d, e)
    BY BrokenFacts DEF IsDriver, Keeps
  <1>2. \E c : KeyUp(d, k, polled) = PushEvent(e, c, 0)
    BY DEF KeyUp
  <1> HIDE DEF e
  <1> QED
    BY <1>1, <1>2, PushEventKeeps DEF Keeps

(* So does a key press, extended ... *)
LEMMA KeyDownExtKeeps ==
    ASSUME NEW d, IsDriver(d), NEW k, NEW polled
    PROVE  Keeps(d, KeyDownExt(d, k, polled))
  <1> DEFINE e == [d EXCEPT !.k.e0 = FALSE]
             a == [e EXCEPT !.k.ctrl = TRUE]
             b == [e EXCEPT !.k.ext = @ \cup {k}, !.k.rep = IF polled THEN @ ELSE k]
  <1>1. Keeps(d, e) /\ Keeps(d, a) /\ Keeps(d, b)
    BY DEF IsDriver, Keeps
  <1>2. \/ KeyDownExt(d, k, polled) = a
        \/ KeyDownExt(d, k, polled) = e
        \/ KeyDownExt(d, k, polled) = PushEvent(PushChar(b, <<k, "ext">>), <<k, "ext">>, 1)
    BY DEF KeyDownExt
  <1> HIDE DEF e, a, b
  <1>3. Keeps(b, PushChar(b, <<k, "ext">>))
    BY <1>1, PushCharKeeps DEF Keeps
  <1>4. Keeps(PushChar(b, <<k, "ext">>), PushEvent(PushChar(b, <<k, "ext">>), <<k, "ext">>, 1))
    BY <1>3, PushEventKeeps DEF Keeps
  <1> QED
    BY <1>1, <1>2, <1>3, <1>4 DEF Keeps

(* ... or not. *)
LEMMA KeyDownKeeps ==
    ASSUME NEW d, IsDriver(d), NEW k, NEW polled
    PROVE  Keeps(d, KeyDown(d, k, polled))
  <1>1. PICK c : c = ScToAscii(k, d.k.shift, d.k.ctrl)
    OBVIOUS
  <1>2. PICK rep : rep = IF polled THEN d.k.rep ELSE IF Printable(c) THEN k ELSE "none"
    OBVIOUS
  <1> DEFINE s == [d EXCEPT !.k.shift = TRUE]
             a == [d EXCEPT !.k.ctrl = TRUE]
             b == [d EXCEPT !.k.keys = @ \cup {k}, !.k.rep = rep, !.int = (c = Interrupt)]
  <1>3. Keeps(d, s) /\ Keeps(d, a) /\ Keeps(d, b) /\ Keeps(d, d)
    BY DEF IsDriver, Keeps
  <1>4. \/ KeyDown(d, k, polled) = PushEvent(s, <<k, "mod">>, 1)
        \/ KeyDown(d, k, polled) = PushEvent(a, <<k, "mod">>, 1)
        \/ KeyDown(d, k, polled) = d
        \/ KeyDown(d, k, polled) = PushEvent(PushChar(b, c), c, 1)
    BY <1>1, <1>2 DEF KeyDown
  <1> HIDE DEF s, a, b
  <1>5. Keeps(s, PushEvent(s, <<k, "mod">>, 1)) /\ Keeps(a, PushEvent(a, <<k, "mod">>, 1))
    BY <1>3, PushEventKeeps DEF Keeps
  <1>6. Keeps(b, PushChar(b, c))
    BY <1>3, PushCharKeeps DEF Keeps
  <1>7. Keeps(PushChar(b, c), PushEvent(PushChar(b, c), c, 1))
    BY <1>6, PushEventKeeps DEF Keeps
  <1> QED
    BY <1>3, <1>4, <1>5, <1>6, <1>7 DEF Keeps

(* A scan code keeps a hole, and Control-C reaches a reader of the terminal *)
(* only if two of them overlapped.                                          *)
LEMMA ScancodeKeeps ==
    ASSUME NEW b \in KeyByte, NEW polled
    PROVE  Scancode(b, polled).hole = "none" => hole = "none"
  <1>1. IsDriver(Driver) /\ Driver.hole = hole
    BY DEF IsDriver, Driver
  <1>2. PICK d : d = Driver
    OBVIOUS
  <1>3. Keeps(d, [d EXCEPT !.k.e0 = TRUE])
    BY <1>1, <1>2 DEF IsDriver, Keeps
  <1>4. CASE b.part = "e0"
    <2>1. Scancode(b, polled) = [d EXCEPT !.k.e0 = TRUE]
      BY <1>2, <1>4 DEF Scancode
    <2> QED
      BY <1>1, <1>2, <1>3, <2>1 DEF Keeps
  <1>5. CASE b.part = "up"
    <2>1. Scancode(b, polled) = IF d.k.e0 THEN KeyUpExt(d, b.key, polled) ELSE KeyUp(d, b.key, polled)
      BY <1>2, <1>5 DEF Scancode
    <2> QED
      BY <1>1, <1>2, <2>1, KeyUpExtKeeps, KeyUpKeeps DEF Keeps
  <1>6. CASE b.part = "down"
    <2>1. Scancode(b, polled) = IF d.k.e0 THEN KeyDownExt(d, b.key, polled) ELSE KeyDown(d, b.key, polled)
      BY <1>2, <1>6 DEF Scancode
    <2> QED
      BY <1>1, <1>2, <2>1, KeyDownExtKeeps, KeyDownKeeps DEF Keeps
  <1> QED
    BY <1>4, <1>5, <1>6 DEF KeyByte

-----------------------------------------------------------------------------
(* What stands on the wire. *)
LEMMA OctetFacts ==
    /\ \A b \in KeyByte : b \in Octet /\ b.src = "kbd"
    /\ \A b \in AuxByte : b \in Octet /\ b.src = "aux" /\ b.part \in 0 .. 2 /\ b.key \in {0, 1}
    /\ \A b \in Octet : (b.src = "aux" => b \in AuxByte) /\ (b.src # "aux" => b \in KeyByte)
  BY DEF Octet, KeyByte, AuxByte

(* The mouse driver takes no byte and the mouse sends none. *)
Still == UNCHANGED <<mouse, garbled, buttons, sent>>

(* Bytes of the keyboard behind the others change nothing for the mouse. *)
LEMMA KeysCome ==
    ASSUME wire \in Seq(Octet), NEW s \in Seq(KeyByte), wire' = wire \o s, Packets
    PROVE  /\ wire' \in Seq(Octet) /\ Packets'
           /\ InStep /\ Still => InStep'
           /\ Latest /\ Still => Latest'
  <1>1. PICK m \in Nat, n \in Nat : m = Len(wire) /\ n = Len(s)
    OBVIOUS
  <1>2. s \in Seq(Octet)
    BY OctetFacts
  <1>3. wire' \in Seq(Octet) /\ Len(wire') = m + n
    BY <1>1, <1>2
  <1>4. \A i \in 1 .. m : wire'[i] = wire[i]
    BY <1>1
  <1>5. \A i \in 1 .. m + n : i > m => wire'[i].src = "kbd"
    <2>1. ASSUME NEW i \in 1 .. m + n, i > m PROVE wire'[i].src = "kbd"
      <3>1. wire'[i] = s[i - m] /\ i - m \in 1 .. n
        BY <1>1, <2>1
      <3>2. s[i - m] \in KeyByte
        BY <1>1, <3>1
      <3> QED
        BY <3>1, <3>2, OctetFacts
    <2> QED
      BY <2>1
  <1>6. \A i \in 1 .. m + n : wire'[i].src = "aux" => i \in 1 .. m /\ wire[i].src = "aux"
    <2>1. ASSUME NEW i \in 1 .. m + n, wire'[i].src = "aux" PROVE i \in 1 .. m /\ wire[i].src = "aux"
      <3>1. ~ (i > m)
        BY <1>5, <2>1
      <3>2. i \in 1 .. m
        BY <3>1
      <3> QED
        BY <1>4, <2>1, <3>2
    <2> QED
      BY <2>1
  <1>7. Packets'
    BY <1>1, <1>3, <1>4, <1>6 DEF Packets, Aux
  <1>8. (wire # <<>> => m >= 1) /\ (m >= 1 => wire' # <<>>)
    BY <1>1, <1>3
  <1>9. ASSUME InStep, Still PROVE InStep'
    <2>1. mouse' = mouse /\ garbled' = garbled
      BY <1>9 DEF Still
    <2>2. ASSUME mouse.got # <<>> PROVE wire'[1] = wire[1] /\ wire' # <<>>
      BY <1>1, <1>4, <1>8, <1>9, <2>2 DEF InStep
    <2>3. ASSUME wire' # <<>>, wire'[1].src = "aux" PROVE wire # <<>> /\ wire[1] = wire'[1]
      <3>1. 1 \in 1 .. m + n
        BY <1>1, <1>3, <2>3
      <3>2. 1 \in 1 .. m
        BY <1>6, <2>3, <3>1
      <3> QED
        BY <1>1, <1>4, <3>2
    <2> QED
      BY <1>9, <2>1, <2>2, <2>3 DEF InStep, Aux
  <1>10. ASSUME Latest, Still PROVE Latest'
    <2>1. mouse' = mouse /\ buttons' = buttons /\ sent' = sent
      BY <1>10 DEF Still
    <2>2. ASSUME NEW i \in 1 .. m + n, wire'[i].src = "aux",
                 \A j \in i + 1 .. m + n : wire'[j].src # "aux"
          PROVE  wire'[i].key = sent
      <3>1. i \in 1 .. m /\ wire[i].src = "aux" /\ wire'[i] = wire[i]
        BY <1>4, <1>6, <2>2
      <3>2. ASSUME NEW j \in i + 1 .. m PROVE wire[j].src # "aux"
        <4>1. j \in 1 .. m /\ j \in i + 1 .. m + n
          BY <3>1
        <4>2. wire'[j] = wire[j] /\ wire'[j].src # "aux"
          BY <1>4, <2>2, <4>1
        <4> QED
          BY <4>2
      <3> QED
        BY <1>1, <1>10, <3>1, <3>2 DEF Latest, Aux
    <2>3. ASSUME mouse.got = <<>>, \A i \in 1 .. m + n : wire'[i].src = "aux" => wire'[i].part = 2
          PROVE  mouse.last = sent
      <3>1. ASSUME NEW i \in 1 .. m PROVE wire[i].src = "aux" => wire[i].part = 2
        <4>1. i \in 1 .. m + n
          OBVIOUS
        <4>2. wire'[i].src = "aux" => wire'[i].part = 2
          BY <2>3, <4>1
        <4> QED
          BY <1>4, <4>2
      <3> QED
        BY <1>1, <1>10, <2>3, <3>1 DEF Latest, Aux
    <2> QED
      BY <1>3, <1>10, <2>1, <2>2, <2>3 DEF Latest, Aux
  <1> QED
    BY <1>3, <1>7, <1>9, <1>10

(* The wire without its first byte. *)
LEMMA TailFacts ==
    ASSUME wire \in Seq(Octet), wire # <<>>, wire' = Tail(wire)
    PROVE  /\ wire' \in Seq(Octet) /\ Len(wire) \in Nat /\ Len(wire) >= 1
           /\ Len(wire') = Len(wire) - 1
           /\ \A i \in 1 .. Len(wire) - 1 : wire'[i] = wire[i + 1]
           /\ Head(wire) = wire[1] /\ wire[1] \in Octet
  OBVIOUS

(* The packets behind it are as they were. *)
LEMMA PacketsMoveUp ==
    ASSUME wire \in Seq(Octet), wire # <<>>, wire' = Tail(wire), Packets
    PROVE  Packets'
  <1>1. PICK m \in Nat : m = Len(wire) /\ m >= 1
    BY TailFacts
  <1>2. Len(wire') = m - 1 /\ \A i \in 1 .. m - 1 : wire'[i] = wire[i + 1]
    BY <1>1, TailFacts
  <1>3. ASSUME NEW i \in 1 .. m - 1, wire'[i].src = "aux"
        PROVE  /\ wire'[i].part = 0 => wire'[i].sync
               /\ wire'[i].part # 2 => i < m - 1 /\ Follows(wire'[i], wire'[i + 1])
               /\ wire'[i].part # 0 /\ i > 1 => wire'[i - 1].src = "aux" /\ Follows(wire'[i - 1], wire'[i])
    <2>1. PICK k : k = i + 1
      OBVIOUS
    <2>2. k \in 1 .. m /\ k > 1 /\ wire'[i] = wire[k] /\ wire[k].src = "aux"
      BY <1>1, <1>2, <1>3, <2>1
    <2>3. /\ wire[k].part = 0 => wire[k].sync
          /\ wire[k].part # 2 => k < m /\ Follows(wire[k], wire[k + 1])
          /\ wire[k].part # 0 => wire[k - 1].src = "aux" /\ Follows(wire[k - 1], wire[k])
      BY <1>1, <2>2 DEF Packets, Aux
    <2>4. ASSUME k < m PROVE i < m - 1 /\ wire'[i + 1] = wire[k + 1]
      BY <1>1, <1>2, <2>1, <2>4
    <2>5. ASSUME i > 1 PROVE wire'[i - 1] = wire[k - 1]
      BY <1>1, <1>2, <2>1, <2>5
    <2> QED
      BY <2>2, <2>3, <2>4, <2>5
  <1> QED
    BY <1>2, <1>3, SMTT(30) DEF Packets, Aux, Follows

(* A byte of the keyboard taken changes nothing for the mouse. *)
LEMMA KeyTaken ==
    ASSUME wire \in Seq(Octet), wire # <<>>, wire' = Tail(wire), Packets, wire[1].src # "aux"
    PROVE  /\ InStep /\ Still => InStep'
           /\ Latest /\ Still => Latest'
  <1>1. PICK m \in Nat : m = Len(wire) /\ m >= 1
    BY TailFacts
  <1>2. Len(wire') = m - 1 /\ \A i \in 1 .. m - 1 : wire'[i] = wire[i + 1]
    BY <1>1, TailFacts
  <1>3. \A i \in 1 .. m : wire[i].src = "aux" => i - 1 \in 1 .. m - 1 /\ wire'[i - 1] = wire[i]
    BY <1>1, <1>2
  <1>4. ASSUME InStep, Still PROVE InStep'
    <2>1. mouse' = mouse /\ garbled' = garbled /\ mouse.got = <<>>
      BY <1>4 DEF Still, InStep, Aux
    <2>2. ASSUME wire' # <<>>, wire'[1].src = "aux" PROVE wire'[1].part # 1
      <3>1. 2 \in 1 .. m /\ wire'[1] = wire[2]
        <4>1. Len(wire') # 0
          BY <2>2, TailFacts
        <4> QED
          BY <1>1, <1>2, <4>1
      <3>2. wire[2].part # 0 => wire[1].src = "aux"
        <4>1. 2 - 1 = 1 /\ 2 > 1 /\ wire[2].src = "aux"
          BY <2>2, <3>1
        <4>2. wire[2].part # 0 => wire[2 - 1].src = "aux"
          BY <1>1, <3>1, <4>1 DEF Packets, Aux
        <4> QED
          BY <4>1, <4>2
      <3>3. PICK b : b = wire[2]
        OBVIOUS
      <3>4. b.part = 0
        BY <3>2, <3>3
      <3>5. b.part # 1
        BY <3>4
      <3> QED
        BY <3>1, <3>3, <3>5, Zenon
    <2> QED
      BY <1>4, <2>1, <2>2 DEF InStep, Aux
  <1>5. ASSUME Latest, Still PROVE Latest'
    <2>1. mouse' = mouse /\ buttons' = buttons /\ sent' = sent
      BY <1>5 DEF Still
    <2>2. ASSUME NEW i \in 1 .. m - 1, wire'[i].src = "aux",
                 \A j \in i + 1 .. m - 1 : wire'[j].src # "aux"
          PROVE  wire'[i].key = sent
      <3>1. PICK k : k = i + 1
        OBVIOUS
      <3>2. k \in 1 .. m /\ wire'[i] = wire[k]
        BY <1>1, <1>2, <3>1
      <3>3. ASSUME NEW j \in k + 1 .. m PROVE wire[j].src # "aux"
        <4>1. j - 1 \in i + 1 .. m - 1 /\ j - 1 \in 1 .. m - 1 /\ j - 1 + 1 = j
          BY <1>1, <3>1
        <4>2. wire'[j - 1] = wire[j]
          BY <1>2, <4>1
        <4> QED
          BY <2>2, <4>1, <4>2
      <3> QED
        BY <1>1, <1>5, <2>2, <3>2, <3>3 DEF Latest, Aux
    <2>3. ASSUME mouse.got = <<>>, \A i \in 1 .. m - 1 : wire'[i].src = "aux" => wire'[i].part = 2
          PROVE  mouse.last = sent
      <3>1. \A i \in 1 .. m : wire[i].src = "aux" => wire[i].part = 2
        BY <1>3, <2>3, ZenonT(40)
      <3> QED
        BY <1>1, <1>5, <2>3, <3>1 DEF Latest, Aux
    <2> QED
      BY <1>2, <1>5, <2>1, <2>2, <2>3 DEF Latest, Aux
  <1> QED
    BY <1>4, <1>5, Zenon

(* The same wire with three more bytes, a packet. *)
Triple(a, b, c, btn) ==
    /\ a.src = "aux" /\ a.part = 0 /\ a.key = btn /\ a.sync
    /\ b.src = "aux" /\ b.part = 1 /\ b.key = btn
    /\ c.src = "aux" /\ c.part = 2 /\ c.key = btn

(* A packet is put behind what is on the wire. *)
Grown ==
    /\ Len(wire) \in Nat /\ Len(wire') = Len(wire) + 3
    /\ wire' # <<>> /\ (wire = <<>> <=> Len(wire) = 0)
    /\ \A i \in 1 .. Len(wire) : wire'[i] = wire[i]
    /\ Triple(wire'[Len(wire) + 1], wire'[Len(wire) + 2], wire'[Len(wire) + 3], sent')
    /\ UNCHANGED <<mouse, garbled, buttons>>

(* Everything is as it was, and the new packet is the latest. *)
LEMMA PacketAtEnd ==
    ASSUME Packets, Grown
    PROVE  /\ Packets'
           /\ InStep => InStep'
           /\ Latest => Latest'
  <1>10. PICK m \in Nat : m = Len(wire)
    BY DEF Grown
  <1>11. PICK s : s = [i \in 1 .. 3 |-> wire'[m + i]]
    OBVIOUS
  <1>12. PICK btn : btn = sent'
    OBVIOUS
  <1>13. s[1] = wire'[m + 1] /\ s[2] = wire'[m + 2] /\ s[3] = wire'[m + 3]
    BY <1>11
  <1>14. Triple(s[1], s[2], s[3], btn)
    BY <1>10, <1>12, <1>13, Zenon DEF Grown
  <1>15. /\ s[1].src = "aux" /\ s[1].part = 0 /\ s[1].key = btn /\ s[1].sync
         /\ s[2].src = "aux" /\ s[2].part = 1 /\ s[2].key = btn
         /\ s[3].src = "aux" /\ s[3].part = 2 /\ s[3].key = btn
    BY <1>14 DEF Triple
  <1>16. /\ Len(wire') = m + 3 /\ wire' # <<>>
         /\ \A i \in 1 .. m : wire'[i] = wire[i]
         /\ UNCHANGED <<mouse, garbled, buttons>>
    BY <1>10 DEF Grown
  <1>17. (wire # <<>> => m >= 1) /\ (wire = <<>> => m = 0)
    BY <1>10 DEF Grown
  <1> USE <1>10, <1>12, <1>13, <1>15, <1>16, <1>17
  <1>1. ASSUME NEW i \in 1 .. m + 3, wire'[i].src = "aux"
         PROVE  /\ wire'[i].part = 0 => wire'[i].sync
                /\ wire'[i].part # 2 => i < m + 3 /\ Follows(wire'[i], wire'[i + 1])
                /\ wire'[i].part # 0 /\ i > 1 => wire'[i - 1].src = "aux" /\ Follows(wire'[i - 1], wire'[i])
    <2>1. CASE i \in 1 .. m
      <3>1. wire'[i] = wire[i] /\ wire[i].src = "aux"
        BY <1>1, <2>1
      <3>2. /\ wire[i].part = 0 => wire[i].sync
            /\ wire[i].part # 2 => i < m /\ Follows(wire[i], wire[i + 1])
            /\ wire[i].part # 0 /\ i > 1 => wire[i - 1].src = "aux" /\ Follows(wire[i - 1], wire[i])
        BY <2>1, <3>1 DEF Packets, Aux
      <3>3. ASSUME i < m PROVE wire'[i + 1] = wire[i + 1]
        BY <2>1, <3>3
      <3>4. ASSUME i > 1 PROVE wire'[i - 1] = wire[i - 1]
        BY <2>1, <3>4
      <3>5. i < m => i < m + 3
        OBVIOUS
      <3> QED
        BY <3>1, <3>2, <3>3, <3>4, <3>5
    <2>2. CASE i = m + 1
      <3>1. wire'[i + 1] = s[2]
        BY <2>2
      <3> QED
        BY <2>2, <3>1 DEF Follows
    <2>3. CASE i = m + 2
      <3>1. wire'[i + 1] = s[3] /\ wire'[i - 1] = s[1]
        BY <2>3
      <3> QED
        BY <2>3, <3>1 DEF Follows
    <2>4. CASE i = m + 3
      <3>1. wire'[i - 1] = s[2]
        BY <2>4
      <3> QED
        BY <2>4, <3>1 DEF Follows
    <2> QED
      BY <2>1, <2>2, <2>3, <2>4
  <1>2. Packets'
    BY <1>1 DEF Packets, Aux, Follows
  <1>3. ASSUME InStep PROVE InStep'
    <2>1. mouse' = mouse /\ garbled' = garbled
      OBVIOUS
    <2>2. ASSUME mouse.got # <<>> PROVE wire'[1] = wire[1]
      BY <1>3, <2>2 DEF InStep
    <2>3. ASSUME wire = <<>> PROVE wire'[1].part = 0
      <3>1. m + 1 = 1
        BY <2>3
      <3> QED
        BY <3>1
    <2>4. ASSUME wire # <<>> PROVE wire'[1] = wire[1]
      BY <2>4
    <2>5. ASSUME mouse.got = <<>>, wire'[1].src = "aux" PROVE wire'[1].part # 1
      BY <1>3, <2>3, <2>4, <2>5 DEF InStep, Aux
    <2> QED
      BY <1>3, <2>1, <2>2, <2>5 DEF InStep, Aux
  <1>4. ASSUME Latest PROVE Latest'
    <2>1. mouse' = mouse /\ buttons' = buttons /\ sent' = btn
      OBVIOUS
    <2>2. ASSUME NEW i \in 1 .. m + 3, \A j \in i + 1 .. m + 3 : wire'[j].src # "aux"
          PROVE  wire'[i].key = btn
      <3>1. ~ (m + 3 \in i + 1 .. m + 3)
        BY <2>2
      <3>2. i = m + 3
        BY <3>1
      <3> QED
        BY <3>2
    <2>3. ~ \A i \in 1 .. m + 3 : wire'[i].src = "aux" => wire'[i].part = 2
      <3>1. m + 1 \in 1 .. m + 3 /\ s[1].part # 2
        BY <1>4
      <3> QED
        BY <3>1
    <2> QED
      BY <1>4, <2>1, <2>2, <2>3 DEF Latest, Aux
  <1> QED
    BY <1>2, <1>3, <1>4

(* The three bytes the mouse sends. *)
Packet(btn, moved) ==
    [i \in 1 .. 3 |-> [src |-> "aux", part |-> i - 1, key |-> btn, sync |-> (i = 1 \/ moved)]]

(* What the proof needs to know of them. *)
IsPacket(s, btn) ==
    /\ s \in Seq(AuxByte) /\ Len(s) = 3
    /\ s[1].src = "aux" /\ s[1].part = 0 /\ s[1].key = btn /\ s[1].sync
    /\ s[2].src = "aux" /\ s[2].part = 1 /\ s[2].key = btn
    /\ s[3].src = "aux" /\ s[3].part = 2 /\ s[3].key = btn

(* They are a packet. *)
LEMMA PacketFacts ==
    ASSUME NEW btn \in {0, 1}, NEW moved \in BOOLEAN
    PROVE  IsPacket(Packet(btn, moved), btn)
  <1>1. PICK s : s = Packet(btn, moved)
    OBVIOUS
  <1>2. \A i \in 1 .. 3 : s[i].src = "aux" /\ s[i].part = i - 1 /\ s[i].key = btn
    BY <1>1, Zenon DEF Packet
  <1>3. s[1].sync
    <2>1. s[1].sync = (1 = 1 \/ moved) /\ 1 \in 1 .. 3
      BY <1>1 DEF Packet
    <2> QED
      BY <2>1
  <1>4. \A i \in 1 .. 3 : s[i] \in AuxByte
    BY <1>1 DEF Packet, AuxByte
  <1>5. s = [i \in 1 .. 3 |-> s[i]]
    BY <1>1 DEF Packet
  <1>6. s \in [1 .. 3 -> AuxByte]
    BY <1>4, <1>5
  <1>7. s \in Seq(AuxByte)
    BY <1>6, SeqDef
  <1>8. Len(s) = 3
    <2>1. Len(s) \in Nat /\ DOMAIN s = 1 .. Len(s) /\ DOMAIN s = 1 .. 3
      BY <1>6, <1>7, LenProperties
    <2>2. PICK n \in Nat : n = Len(s) /\ 1 .. n = 1 .. 3
      BY <2>1
    <2>3. 3 \in 1 .. n
      BY <2>2
    <2>4. n \in 1 .. n
      BY <2>3
    <2>5. n \in 1 .. 3
      BY <2>2, <2>4
    <2> QED
      BY <2>2, <2>3, <2>5
  <1>9. /\ s[1].src = "aux" /\ s[1].part = 0 /\ s[1].key = btn
        /\ s[2].src = "aux" /\ s[2].part = 1 /\ s[2].key = btn
        /\ s[3].src = "aux" /\ s[3].part = 2 /\ s[3].key = btn
    BY <1>2
  <1> QED
    BY <1>1, <1>3, <1>7, <1>8, <1>9 DEF IsPacket

(* A packet behind the others is a packet, and now the latest. *)
LEMMA PacketComes ==
    \A btn, s :
      /\ wire \in Seq(Octet) /\ Packets /\ IsPacket(s, btn) /\ wire' = wire \o s
      /\ sent' = btn /\ UNCHANGED <<mouse, garbled, buttons>>
      => /\ wire' \in Seq(Octet) /\ Packets'
         /\ InStep => InStep'
         /\ Latest => Latest'
  <1>1. SUFFICES ASSUME NEW btn, NEW s, wire \in Seq(Octet), Packets, IsPacket(s, btn),
                        wire' = wire \o s, sent' = btn, UNCHANGED <<mouse, garbled, buttons>>
                 PROVE  /\ wire' \in Seq(Octet) /\ Packets'
                        /\ InStep => InStep'
                        /\ Latest => Latest'
    OBVIOUS
  <1>2. s \in Seq(Octet) /\ Len(s) = 3
    BY <1>1, OctetFacts DEF IsPacket
  <1>3. PICK m : m = Len(wire)
    OBVIOUS
  <1>4. /\ wire' \in Seq(Octet) /\ m \in Nat /\ Len(wire') = m + Len(s)
        /\ \A i \in 1 .. m : wire'[i] = wire[i]
        /\ \A i \in 1 .. Len(s) : wire'[m + i] = s[i]
    <2>1. PICK v, w : v = wire /\ w = wire'
      OBVIOUS
    <2>2. v \in Seq(Octet) /\ s \in Seq(Octet) /\ w = v \o s
      BY <1>1, <1>2, <2>1
    <2>3. /\ w \in Seq(Octet) /\ Len(v) \in Nat /\ Len(w) = Len(v) + Len(s)
          /\ \A i \in 1 .. Len(v) : w[i] = v[i]
          /\ \A i \in 1 .. Len(s) : w[Len(v) + i] = s[i]
      BY <2>2
    <2> QED
      BY <1>3, <2>1, <2>3, Zenon
  <1>5. Len(wire') = m + 3
    BY <1>2, <1>4
  <1>6. wire'[m + 1] = s[1] /\ wire'[m + 2] = s[2] /\ wire'[m + 3] = s[3]
    <2>1. 1 \in 1 .. 3 /\ 2 \in 1 .. 3 /\ 3 \in 1 .. 3
      OBVIOUS
    <2> QED
      BY <1>2, <1>4, <2>1, Zenon
  <1>7. (wire # <<>> => m >= 1) /\ (wire = <<>> => m = 0)
    BY <1>1, <1>3
  <1>8. wire' # <<>>
    BY <1>4, <1>5
  <1>9. /\ s[1].src = "aux" /\ s[1].part = 0 /\ s[1].key = btn /\ s[1].sync
        /\ s[2].src = "aux" /\ s[2].part = 1 /\ s[2].key = btn
        /\ s[3].src = "aux" /\ s[3].part = 2 /\ s[3].key = btn
    BY <1>1 DEF IsPacket
  <1>10. Packets /\ sent' = btn /\ UNCHANGED <<mouse, garbled, buttons>>
    BY <1>1
  <1>11. Packets' /\ (InStep => InStep') /\ (Latest => Latest')
    <2>1. Triple(wire'[m + 1], wire'[m + 2], wire'[m + 3], sent')
      BY <1>6, <1>9, <1>10, Zenon DEF Triple
    <2>2. Grown
      <3>1. Triple(wire'[Len(wire) + 1], wire'[Len(wire) + 2], wire'[Len(wire) + 3], sent')
        BY <1>3, <2>1, Zenon
      <3>2. wire = <<>> <=> Len(wire) = 0
        BY <1>3, <1>4, <1>7
      <3> QED
        BY <1>3, <1>4, <1>5, <1>8, <1>10, <3>1, <3>2 DEF Grown
    <2> QED
      BY <1>10, <2>2, PacketAtEnd
  <1> QED
    BY <1>4, <1>11

-----------------------------------------------------------------------------
(* mouse_irq_handler. *)

(* What the latest byte says when the first one is taken off the wire. *)
Newest ==
    \A i \in 1 .. Len(wire) :
       Aux(i) /\ (\A j \in i + 1 .. Len(wire) : ~ Aux(j)) => wire[i].key = sent

(* The wire of m bytes has lost its first one. *)
Shifted(m) ==
    /\ m \in Nat /\ m = Len(wire) /\ m >= 1 /\ Len(wire') = m - 1
    /\ \A i \in 1 .. m - 1 : wire'[i] = wire[i + 1]
    /\ wire' # <<>> => m >= 2

(* Every byte the handler reads moves the others up by one. *)
LEMMA ShiftedFacts ==
    ASSUME wire \in Seq(Octet), wire # <<>>, wire' = Tail(wire)
    PROVE  \E m : Shifted(m)
  <1>1. wire' # <<>> => Len(wire') # 0
    OBVIOUS
  <1> QED
    BY <1>1, TailFacts DEF Shifted

(* The last byte of the mouse is still the last one. *)
LEMMA NewestMovesUp ==
    ASSUME NEW m, Shifted(m), Newest, sent' = sent
    PROVE  Newest'
  <1>1. ASSUME NEW i \in 1 .. m - 1, wire'[i].src = "aux",
               \A j \in i + 1 .. m - 1 : wire'[j].src # "aux"
        PROVE  wire'[i].key = sent
    <2>1. PICK k : k = i + 1
      OBVIOUS
    <2>2. k \in 1 .. m /\ wire'[i] = wire[k]
      BY <2>1 DEF Shifted
    <2>3. ASSUME NEW j \in k + 1 .. m PROVE wire[j].src # "aux"
      <3>1. j - 1 \in i + 1 .. m - 1 /\ j - 1 \in 1 .. m - 1 /\ j - 1 + 1 = j
        BY <2>1 DEF Shifted
      <3>2. wire'[j - 1] = wire[j]
        BY <3>1 DEF Shifted
      <3> QED
        BY <1>1, <3>1, <3>2
    <2> QED
      BY <1>1, <2>2, <2>3 DEF Newest, Aux, Shifted
  <1> QED
    BY <1>1 DEF Newest, Aux, Shifted

(* Behind the last byte of a packet starts a new one, if any. *)
LEMMA BehindLast ==
    ASSUME NEW m, Shifted(m), Packets, Aux(1), wire[1].part = 2
    PROVE  wire' # <<>> /\ wire'[1].src = "aux" => wire'[1].part # 1
  <1>1. SUFFICES ASSUME wire' # <<>>, wire'[1].src = "aux", wire'[1].part = 1 PROVE FALSE
    OBVIOUS
  <1>2. m \in Nat /\ m = Len(wire) /\ m >= 2 /\ wire'[1] = wire[2]
    <2>1. m >= 2 /\ 1 \in 1 .. m - 1
      BY <1>1 DEF Shifted
    <2> QED
      BY <2>1 DEF Shifted
  <1>3. 2 \in 1 .. Len(wire) /\ 2 > 1 /\ 2 - 1 = 1
    BY <1>2
  <1>4. Follows(wire[1], wire[2])
    <2>1. wire[2].part # 0 /\ wire[2].src = "aux"
      BY <1>1, <1>2
    <2>2. Follows(wire[2 - 1], wire[2])
      BY <1>3, <2>1 DEF Packets, Aux
    <2> QED
      BY <1>3, <2>2
  <1> QED
    BY <1>1, <1>2, <1>4 DEF Follows

(* Behind any other byte of a packet follows the next. *)
LEMMA BehindOther ==
    ASSUME NEW m, Shifted(m), Packets, Aux(1), wire[1].part # 2
    PROVE  wire' # <<>> /\ Follows(wire[1], wire'[1])
  <1>1. m \in Nat /\ m = Len(wire) /\ m >= 1 /\ 1 \in 1 .. m
    BY DEF Shifted
  <1>2. 1 < m /\ Follows(wire[1], wire[1 + 1])
    BY <1>1 DEF Packets
  <1>3. 1 + 1 = 2 /\ 1 \in 1 .. m - 1
    BY <1>1, <1>2
  <1>4. wire'[1] = wire[2]
    BY <1>3 DEF Shifted
  <1>5. wire' # <<>>
    <2>1. Len(wire') # 0
      BY <1>1, <1>2 DEF Shifted
    <2> QED
      BY <2>1
  <1> QED
    BY <1>2, <1>3, <1>4, <1>5

(* After the last byte of a packet, a wire with nothing but last bytes has  *)
(* none at all.                                                             *)
LEMMA NothingBehind ==
    ASSUME NEW m, Shifted(m), Packets, wire[1].part = 2,
           \A i \in 1 .. m - 1 : wire'[i].src = "aux" => wire'[i].part = 2
    PROVE  \A i \in 1 .. m - 1 : wire'[i].src # "aux"
  <1>1. SUFFICES ASSUME NEW i \in 1 .. m - 1, wire'[i].src = "aux" PROVE FALSE
    OBVIOUS
  <1>2. PICK k : k = i + 1
    OBVIOUS
  <1>3. k \in 1 .. Len(wire) /\ k > 1 /\ k - 1 = i /\ wire'[i] = wire[k] /\ m \in Nat
    BY <1>2 DEF Shifted
  <1>4. wire[k].src = "aux" /\ wire[k].part = 2
    BY <1>1, <1>3
  <1>5. wire[i].src = "aux" /\ Follows(wire[i], wire[k])
    <2>1. wire[k].part # 0
      BY <1>4
    <2>2. wire[k - 1].src = "aux" /\ Follows(wire[k - 1], wire[k])
      BY <1>3, <1>4, <2>1 DEF Packets, Aux
    <2> QED
      BY <1>3, <2>2
  <1>6. wire[i].part + 1 = 2
    BY <1>4, <1>5 DEF Follows
  <1>7. CASE i = 1
    <2>1. wire[1].part + 1 = 2
      BY <1>6, <1>7
    <2> QED
      BY <2>1
  <1>8. CASE i > 1
    <2>1. i - 1 \in 1 .. m - 1 /\ i - 1 + 1 = i
      BY <1>3, <1>8
    <2>2. wire'[i - 1] = wire[i]
      BY <2>1 DEF Shifted
    <2>3. wire[i].part = 2
      BY <1>5, <2>1, <2>2
    <2> QED
      BY <1>6, <2>3
  <1> QED
    BY <1>3, <1>7, <1>8

(* The record with one byte more. *)
LEMMA CollectFacts ==
    ASSUME NEW m \in MouseState, NEW b \in AuxByte
    PROVE  /\ Collect(m, b) \in MouseState
           /\ m.got = <<>> /\ ~ b.sync => Collect(m, b) = m
           /\ ~ (m.got = <<>> /\ ~ b.sync) =>
                /\ Collect(m, b).got = Append(m.got, b) /\ Collect(m, b).last = m.last
                /\ Collect(m, b).iev = m.iev
  <1>1. CASE m.got = <<>> /\ ~ b.sync
    BY <1>1 DEF Collect
  <1>2. CASE ~ (m.got = <<>> /\ ~ b.sync)
    <2>1. PICK g : g = Append(m.got, b)
      OBVIOUS
    <2>2. Collect(m, b) = [m EXCEPT !.got = g]
      BY <1>2, <2>1 DEF Collect
    <2>3. m.got \in Seq(AuxByte)
      BY DEF MouseState
    <2>4. g \in Seq(AuxByte)
      BY <2>1, <2>3
    <2>5. PICK c : c = [m EXCEPT !.got = g]
      OBVIOUS
    <2>6. c \in MouseState /\ c.got = g /\ c.last = m.last /\ c.iev = m.iev
      BY <2>4, <2>5 DEF MouseState
    <2> QED
      BY <1>2, <2>1, <2>2, <2>5, <2>6, Zenon
  <1> QED
    BY <1>1, <1>2

(* The events of a packet: at least one when a button changed. *)
LEMMA NewEventsFacts ==
    ASSUME NEW m \in MouseState, Len(m.got) = 3
    PROVE  /\ NewEvents(m) \in Seq(MouseEvent) /\ Len(NewEvents(m)) \in Nat
           /\ m.got[1].key # m.last => Len(NewEvents(m)) >= 1
           /\ m.got[1].key \in {0, 1}
  <1>1. PICK k : k = m.got[1].key
    OBVIOUS
  <1>2. k \in {0, 1}
    <2>1. m.got \in Seq(AuxByte)
      BY DEF MouseState
    <2>2. m.got[1] \in AuxByte
      BY <2>1
    <2> QED
      BY <1>1, <2>2, OctetFacts
  <1>3. PICK s : s = IF m.got[1].key # m.last THEN <<<<k, "button">>>> ELSE <<>>
    OBVIOUS
  <1>4. PICK t : t = IF m.got[2].sync THEN <<<<0, "motion">>>> ELSE <<>>
    OBVIOUS
  <1>5. NewEvents(m) = s \o t
    BY <1>1, <1>3, <1>4 DEF NewEvents
  <1>6. <<k, "button">> \in MouseEvent /\ <<0, "motion">> \in MouseEvent
    BY <1>2 DEF MouseEvent
  <1>7. s \in Seq(MouseEvent) /\ (m.got[1].key # m.last => Len(s) = 1)
    <2>1. CASE m.got[1].key # m.last
      <3>1. s = <<<<k, "button">>>>
        BY <1>3, <2>1
      <3> HIDE DEF MouseEvent
      <3> QED
        BY <1>6, <3>1
    <2>2. CASE m.got[1].key = m.last
      <3>1. s = <<>>
        BY <1>3, <2>2
      <3> QED
        BY <2>2, <3>1
    <2> QED
      BY <2>1, <2>2
  <1>8. t \in Seq(MouseEvent)
    <2>1. PICK e : e = <<0, "motion">> /\ e \in MouseEvent
      BY <1>6
    <2>2. t = <<e>> \/ t = <<>>
      BY <1>4, <2>1
    <2>3. <<e>> \in Seq(MouseEvent) /\ <<>> \in Seq(MouseEvent)
      BY <2>1
    <2> QED
      BY <2>2, <2>3, Zenon
  <1>9. s \o t \in Seq(MouseEvent) /\ Len(s \o t) = Len(s) + Len(t) /\ Len(s) \in Nat /\ Len(t) \in Nat
    BY <1>7, <1>8
  <1>10. PICK n : n = Len(s \o t)
    OBVIOUS
  <1>11. n \in Nat /\ (m.got[1].key # m.last => n >= 1)
    <2>1. PICK x \in Nat, y \in Nat : x = Len(s) /\ y = Len(t) /\ n = x + y
      BY <1>9, <1>10, Zenon
    <2>2. m.got[1].key # m.last => x = 1
      BY <1>7, <2>1, Zenon
    <2> QED
      BY <2>1, <2>2
  <1>12. n = Len(NewEvents(m)) /\ NewEvents(m) \in Seq(MouseEvent) /\ m.got[1].key \in {0, 1}
    BY <1>1, <1>2, <1>5, <1>9, <1>10, Zenon
  <1> QED
    BY <1>11, <1>12, Zenon

(* What a whole packet leaves. *)
LEMMA PacketEventsFacts ==
    ASSUME NEW m \in MouseState, Len(m.got) = 3
    PROVE  /\ PacketEvents(m) \in MouseState
           /\ PacketEvents(m).got = <<>> /\ PacketEvents(m).last = m.got[1].key
  <1>1. m.got[1].key \in {0, 1} /\ NewEvents(m) \in Seq(MouseEvent)
    BY NewEventsFacts
  <1>2. PICK v, n : v = m.iev \o NewEvents(m) /\ n = IF Len(v) < IevCap THEN Len(v) ELSE IevCap
    OBVIOUS
  <1>3. v \in Seq(MouseEvent) /\ Len(v) \in Nat
    BY <1>1, <1>2 DEF MouseState
  <1>4. n \in Nat /\ n <= Len(v)
    BY <1>2, <1>3, CapAssumption
  <1>5. SubSeq(v, 1, n) \in Seq(MouseEvent)
    <2>1. CASE n = 0
      <3>1. SubSeq(v, 1, n) = <<>>
        BY <1>3, <1>4, <2>1, SubSeqEmpty
      <3>2. <<>> \in Seq(MouseEvent)
        BY EmptySeq
      <3> QED
        BY <3>1, <3>2, Zenon
    <2>2. CASE n >= 1
      <3>1. 1 \in 1 .. Len(v) + 1 /\ n \in 0 .. Len(v)
        BY <1>3, <1>4, <2>2
      <3>2. \A i \in 1 .. n : v[i] \in MouseEvent
        BY <1>3, <1>4
      <3> QED
        BY <1>3, <1>4, <2>2, <3>1, <3>2, SubSeqProperties
    <2> QED
      BY <1>4, <2>1, <2>2
  <1>6. Cut(m.iev \o NewEvents(m)) = SubSeq(v, 1, n)
    BY <1>2 DEF Cut
  <1>7. PICK w : w = Cut(m.iev \o NewEvents(m)) /\ w \in Seq(MouseEvent)
    BY <1>5, <1>6
  <1>8. PICK k : k = m.got[1].key /\ k \in {0, 1}
    BY <1>1
  <1>9. PacketEvents(m) = [m EXCEPT !.iev = w, !.last = k, !.got = <<>>,
                                    !.pkt = IF Len(@) < EvCap THEN Append(@, k) ELSE @]
    BY <1>7, <1>8 DEF PacketEvents
  <1>10. m.pkt \in Seq({0, 1})
    BY DEF MouseState
  <1>11. PICK q : q = (IF Len(m.pkt) < EvCap THEN Append(m.pkt, k) ELSE m.pkt) /\ q \in Seq({0, 1})
    <2>1. Append(m.pkt, k) \in Seq({0, 1})
      BY <1>8, <1>10
    <2> QED
      BY <1>10, <2>1, Zenon
  <1>12. PacketEvents(m) = [m EXCEPT !.iev = w, !.last = k, !.got = <<>>, !.pkt = q]
    BY <1>9, <1>11
  <1>13. <<>> \in Seq(AuxByte)
    BY EmptySeq
  <1>14. PICK g : g = <<>> /\ g \in Seq(AuxByte)
    BY <1>13
  <1>15. PICK e : e = [m EXCEPT !.iev = w, !.last = k, !.got = g, !.pkt = q]
    OBVIOUS
  <1>16. e \in MouseState /\ e.got = g /\ e.last = k
    BY <1>7, <1>8, <1>11, <1>14, <1>15 DEF MouseState
  <1>17. PacketEvents(m) = e
    BY <1>12, <1>14, <1>15, Zenon
  <1> QED
    BY <1>8, <1>14, <1>16, <1>17, Zenon

(* What MouseIrq does, with its local values. *)
Takes(b, c) ==
    /\ wire # <<>> /\ wire' = Tail(wire) /\ b = wire[1] /\ b \in AuxByte
    /\ c = Collect(mouse, b) /\ c \in MouseState
    /\ mouse' = IF Len(c.got) = 3 THEN PacketEvents(c) ELSE c
    /\ garbled' = (garbled \/ (Len(c.got) = 3 /\ \E i \in 1 .. 3 : c.got[i].part # i - 1))
    /\ buttons' = IF Len(c.got) = 3 /\ c.got[1].key # mouse.last /\ Len(mouse.iev) < IevCap
                  THEN c.got[1].key ELSE buttons
    /\ hole' = IF Len(c.got) = 3 /\ Len(mouse.iev) + Len(NewEvents(c)) > IevCap
               THEN Broken("overflow")
               ELSE IF b.part # 0 /\ b.sync /\ mouse.got = <<>> THEN Broken("sync") ELSE hole
    /\ sent' = sent

(* mouse_irq_handler in that form. *)
LEMMA MouseTakes ==
    ASSUME Types, MouseIrq
    PROVE  \E b, c : Takes(b, c)
  <1>1. wire # <<>> /\ wire' = Tail(wire) /\ Head(wire).src = "aux"
    BY DEF MouseIrq
  <1>2. Head(wire) = wire[1] /\ wire[1] \in Octet
    BY <1>1, TailFacts DEF Types
  <1>3. PICK b : b = wire[1] /\ b = Head(wire) /\ b \in AuxByte
    BY <1>1, <1>2, OctetFacts
  <1>4. mouse \in MouseState
    BY DEF Types, MouseState
  <1>5. PICK c : c = Collect(mouse, b) /\ c \in MouseState
    BY <1>3, <1>4, CollectFacts
  <1>6. Takes(b, c)
    BY <1>1, <1>3, <1>5 DEF Takes, MouseIrq
  <1> QED
    BY <1>6

(* The types after it. *)
LEMMA MouseTypes ==
    ASSUME Types, NEW b, NEW c, Takes(b, c)
    PROVE  wire' \in Seq(Octet) /\ mouse' \in MouseState /\ garbled' \in BOOLEAN
  <1>1. wire' \in Seq(Octet)
    BY TailFacts DEF Takes, Types
  <1>2. mouse' \in MouseState
    BY PacketEventsFacts DEF Takes
  <1>3. garbled' \in BOOLEAN
    BY DEF Takes, Types
  <1> QED
    BY <1>1, <1>2, <1>3

(* A first byte that is none is passed over: it is the rest of a packet. *)
LEMMA SkipKeeps ==
    ASSUME Types, Packets, InStep, Latest, NEW b, NEW c, Takes(b, c), mouse.got = <<>>, ~ b.sync
    PROVE  InStep' /\ Latest'
  <1>1. PICK m : Shifted(m)
    BY ShiftedFacts DEF Takes, Types
  <1>2. c = mouse /\ mouse \in MouseState
    BY CollectFacts DEF Takes, Types, MouseState
  <1>3. Len(c.got) = 0 /\ Len(c.got) # 3
    BY <1>2
  <1>4. mouse' = mouse
    BY <1>2, <1>3 DEF Takes
  <1>5. garbled' = garbled /\ buttons' = buttons /\ sent' = sent
    BY <1>3 DEF Takes, Types
  <1>6. Aux(1) /\ wire[1].part = 2
    <2>1. b.src = "aux" /\ b.part \in 0 .. 2 /\ b = wire[1] /\ wire # <<>>
      BY OctetFacts DEF Takes
    <2>2. b.part # 0
      <3>1. 1 \in 1 .. Len(wire)
        BY <1>1 DEF Shifted
      <3> QED
        BY <2>1, <3>1 DEF Packets, Aux
    <2>3. b.part # 1
      BY <2>1 DEF InStep, Aux
    <2> QED
      BY <2>1, <2>2, <2>3 DEF Aux
  <1>7. InStep'
    <2>1. wire' # <<>> /\ wire'[1].src = "aux" => wire'[1].part # 1
      BY <1>1, <1>6, BehindLast
    <2> QED
      BY <1>4, <1>5, <2>1 DEF InStep, Aux
  <1>8. Newest'
    BY <1>1, <1>5, NewestMovesUp DEF Latest, Newest
  <1>9. ASSUME \A i \in 1 .. m - 1 : wire'[i].src = "aux" => wire'[i].part = 2
        PROVE  mouse.last = sent
    <2>1. ASSUME NEW i \in 1 .. m, wire[i].src = "aux" PROVE wire[i].part = 2
      <3>1. CASE i = 1
        BY <1>6, <3>1
      <3>2. CASE i # 1
        <4>1. i - 1 \in 1 .. m - 1 /\ i - 1 + 1 = i
          BY <1>1, <3>2 DEF Shifted
        <4>2. wire'[i - 1] = wire[i]
          BY <1>1, <4>1 DEF Shifted
        <4> QED
          BY <1>9, <2>1, <4>1, <4>2
      <3> QED
        BY <3>1, <3>2
    <2>2. m = Len(wire)
      BY <1>1 DEF Shifted
    <2> QED
      BY <2>1, <2>2 DEF Latest, Aux
  <1>10. Latest'
    <2>1. Len(wire') = m - 1
      BY <1>1 DEF Shifted
    <2> QED
      BY <1>4, <1>5, <1>8, <1>9, <2>1 DEF Latest, Newest, Aux
  <1> QED
    BY <1>7, <1>10

(* A byte that is taken is the next of its packet, unless the driver took a *)
(* movement for a first byte.                                               *)
LEMMA TakenIsNext ==
    ASSUME Types, Packets, InStep, NEW b, NEW c, Takes(b, c), ~ (mouse.got = <<>> /\ ~ b.sync),
           hole' = "none"
    PROVE  /\ Aux(1) /\ b = wire[1] /\ b.part = Len(mouse.got) /\ Len(mouse.got) \in 0 .. 2
           /\ c.got = Append(mouse.got, b) /\ c.last = mouse.last /\ c.iev = mouse.iev
           /\ mouse.got \in Seq(AuxByte)
           /\ Len(c.got) = Len(mouse.got) + 1
           /\ \A i \in 1 .. Len(c.got) : c.got[i].part = i - 1
           /\ c.got[1].key = b.key
  <1>1. mouse \in MouseState
    BY DEF Types, MouseState
  <1>2. mouse.got \in Seq(AuxByte)
    BY <1>1 DEF MouseState
  <1>3. b \in AuxByte /\ b = wire[1] /\ wire # <<>> /\ b.src = "aux" /\ c = Collect(mouse, b)
    BY OctetFacts DEF Takes
  <1>4. c.got = Append(mouse.got, b) /\ c.last = mouse.last /\ c.iev = mouse.iev
    BY <1>1, <1>3, CollectFacts
  <1>5. PICK g, n : g = mouse.got /\ n = Len(g) /\ n \in Nat /\ g \in Seq(AuxByte)
    BY <1>2
  <1>6. n <= 2
    BY <1>5 DEF InStep
  <1>7. PICK h : h = Append(g, b)
    OBVIOUS
  <1>8. Len(h) = n + 1 /\ h[n + 1] = b /\ \A i \in 1 .. n : h[i] = g[i]
    BY <1>3, <1>5, <1>7
  <1>9. b.part = n /\ h[1].key = b.key
    <2>1. CASE g = <<>>
      <3>1. n = 0
        BY <1>5, <2>1
      <3>2. b.sync
        BY <1>5, <2>1
      <3>3. b.part = 0
        <4>1. SUFFICES ASSUME b.part # 0 PROVE FALSE
          OBVIOUS
        <4>2. hole' = Broken("overflow") \/ hole' = Broken("sync")
          BY <1>5, <2>1, <3>2, <4>1 DEF Takes
        <4> QED
          BY <4>2, BrokenFacts
      <3>4. h[1] = b
        BY <1>8, <3>1
      <3> QED
        BY <3>1, <3>3, <3>4
    <2>2. CASE g # <<>>
      <3>1. wire[1].part = n /\ wire[1].key = g[1].key
        BY <1>5, <2>2 DEF InStep
      <3>2. 1 \in 1 .. n
        BY <1>5, <2>2
      <3>3. h[1] = g[1]
        BY <1>8, <3>2
      <3> QED
        BY <1>3, <3>1, <3>3
    <2> QED
      BY <2>1, <2>2
  <1>10. ASSUME NEW i \in 1 .. n + 1 PROVE h[i].part = i - 1
    <2>1. CASE i \in 1 .. n
      <3>1. g[i].part = i - 1
        BY <1>5, <2>1 DEF InStep
      <3> QED
        BY <1>8, <2>1, <3>1
    <2>2. CASE i = n + 1
      <3>1. h[i].part = n
        BY <1>8, <1>9, <2>2, Zenon
      <3> QED
        BY <1>5, <2>2, <3>1
    <2> QED
      BY <1>5, <2>1, <2>2
  <1>11. c.got = h
    BY <1>4, <1>5, <1>7
  <1>12. /\ b.part = Len(mouse.got) /\ Len(mouse.got) \in 0 .. 2
         /\ Len(c.got) = Len(mouse.got) + 1
    <2>0. n \in Nat
      BY <1>5, Zenon
    <2>1. n \in 0 .. 2
      BY <1>6, <2>0
    <2> QED
      BY <1>5, <1>8, <1>9, <1>11, <2>1, Zenon
  <1>13. \A i \in 1 .. Len(c.got) : c.got[i].part = i - 1
    BY <1>8, <1>10, <1>11, Zenon
  <1>14. c.got[1].key = b.key
    BY <1>9, <1>11, Zenon
  <1> QED
    BY <1>2, <1>3, <1>4, <1>12, <1>13, <1>14 DEF Aux

(* The first and the second byte of a packet. *)
LEMMA BeginKeeps ==
    ASSUME Types, Packets, InStep, Latest, NEW b, NEW c, Takes(b, c), ~ (mouse.got = <<>> /\ ~ b.sync),
           hole' = "none", Len(mouse.got) # 2
    PROVE  InStep' /\ Latest'
  <1>1. PICK m : Shifted(m)
    BY ShiftedFacts DEF Takes, Types
  <1>2. /\ Aux(1) /\ b = wire[1] /\ b.part = Len(mouse.got) /\ Len(mouse.got) \in 0 .. 2
        /\ Len(c.got) = Len(mouse.got) + 1 /\ c.last = mouse.last
        /\ \A i \in 1 .. Len(c.got) : c.got[i].part = i - 1
        /\ c.got[1].key = b.key
    BY TakenIsNext
  <1>3. Len(c.got) # 3 /\ Len(c.got) <= 2 /\ b.part # 2 /\ Len(c.got) = b.part + 1 /\ Len(c.got) # 0
    <2>1. PICK n, k : n = Len(mouse.got) /\ k = Len(c.got)
      OBVIOUS
    <2>2. n \in 0 .. 2 /\ n # 2 /\ k = n + 1 /\ b.part = n
      BY <1>2, <2>1, Zenon
    <2>3. k # 3 /\ k <= 2 /\ b.part # 2 /\ k = b.part + 1 /\ k # 0
      BY <2>2
    <2> QED
      BY <2>1, <2>3, Zenon
  <1>4. mouse' = c
    BY <1>3 DEF Takes
  <1>5. garbled' = garbled /\ buttons' = buttons /\ sent' = sent
    BY <1>3 DEF Takes, Types
  <1>6. wire' # <<>> /\ Follows(b, wire'[1])
    BY <1>1, <1>2, <1>3, BehindOther
  <1>7. c.got # <<>>
    BY <1>3
  <1>8. wire'[1].src = "aux" /\ wire'[1].part = Len(c.got) /\ wire'[1].key = c.got[1].key
    BY <1>2, <1>3, <1>6 DEF Follows
  <1>9. InStep'
    BY <1>2, <1>3, <1>4, <1>5, <1>6, <1>7, <1>8 DEF InStep, Aux
  <1>10. Newest'
    BY <1>1, <1>5, NewestMovesUp DEF Latest, Newest
  <1>11. Latest'
    BY <1>2, <1>4, <1>5, <1>7, <1>10 DEF Latest, Newest, Aux
  <1> QED
    BY <1>9, <1>11

(* The third byte: the packet is whole and its buttons are reported. *)
LEMMA FinishKeeps ==
    ASSUME Types, Packets, InStep, Latest, NEW b, NEW c, Takes(b, c), ~ (mouse.got = <<>> /\ ~ b.sync),
           hole' = "none", Len(mouse.got) = 2
    PROVE  InStep' /\ Latest'
  <1>1. PICK m : Shifted(m)
    BY ShiftedFacts DEF Takes, Types
  <1>2. /\ Aux(1) /\ b = wire[1] /\ b.part = 2
        /\ Len(c.got) = 3 /\ c.last = mouse.last /\ c.iev = mouse.iev
        /\ \A i \in 1 .. Len(c.got) : c.got[i].part = i - 1
        /\ c.got[1].key = b.key
    <2>1. /\ Aux(1) /\ b = wire[1] /\ b.part = Len(mouse.got)
          /\ c.last = mouse.last /\ c.iev = mouse.iev
          /\ Len(c.got) = Len(mouse.got) + 1
          /\ \A i \in 1 .. Len(c.got) : c.got[i].part = i - 1
          /\ c.got[1].key = b.key
      BY TakenIsNext, Zenon
    <2>2. b.part = 2 /\ Len(c.got) = 3
      BY <2>1
    <2> QED
      BY <2>1, <2>2, Zenon
  <1>3. c \in MouseState /\ mouse' = PacketEvents(c)
    BY <1>2 DEF Takes
  <1>4. mouse'.got = <<>> /\ mouse'.last = b.key
    BY <1>2, <1>3, PacketEventsFacts
  <1>5. garbled' = garbled /\ sent' = sent
    BY <1>2 DEF Takes, Types
  <1>6. buttons' = b.key
    <2>1. PICK n \in Nat : n = Len(NewEvents(c)) /\ (c.got[1].key # c.last => n >= 1)
      BY <1>2, <1>3, NewEventsFacts
    <2>2. PICK k \in Nat : k = Len(mouse.iev)
      <3>1. mouse.iev \in Seq(MouseEvent)
        BY DEF Types, MouseState
      <3> QED
        BY <3>1
    <2>3. ~ (k + n > IevCap)
      <3>1. k + n > IevCap => hole' = Broken("overflow")
        BY <1>2, <2>1, <2>2 DEF Takes
      <3> QED
        BY <3>1, BrokenFacts
    <2>4. CASE b.key # mouse.last
      <3>1. n >= 1
        BY <1>2, <2>1, <2>4
      <3>2. k < IevCap
        BY <2>3, <3>1, CapAssumption
      <3> QED
        BY <1>2, <2>2, <2>4, <3>2 DEF Takes
    <2>5. CASE b.key = mouse.last
      <3>1. buttons' = buttons
        BY <1>2, <2>5 DEF Takes
      <3> QED
        BY <2>5, <3>1 DEF Latest
    <2> QED
      BY <2>4, <2>5
  <1>7. InStep'
    <2>1. wire' # <<>> /\ wire'[1].src = "aux" => wire'[1].part # 1
      BY <1>1, <1>2, BehindLast
    <2>2. Len(mouse'.got) = 0
      BY <1>4
    <2>3. ~ garbled'
      BY <1>5 DEF InStep
    <2> QED
      BY <1>4, <2>1, <2>2, <2>3 DEF InStep, Aux
  <1>8. Newest'
    BY <1>1, <1>5, NewestMovesUp DEF Latest, Newest
  <1>9. ASSUME \A i \in 1 .. m - 1 : wire'[i].src = "aux" => wire'[i].part = 2
        PROVE  b.key = sent
    <2>1. \A i \in 1 .. m - 1 : wire'[i].src # "aux"
      BY <1>1, <1>2, <1>9, NothingBehind
    <2>2. ASSUME NEW j \in 2 .. m PROVE wire[j].src # "aux"
      <3>1. j - 1 \in 1 .. m - 1 /\ j - 1 + 1 = j
        BY <1>1 DEF Shifted
      <3>2. wire'[j - 1] = wire[j]
        BY <1>1, <3>1 DEF Shifted
      <3> QED
        BY <2>1, <3>1, <3>2
    <2>3. m = Len(wire) /\ 1 \in 1 .. m /\ 1 + 1 = 2
      BY <1>1 DEF Shifted
    <2>4. wire[1].key = sent
      BY <1>2, <2>2, <2>3 DEF Latest, Aux
    <2> QED
      BY <1>2, <2>4
  <1>10. Latest'
    <2>1. Len(wire') = m - 1
      BY <1>1 DEF Shifted
    <2> QED
      BY <1>4, <1>5, <1>6, <1>8, <1>9, <2>1 DEF Latest, Newest, Aux
  <1> QED
    BY <1>7, <1>10

(* mouse_irq_handler keeps the driver in step, unless it meets a hole. *)
LEMMA MouseIrqKeeps ==
    ASSUME Types, Packets, hole = "none" => InStep /\ Latest, MouseIrq
    PROVE  /\ wire' \in Seq(Octet) /\ mouse' \in MouseState /\ garbled' \in BOOLEAN
           /\ Packets' /\ (hole' = "none" => InStep' /\ Latest')
  <1>1. PICK b, c : Takes(b, c)
    BY MouseTakes
  <1>2. wire' \in Seq(Octet) /\ mouse' \in MouseState /\ garbled' \in BOOLEAN
    BY <1>1, MouseTypes
  <1>3. Packets'
    BY <1>1, PacketsMoveUp DEF Takes, Types
  <1>4. ASSUME hole' = "none" PROVE InStep' /\ Latest'
    <2>1. hole = "none"
      BY <1>1, <1>4, BrokenFacts DEF Takes
    <2>2. InStep /\ Latest
      BY <2>1
    <2>3. CASE mouse.got = <<>> /\ ~ b.sync
      BY <1>1, <2>2, <2>3, SkipKeeps
    <2>4. CASE ~ (mouse.got = <<>> /\ ~ b.sync) /\ Len(mouse.got) # 2
      BY <1>1, <1>4, <2>2, <2>4, BeginKeeps
    <2>5. CASE ~ (mouse.got = <<>> /\ ~ b.sync) /\ Len(mouse.got) = 2
      BY <1>1, <1>4, <2>2, <2>5, FinishKeeps
    <2> QED
      BY <2>3, <2>4, <2>5
  <1> QED
    BY <1>2, <1>3, <1>4

-----------------------------------------------------------------------------
(* The bytes of a key stroke. *)
LEMMA BytesFacts ==
    ASSUME NEW k \in Keys, NEW part \in {"up", "down"}
    PROVE  Bytes(k, part) \in Seq(KeyByte)
  <1>0. \A p \in {"e0", "up", "down"}, x \in BOOLEAN :
          [src |-> "kbd", part |-> p, key |-> k, sync |-> x] \in KeyByte
    BY DEF KeyByte
  <1>1. PICK a : a = [src |-> "kbd", part |-> "e0", key |-> k, sync |-> FALSE] /\ a \in KeyByte
    BY <1>0, Zenon
  <1>2. PICK b : b = [src |-> "kbd", part |-> part, key |-> k, sync |-> FALSE] /\ b \in KeyByte
    BY <1>0, Zenon
  <1>3. PICK s, t : s = (IF k \in Extended THEN <<a>> ELSE <<>>) /\ t = <<b>>
    OBVIOUS
  <1>4. Bytes(k, part) = s \o t
    BY <1>1, <1>2, <1>3, Zenon DEF Bytes
  <1>5. a \in KeyByte /\ b \in KeyByte
    BY <1>1, <1>2
  <1>6. <<a>> \in Seq(KeyByte) /\ <<b>> \in Seq(KeyByte) /\ <<>> \in Seq(KeyByte)
    BY <1>5
  <1>7. s \in Seq(KeyByte) /\ t \in Seq(KeyByte)
    BY <1>3, <1>6, Zenon
  <1>8. s \o t \in Seq(KeyByte)
    BY <1>7
  <1> QED
    BY <1>4, <1>8, Zenon

(* What a step does to the wire and the mouse driver's state. *)
Tracks ==
    /\ wire' \in Seq(Octet) /\ mouse' \in MouseState /\ garbled' \in BOOLEAN
    /\ Packets' /\ (hole' = "none" => InStep' /\ Latest')

(* A key stroke and a movement. *)
LEMMA InputTracks ==
    ASSUME Types, Packets, hole = "none" => InStep /\ Latest,
           (\E k \in Keys : Press(k) \/ Release(k)) \/ \E btn \in {0, 1}, moved \in BOOLEAN : Move(btn, moved)
    PROVE  Tracks
  <1>1. wire \in Seq(Octet) /\ mouse \in MouseState /\ garbled \in BOOLEAN
    BY DEF Types
  <1>2. ASSUME NEW k \in Keys, Press(k) \/ Release(k) PROVE Tracks
    <2>1. PICK part \in {"up", "down"} : wire' = wire \o Bytes(k, part)
      BY <1>2 DEF Press, Release
    <2>2. Still /\ mouse' = mouse /\ garbled' = garbled
      BY <1>2 DEF Press, Release, Still
    <2>3. hole' = "none" => hole = "none"
      BY <1>2, BrokenFacts DEF Press, Release
    <2>4. PICK s \in Seq(KeyByte) : wire' = wire \o s
      BY <2>1, BytesFacts
    <2>5. wire' \in Seq(Octet) /\ Packets' /\ (InStep => InStep') /\ (Latest => Latest')
      BY <1>1, <2>2, <2>4, KeysCome
    <2> QED
      BY <1>1, <2>2, <2>3, <2>5 DEF Tracks
  <1>3. ASSUME NEW btn \in {0, 1}, NEW moved \in BOOLEAN, Move(btn, moved) PROVE Tracks
    <2>1. wire' = wire \o Packet(btn, moved)
      BY <1>3, Zenon DEF Move, Packet
    <2>2. IsPacket(Packet(btn, moved), btn)
      BY PacketFacts
    <2>3. sent' = btn /\ UNCHANGED <<mouse, garbled, buttons>> /\ hole' = hole
      BY <1>3 DEF Move
    <2>4. wire' \in Seq(Octet) /\ Packets' /\ (InStep => InStep') /\ (Latest => Latest')
      BY <1>1, <2>1, <2>2, <2>3, PacketComes
    <2> QED
      BY <1>1, <2>3, <2>4 DEF Tracks
  <1> QED
    BY <1>2, <1>3

(* A byte of the keyboard, taken by the handler or by kb_poll. *)
LEMMA KeyTracks ==
    ASSUME Types, Packets, hole = "none" => InStep /\ Latest, NEW polled,
           wire # <<>>, Head(wire).src = "kbd", Apply(Scancode(Head(wire), polled)), wire' = Tail(wire), Still
    PROVE  Tracks
  <1>1. wire \in Seq(Octet) /\ mouse' \in MouseState /\ garbled' \in BOOLEAN
    BY DEF Types, Still
  <1>2. Head(wire) = wire[1] /\ wire[1] \in Octet /\ wire' \in Seq(Octet)
    BY <1>1, TailFacts
  <1>3. Head(wire) \in KeyByte /\ wire[1].src # "aux"
    BY <1>2, OctetFacts
  <1>4. hole' = "none" => hole = "none"
    BY <1>3, ScancodeKeeps DEF Apply
  <1>5. Packets'
    BY <1>1, PacketsMoveUp
  <1>6. (InStep => InStep') /\ (Latest => Latest')
    BY <1>1, <1>3, KeyTaken
  <1> QED
    BY <1>1, <1>2, <1>4, <1>5, <1>6 DEF Tracks

(* A step that leaves wire and mouse alone, but for the queues that are read. *)
LEMMA IdleTracks ==
    ASSUME Types, Packets, hole = "none" => InStep /\ Latest,
           UNCHANGED <<wire, garbled, buttons, sent>>, mouse' \in MouseState,
           mouse'.got = mouse.got, mouse'.last = mouse.last, hole' = "none" => hole = "none"
    PROVE  Tracks
  <1>1. Packets'
    BY DEF Packets, Aux
  <1>2. InStep => InStep'
    BY DEF InStep, Aux
  <1>3. Latest => Latest'
    BY DEF Latest, Aux
  <1> QED
    BY <1>1, <1>2, <1>3 DEF Tracks, Types

(* Every step. *)
LEMMA NextTracks ==
    ASSUME Types, Packets, hole = "none" => InStep /\ Latest, [Next]_vars
    PROVE  Tracks
  <1>1. mouse \in MouseState /\ <<>> \in Seq(MouseEvent) /\ <<>> \in Seq({0, 1})
    BY DEF Types
  <1>2. CASE (\E k \in Keys : Press(k) \/ Release(k)) \/ \E btn \in {0, 1}, moved \in BOOLEAN : Move(btn, moved)
    BY <1>2, InputTracks
  <1>3. CASE KeyboardIrq
    <2>1. /\ wire # <<>> /\ Head(wire).src = "kbd" /\ Apply(Scancode(Head(wire), FALSE))
          /\ wire' = Tail(wire) /\ Still
      BY <1>3 DEF KeyboardIrq, Still
    <2> QED
      BY <2>1, KeyTracks
  <1>4. CASE MouseIrq
    BY <1>4, MouseIrqKeeps DEF Tracks
  <1>5. CASE ReadMouse
    <2>1. PICK u, v : u = <<>> /\ v = <<>> /\ u \in Seq(MouseEvent) /\ v \in Seq({0, 1})
      BY <1>1
    <2>2. mouse' = [mouse EXCEPT !.iev = u, !.pkt = v]
      BY <1>5, <2>1, Zenon DEF ReadMouse
    <2>3. mouse' \in MouseState /\ mouse'.got = mouse.got /\ mouse'.last = mouse.last
      BY <1>1, <2>1, <2>2 DEF MouseState
    <2> QED
      BY <1>5, <2>3, IdleTracks DEF ReadMouse, ghosts
  <1>6. ASSUME NEW p \in Readers, PollData(p) PROVE Tracks
    <2>1. CASE wire = <<>> \/ Head(wire).src # "kbd" \/ Len(wire) < reader[p].saw
      <3>1. hole' = Broken("reread") /\ UNCHANGED <<wire, mouse, garbled, buttons, sent>>
        BY <1>6, <2>1 DEF PollData
      <3> QED
        BY <1>1, <3>1, BrokenFacts, IdleTracks
    <2>2. CASE ~ (wire = <<>> \/ Head(wire).src # "kbd" \/ Len(wire) < reader[p].saw)
      <3>1. /\ wire # <<>> /\ Head(wire).src = "kbd" /\ Apply(Scancode(Head(wire), TRUE))
            /\ wire' = Tail(wire) /\ Still
        BY <1>6, <2>2 DEF PollData, Still
      <3> QED
        BY <3>1, KeyTracks
    <2> QED
      BY <2>1, <2>2
  <1>7. ASSUME NEW p \in Readers, Repeat(p) PROVE Tracks
    <2>1. IsDriver(Driver) /\ Driver.hole = hole
      BY DEF IsDriver, Driver
    <2>2. \E c : hole' = PushEvent(Driver, c, 2).hole
      BY <1>7 DEF Repeat
    <2>3. hole' = "none" => hole = "none"
      BY <2>1, <2>2, PushEventKeeps DEF Keeps
    <2>4. UNCHANGED <<wire, mouse, garbled, buttons, sent>>
      BY <1>7 DEF Repeat
    <2> QED
      BY <1>1, <2>3, <2>4, IdleTracks
  <1>8. CASE UNCHANGED <<wire, mouse, garbled, buttons, sent, hole>>
    BY <1>1, <1>8, IdleTracks
  <1>9. ASSUME NEW p \in Readers, NEW canon \in BOOLEAN, TtyRead(p, canon)
        PROVE  UNCHANGED <<wire, mouse, garbled, buttons, sent, hole>>
    BY <1>9 DEF TtyRead
  <1>10. ASSUME NEW p \in Readers, GetEvent(p) \/ PollStatus(p) \/ Drained(p)
         PROVE  UNCHANGED <<wire, mouse, garbled, buttons, sent, hole>>
    BY <1>10 DEF GetEvent, PollStatus, Drained, ghosts
  <1>11. ReadKeyboard \/ Rest \/ UNCHANGED vars => UNCHANGED <<wire, mouse, garbled, buttons, sent, hole>>
    BY DEF ReadKeyboard, Rest, vars, ghosts
  <1>12. ASSUME NEW p \in Readers, Overlap(p) PROVE Tracks
    <2>1. hole' = Broken("mixed") \/ hole' = Broken("shared")
      BY <1>12 DEF Overlap
    <2>2. UNCHANGED <<wire, mouse, garbled, buttons, sent>>
      BY <1>12 DEF Overlap
    <2> QED
      BY <1>1, <2>1, <2>2, BrokenFacts, IdleTracks
  <1> QED
    BY <1>2, <1>3, <1>4, <1>5, <1>6, <1>7, <1>8, <1>9, <1>10, <1>11, <1>12 DEF Next

-----------------------------------------------------------------------------
(* tty_read_mode and g_tty_reading. *)

(* The readers are records with the four fields of Idle. *)
Seats == /\ DOMAIN reader = Readers
         /\ \A p \in Readers : DOMAIN reader[p] = {"at", "canon", "line", "saw"}

(* A read goes on, or it ends and takes the flag down. *)
Goes(p) == /\ reader[p].at # "user" /\ reading' = reading
           /\ DOMAIN reader' = Readers /\ \A q \in Readers \ {p} : reader'[q] = reader[q]
           /\ DOMAIN reader'[p] = {"at", "canon", "line", "saw"}
Quits(p) == reader[p].at # "user" /\ reader' = [reader EXCEPT ![p] = Idle] /\ reading' = FALSE

(* What one key does to a read. *)
LEMMA FeedFacts ==
    ASSUME Seats, NEW p \in Readers, reader[p].at # "user", NEW c, Feed(p, c)
    PROVE  Goes(p) \/ Quits(p)
  <1>1. PICK line : line = Line(reader[p].line, c, reader[p].canon)
    OBVIOUS
  <1>2. CASE Ends(line, c, reader[p].canon)
    BY <1>1, <1>2 DEF Feed, Quits
  <1>3. CASE ~ Ends(line, c, reader[p].canon)
    <2>1. reader' = [reader EXCEPT ![p].line = line, ![p].at = "get"] /\ reading' = reading
      BY <1>1, <1>3 DEF Feed
    <2> QED
      BY <2>1 DEF Goes, Seats
  <1> QED
    BY <1>2, <1>3

(* Both keep one read under the flag. *)
LEMMA ReadKeeps ==
    ASSUME Seats, reading \in BOOLEAN, overlapped \/ OneReads, NEW p \in Readers,
           Goes(p) \/ Quits(p), overlapped' = overlapped
    PROVE  Seats' /\ reading' \in BOOLEAN /\ (overlapped' \/ OneReads')
  <1>1. CASE Goes(p)
    <2>1. Seats' /\ reading' \in BOOLEAN
      BY <1>1 DEF Goes, Seats
    <2>2. OneReads => OneReads'
      BY <1>1 DEF Goes, OneReads
    <2> QED
      BY <2>1, <2>2
  <1>2. CASE Quits(p)
    <2>1. /\ DOMAIN reader' = Readers /\ reader'[p] = Idle
          /\ \A q \in Readers \ {p} : reader'[q] = reader[q]
      BY <1>2 DEF Quits, Seats
    <2>2. DOMAIN Idle = {"at", "canon", "line", "saw"} /\ Idle.at = "user"
      BY DEF Idle
    <2>3. Seats' /\ reading' \in BOOLEAN
      BY <1>2, <2>1, <2>2 DEF Quits, Seats
    <2>4. OneReads => OneReads'
      BY <1>2, <2>1, <2>2 DEF Quits, OneReads
    <2> QED
      BY <2>3, <2>4
  <1> QED
    BY <1>1, <1>2

(* A read begins: alone, or overlapped says so. *)
LEMMA BeginReads ==
    ASSUME Seats, reading \in BOOLEAN, overlapped \in BOOLEAN, overlapped \/ OneReads,
           NEW p \in Readers, NEW canon, TtyRead(p, canon)
    PROVE  /\ Seats' /\ reading' \in BOOLEAN /\ overlapped' \in BOOLEAN
           /\ overlapped' \/ OneReads'
           /\ overlapped => overlapped'
  <1>1. /\ reader' = [reader EXCEPT ![p] = [Idle EXCEPT !.at = "get", !.canon = canon]]
        /\ reading' = TRUE
        /\ overlapped' = (overlapped \/ \E q \in Readers \ {p} : reader[q].at # "user")
    BY DEF TtyRead
  <1>2. PICK seat : seat = [Idle EXCEPT !.at = "get", !.canon = canon]
    OBVIOUS
  <1>3. DOMAIN seat = {"at", "canon", "line", "saw"}
    BY <1>2 DEF Idle
  <1>4. DOMAIN reader' = Readers /\ reader'[p] = seat /\ \A q \in Readers \ {p} : reader'[q] = reader[q]
    BY <1>1, <1>2 DEF Seats
  <1>5. Seats'
    BY <1>3, <1>4 DEF Seats
  <1>6. overlapped' \in BOOLEAN /\ reading' \in BOOLEAN /\ (overlapped => overlapped')
    BY <1>1
  <1>7. ASSUME ~ overlapped' PROVE OneReads'
    <2>1. \A q \in Readers \ {p} : reader[q].at = "user"
      BY <1>1, <1>7
    <2> QED
      BY <1>1, <1>4, <2>1 DEF OneReads
  <1> QED
    BY <1>5, <1>6, <1>7

(* Control-C, taken while a process reads, reaches it only if reads         *)
(* overlapped.                                                              *)
LEMMA HitFacts ==
    ASSUME reading \in BOOLEAN, hit \in BOOLEAN, overlapped \/ OneReads, hit => overlapped,
           NEW d, Apply(d)
    PROVE  hit' \in BOOLEAN /\ (hit' => overlapped)
  <1>1. hit' = (hit \/ (d.int /\ ~ reading /\ \E p \in Readers : reader[p].at # "user"))
    BY DEF Apply
  <1>2. OneReads => ~ (~ reading /\ \E p \in Readers : reader[p].at # "user")
    BY DEF OneReads
  <1> QED
    BY <1>1, <1>2

(* What a step does to the readers. *)
Spares ==
    /\ Seats' /\ reading' \in BOOLEAN /\ overlapped' \in BOOLEAN /\ hit' \in BOOLEAN
    /\ overlapped' \/ OneReads'
    /\ hit' => overlapped'

(* Every step. *)
LEMMA NextSpares ==
    ASSUME Types, overlapped \/ OneReads, hit => overlapped, [Next]_vars
    PROVE  Spares
  <1>1. Seats /\ reading \in BOOLEAN /\ overlapped \in BOOLEAN /\ hit \in BOOLEAN
    BY DEF Types, Seats
  <1>2. ASSUME UNCHANGED <<reader, reading, overlapped>>, hit' \in BOOLEAN, hit' => overlapped PROVE Spares
    <2>1. OneReads => OneReads'
      BY <1>2 DEF OneReads
    <2>2. Seats'
      BY <1>1, <1>2 DEF Seats
    <2> QED
      BY <1>1, <1>2, <2>1, <2>2 DEF Spares
  <1>3. ASSUME NEW p \in Readers, Goes(p) \/ Quits(p), overlapped' = overlapped, hit' \in BOOLEAN, hit' => overlapped
        PROVE  Spares
    BY <1>1, <1>3, ReadKeeps DEF Spares
  <1>4. ASSUME NEW p \in Readers, NEW canon \in BOOLEAN, TtyRead(p, canon) PROVE Spares
    <2>1. hit' = hit
      BY <1>4 DEF TtyRead
    <2> QED
      BY <1>1, <1>4, <2>1, BeginReads DEF Spares
  <1>5. CASE KeyboardIrq
    <2>1. UNCHANGED <<reader, reading, overlapped>> /\ \E d : Apply(d)
      BY <1>5 DEF KeyboardIrq
    <2>2. hit' \in BOOLEAN /\ (hit' => overlapped)
      BY <1>1, <2>1, HitFacts
    <2> QED
      BY <1>2, <2>1, <2>2
  <1>6. ASSUME NEW p \in Readers, GetEvent(p) \/ Repeat(p) PROVE Spares
    <2>1. reader[p].at # "user" /\ (\E c : Feed(p, c)) /\ overlapped' = overlapped /\ hit' = hit
      BY <1>6 DEF GetEvent, Repeat
    <2>2. Goes(p) \/ Quits(p)
      BY <1>1, <2>1, FeedFacts
    <2> QED
      BY <1>1, <1>3, <2>1, <2>2
  <1>7. ASSUME NEW p \in Readers, Drained(p) PROVE Spares
    <2>1. Quits(p) /\ overlapped' = overlapped /\ hit' = hit
      BY <1>7 DEF Drained, Quits, ghosts
    <2> QED
      BY <1>1, <1>3, <2>1
  <1>8. ASSUME NEW p \in Readers, PollStatus(p) PROVE Spares
    <2>1. overlapped' = overlapped /\ hit' = hit /\ reading' = reading /\ reader[p].at # "user"
      BY <1>8 DEF PollStatus, ghosts
    <2>2. CASE kbd.buf # <<>>
      <3>1. reader' = reader
        BY <1>8, <2>2 DEF PollStatus
      <3> QED
        BY <1>1, <1>2, <2>1, <3>1
    <2>3. CASE kbd.buf = <<>>
      <3>1. reader' = [reader EXCEPT ![p].at = "data", ![p].saw = Len(wire)]
        BY <1>8, <2>3 DEF PollStatus
      <3>2. Goes(p)
        BY <1>1, <2>1, <3>1 DEF Goes, Seats
      <3> QED
        BY <1>1, <1>3, <2>1, <3>2
    <2> QED
      BY <2>2, <2>3
  <1>9. ASSUME NEW p \in Readers, PollData(p) PROVE Spares
    <2>1. /\ overlapped' = overlapped /\ reading' = reading /\ reader[p].at # "user"
          /\ reader' = [reader EXCEPT ![p].at = "get"]
      BY <1>9 DEF PollData
    <2>2. Goes(p)
      BY <1>1, <2>1 DEF Goes, Seats
    <2>3. hit' = hit \/ \E d : Apply(d)
      BY <1>9 DEF PollData
    <2>4. hit' \in BOOLEAN /\ (hit' => overlapped)
      BY <1>1, <2>3, HitFacts
    <2> QED
      BY <1>3, <2>1, <2>2, <2>4
  <1>10. CASE UNCHANGED <<reader, reading, overlapped, hit>>
    BY <1>1, <1>2, <1>10
  <1>11. ASSUME NEW k \in Keys, Press(k) \/ Release(k) PROVE UNCHANGED <<reader, reading, overlapped, hit>>
    BY <1>11 DEF Press, Release
  <1>12. ASSUME NEW btn, NEW moved, Move(btn, moved) PROVE UNCHANGED <<reader, reading, overlapped, hit>>
    BY <1>12 DEF Move
  <1>13. MouseIrq \/ ReadMouse \/ ReadKeyboard \/ Rest \/ UNCHANGED vars => UNCHANGED <<reader, reading, overlapped, hit>>
    BY DEF MouseIrq, ReadMouse, ReadKeyboard, Rest, vars, ghosts
  <1>14. ASSUME NEW p \in Readers, Overlap(p) PROVE UNCHANGED <<reader, reading, overlapped, hit>>
    BY <1>14 DEF Overlap
  <1> QED
    BY <1>4, <1>5, <1>6, <1>7, <1>8, <1>9, <1>10, <1>11, <1>12, <1>13, <1>14 DEF Next

-----------------------------------------------------------------------------
(* Keys.  What the hands did before a byte of the wire is reached: a moment *)
(* has the keys that are down, the number of characters typed, and whether  *)
(* a prefix is waiting for its key.                                         *)
Mods == Shifts \cup Ctrls
Chars == Keys \X (Codes \cup {"ext"})
Moment == [down : SUBSET Keys, n : Nat, e0 : BOOLEAN]

(* How a key is reported while the keys x are down. *)
Report(k, x) ==
    IF k \in Extended THEN <<k, "ext">>
    ELSE IF k \in Mods THEN <<k, "mod">>
    ELSE ScToAscii(k, x \cap Shifts # {}, x \cap Ctrls # {})

(* Byte b leads from moment a to moment c.  Up to the first hole modifiers  *)
(* change only with no letter down, and come up without their twin.         *)
KeyTurn(b, a, c, ty) ==
    /\ b.src = "kbd" /\ b.part \in {"down", "up"}
    /\ a.e0 <=> b.key \in Extended
    /\ ~ c.e0
    /\ b.key \in Mods => a.down \cap Letters = {}
    /\ IF b.part = "down"
       THEN /\ b.key \notin a.down /\ c.down = a.down \cup {b.key}
            /\ IF b.key \in Mods THEN c.n = a.n
               ELSE c.n = a.n + 1 /\ ty[c.n] = Report(b.key, a.down)
       ELSE /\ b.key \in a.down /\ c.down = a.down \ {b.key} /\ c.n = a.n
            /\ b.key \in Shifts => a.down \cap Shifts = {b.key}
            /\ b.key \in Ctrls => a.down \cap Ctrls = {b.key}
Turn(b, a, c, ty) ==
    \/ b.src = "aux" /\ ~ a.e0 /\ c = a
    \/ b.src = "kbd" /\ b.part = "e0" /\ ~ a.e0 /\ c.e0 /\ c.down = a.down /\ c.n = a.n
    \/ KeyTurn(b, a, c, ty)

(* s is the history of the bytes w: of what was typed, ty. *)
History(w, ty, s) ==
    /\ s \in [0 .. Len(w) -> Moment]
    /\ \A i \in 1 .. Len(w) : Turn(w[i], s[i - 1], s[i], ty)
    /\ \A i, j \in 0 .. Len(w) : i <= j => s[i].n <= s[j].n

(* A turn looks at what was typed only up to its own character. *)
LEMMA TurnKeeps ==
    ASSUME NEW b, NEW a \in Moment, NEW c \in Moment, NEW ty, NEW tz, Turn(b, a, c, ty),
           c.n = a.n + 1 => tz[c.n] = ty[c.n]
    PROVE  Turn(b, a, c, tz)
  BY DEF Turn, KeyTurn, Moment

(* tz begins with the first n of ty. *)
Begins(tz, ty, n) == \A i \in 1 .. n : tz[i] = ty[i]

(* A history that ends at moment a. *)
Tells(w, ty, s, a) == History(w, ty, s) /\ s[Len(w)] = a

(* One more byte behind the others. *)
LEMMA TellsMore ==
    ASSUME NEW w \in Seq(Octet), NEW b \in Octet, NEW ty, NEW tz, NEW s, NEW a \in Moment, Tells(w, ty, s, a),
           NEW c \in Moment, a.n <= c.n, Turn(b, a, c, tz), Begins(tz, ty, a.n)
    PROVE  \E r : Tells(Append(w, b), tz, r, c) /\ r[0] = s[0]
  <1>1. PICK m \in Nat : m = Len(w) /\ History(w, ty, s) /\ s[m] = a
    BY DEF Tells
  <1>2. s \in [0 .. m -> Moment]
    BY <1>1 DEF History
  <1>3. PICK r : r = [i \in 0 .. m + 1 |-> IF i = m + 1 THEN c ELSE s[i]]
    OBVIOUS
  <1>4. /\ r \in [0 .. m + 1 -> Moment] /\ r[m + 1] = c
        /\ \A i \in 0 .. m : r[i] = s[i]
    BY <1>2, <1>3
  <1>5. Len(Append(w, b)) = m + 1 /\ Append(w, b)[m + 1] = b
        /\ \A i \in 1 .. m : Append(w, b)[i] = w[i]
    BY <1>1
  <1>6. \A i \in 0 .. m : s[i] \in Moment /\ s[i].n \in Nat /\ s[i].n <= s[m].n
    <2>1. ASSUME NEW i \in 0 .. m PROVE s[i] \in Moment /\ s[i].n <= s[m].n
      <3>1. i <= m /\ m \in 0 .. m
        OBVIOUS
      <3> QED
        BY <1>1, <1>2, <3>1 DEF History
    <2>2. \A x \in Moment : x.n \in Nat
      BY DEF Moment
    <2> QED
      BY <2>1, <2>2
  <1>7. ASSUME NEW i \in 1 .. m PROVE Turn(w[i], s[i - 1], s[i], tz)
    <2>1. Turn(w[i], s[i - 1], s[i], ty) /\ i - 1 \in 0 .. m /\ i \in 0 .. m
      BY <1>1 DEF History
    <2>2. s[i].n = s[i - 1].n + 1 => s[i].n \in 1 .. s[m].n
      BY <1>6, <2>1
    <2> QED
      BY <1>1, <1>6, <2>1, <2>2, TurnKeeps DEF Begins
  <1>8. ASSUME NEW i \in 1 .. m + 1 PROVE Turn(Append(w, b)[i], r[i - 1], r[i], tz)
    <2>1. CASE i = m + 1
      <3>1. i - 1 = m /\ m \in 0 .. m
        BY <2>1
      <3> QED
        BY <1>1, <1>4, <1>5, <2>1, <3>1
    <2>2. CASE i # m + 1
      <3>1. i \in 1 .. m /\ i \in 0 .. m /\ i - 1 \in 0 .. m
        BY <2>2
      <3> QED
        BY <1>4, <1>5, <1>7, <3>1
    <2> QED
      BY <2>1, <2>2
  <1>9. ASSUME NEW i \in 0 .. m + 1, NEW j \in 0 .. m + 1, i <= j PROVE r[i].n <= r[j].n
    <2>1. c.n \in Nat /\ s[m].n <= c.n
      BY <1>1 DEF Moment
    <2>2. CASE j = m + 1
      BY <1>4, <1>6, <2>1, <2>2
    <2>3. CASE j # m + 1
      <3>1. i \in 0 .. m /\ j \in 0 .. m
        BY <1>9, <2>3
      <3> QED
        BY <1>1, <1>4, <1>9, <3>1 DEF History
    <2> QED
      BY <2>2, <2>3
  <1>10. History(Append(w, b), tz, r)
    BY <1>4, <1>5, <1>8, <1>9 DEF History
  <1> QED
    BY <1>4, <1>5, <1>10 DEF Tells

(* The first byte is taken. *)
LEMMA HistoryTaken ==
    ASSUME NEW S, NEW w \in Seq(S), w # <<>>, NEW ty, NEW s, History(w, ty, s)
    PROVE  \E r : /\ History(Tail(w), ty, r) /\ r[0] = s[1] /\ r[Len(Tail(w))] = s[Len(w)]
                  /\ Turn(w[1], s[0], s[1], ty) /\ s[0] \in Moment /\ s[1] \in Moment /\ s[0].n <= s[1].n
                  /\ s[1].n <= s[Len(w)].n
  <1>1. PICK m \in Nat : m = Len(w) /\ m >= 1
    OBVIOUS
  <1>2. s \in [0 .. m -> Moment]
    BY <1>1 DEF History
  <1>3. PICK r : r = [i \in 0 .. m - 1 |-> s[i + 1]]
    OBVIOUS
  <1>4. r \in [0 .. m - 1 -> Moment] /\ \A i \in 0 .. m - 1 : r[i] = s[i + 1]
    BY <1>1, <1>2, <1>3
  <1>5. Len(Tail(w)) = m - 1 /\ \A i \in 1 .. m - 1 : Tail(w)[i] = w[i + 1]
    BY <1>1
  <1>6. ASSUME NEW i \in 1 .. m - 1 PROVE Turn(Tail(w)[i], r[i - 1], r[i], ty)
    <2>1. i + 1 \in 1 .. m /\ i - 1 \in 0 .. m - 1 /\ i \in 0 .. m - 1
      OBVIOUS
    <2>2. r[i - 1] = s[i] /\ r[i] = s[i + 1] /\ Tail(w)[i] = w[i + 1]
      BY <1>4, <1>5, <2>1
    <2>3. Turn(w[i + 1], s[(i + 1) - 1], s[i + 1], ty)
      BY <1>1, <2>1 DEF History
    <2>4. (i + 1) - 1 = i
      OBVIOUS
    <2> QED
      BY <2>2, <2>3, <2>4
  <1>7. ASSUME NEW i \in 0 .. m - 1, NEW j \in 0 .. m - 1, i <= j PROVE r[i].n <= r[j].n
    BY <1>1, <1>4, <1>7 DEF History
  <1>8. History(Tail(w), ty, r)
    BY <1>4, <1>5, <1>6, <1>7 DEF History
  <1>9. Turn(w[1], s[0], s[1], ty) /\ s[0] \in Moment /\ s[1] \in Moment /\ s[0].n <= s[1].n /\ s[1].n <= s[m].n
    <2>1. 1 \in 1 .. m /\ 1 - 1 = 0 /\ 0 \in 0 .. m /\ 1 \in 0 .. m /\ m \in 0 .. m
      BY <1>1
    <2> QED
      BY <1>1, <1>2, <2>1 DEF History
  <1> QED
    BY <1>1, <1>4, <1>5, <1>8, <1>9

(* The same moment counted without the first character. *)
Less(a) == [down |-> a.down, n |-> a.n - 1, e0 |-> a.e0]

(* It is a moment if there is a character. *)
LEMMA LessFacts ==
    ASSUME NEW a \in Moment, a.n >= 1
    PROVE  Less(a) \in Moment /\ Less(a).n = a.n - 1 /\ Less(a).down = a.down /\ Less(a).e0 = a.e0
  BY DEF Less, Moment

(* The first character is read. *)
LEMMA HistoryRead ==
    ASSUME NEW S, NEW w \in Seq(S), NEW C, NEW ty \in Seq(C), NEW s, History(w, ty, s),
           s[0].n >= 1, s[Len(w)].n = Len(ty)
    PROVE  \E r : /\ History(w, Tail(ty), r)
                  /\ r[0] = Less(s[0]) /\ r[Len(w)] = Less(s[Len(w)])
  <1>1. PICK m \in Nat : m = Len(w)
    OBVIOUS
  <1>2. s \in [0 .. m -> Moment]
    BY <1>1 DEF History
  <1>3. \A i \in 0 .. m : s[i] \in Moment /\ s[i].n \in Nat /\ s[i].n >= 1 /\ s[i].n <= Len(ty)
    <2>1. ASSUME NEW i \in 0 .. m PROVE s[i] \in Moment /\ s[i].n \in Nat /\ s[0].n <= s[i].n /\ s[i].n <= s[m].n
      <3>1. 0 \in 0 .. m /\ m \in 0 .. m /\ 0 <= i /\ i <= m
        OBVIOUS
      <3> QED
        BY <1>1, <1>2, <3>1 DEF History, Moment
    <2>2. s[0].n \in Nat
      BY <2>1
    <2> QED
      BY <1>1, <2>1, <2>2
  <1>4. PICK r : r = [i \in 0 .. m |-> Less(s[i])]
    OBVIOUS
  <1>5. ASSUME NEW i \in 0 .. m
        PROVE  /\ r[i] = Less(s[i]) /\ r[i] \in Moment
               /\ r[i].n = s[i].n - 1 /\ r[i].down = s[i].down /\ r[i].e0 = s[i].e0
    <2>1. r[i] = Less(s[i])
      BY <1>4
    <2> QED
      BY <1>3, <2>1, LessFacts
  <1>6. r \in [0 .. m -> Moment]
    BY <1>4, <1>5
  <1>7. \A k \in 2 .. Len(ty) : Tail(ty)[k - 1] = ty[k]
    OBVIOUS
  <1>8. ASSUME NEW i \in 1 .. m PROVE Turn(w[i], r[i - 1], r[i], Tail(ty))
    <2>1. Turn(w[i], s[i - 1], s[i], ty) /\ i \in 0 .. m /\ i - 1 \in 0 .. m
      BY <1>1 DEF History
    <2>2. PICK a \in Moment, c \in Moment, d \in Moment, e \in Moment :
             a = s[i - 1] /\ c = s[i] /\ d = r[i - 1] /\ e = r[i]
      BY <1>3, <1>5, <2>1
    <2>3. /\ d.n = a.n - 1 /\ d.down = a.down /\ d.e0 = a.e0
          /\ e.n = c.n - 1 /\ e.down = c.down /\ e.e0 = c.e0 /\ (a = c => d = e)
          /\ a.n \in Nat /\ a.n >= 1 /\ c.n \in Nat /\ c.n <= Len(ty)
      BY <1>3, <1>5, <2>1, <2>2
    <2>4. c.n = a.n + 1 => Tail(ty)[e.n] = ty[c.n]
      BY <1>7, <2>3
    <2>5. e.n = d.n + 1 <=> c.n = a.n + 1
      BY <2>3
    <2>6. e.n = d.n <=> c.n = a.n
      BY <2>3
    <2>7. Turn(w[i], d, e, Tail(ty))
      BY <2>1, <2>2, <2>3, <2>4, <2>5, <2>6 DEF Turn, KeyTurn
    <2> QED
      BY <2>2, <2>7
  <1>9. ASSUME NEW i \in 0 .. m, NEW j \in 0 .. m, i <= j PROVE r[i].n <= r[j].n
    <2>1. s[i].n <= s[j].n /\ s[i].n \in Nat /\ s[j].n \in Nat
      BY <1>1, <1>3, <1>9 DEF History
    <2> QED
      BY <1>5, <2>1
  <1>10. History(w, Tail(ty), r)
    BY <1>1, <1>6, <1>8, <1>9 DEF History
  <1> QED
    <2>1. 0 \in 0 .. m /\ m \in 0 .. m
      OBVIOUS
    <2>2. r[0] = Less(s[0]) /\ r[m] = Less(s[m])
      BY <1>5, <2>1
    <2> QED
      BY <1>1, <1>10, <2>2

(* Bytes of the mouse only: every moment is the first. *)
LEMMA HistoryQuiet ==
    ASSUME NEW S, NEW w \in Seq(S), NEW ty, NEW s, History(w, ty, s),
           \A i \in 1 .. Len(w) : w[i].src # "kbd"
    PROVE  s[Len(w)] = s[0]
  <1>1. PICK m \in Nat : m = Len(w)
    OBVIOUS
  <1> DEFINE T == {k \in Nat : k <= m => s[k] = s[0]}
  <1>2. 0 \in T
    OBVIOUS
  <1>3. ASSUME NEW k \in T PROVE k + 1 \in T
    <2>1. SUFFICES ASSUME k + 1 <= m PROVE s[k + 1] = s[0]
      OBVIOUS
    <2>2. k + 1 \in 1 .. m /\ (k + 1) - 1 = k /\ s[k] = s[0]
      BY <2>1
    <2>3. Turn(w[k + 1], s[(k + 1) - 1], s[k + 1], ty)
      BY <1>1, <2>2 DEF History
    <2>4. s[k + 1] = s[(k + 1) - 1]
      BY <1>1, <2>2, <2>3 DEF Turn, KeyTurn
    <2> QED
      BY <2>2, <2>4
  <1>4. T = Nat
    <2> HIDE DEF T
    <2>1. T \subseteq Nat
      BY DEF T
    <2> QED
      BY <1>2, <1>3, <2>1, CountUp
  <1>5. m \in T
    BY <1>4
  <1> QED
    BY <1>1, <1>5

-----------------------------------------------------------------------------
(* The driver at a moment. *)
IsKbd(k) == DOMAIN k = {"keys", "ext", "e0", "shift", "ctrl", "ev", "buf", "iev", "rep"}

(* Its tables and flags, when the keys x are down. *)
Flags(k, x) ==
    /\ k.keys = x \cap (Letters \cup Others) /\ k.ext = x \cap Arrows
    /\ k.shift <=> x \cap Shifts # {}
    /\ k.ctrl <=> x \cap Ctrls # {}
    /\ k.rep = "none" \/ k.rep \in x

(* What was reported to be down and not up again. *)
Shown(dn, x) == \A e \in dn : \E k \in x : e = Report(k, x)

(* The event ring has the first n characters that were not read. *)
Filled(ev, n, ty) == ev \in Seq(Chars) /\ Len(ev) = n /\ \A i \in 1 .. n : ev[i] = ty[i]
Driven(k, dn, a, ty) ==
    /\ IsKbd(k) /\ Flags(k, a.down) /\ (k.e0 <=> a.e0)
    /\ Shown(dn, a.down) /\ Filled(k.ev, a.n, ty)

(* How the keys x change when k goes down or comes up. *)
Change(x, k, y) ==
    /\ x \subseteq Keys /\ k \in Keys
    /\ (k \notin x /\ y = x \cup {k}) \/ (k \in x /\ y = x \ {k})
    /\ k \in Mods => x \cap Letters = {}

(* The kinds of keys are apart. *)
LEMMA KeyKinds ==
    ASSUME NEW k \in Keys
    PROVE  /\ k \in Letters \cup Others => k \notin Extended /\ k \notin Mods /\ k \notin Arrows
           /\ k \in Letters => k \notin Others
           /\ k \in Arrows => k \in Extended /\ k \notin Mods
           /\ k \in Mods => k \notin Arrows /\ (k \in Extended <=> k = RightCtrl)
           /\ k \in Shifts => k \notin Ctrls
           /\ k \in Letters \cup Others \cup Arrows \cup Mods
           /\ k # "none"
  BY KeyAssumption DEF Keys, Mods, Ctrls, Extended

(* Another key does not change how a key is reported. *)
LEMMA ReportSame ==
    ASSUME NEW x, NEW k, NEW y, Change(x, k, y), NEW j \in x
    PROVE  Report(j, y) = Report(j, x)
  <1>1. j \in Keys /\ k \in Keys
    BY DEF Change
  <1>2. CASE k \in Mods
    <2>1. j \notin Letters
      BY <1>2 DEF Change
    <2>2. j \in Extended \/ j \in Mods \/ j \in Others
      BY <1>1, <2>1, KeyKinds
    <2> QED
      BY <2>2 DEF Report, ScToAscii
  <1>3. CASE k \notin Mods
    <2>1. x \cap Shifts = y \cap Shifts /\ x \cap Ctrls = y \cap Ctrls
      BY <1>3 DEF Change, Mods
    <2> QED
      BY <2>1 DEF Report
  <1> QED
    BY <1>2, <1>3

(* Nor does the key itself. *)
LEMMA ReportOwn ==
    ASSUME NEW x, NEW k, NEW y, Change(x, k, y)
    PROVE  Report(k, y) = Report(k, x)
  <1>1. k \in Keys
    BY DEF Change
  <1>2. CASE k \in Mods
    BY <1>2 DEF Report
  <1>3. CASE k \notin Mods
    <2>1. x \cap Shifts = y \cap Shifts /\ x \cap Ctrls = y \cap Ctrls
      BY <1>3 DEF Change, Mods
    <2> QED
      BY <2>1 DEF Report
  <1> QED
    BY <1>2, <1>3

(* A key that goes down may be reported ... *)
LEMMA ShownDown ==
    ASSUME NEW x, NEW k, NEW y, Change(x, k, y), y = x \cup {k}, NEW dn, Shown(dn, x)
    PROVE  Shown(dn, y) /\ Shown(dn \cup {Report(k, x)}, y)
  <1>1. ASSUME NEW e \in dn PROVE \E j \in y : e = Report(j, y)
    <2>1. PICK j \in x : e = Report(j, x)
      BY DEF Shown
    <2> QED
      BY <2>1, ReportSame
  <1>2. k \in y /\ Report(k, x) = Report(k, y)
    BY ReportOwn
  <1> QED
    BY <1>1, <1>2 DEF Shown

(* ... and one that comes up is reported. *)
LEMMA ShownUp ==
    ASSUME NEW x, NEW k, NEW y, Change(x, k, y), y = x \ {k}, NEW dn, Shown(dn, x)
    PROVE  Shown(dn \ {Report(k, x)}, y)
  <1>1. ASSUME NEW e \in dn, e # Report(k, x) PROVE \E j \in y : e = Report(j, y)
    <2>1. PICK j \in x : e = Report(j, x)
      BY DEF Shown
    <2>2. j \in y
      BY <1>1, <2>1
    <2> QED
      BY <2>1, <2>2, ReportSame
  <1> QED
    BY <1>1 DEF Shown

(* One more character in the ring. *)
LEMMA FilledMore ==
    ASSUME NEW ev, NEW n \in Nat, NEW ty, Filled(ev, n, ty), NEW c \in Chars, ty[n + 1] = c
    PROVE  Filled(Append(ev, c), n + 1, ty)
  <1>1. ev \in Seq(Chars) /\ Len(ev) = n /\ \A i \in 1 .. n : ev[i] = ty[i]
    BY DEF Filled
  <1>2. /\ Append(ev, c) \in Seq(Chars) /\ Len(Append(ev, c)) = n + 1
        /\ \A i \in 1 .. n : Append(ev, c)[i] = ev[i]
        /\ Append(ev, c)[n + 1] = c
    BY <1>1
  <1>3. ASSUME NEW i \in 1 .. n + 1 PROVE Append(ev, c)[i] = ty[i]
    <2>1. i = n + 1 \/ i \in 1 .. n
      OBVIOUS
    <2> QED
      BY <1>1, <1>2, <2>1
  <1> QED
    BY <1>2, <1>3 DEF Filled

(* A key with a character. *)
LEMMA ReportIsChar ==
    ASSUME NEW k \in Keys, k \notin Mods, NEW x
    PROVE  Report(k, x) \in Chars
  <1>1. {"ext", "plain", "ctrl", "upper", "lower"} \subseteq Codes \cup {"ext"}
    BY DEF Codes
  <1> QED
    BY <1>1 DEF Report, ScToAscii, Chars

-----------------------------------------------------------------------------
(* The parts of the driver, from d to e: everything but the rings. *)
SameKeys(k, l) ==
    /\ IsKbd(l) /\ l.keys = k.keys /\ l.ext = k.ext /\ l.e0 = k.e0
    /\ l.shift = k.shift /\ l.ctrl = k.ctrl /\ l.rep = k.rep

(* evbuf_push: the character is in the ring, or there is a hole. *)
LEMMA PushCharFacts ==
    ASSUME NEW d, IsDriver(d), IsKbd(d.k), NEW c, PushChar(d, c).hole = "none"
    PROVE  /\ IsDriver(PushChar(d, c)) /\ SameKeys(d.k, PushChar(d, c).k)
           /\ PushChar(d, c).k.ev = Append(d.k.ev, c) /\ PushChar(d, c).down = d.down
  BY BrokenFacts DEF PushChar, IsDriver, IsKbd, SameKeys

(* iev_push: the event is in the queue, or there is a hole.  A key that     *)
(* comes up is not reported down any more;                                  *)
LEMMA PushUpFacts ==
    ASSUME NEW d, IsDriver(d), IsKbd(d.k), NEW c, NEW f, f = PushEvent(d, c, 0), f.hole = "none"
    PROVE  SameKeys(d.k, f.k) /\ f.k.ev = d.k.ev /\ f.down = d.down \ {c} /\ d.hole = "none"
  BY BrokenFacts DEF PushEvent, IsDriver, IsKbd, SameKeys

(* one that goes down is. *)
LEMMA PushDownFacts ==
    ASSUME NEW d, IsDriver(d), IsKbd(d.k), NEW c, NEW f, f = PushEvent(d, c, 1), f.hole = "none"
    PROVE  SameKeys(d.k, f.k) /\ f.k.ev = d.k.ev /\ f.down = d.down \cup {c} /\ d.hole = "none"
  BY BrokenFacts DEF PushEvent, IsDriver, IsKbd, SameKeys

(* What a release does to the driver, from d to f. *)
UpOf(d, f, k) ==
    /\ IsKbd(f.k) /\ f.k.ext = d.k.ext /\ f.k.e0 = d.k.e0 /\ f.k.ev = d.k.ev
    /\ f.k.keys = d.k.keys \ {k}
    /\ f.k.shift = IF k \in Shifts THEN FALSE ELSE d.k.shift
    /\ f.k.ctrl = IF k = LeftCtrl THEN FALSE ELSE d.k.ctrl
    /\ f.k.rep = "none" \/ (f.k.rep = d.k.rep /\ f.k.rep # k)
    /\ f.down = d.down \ {IF k \in Shifts \cup Ctrls THEN <<k, "mod">>
                          ELSE ScToAscii(k, d.k.shift, d.k.ctrl)}

(* A release ... *)
LEMMA KeyUpFacts ==
    ASSUME NEW d, IsDriver(d), IsKbd(d.k), NEW k, NEW polled, NEW f, f = KeyUp(d, k, polled), f.hole = "none"
    PROVE  UpOf(d, f, k)
  <1> DEFINE e == [d EXCEPT !.k.keys = @ \ {k},
                            !.k.shift = IF k \in Shifts THEN FALSE ELSE @,
                            !.k.ctrl = IF k = LeftCtrl THEN FALSE ELSE @,
                            !.k.rep = IF @ = k /\ ~ polled THEN "none" ELSE @,
                            !.hole = IF polled /\ d.k.rep = k THEN Broken("polled") ELSE @]
  <1>1. f = IF k \in Shifts \cup Ctrls THEN PushEvent(e, <<k, "mod">>, 0)
            ELSE PushEvent(e, ScToAscii(k, e.k.shift, e.k.ctrl), 0)
    BY DEF KeyUp
  <1>2. /\ IsDriver(e) /\ IsKbd(e.k) /\ e.k.ext = d.k.ext /\ e.k.e0 = d.k.e0 /\ e.k.ev = d.k.ev
        /\ e.k.keys = d.k.keys \ {k}
        /\ e.k.shift = IF k \in Shifts THEN FALSE ELSE d.k.shift
        /\ e.k.ctrl = IF k = LeftCtrl THEN FALSE ELSE d.k.ctrl
        /\ e.k.rep = IF d.k.rep = k /\ ~ polled THEN "none" ELSE d.k.rep
        /\ e.down = d.down
        /\ e.hole = IF polled /\ d.k.rep = k THEN Broken("polled") ELSE d.hole
    BY DEF IsDriver, IsKbd
  <1> HIDE DEF e
  <1>3. PICK c : /\ f = PushEvent(e, c, 0)
                 /\ c = IF k \in Shifts \cup Ctrls THEN <<k, "mod">> ELSE ScToAscii(k, e.k.shift, e.k.ctrl)
    BY <1>1
  <1>4. SameKeys(e.k, f.k) /\ f.k.ev = e.k.ev /\ f.down = e.down \ {c} /\ e.hole = "none"
    <2>1. IsDriver(e) /\ IsKbd(e.k) /\ f = PushEvent(e, c, 0)
      BY <1>2, <1>3
    <2> QED
      BY <2>1, PushUpFacts
  <1>5. ~ (polled /\ d.k.rep = k)
    BY <1>2, <1>4, BrokenFacts
  <1>6. k \notin Shifts \cup Ctrls => e.k.shift = d.k.shift /\ e.k.ctrl = d.k.ctrl
    BY <1>2 DEF Ctrls
  <1>7. c = IF k \in Shifts \cup Ctrls THEN <<k, "mod">> ELSE ScToAscii(k, d.k.shift, d.k.ctrl)
    BY <1>3, <1>6
  <1> QED
    BY <1>2, <1>4, <1>5, <1>7 DEF SameKeys, UpOf

(* What the release of an extended key does to it. *)
ExtUpOf(d, f, k) ==
    /\ IsKbd(f.k) /\ f.k.keys = d.k.keys /\ f.k.e0 = FALSE /\ f.k.ev = d.k.ev
    /\ f.k.ext = d.k.ext \ {k} /\ f.k.shift = d.k.shift
    /\ f.k.ctrl = IF k = RightCtrl THEN FALSE ELSE d.k.ctrl
    /\ f.k.rep = "none" \/ (f.k.rep = d.k.rep /\ f.k.rep # k)
    /\ f.down = d.down \ {<<k, "ext">>}

(* ... of an extended key, which polling does not report. *)
LEMMA KeyUpExtFacts ==
    ASSUME NEW d, IsDriver(d), IsKbd(d.k), NEW k, NEW polled, NEW f, f = KeyUpExt(d, k, polled), f.hole = "none"
    PROVE  ExtUpOf(d, f, k)
  <1> DEFINE e == [d EXCEPT !.k.ext = @ \ {k}, !.k.e0 = FALSE,
                            !.k.ctrl = IF k = RightCtrl THEN FALSE ELSE @,
                            !.k.rep = IF @ = k /\ ~ polled THEN "none" ELSE @]
  <1>1. f = IF polled THEN [e EXCEPT !.hole = Broken("polled")] ELSE PushEvent(e, <<k, "ext">>, 0)
    BY DEF KeyUpExt
  <1>2. /\ IsDriver(e) /\ IsKbd(e.k) /\ e.k.keys = d.k.keys /\ e.k.e0 = FALSE /\ e.k.ev = d.k.ev
        /\ e.k.ext = d.k.ext \ {k} /\ e.k.shift = d.k.shift
        /\ e.k.ctrl = IF k = RightCtrl THEN FALSE ELSE d.k.ctrl
        /\ e.k.rep = IF d.k.rep = k /\ ~ polled THEN "none" ELSE d.k.rep
        /\ e.down = d.down
    BY DEF IsDriver, IsKbd
  <1> HIDE DEF e
  <1>3. ~ polled
    <2>1. SUFFICES ASSUME polled PROVE FALSE
      OBVIOUS
    <2>2. f = [e EXCEPT !.hole = Broken("polled")]
      BY <1>1, <2>1
    <2> QED
      BY <1>2, <2>2, BrokenFacts DEF IsDriver
  <1>4. f = PushEvent(e, <<k, "ext">>, 0)
    BY <1>1, <1>3
  <1>5. SameKeys(e.k, f.k) /\ f.k.ev = e.k.ev /\ f.down = e.down \ {<<k, "ext">>}
    <2>1. IsDriver(e) /\ IsKbd(e.k)
      BY <1>2
    <2> QED
      BY <1>4, <2>1, PushUpFacts
  <1> QED
    BY <1>2, <1>3, <1>5 DEF SameKeys, ExtUpOf

(* What a modifier that goes down does to it, *)
ModDownOf(d, f, k) ==
    /\ IsKbd(f.k) /\ f.k.keys = d.k.keys /\ f.k.ext = d.k.ext /\ f.k.e0 = d.k.e0
    /\ f.k.ev = d.k.ev /\ f.k.rep = d.k.rep
    /\ f.k.shift = IF k \in Shifts THEN TRUE ELSE d.k.shift
    /\ f.k.ctrl = IF k \in Shifts THEN d.k.ctrl ELSE TRUE
    /\ f.down = d.down \cup {<<k, "mod">>}

(* A key goes down: a modifier ... *)
LEMMA ModDownFacts ==
    ASSUME NEW d, IsDriver(d), IsKbd(d.k), NEW k, k \in Shifts \cup Ctrls, NEW polled, NEW f,
           f = KeyDown(d, k, polled), f.hole = "none"
    PROVE  ModDownOf(d, f, k)
  <1> DEFINE e == IF k \in Shifts THEN [d EXCEPT !.k.shift = TRUE] ELSE [d EXCEPT !.k.ctrl = TRUE]
  <1>1. f = PushEvent(e, <<k, "mod">>, 1)
    BY DEF KeyDown
  <1>2. /\ IsDriver(e) /\ IsKbd(e.k) /\ e.k.keys = d.k.keys /\ e.k.ext = d.k.ext /\ e.k.e0 = d.k.e0
        /\ e.k.ev = d.k.ev /\ e.k.rep = d.k.rep /\ e.down = d.down
        /\ e.k.shift = IF k \in Shifts THEN TRUE ELSE d.k.shift
        /\ e.k.ctrl = IF k \in Shifts THEN d.k.ctrl ELSE TRUE
    BY DEF IsDriver, IsKbd
  <1> HIDE DEF e
  <1>3. SameKeys(e.k, f.k) /\ f.k.ev = e.k.ev /\ f.down = e.down \cup {<<k, "mod">>}
    <2>1. IsDriver(e) /\ IsKbd(e.k)
      BY <1>2
    <2> QED
      BY <1>1, <2>1, PushDownFacts
  <1> QED
    BY <1>2, <1>3 DEF SameKeys, ModDownOf

(* A character pushed into both queues. *)
LEMMA PushesFacts ==
    ASSUME NEW d, IsDriver(d), IsKbd(d.k), NEW c, NEW f,
           f = PushEvent(PushChar(d, c), c, 1), f.hole = "none"
    PROVE  SameKeys(d.k, f.k) /\ f.k.ev = Append(d.k.ev, c) /\ f.down = d.down \cup {c}
  <1>1. PICK e : e = PushChar(d, c)
    OBVIOUS
  <1>2. IsDriver(e) /\ IsKbd(e.k)
    <2>1. IsDriver(e)
      BY <1>1, PushCharKeeps DEF Keeps
    <2>2. IsKbd(e.k)
      BY <1>1 DEF PushChar, IsDriver, IsKbd
    <2> QED
      BY <2>1, <2>2
  <1>3. SameKeys(e.k, f.k) /\ f.k.ev = e.k.ev /\ f.down = e.down \cup {c} /\ e.hole = "none"
    <2>1. f = PushEvent(e, c, 1)
      BY <1>1
    <2> QED
      BY <1>2, <2>1, PushDownFacts
  <1>4. SameKeys(d.k, e.k) /\ e.k.ev = Append(d.k.ev, c) /\ e.down = d.down
    BY <1>1, <1>3, PushCharFacts
  <1> QED
    BY <1>3, <1>4 DEF SameKeys

(* a key with the character c, *)
CharDownOf(d, f, k, c) ==
    /\ IsKbd(f.k) /\ f.k.keys = d.k.keys \cup {k} /\ f.k.ext = d.k.ext /\ f.k.e0 = d.k.e0
    /\ f.k.ev = Append(d.k.ev, c) /\ f.k.rep \in {d.k.rep, k, "none"}
    /\ f.k.shift = d.k.shift /\ f.k.ctrl = d.k.ctrl
    /\ f.down = d.down \cup {c}

(* ... one with a character ... *)
LEMMA CharDownFacts ==
    ASSUME NEW d, IsDriver(d), IsKbd(d.k), NEW k, k \notin Shifts \cup Ctrls, k \notin d.k.keys,
           NEW polled, NEW f, f = KeyDown(d, k, polled), f.hole = "none",
           NEW c, c = ScToAscii(k, d.k.shift, d.k.ctrl)
    PROVE  CharDownOf(d, f, k, c)
  <1>1. PICK rep : rep = IF polled THEN d.k.rep ELSE IF Printable(c) THEN k ELSE "none"
    OBVIOUS
  <1> DEFINE e == [d EXCEPT !.k.keys = @ \cup {k}, !.k.rep = rep, !.int = (c = Interrupt)]
  <1>2. f = PushEvent(PushChar(e, c), c, 1)
    BY <1>1 DEF KeyDown
  <1>3. /\ IsDriver(e) /\ IsKbd(e.k) /\ e.k.keys = d.k.keys \cup {k} /\ e.k.ext = d.k.ext /\ e.k.e0 = d.k.e0
        /\ e.k.ev = d.k.ev /\ e.k.rep = rep /\ e.down = d.down
        /\ e.k.shift = d.k.shift /\ e.k.ctrl = d.k.ctrl
    BY DEF IsDriver, IsKbd
  <1> HIDE DEF e
  <1>4. SameKeys(e.k, f.k) /\ f.k.ev = Append(e.k.ev, c) /\ f.down = e.down \cup {c}
    <2>1. IsDriver(e) /\ IsKbd(e.k)
      BY <1>3
    <2> QED
      BY <1>2, <2>1, PushesFacts
  <1> QED
    BY <1>1, <1>3, <1>4 DEF SameKeys, CharDownOf

(* and an extended key. *)
ExtDownOf(d, f, k) ==
    /\ IsKbd(f.k) /\ f.k.keys = d.k.keys /\ f.k.e0 = FALSE /\ f.k.shift = d.k.shift
    /\ k = RightCtrl => /\ f.k.ext = d.k.ext /\ f.k.ev = d.k.ev /\ f.k.rep = d.k.rep
                        /\ f.k.ctrl = TRUE /\ f.down = d.down
    /\ k # RightCtrl => /\ f.k.ext = d.k.ext \cup {k} /\ f.k.ev = Append(d.k.ev, <<k, "ext">>)
                        /\ f.k.rep \in {d.k.rep, k} /\ f.k.ctrl = d.k.ctrl
                        /\ f.down = d.down \cup {<<k, "ext">>}

(* ... or an extended one. *)
LEMMA ExtDownFacts ==
    ASSUME NEW d, IsDriver(d), IsKbd(d.k), NEW k, k \notin d.k.ext, NEW polled, NEW f,
           f = KeyDownExt(d, k, polled), f.hole = "none"
    PROVE  ExtDownOf(d, f, k)
  <1> DEFINE e == [d EXCEPT !.k.e0 = FALSE]
             a == [e EXCEPT !.k.ctrl = TRUE]
             b == [e EXCEPT !.k.ext = @ \cup {k}, !.k.rep = IF polled THEN @ ELSE k]
  <1>1. /\ IsDriver(e) /\ IsKbd(e.k) /\ e.k.keys = d.k.keys /\ e.k.e0 = FALSE /\ e.k.shift = d.k.shift
        /\ e.k.ext = d.k.ext /\ e.k.ev = d.k.ev /\ e.k.rep = d.k.rep /\ e.k.ctrl = d.k.ctrl
        /\ e.down = d.down
    BY DEF IsDriver, IsKbd
  <1>2. f = IF k = RightCtrl THEN a ELSE PushEvent(PushChar(b, <<k, "ext">>), <<k, "ext">>, 1)
    BY <1>1 DEF KeyDownExt
  <1> HIDE DEF e
  <1>3. CASE k = RightCtrl
    BY <1>1, <1>2, <1>3 DEF IsDriver, IsKbd, ExtDownOf
  <1>4. CASE k # RightCtrl
    <2>1. /\ IsDriver(b) /\ IsKbd(b.k) /\ b.k.keys = d.k.keys /\ b.k.e0 = FALSE /\ b.k.shift = d.k.shift
          /\ b.k.ext = d.k.ext \cup {k} /\ b.k.ev = d.k.ev /\ b.k.rep \in {d.k.rep, k}
          /\ b.k.ctrl = d.k.ctrl /\ b.down = d.down
      BY <1>1 DEF IsDriver, IsKbd
    <2>2. f = PushEvent(PushChar(b, <<k, "ext">>), <<k, "ext">>, 1)
      BY <1>2, <1>4
    <2> HIDE DEF b
    <2>3. SameKeys(b.k, f.k) /\ f.k.ev = Append(b.k.ev, <<k, "ext">>) /\ f.down = b.down \cup {<<k, "ext">>}
      <3>1. IsDriver(b) /\ IsKbd(b.k)
        BY <2>1
      <3> QED
        BY <2>2, <3>1, PushesFacts
    <2> QED
      BY <1>4, <2>1, <2>3 DEF SameKeys, ExtDownOf
  <1> QED
    BY <1>3, <1>4

-----------------------------------------------------------------------------
(* One byte of the keyboard: the driver moves on with the hands. *)

(* A turn of a key is a change of the keys that are down. *)
LEMMA TurnChanges ==
    ASSUME NEW b \in KeyByte, NEW a \in Moment, NEW c \in Moment, NEW ty, KeyTurn(b, a, c, ty)
    PROVE  Change(a.down, b.key, c.down) /\ b.key \in Keys /\ a.n \in Nat
  BY DEF KeyTurn, Change, Moment, KeyByte

(* A modifier goes down. *)
LEMMA ModDownDriven ==
    ASSUME NEW b \in KeyByte, NEW a \in Moment, NEW c \in Moment, NEW ty, KeyTurn(b, a, c, ty),
           b.part = "down", b.key \in Mods, b.key \notin Extended,
           NEW d, IsDriver(d), Driven(d.k, d.down, a, ty), NEW polled,
           NEW f, f = KeyDown(d, b.key, polled), f.hole = "none"
    PROVE  Driven(f.k, f.down, c, ty)
  <1>1. PICK k : k = b.key
    OBVIOUS
  <1>2. k \in Keys /\ Change(a.down, k, c.down) /\ c.down = a.down \cup {k} /\ c.n = a.n /\ ~ c.e0 /\ ~ a.e0
    BY <1>1, TurnChanges DEF KeyTurn
  <1>3. IsKbd(d.k) /\ k \in Shifts \cup Ctrls /\ f = KeyDown(d, k, polled)
    BY <1>1 DEF Driven, Mods
  <1>4. /\ IsKbd(f.k) /\ f.k.keys = d.k.keys /\ f.k.ext = d.k.ext /\ f.k.e0 = d.k.e0
        /\ f.k.ev = d.k.ev /\ f.k.rep = d.k.rep
        /\ f.k.shift = IF k \in Shifts THEN TRUE ELSE d.k.shift
        /\ f.k.ctrl = IF k \in Shifts THEN d.k.ctrl ELSE TRUE
        /\ f.down = d.down \cup {<<k, "mod">>}
    <2>1. ModDownOf(d, f, k)
      BY <1>3, ModDownFacts
    <2> QED
      BY <2>1 DEF ModDownOf
  <1>5. Flags(f.k, c.down)
    <2>1. /\ c.down \cap (Letters \cup Others) = a.down \cap (Letters \cup Others)
          /\ c.down \cap Arrows = a.down \cap Arrows
      BY <1>1, <1>2, KeyKinds
    <2>2. /\ c.down \cap Shifts # {} <=> k \in Shifts \/ a.down \cap Shifts # {}
          /\ c.down \cap Ctrls # {} <=> k \in Ctrls \/ a.down \cap Ctrls # {}
      BY <1>2
    <2>3. k \in Shifts => k \notin Ctrls
      BY <1>2, KeyKinds
    <2>4. Flags(d.k, a.down)
      BY DEF Driven
    <2> QED
      BY <1>2, <1>3, <1>4, <2>1, <2>2, <2>3, <2>4 DEF Flags
  <1>6. Shown(f.down, c.down)
    <2>1. Report(k, a.down) = <<k, "mod">>
      BY <1>1 DEF Report
    <2>2. Shown(d.down, a.down)
      BY DEF Driven
    <2> QED
      BY <1>2, <1>4, <2>1, <2>2, ShownDown
  <1> QED
    BY <1>2, <1>4, <1>5, <1>6 DEF Driven

(* A key with a character goes down. *)
LEMMA CharDownDriven ==
    ASSUME NEW b \in KeyByte, NEW a \in Moment, NEW c \in Moment, NEW ty, KeyTurn(b, a, c, ty),
           b.part = "down", b.key \notin Mods, b.key \notin Extended,
           NEW d, IsDriver(d), Driven(d.k, d.down, a, ty), NEW polled,
           NEW f, f = KeyDown(d, b.key, polled), f.hole = "none"
    PROVE  Driven(f.k, f.down, c, ty)
  <1>1. PICK k : k = b.key
    OBVIOUS
  <1>2. /\ k \in Keys /\ Change(a.down, k, c.down) /\ c.down = a.down \cup {k} /\ k \notin a.down
        /\ c.n = a.n + 1 /\ a.n \in Nat /\ ty[a.n + 1] = Report(k, a.down) /\ ~ c.e0 /\ ~ a.e0
    BY <1>1, TurnChanges DEF KeyTurn
  <1>3. k \in Letters \cup Others /\ k \notin Shifts \cup Ctrls /\ k \notin Arrows
    BY <1>1, <1>2, KeyKinds DEF Mods
  <1>4. Flags(d.k, a.down)
    BY DEF Driven
  <1>5. PICK x : x = ScToAscii(k, d.k.shift, d.k.ctrl)
    OBVIOUS
  <1>6. x = Report(k, a.down) /\ x \in Chars
    <2>1. x = Report(k, a.down)
      BY <1>1, <1>4, <1>5 DEF Report, ScToAscii, Flags
    <2> QED
      BY <1>1, <1>2, <2>1, ReportIsChar
  <1>7. IsKbd(d.k) /\ k \notin d.k.keys /\ f = KeyDown(d, k, polled)
    BY <1>1, <1>2, <1>4 DEF Driven, Flags
  <1>8. /\ IsKbd(f.k) /\ f.k.keys = d.k.keys \cup {k} /\ f.k.ext = d.k.ext /\ f.k.e0 = d.k.e0
        /\ f.k.ev = Append(d.k.ev, x) /\ f.k.rep \in {d.k.rep, k, "none"}
        /\ f.k.shift = d.k.shift /\ f.k.ctrl = d.k.ctrl
        /\ f.down = d.down \cup {x}
    <2>1. CharDownOf(d, f, k, x)
      BY <1>3, <1>5, <1>7, CharDownFacts
    <2> QED
      BY <2>1 DEF CharDownOf
  <1>9. Flags(f.k, c.down)
    <2>1. /\ c.down \cap (Letters \cup Others) = (a.down \cap (Letters \cup Others)) \cup {k}
          /\ c.down \cap Arrows = a.down \cap Arrows
      BY <1>2, <1>3
    <2>2. c.down \cap Shifts = a.down \cap Shifts /\ c.down \cap Ctrls = a.down \cap Ctrls
      BY <1>2, <1>3
    <2> QED
      BY <1>2, <1>4, <1>8, <2>1, <2>2 DEF Flags
  <1>10. Shown(f.down, c.down)
    <2>1. Shown(d.down, a.down)
      BY DEF Driven
    <2> QED
      <3>1. Shown(d.down \cup {Report(k, a.down)}, c.down)
        BY <1>2, <2>1, ShownDown
      <3>2. f.down = d.down \cup {Report(k, a.down)}
        BY <1>6, <1>8
      <3> QED
        BY <3>1, <3>2
  <1>11. Filled(f.k.ev, c.n, ty)
    <2>1. Filled(d.k.ev, a.n, ty)
      BY DEF Driven
    <2> QED
      BY <1>2, <1>6, <1>8, <2>1, FilledMore
  <1> QED
    BY <1>2, <1>8, <1>9, <1>10, <1>11 DEF Driven

(* An extended key goes down. *)
LEMMA ExtDownDriven ==
    ASSUME NEW b \in KeyByte, NEW a \in Moment, NEW c \in Moment, NEW ty, KeyTurn(b, a, c, ty),
           b.part = "down", b.key \in Extended,
           NEW d, IsDriver(d), Driven(d.k, d.down, a, ty), NEW polled,
           NEW f, f = KeyDownExt(d, b.key, polled), f.hole = "none"
    PROVE  Driven(f.k, f.down, c, ty)
  <1>1. PICK k : k = b.key
    OBVIOUS
  <1>2. /\ k \in Keys /\ Change(a.down, k, c.down) /\ c.down = a.down \cup {k} /\ k \notin a.down
        /\ a.n \in Nat /\ ~ c.e0
    BY <1>1, TurnChanges DEF KeyTurn
  <1>3. Flags(d.k, a.down) /\ Shown(d.down, a.down) /\ Filled(d.k.ev, a.n, ty)
    BY DEF Driven
  <1>4. IsKbd(d.k) /\ k \notin d.k.ext /\ f = KeyDownExt(d, k, polled)
    BY <1>1, <1>2, <1>3 DEF Driven, Flags
  <1>5. /\ IsKbd(f.k) /\ f.k.keys = d.k.keys /\ f.k.e0 = FALSE /\ f.k.shift = d.k.shift
        /\ k = RightCtrl => /\ f.k.ext = d.k.ext /\ f.k.ev = d.k.ev /\ f.k.rep = d.k.rep
                            /\ f.k.ctrl = TRUE /\ f.down = d.down
        /\ k # RightCtrl => /\ f.k.ext = d.k.ext \cup {k} /\ f.k.ev = Append(d.k.ev, <<k, "ext">>)
                            /\ f.k.rep \in {d.k.rep, k} /\ f.k.ctrl = d.k.ctrl
                            /\ f.down = d.down \cup {<<k, "ext">>}
    <2>1. ExtDownOf(d, f, k)
      BY <1>4, ExtDownFacts
    <2> QED
      BY <2>1 DEF ExtDownOf
  <1>6. CASE k = RightCtrl
    <2>1. k \in Mods /\ k \in Ctrls /\ k \notin Letters \cup Others /\ k \notin Arrows /\ k \notin Shifts
      <3>1. k \in Ctrls /\ k \in Mods
        BY <1>6 DEF Ctrls, Mods
      <3> QED
        BY <1>2, <3>1, KeyKinds
    <2>2. c.n = a.n
      BY <1>1, <2>1 DEF KeyTurn
    <2>3. /\ c.down \cap (Letters \cup Others) = a.down \cap (Letters \cup Others)
          /\ c.down \cap Arrows = a.down \cap Arrows /\ c.down \cap Shifts = a.down \cap Shifts
          /\ c.down \cap Ctrls # {}
      BY <1>2, <2>1
    <2>4. Flags(f.k, c.down)
      BY <1>2, <1>3, <1>5, <1>6, <2>3 DEF Flags
    <2>5. Shown(f.down, c.down)
      BY <1>2, <1>3, <1>5, <1>6, ShownDown
    <2> QED
      BY <1>2, <1>3, <1>5, <1>6, <2>2, <2>4, <2>5 DEF Driven
  <1>7. CASE k # RightCtrl
    <2>1. k \in Arrows /\ k \notin Mods /\ k \notin Letters \cup Others /\ k \notin Ctrls /\ k \notin Shifts
      <3>1. k \in Arrows
        BY <1>1, <1>7 DEF Extended
      <3> QED
        BY <1>2, <3>1, KeyKinds DEF Mods
    <2>2. c.n = a.n + 1 /\ ty[a.n + 1] = Report(k, a.down)
      BY <1>1, <2>1 DEF KeyTurn
    <2>3. Report(k, a.down) = <<k, "ext">> /\ <<k, "ext">> \in Chars
      <3>1. Report(k, a.down) = <<k, "ext">>
        BY <1>1 DEF Report
      <3>2. Report(k, a.down) \in Chars
        BY <1>2, <2>1, ReportIsChar
      <3> QED
        BY <3>1, <3>2
    <2>4. /\ c.down \cap (Letters \cup Others) = a.down \cap (Letters \cup Others)
          /\ c.down \cap Arrows = (a.down \cap Arrows) \cup {k}
          /\ c.down \cap Shifts = a.down \cap Shifts /\ c.down \cap Ctrls = a.down \cap Ctrls
      BY <1>2, <2>1
    <2>5. Flags(f.k, c.down)
      BY <1>2, <1>3, <1>5, <1>7, <2>4 DEF Flags
    <2>6. Shown(f.down, c.down)
      BY <1>2, <1>3, <1>5, <1>7, <2>3, ShownDown
    <2>7. Filled(f.k.ev, c.n, ty)
      <3>1. Filled(Append(d.k.ev, <<k, "ext">>), a.n + 1, ty)
        BY <1>2, <1>3, <2>2, <2>3, FilledMore
      <3> QED
        BY <1>5, <1>7, <2>2, <3>1
    <2> QED
      BY <1>2, <1>5, <2>5, <2>6, <2>7 DEF Driven
  <1> QED
    BY <1>6, <1>7

(* A key comes up. *)
LEMMA UpDriven ==
    ASSUME NEW b \in KeyByte, NEW a \in Moment, NEW c \in Moment, NEW ty, KeyTurn(b, a, c, ty),
           b.part = "up", b.key \notin Extended,
           NEW d, IsDriver(d), Driven(d.k, d.down, a, ty), NEW polled,
           NEW f, f = KeyUp(d, b.key, polled), f.hole = "none"
    PROVE  Driven(f.k, f.down, c, ty)
  <1>1. PICK k : k = b.key
    OBVIOUS
  <1>2. /\ k \in Keys /\ Change(a.down, k, c.down) /\ c.down = a.down \ {k} /\ k \in a.down
        /\ c.n = a.n /\ ~ c.e0 /\ ~ a.e0
        /\ k \in Shifts => a.down \cap Shifts = {k}
        /\ k \in Ctrls => a.down \cap Ctrls = {k}
    BY <1>1, TurnChanges DEF KeyTurn
  <1>3. Flags(d.k, a.down) /\ Shown(d.down, a.down) /\ Filled(d.k.ev, a.n, ty) /\ IsKbd(d.k)
    BY DEF Driven
  <1>4. /\ IsKbd(f.k) /\ f.k.ext = d.k.ext /\ f.k.e0 = d.k.e0 /\ f.k.ev = d.k.ev
        /\ f.k.keys = d.k.keys \ {k}
        /\ f.k.shift = IF k \in Shifts THEN FALSE ELSE d.k.shift
        /\ f.k.ctrl = IF k = LeftCtrl THEN FALSE ELSE d.k.ctrl
        /\ f.k.rep = "none" \/ (f.k.rep = d.k.rep /\ f.k.rep # k)
        /\ f.down = d.down \ {IF k \in Shifts \cup Ctrls THEN <<k, "mod">>
                              ELSE ScToAscii(k, d.k.shift, d.k.ctrl)}
    <2>1. UpOf(d, f, k)
      BY <1>1, <1>3, KeyUpFacts
    <2> QED
      BY <2>1 DEF UpOf
  <1>5. k \in Ctrls <=> k = LeftCtrl
    BY <1>1 DEF Ctrls, Extended
  <1>6. Flags(f.k, c.down)
    <2>1. /\ c.down \cap (Letters \cup Others) = (a.down \cap (Letters \cup Others)) \ {k}
          /\ c.down \cap Arrows = a.down \cap Arrows
      BY <1>1, <1>2 DEF Extended
    <2>2. /\ k \in Shifts => c.down \cap Shifts = {}
          /\ k \in Ctrls => c.down \cap Ctrls = {}
          /\ k \notin Shifts => c.down \cap Shifts = a.down \cap Shifts
          /\ k \notin Ctrls => c.down \cap Ctrls = a.down \cap Ctrls
      BY <1>2
    <2> QED
      BY <1>2, <1>3, <1>4, <1>5, <2>1, <2>2 DEF Flags
  <1>7. Shown(f.down, c.down)
    <2>1. Report(k, a.down) = IF k \in Shifts \cup Ctrls THEN <<k, "mod">>
                              ELSE ScToAscii(k, d.k.shift, d.k.ctrl)
      BY <1>1, <1>3 DEF Report, ScToAscii, Flags, Mods
    <2>2. f.down = d.down \ {Report(k, a.down)}
      BY <1>4, <2>1
    <2> QED
      BY <1>2, <1>3, <2>2, ShownUp
  <1> QED
    BY <1>2, <1>3, <1>4, <1>6, <1>7 DEF Driven

(* An extended key comes up. *)
LEMMA ExtUpDriven ==
    ASSUME NEW b \in KeyByte, NEW a \in Moment, NEW c \in Moment, NEW ty, KeyTurn(b, a, c, ty),
           b.part = "up", b.key \in Extended,
           NEW d, IsDriver(d), Driven(d.k, d.down, a, ty), NEW polled,
           NEW f, f = KeyUpExt(d, b.key, polled), f.hole = "none"
    PROVE  Driven(f.k, f.down, c, ty)
  <1>1. PICK k : k = b.key
    OBVIOUS
  <1>2. /\ k \in Keys /\ Change(a.down, k, c.down) /\ c.down = a.down \ {k} /\ k \in a.down
        /\ c.n = a.n /\ ~ c.e0
        /\ k \in Ctrls => a.down \cap Ctrls = {k}
    BY <1>1, TurnChanges DEF KeyTurn
  <1>3. Flags(d.k, a.down) /\ Shown(d.down, a.down) /\ Filled(d.k.ev, a.n, ty) /\ IsKbd(d.k)
    BY DEF Driven
  <1>4. /\ IsKbd(f.k) /\ f.k.keys = d.k.keys /\ f.k.e0 = FALSE /\ f.k.ev = d.k.ev
        /\ f.k.ext = d.k.ext \ {k} /\ f.k.shift = d.k.shift
        /\ f.k.ctrl = IF k = RightCtrl THEN FALSE ELSE d.k.ctrl
        /\ f.k.rep = "none" \/ (f.k.rep = d.k.rep /\ f.k.rep # k)
        /\ f.down = d.down \ {<<k, "ext">>}
    <2>1. ExtUpOf(d, f, k)
      BY <1>1, <1>3, KeyUpExtFacts
    <2> QED
      BY <2>1 DEF ExtUpOf
  <1>5. (k \in Ctrls <=> k = RightCtrl) /\ k \notin Shifts /\ k \notin Letters \cup Others
    <2>1. k = RightCtrl \/ k \in Arrows
      BY <1>1 DEF Extended
    <2>2. RightCtrl \in Ctrls
      BY DEF Ctrls
    <2>3. k = RightCtrl => k \in Mods
      BY <2>2 DEF Mods
    <2> QED
      BY <1>2, <2>1, <2>2, <2>3, KeyKinds DEF Mods
  <1>6. Flags(f.k, c.down)
    <2>1. /\ c.down \cap (Letters \cup Others) = a.down \cap (Letters \cup Others)
          /\ c.down \cap Arrows = (a.down \cap Arrows) \ {k} /\ c.down \cap Shifts = a.down \cap Shifts
          /\ k \in Ctrls => c.down \cap Ctrls = {}
          /\ k \notin Ctrls => c.down \cap Ctrls = a.down \cap Ctrls
      BY <1>2, <1>5
    <2> QED
      BY <1>2, <1>3, <1>4, <1>5, <2>1 DEF Flags
  <1>7. Shown(f.down, c.down)
    <2>1. f.down = d.down \ {Report(k, a.down)}
      BY <1>1, <1>4 DEF Report
    <2> QED
      BY <1>2, <1>3, <2>1, ShownUp
  <1> QED
    BY <1>2, <1>3, <1>4, <1>6, <1>7 DEF Driven

(* Any byte of the keyboard. *)
LEMMA ScancodeDriven ==
    ASSUME NEW b \in KeyByte, NEW a \in Moment, NEW c \in Moment, NEW ty, Turn(b, a, c, ty),
           Driven(kbd, down, a, ty), NEW polled,
           NEW f, f = Scancode(b, polled), f.hole = "none"
    PROVE  Driven(f.k, f.down, c, ty)
  <1>1. PICK d : d = Driver
    OBVIOUS
  <1>2. IsDriver(d) /\ d.k = kbd /\ d.down = down
    BY <1>1 DEF IsDriver, Driver
  <1>3. Driven(d.k, d.down, a, ty) /\ (d.k.e0 <=> a.e0)
    BY <1>2 DEF Driven
  <1>4. b.src = "kbd" /\ b.part \in {"e0", "up", "down"}
    BY DEF KeyByte
  <1>5. CASE b.part = "e0"
    <2>1. f = [d EXCEPT !.k.e0 = TRUE]
      BY <1>1, <1>5 DEF Scancode
    <2>2. c.e0 /\ c.down = a.down /\ c.n = a.n
      BY <1>4, <1>5 DEF Turn, KeyTurn
    <2>3. IsKbd(d.k)
      BY <1>3 DEF Driven
    <2>4. f.down = d.down /\ SameKeys([d.k EXCEPT !.e0 = TRUE], f.k) /\ f.k.e0 = TRUE /\ f.k.ev = d.k.ev
          /\ f.k.keys = d.k.keys /\ f.k.ext = d.k.ext /\ f.k.shift = d.k.shift /\ f.k.ctrl = d.k.ctrl
          /\ f.k.rep = d.k.rep /\ IsKbd(f.k)
      BY <1>2, <2>1, <2>3 DEF IsDriver, IsKbd, SameKeys
    <2>5. Flags(f.k, c.down)
      BY <1>3, <2>2, <2>4 DEF Driven, Flags
    <2> QED
      BY <1>3, <2>2, <2>4, <2>5 DEF Driven
  <1>6. CASE b.part # "e0"
    <2>1. KeyTurn(b, a, c, ty)
      BY <1>4, <1>6 DEF Turn
    <2>2. d.k.e0 <=> b.key \in Extended
      BY <1>3, <2>1 DEF KeyTurn
    <2>3. CASE b.part = "down"
      <3>1. f = IF b.key \in Extended THEN KeyDownExt(d, b.key, polled) ELSE KeyDown(d, b.key, polled)
        BY <1>1, <2>2, <2>3 DEF Scancode
      <3>2. CASE b.key \in Extended
        BY <1>2, <1>3, <2>1, <2>3, <3>1, <3>2, ExtDownDriven
      <3>3. CASE b.key \notin Extended /\ b.key \in Mods
        BY <1>2, <1>3, <2>1, <2>3, <3>1, <3>3, ModDownDriven
      <3>4. CASE b.key \notin Extended /\ b.key \notin Mods
        BY <1>2, <1>3, <2>1, <2>3, <3>1, <3>4, CharDownDriven
      <3> QED
        BY <3>2, <3>3, <3>4
    <2>4. CASE b.part = "up"
      <3>1. f = IF b.key \in Extended THEN KeyUpExt(d, b.key, polled) ELSE KeyUp(d, b.key, polled)
        BY <1>1, <2>2, <2>4 DEF Scancode
      <3>2. CASE b.key \in Extended
        BY <1>2, <1>3, <2>1, <2>4, <3>1, <3>2, ExtUpDriven
      <3>3. CASE b.key \notin Extended
        BY <1>2, <1>3, <2>1, <2>4, <3>1, <3>3, UpDriven
      <3> QED
        BY <3>2, <3>3
    <2> QED
      BY <1>4, <1>6, <2>3, <2>4
  <1> QED
    BY <1>5, <1>6

-----------------------------------------------------------------------------
(* The history of the bytes on the wire leads from the driver to the hands. *)
Hands(x, n) == [down |-> x, n |-> n, e0 |-> FALSE]
Story(s) ==
    /\ History(wire, typed, s)
    /\ s[Len(wire)] = Hands(held, Len(typed))
    /\ Driven(kbd, down, s[0], typed)
Keyed == typed \in Seq(Chars) /\ held \subseteq Keys /\ \E s : Story(s)

(* The hands are at a moment. *)
LEMMA HandsFacts ==
    ASSUME NEW x \in SUBSET Keys, NEW n \in Nat
    PROVE  Hands(x, n) \in Moment /\ Hands(x, n).down = x /\ Hands(x, n).n = n /\ Hands(x, n).e0 = FALSE
  BY DEF Hands, Moment

(* What the driver does with a byte of the keyboard. *)
LEMMA KeyTakenKeyed ==
    ASSUME wire \in Seq(Octet), wire # <<>>, Head(wire).src = "kbd", Keyed, NEW polled,
           Apply(Scancode(Head(wire), polled)), wire' = Tail(wire), typed' = typed, held' = held,
           hole' = "none"
    PROVE  Keyed'
  <1>1. PICK s : Story(s)
    BY DEF Keyed
  <1>2. PICK r : /\ History(Tail(wire), typed, r) /\ r[0] = s[1] /\ r[Len(Tail(wire))] = s[Len(wire)]
                 /\ Turn(wire[1], s[0], s[1], typed) /\ s[0] \in Moment /\ s[1] \in Moment
    BY <1>1, HistoryTaken DEF Story
  <1>3. Head(wire) = wire[1] /\ wire[1] \in KeyByte
    BY OctetFacts
  <1>4. PICK f : f = Scancode(wire[1], polled)
    OBVIOUS
  <1>5. kbd' = f.k /\ down' = f.down /\ f.hole = "none"
    BY <1>3, <1>4 DEF Apply
  <1>6. Driven(f.k, f.down, s[1], typed)
    BY <1>1, <1>2, <1>3, <1>4, <1>5, ScancodeDriven DEF Story
  <1>7. Story(r)'
    BY <1>1, <1>2, <1>5, <1>6 DEF Story
  <1> QED
    BY <1>7 DEF Keyed

(* A byte of the mouse says nothing about keys. *)
LEMMA MouseTakenKeyed ==
    ASSUME wire \in Seq(Octet), wire # <<>>, Head(wire).src = "aux", Keyed,
           wire' = Tail(wire), UNCHANGED <<typed, held, kbd, down>>
    PROVE  Keyed'
  <1>1. PICK s : Story(s)
    BY DEF Keyed
  <1>2. PICK r : /\ History(Tail(wire), typed, r) /\ r[0] = s[1] /\ r[Len(Tail(wire))] = s[Len(wire)]
                 /\ Turn(wire[1], s[0], s[1], typed) /\ s[0] \in Moment /\ s[1] \in Moment
    BY <1>1, HistoryTaken DEF Story
  <1>3. wire[1].src = "aux"
    OBVIOUS
  <1>4. s[1] = s[0]
    BY <1>2, <1>3 DEF Turn, KeyTurn
  <1>5. Story(r)'
    BY <1>1, <1>2, <1>4 DEF Story
  <1> QED
    BY <1>5 DEF Keyed

(* What only concerns the other rings. *)
LEMMA RingsKeyed ==
    ASSUME Keyed, UNCHANGED <<wire, typed, held, down>>, IsKbd(kbd) => SameKeys(kbd, kbd') /\ kbd'.ev = kbd.ev
    PROVE  Keyed'
  <1>1. PICK s : Story(s)
    BY DEF Keyed
  <1>2. Driven(kbd', down, s[0], typed)
    BY <1>1 DEF Story, Driven, SameKeys, Flags
  <1>3. Story(s)'
    BY <1>1, <1>2 DEF Story
  <1> QED
    BY <1>3 DEF Keyed

(* Bytes of the mouse behind the others. *)
LEMMA HistoryAux ==
    ASSUME NEW S, NEW w \in Seq(S), NEW q \in Seq(S), NEW ty, NEW s, History(w, ty, s),
           \A i \in 1 .. Len(q) : q[i].src = "aux", ~ s[Len(w)].e0
    PROVE  \E r : History(w \o q, ty, r) /\ r[0] = s[0] /\ r[Len(w \o q)] = s[Len(w)]
  <1>1. PICK m \in Nat, n \in Nat : m = Len(w) /\ n = Len(q)
    OBVIOUS
  <1>2. s \in [0 .. m -> Moment]
    BY <1>1 DEF History
  <1>3. PICK r : r = [i \in 0 .. m + n |-> IF i <= m THEN s[i] ELSE s[m]]
    OBVIOUS
  <1>4. ASSUME NEW i \in 0 .. m + n PROVE r[i] = (IF i <= m THEN s[i] ELSE s[m]) /\ r[i] \in Moment
    BY <1>2, <1>3
  <1>5. r \in [0 .. m + n -> Moment]
    BY <1>3, <1>4
  <1>6. Len(w \o q) = m + n
    BY <1>1
  <1>7. ASSUME NEW i \in 1 .. m + n PROVE Turn((w \o q)[i], r[i - 1], r[i], ty)
    <2>1. CASE i <= m
      <3>1. (w \o q)[i] = w[i] /\ r[i - 1] = s[i - 1] /\ r[i] = s[i] /\ i \in 1 .. m
        BY <1>1, <1>4, <2>1
      <3> QED
        BY <1>1, <3>1 DEF History
    <2>2. CASE ~ (i <= m)
      <3>1. (w \o q)[i] = q[i - m] /\ i - m \in 1 .. n
        BY <1>1, <2>2
      <3>2. r[i - 1] = s[m] /\ r[i] = s[m]
        <4>1. i \in 0 .. m + n /\ i - 1 \in 0 .. m + n /\ (i - 1 <= m => i - 1 = m)
          BY <2>2
        <4> QED
          BY <1>4, <2>2, <4>1
      <3>3. q[i - m].src = "aux" /\ ~ s[m].e0
        BY <1>1, <3>1
      <3> QED
        BY <3>1, <3>2, <3>3 DEF Turn
    <2> QED
      BY <2>1, <2>2
  <1>8. ASSUME NEW i \in 0 .. m + n, NEW j \in 0 .. m + n, i <= j PROVE r[i].n <= r[j].n
    <2>1. PICK x \in 0 .. m, y \in 0 .. m : x <= y /\ r[i] = s[x] /\ r[j] = s[y]
      <3>1. i <= m => r[i] = s[i] /\ i \in 0 .. m
        BY <1>4
      <3>2. ~ (i <= m) => r[i] = s[m] /\ r[j] = s[m] /\ m \in 0 .. m
        BY <1>4, <1>8
      <3>3. j <= m => r[j] = s[j] /\ j \in 0 .. m
        BY <1>4
      <3>4. ~ (j <= m) => r[j] = s[m] /\ m \in 0 .. m
        BY <1>4
      <3> QED
        BY <1>8, <3>1, <3>2, <3>3, <3>4
    <2> QED
      BY <1>1, <2>1 DEF History
  <1>9. History(w \o q, ty, r)
    BY <1>5, <1>6, <1>7, <1>8 DEF History
  <1>10. r[0] = s[0] /\ r[m + n] = s[m]
    <2>1. 0 \in 0 .. m + n /\ m + n \in 0 .. m + n /\ 0 <= m /\ (m + n <= m => m + n = m)
      OBVIOUS
    <2> QED
      BY <1>4, <2>1
  <1> QED
    BY <1>1, <1>6, <1>9, <1>10

(* The mouse moves. *)
LEMMA MoveKeyed ==
    ASSUME wire \in Seq(Octet), Keyed, NEW q \in Seq(AuxByte), wire' = wire \o q,
           UNCHANGED <<typed, held, kbd, down>>
    PROVE  Keyed'
  <1>1. PICK s : Story(s)
    BY DEF Keyed
  <1>2. q \in Seq(Octet) /\ \A i \in 1 .. Len(q) : q[i].src = "aux"
    BY OctetFacts
  <1>3. ~ s[Len(wire)].e0
    BY <1>1 DEF Story, Hands
  <1>4. PICK r : History(wire \o q, typed, r) /\ r[0] = s[0] /\ r[Len(wire \o q)] = s[Len(wire)]
    BY <1>1, <1>2, <1>3, HistoryAux DEF Story
  <1>5. Story(r)'
    BY <1>1, <1>4 DEF Story
  <1> QED
    BY <1>5 DEF Keyed

(* The byte of key k leads from what the hands did to moment c. *)
Leads(k, part, c, tz) ==
    \A a \in Moment : a.down = held /\ a.n = Len(typed) /\ (a.e0 <=> k \in Extended)
        => KeyTurn([src |-> "kbd", part |-> part, key |-> k, sync |-> FALSE], a, c, tz)

(* The bytes of a key behind the others. *)
LEMMA BytesCome ==
    ASSUME wire \in Seq(Octet), typed \in Seq(Chars), held \subseteq Keys, NEW s, Story(s),
           NEW k \in Keys, NEW part \in {"down", "up"}, NEW tz, NEW c \in Moment, Len(typed) <= c.n,
           Begins(tz, typed, Len(typed)), Leads(k, part, c, tz)
    PROVE  \E r : Tells(wire \o Bytes(k, part), tz, r, c) /\ r[0] = s[0]
  <1>1. PICK n \in Nat, h \in Moment : n = Len(typed) /\ h = Hands(held, n) /\ h.down = held /\ h.n = n /\ h.e0 = FALSE
    <2>1. PICK n \in Nat : n = Len(typed)
      OBVIOUS
    <2>2. /\ Hands(held, n) \in Moment /\ Hands(held, n).down = held
          /\ Hands(held, n).n = n /\ Hands(held, n).e0 = FALSE
      BY HandsFacts
    <2> QED
      BY <2>1, <2>2
  <1>2. Tells(wire, typed, s, h)
    BY <1>1 DEF Story, Tells
  <1>3. PICK b \in Octet : b = [src |-> "kbd", part |-> part, key |-> k, sync |-> FALSE]
    BY DEF Octet, KeyByte
  <1>4. CASE k \notin Extended
    <2>1. KeyTurn(b, h, c, tz)
      BY <1>1, <1>3, <1>4 DEF Leads
    <2>2. Turn(b, h, c, tz)
      BY <2>1 DEF Turn
    <2>3. wire \o Bytes(k, part) = Append(wire, b)
      <3>1. Bytes(k, part) = <<>> \o <<b>>
        BY <1>3, <1>4, Zenon DEF Bytes
      <3>2. <<>> \o <<b>> = <<b>>
        OBVIOUS
      <3>3. wire \o <<b>> = Append(wire, b)
        OBVIOUS
      <3> QED
        BY <3>1, <3>2, <3>3
    <2>4. h.n <= c.n /\ Begins(tz, typed, h.n)
      BY <1>1
    <2>5. PICK r : Tells(Append(wire, b), tz, r, c) /\ r[0] = s[0]
      BY <1>2, <2>2, <2>4, TellsMore
    <2> QED
      BY <2>3, <2>5
  <1>5. CASE k \in Extended
    <2>1. PICK e \in Octet : e = [src |-> "kbd", part |-> "e0", key |-> k, sync |-> FALSE]
      BY DEF Octet, KeyByte
    <2>2. PICK a \in Moment : a.down = held /\ a.n = n /\ a.e0
      <3>1. [down |-> held, n |-> n, e0 |-> TRUE] \in Moment
        BY DEF Moment
      <3> QED
        BY <3>1
    <2>3. Turn(e, h, a, typed) /\ h.n <= a.n /\ Begins(typed, typed, h.n)
      <3>1. e.src = "kbd" /\ e.part = "e0"
        BY <2>1
      <3> QED
        BY <1>1, <2>2, <3>1 DEF Turn, Begins
    <2>4. PICK u \in Seq(Octet) : u = Append(wire, e)
      <3>1. Append(wire, e) \in Seq(Octet)
        OBVIOUS
      <3> QED
        BY <3>1
    <2>5. PICK q : Tells(u, typed, q, a) /\ q[0] = s[0]
      BY <1>2, <2>3, <2>4, TellsMore
    <2>6. Turn(b, a, c, tz)
      BY <1>1, <1>3, <1>5, <2>2 DEF Turn, Leads
    <2>7. wire \o Bytes(k, part) = Append(u, b)
      <3>1. Bytes(k, part) = <<e>> \o <<b>>
        BY <1>3, <1>5, <2>1, Zenon DEF Bytes
      <3>2. <<e>> \in Seq(Octet) /\ <<b>> \in Seq(Octet)
        OBVIOUS
      <3>3. wire \o (<<e>> \o <<b>>) = (wire \o <<e>>) \o <<b>>
        BY <3>2, ConcatAssociative
      <3>4. wire \o <<e>> = Append(wire, e)
        OBVIOUS
      <3>5. u \o <<b>> = Append(u, b)
        OBVIOUS
      <3> QED
        BY <2>4, <3>1, <3>3, <3>4, <3>5
    <2>8. a.n <= c.n /\ Begins(tz, typed, a.n)
      BY <1>1, <2>2
    <2>9. PICK r : Tells(Append(u, b), tz, r, c) /\ r[0] = q[0]
      BY <2>5, <2>6, <2>8, TellsMore
    <2> QED
      BY <2>5, <2>7, <2>9
  <1> QED
    BY <1>4, <1>5

(* The driver looks no further than its ring. *)
LEMMA DrivenLonger ==
    ASSUME NEW k, NEW dn, NEW a, NEW ty, NEW tz, Driven(k, dn, a, ty), Begins(tz, ty, a.n)
    PROVE  Driven(k, dn, a, tz)
  BY DEF Driven, Filled, Begins

(* Before the last moment no more was typed than at the end. *)
LEMMA StoryCounts ==
    ASSUME wire \in Seq(Octet), typed \in Seq(Chars), NEW s, Story(s)
    PROVE  s[0] \in Moment /\ s[0].n \in Nat /\ s[0].n <= Len(typed)
  <1>1. PICK m \in Nat : m = Len(wire)
    OBVIOUS
  <1>2. 0 \in 0 .. m /\ m \in 0 .. m /\ 0 <= m
    OBVIOUS
  <1>3. s[0] \in Moment /\ s[0].n <= s[m].n
    BY <1>1, <1>2 DEF Story, History
  <1>4. s[m].n = Len(typed)
    BY <1>1 DEF Story, Hands
  <1> QED
    BY <1>3, <1>4 DEF Moment

(* A key goes down or comes up: what the hands did is c. *)
LEMMA HandsMove ==
    ASSUME wire \in Seq(Octet), Keyed, NEW k \in Keys, NEW part \in {"down", "up"},
           wire' = wire \o Bytes(k, part), UNCHANGED <<kbd, down>>,
           typed' \in Seq(Chars), held' \subseteq Keys,
           NEW c \in Moment, c = Hands(held', Len(typed')), Len(typed) <= c.n, Begins(typed', typed, Len(typed)),
           Leads(k, part, c, typed')
    PROVE  Keyed'
  <1>1. PICK s : Story(s)
    BY DEF Keyed
  <1>2. typed \in Seq(Chars) /\ held \subseteq Keys
    BY DEF Keyed
  <1>3. PICK r : Tells(wire \o Bytes(k, part), typed', r, c) /\ r[0] = s[0]
    BY <1>1, <1>2, BytesCome
  <1>4. Begins(typed', typed, s[0].n)
    BY <1>1, <1>2, StoryCounts DEF Begins
  <1>5. Driven(kbd, down, s[0], typed')
    BY <1>1, <1>4, DrivenLonger DEF Story
  <1>6. Story(r)'
    BY <1>3, <1>5 DEF Story, Tells
  <1> QED
    BY <1>6 DEF Keyed

(* A key goes down. *)
LEMMA PressKeyed ==
    ASSUME wire \in Seq(Octet), Keyed, NEW k \in Keys, Press(k), hole' = "none"
    PROVE  Keyed'
  <1>1. PICK n \in Nat : n = Len(typed) /\ typed \in Seq(Chars) /\ held \subseteq Keys
    BY DEF Keyed
  <1>2. /\ wire' = wire \o Bytes(k, "down") /\ UNCHANGED <<kbd, down>>
        /\ k \notin held /\ held' = held \cup {k} /\ held' \subseteq Keys
    BY <1>1 DEF Press
  <1>3. k \in Mods => held \cap Letters = {}
    BY BrokenFacts DEF Press, Mods
  <1>4. typed' = IF k \in Mods THEN typed ELSE Append(typed, Report(k, held))
    <2>1. CASE k \in Letters \cup Others
      <3>1. k \notin Mods /\ Report(k, held) = ScToAscii(k, held \cap Shifts # {}, held \cap Ctrls # {})
        BY <2>1, KeyKinds DEF Report, ScToAscii
      <3>2. typed' = CASE k \in Letters \cup Others ->
                            Append(typed, ScToAscii(k, held \cap Shifts # {}, held \cap Ctrls # {}))
                       [] k \in Arrows -> Append(typed, <<k, "ext">>)
                       [] OTHER -> typed
        BY DEF Press
      <3>3. k \notin Arrows
        BY <2>1, KeyKinds
      <3>4. PICK x : x = ScToAscii(k, held \cap Shifts # {}, held \cap Ctrls # {})
        OBVIOUS
      <3>5. typed' = Append(typed, x)
        BY <2>1, <3>2, <3>3, <3>4, Zenon
      <3>6. x = Report(k, held)
        BY <3>1, <3>4, Zenon
      <3> QED
        BY <3>1, <3>5, <3>6
    <2>2. CASE k \in Arrows
      <3>1. k \notin Mods /\ Report(k, held) = <<k, "ext">> /\ k \notin Letters \cup Others
        BY <2>2, KeyKinds DEF Report
      <3> QED
        BY <2>2, <3>1 DEF Press
    <2>3. CASE k \in Mods
      <3>1. k \notin Letters \cup Others /\ k \notin Arrows
        BY <2>3, KeyKinds
      <3> QED
        BY <2>3, <3>1 DEF Press
    <2> QED
      BY <2>1, <2>2, <2>3, KeyKinds
  <1>5. PICK m \in Nat : /\ m = Len(typed') /\ typed' \in Seq(Chars) /\ Begins(typed', typed, n)
                         /\ IF k \in Mods THEN m = n ELSE m = n + 1 /\ typed'[m] = Report(k, held)
    <2>1. CASE k \in Mods
      BY <1>1, <1>4, <2>1 DEF Begins
    <2>2. CASE k \notin Mods
      <3>1. PICK x \in Chars : x = Report(k, held)
        BY <2>2, ReportIsChar
      <3>2. typed' = Append(typed, x)
        BY <1>4, <2>2, <3>1
      <3> QED
        BY <1>1, <2>2, <3>1, <3>2 DEF Begins
    <2> QED
      BY <2>1, <2>2
  <1>6. PICK c \in Moment : /\ c = Hands(held', m) /\ c.down = held' /\ c.n = m /\ c.e0 = FALSE
    <2>1. PICK x \in SUBSET Keys : x = held'
      BY <1>2
    <2>2. Hands(x, m) \in Moment /\ Hands(x, m).down = x /\ Hands(x, m).n = m /\ Hands(x, m).e0 = FALSE
      BY HandsFacts
    <2> QED
      BY <2>1, <2>2
  <1>7. Leads(k, "down", c, typed')
    <2>1. PICK b : b = [src |-> "kbd", part |-> "down", key |-> k, sync |-> FALSE]
      OBVIOUS
    <2>2. b.src = "kbd" /\ b.part = "down" /\ b.key = k
      BY <2>1
    <2>3. ASSUME NEW a \in Moment, a.down = held, a.n = n, a.e0 <=> k \in Extended
          PROVE  KeyTurn(b, a, c, typed')
      BY <1>2, <1>3, <1>5, <1>6, <2>2, <2>3 DEF KeyTurn
    <2> QED
      BY <1>1, <2>1, <2>3 DEF Leads
  <1>8. Len(typed) <= c.n /\ Begins(typed', typed, Len(typed)) /\ c = Hands(held', Len(typed'))
    BY <1>1, <1>5, <1>6
  <1> QED
    BY <1>2, <1>5, <1>7, <1>8, HandsMove

(* A key comes up. *)
LEMMA ReleaseKeyed ==
    ASSUME wire \in Seq(Octet), Keyed, NEW k \in Keys, Release(k), hole' = "none"
    PROVE  Keyed'
  <1>1. PICK n \in Nat : n = Len(typed) /\ typed \in Seq(Chars) /\ held \subseteq Keys
    BY DEF Keyed
  <1>2. /\ wire' = wire \o Bytes(k, "up") /\ UNCHANGED <<kbd, down, typed>>
        /\ k \in held /\ held' = held \ {k} /\ held' \subseteq Keys
    BY <1>1 DEF Release
  <1>3. /\ k \in Mods => held \cap Letters = {}
        /\ k \in Shifts => held \cap Shifts = {k}
        /\ k \in Ctrls => held \cap Ctrls = {k}
    BY BrokenFacts DEF Release, Mods
  <1>4. PICK c \in Moment : c = Hands(held', n) /\ c.down = held' /\ c.n = n /\ c.e0 = FALSE
    <2>1. PICK x \in SUBSET Keys : x = held'
      BY <1>2
    <2>2. Hands(x, n) \in Moment /\ Hands(x, n).down = x /\ Hands(x, n).n = n /\ Hands(x, n).e0 = FALSE
      BY HandsFacts
    <2> QED
      BY <2>1, <2>2
  <1>5. Leads(k, "up", c, typed')
    <2>1. PICK b : b = [src |-> "kbd", part |-> "up", key |-> k, sync |-> FALSE]
      OBVIOUS
    <2>2. b.src = "kbd" /\ b.part = "up" /\ b.key = k
      BY <2>1
    <2>3. ASSUME NEW a \in Moment, a.down = held, a.n = n, a.e0 <=> k \in Extended
          PROVE  KeyTurn(b, a, c, typed')
      BY <1>2, <1>3, <1>4, <2>2, <2>3 DEF KeyTurn
    <2> QED
      BY <1>1, <2>1, <2>3 DEF Leads
  <1>6. Len(typed) <= c.n /\ Begins(typed', typed, Len(typed)) /\ c = Hands(held', Len(typed'))
        /\ typed' \in Seq(Chars)
    BY <1>1, <1>2, <1>4 DEF Begins
  <1> QED
    BY <1>2, <1>5, <1>6, HandsMove

(* A character is read from the ring. *)
LEMMA GetEventKeyed ==
    ASSUME wire \in Seq(Octet), Keyed, NEW p, GetEvent(p)
    PROVE  Keyed'
  <1>1. PICK s : Story(s)
    BY DEF Keyed
  <1>2. typed \in Seq(Chars) /\ held \subseteq Keys
    BY DEF Keyed
  <1>3. PICK a \in Moment, n \in Nat : a = s[0] /\ n = a.n /\ n <= Len(typed)
    BY <1>1, <1>2, StoryCounts
  <1>4. Driven(kbd, down, a, typed) /\ Filled(kbd.ev, n, typed) /\ IsKbd(kbd)
    BY <1>1, <1>3 DEF Story, Driven
  <1>5. kbd.ev \in Seq(Chars) /\ Len(kbd.ev) = n /\ n >= 1 /\ kbd.ev[1] = typed[1]
    <2>1. kbd.ev \in Seq(Chars) /\ Len(kbd.ev) = n /\ \A i \in 1 .. n : kbd.ev[i] = typed[i]
      BY <1>4 DEF Filled
    <2>2. kbd.ev # <<>>
      BY DEF GetEvent
    <2>3. n >= 1
      BY <2>1, <2>2
    <2> QED
      BY <2>1, <2>3
  <1>6. typed # <<>> /\ Head(typed) = Head(kbd.ev)
    BY <1>2, <1>3, <1>5
  <1>7. typed' = Tail(typed) /\ UNCHANGED <<wire, held, down>> /\ kbd' = [kbd EXCEPT !.ev = Tail(kbd.ev)]
    BY <1>6 DEF GetEvent, Read
  <1>8. SUFFICES \E r : Story(r)'
    <2>1. typed' \in Seq(Chars) /\ held' \subseteq Keys
      BY <1>2, <1>6, <1>7
    <2> QED
      BY <2>1 DEF Keyed
  <1>9. PICK m \in Nat : m = Len(typed) /\ s[Len(wire)] = Hands(held, m) /\ s[Len(wire)].n = m
    <2>1. PICK m \in Nat : m = Len(typed)
      BY <1>2
    <2>2. s[Len(wire)] = Hands(held, m)
      BY <1>1, <2>1 DEF Story
    <2>3. Hands(held, m).n = m
      BY <1>2, HandsFacts
    <2> QED
      BY <2>1, <2>2, <2>3
  <1>10. PICK r : /\ History(wire, Tail(typed), r)
                  /\ r[0] = Less(a) /\ r[Len(wire)] = Less(s[Len(wire)])
    BY <1>1, <1>2, <1>3, <1>5, <1>9, HistoryRead DEF Story
  <1>11. r[Len(wire)] = Hands(held, Len(typed'))
    <2>1. Len(typed') = m - 1
      BY <1>2, <1>6, <1>7, <1>9
    <2>2. Less(Hands(held, m)) = Hands(held, m - 1)
      BY DEF Less, Hands
    <2> QED
      BY <1>9, <1>10, <2>1, <2>2
  <1>12. Less(a).n = n - 1 /\ Less(a).down = a.down /\ Less(a).e0 = a.e0
    BY <1>3, <1>5, LessFacts
  <1>13. Filled(Tail(kbd.ev), n - 1, Tail(typed))
    <2>1. Tail(kbd.ev) \in Seq(Chars) /\ Len(Tail(kbd.ev)) = n - 1
      BY <1>5
    <2>2. ASSUME NEW i \in 1 .. n - 1 PROVE Tail(kbd.ev)[i] = Tail(typed)[i]
      <3>1. Tail(kbd.ev)[i] = kbd.ev[i + 1] /\ i + 1 \in 1 .. n
        BY <1>5
      <3>2. Tail(typed)[i] = typed[i + 1]
        BY <1>2, <1>3, <1>6
      <3> QED
        BY <1>4, <3>1, <3>2 DEF Filled
    <2> QED
      BY <2>1, <2>2 DEF Filled
  <1>14. /\ IsKbd(kbd') /\ kbd'.keys = kbd.keys /\ kbd'.ext = kbd.ext /\ kbd'.e0 = kbd.e0
         /\ kbd'.shift = kbd.shift /\ kbd'.ctrl = kbd.ctrl /\ kbd'.rep = kbd.rep /\ kbd'.ev = Tail(kbd.ev)
    BY <1>4, <1>7 DEF IsKbd
  <1>15. Driven(kbd', down', Less(a), typed')
    <2>1. Flags(kbd', a.down)
      BY <1>4, <1>14 DEF Driven, Flags
    <2> QED
      BY <1>4, <1>7, <1>12, <1>13, <1>14, <2>1 DEF Driven
  <1>16. Story(r)'
    BY <1>7, <1>10, <1>11, <1>15 DEF Story
  <1> QED
    BY <1>16

(* Every step, up to the first hole. *)
LEMMA NextKeyed ==
    ASSUME wire \in Seq(Octet), hole = "none" => Keyed, [Next]_vars, hole' = "none"
    PROVE  Keyed'
  <1>1. ASSUME hole = "none", UNCHANGED <<wire, typed, held, down>>,
               IsKbd(kbd) => SameKeys(kbd, kbd') /\ kbd'.ev = kbd.ev
        PROVE  Keyed'
    BY <1>1, RingsKeyed
  <1>2. kbd' = kbd => (IsKbd(kbd) => SameKeys(kbd, kbd') /\ kbd'.ev = kbd.ev)
    BY DEF SameKeys
  <1>3. ASSUME NEW k \in Keys, Press(k) PROVE Keyed'
    <2>1. hole = "none"
      BY <1>3, BrokenFacts DEF Press
    <2> QED
      BY <1>3, <2>1, PressKeyed
  <1>4. ASSUME NEW k \in Keys, Release(k) PROVE Keyed'
    <2>1. hole = "none"
      BY <1>4, BrokenFacts DEF Release
    <2> QED
      BY <1>4, <2>1, ReleaseKeyed
  <1>5. ASSUME NEW btn \in {0, 1}, NEW moved \in BOOLEAN, Move(btn, moved) PROVE Keyed'
    <2>1. wire' = wire \o Packet(btn, moved)
      BY <1>5, Zenon DEF Move, Packet
    <2>2. Packet(btn, moved) \in Seq(AuxByte)
      BY PacketFacts DEF IsPacket
    <2>3. hole = "none" /\ UNCHANGED <<typed, held, kbd, down>>
      BY <1>5 DEF Move
    <2> QED
      BY <2>1, <2>2, <2>3, MoveKeyed
  <1>6. CASE KeyboardIrq
    <2>1. /\ wire # <<>> /\ Head(wire).src = "kbd" /\ Apply(Scancode(Head(wire), FALSE))
          /\ wire' = Tail(wire) /\ typed' = typed /\ held' = held
      BY <1>6 DEF KeyboardIrq
    <2>2. hole = "none"
      <3>1. Head(wire) \in KeyByte
        BY <2>1, OctetFacts
      <3>2. Scancode(Head(wire), FALSE).hole = "none"
        BY <2>1 DEF Apply
      <3> QED
        BY <3>1, <3>2, ScancodeKeeps
    <2> QED
      BY <2>1, <2>2, KeyTakenKeyed
  <1>7. CASE MouseIrq
    <2>1. /\ wire # <<>> /\ Head(wire).src = "aux" /\ wire' = Tail(wire)
          /\ UNCHANGED <<typed, held, kbd, down>>
      BY <1>7 DEF MouseIrq
    <2>2. hole = "none"
      BY <1>7, BrokenFacts DEF MouseIrq
    <2> QED
      BY <2>1, <2>2, MouseTakenKeyed
  <1>8. CASE ReadKeyboard
    <2>1. kbd' = [kbd EXCEPT !.iev = <<>>] /\ UNCHANGED <<wire, typed, held, down>> /\ hole = "none"
      BY <1>8 DEF ReadKeyboard, ghosts
    <2>2. IsKbd(kbd) => SameKeys(kbd, kbd') /\ kbd'.ev = kbd.ev
      BY <2>1 DEF IsKbd, SameKeys
    <2> QED
      BY <1>1, <2>1, <2>2
  <1>9. ASSUME NEW p \in Readers, GetEvent(p) PROVE Keyed'
    <2>1. hole = "none"
      BY <1>9 DEF GetEvent
    <2> QED
      BY <1>9, <2>1, GetEventKeyed
  <1>10. ASSUME NEW p \in Readers, PollStatus(p) PROVE Keyed'
    <2>1. UNCHANGED <<wire, typed, held, down>> /\ hole = "none"
      BY <1>10 DEF PollStatus, ghosts
    <2>2. kbd' = kbd \/ kbd' = [kbd EXCEPT !.buf = Tail(@)]
      BY <1>10 DEF PollStatus
    <2>3. IsKbd(kbd) => SameKeys(kbd, kbd') /\ kbd'.ev = kbd.ev
      BY <2>2 DEF IsKbd, SameKeys
    <2> QED
      BY <1>1, <2>1, <2>3
  <1>11. ASSUME NEW p \in Readers, PollData(p) PROVE Keyed'
    <2>1. CASE wire = <<>> \/ Head(wire).src # "kbd" \/ Len(wire) < reader[p].saw
      <3>1. hole' = Broken("reread")
        BY <1>11, <2>1 DEF PollData
      <3> QED
        BY <3>1, BrokenFacts
    <2>2. CASE ~ (wire = <<>> \/ Head(wire).src # "kbd" \/ Len(wire) < reader[p].saw)
      <3>1. /\ wire # <<>> /\ Head(wire).src = "kbd" /\ Apply(Scancode(Head(wire), TRUE))
            /\ wire' = Tail(wire) /\ typed' = typed /\ held' = held
        BY <1>11, <2>2 DEF PollData
      <3>2. hole = "none"
        <4>1. Head(wire) \in KeyByte
          BY <3>1, OctetFacts
        <4>2. Scancode(Head(wire), TRUE).hole = "none"
          BY <3>1 DEF Apply
        <4> QED
          BY <4>1, <4>2, ScancodeKeeps
      <3> QED
        BY <3>1, <3>2, KeyTakenKeyed
    <2> QED
      BY <2>1, <2>2
  <1>12. ASSUME NEW p \in Readers, Repeat(p) PROVE Keyed'
    <2>1. PICK c : kbd' = PushEvent(Driver, c, 2).k /\ hole' = PushEvent(Driver, c, 2).hole
      BY <1>12 DEF Repeat
    <2>2. UNCHANGED <<wire, typed, held, down>>
      BY <1>12 DEF Repeat
    <2>3. PICK d : d = Driver
      OBVIOUS
    <2>4. IsDriver(d) /\ d.k = kbd /\ d.hole = hole
      BY <2>3 DEF IsDriver, Driver
    <2>5. hole = "none"
      BY <2>1, <2>3, <2>4, PushEventKeeps DEF Keeps
    <2>6. IsKbd(kbd) => SameKeys(kbd, kbd') /\ kbd'.ev = kbd.ev
      BY <2>1, <2>3, <2>4, BrokenFacts DEF PushEvent, IsDriver, IsKbd, SameKeys
    <2> QED
      BY <1>1, <2>2, <2>5, <2>6
  <1>13. ASSUME NEW p \in Readers, NEW canon \in BOOLEAN, TtyRead(p, canon) PROVE Keyed'
    <2>1. UNCHANGED <<wire, typed, held, down, kbd, hole>>
      BY <1>13 DEF TtyRead
    <2> QED
      BY <1>1, <1>2, <2>1
  <1>14. ASSUME NEW p \in Readers, Drained(p) PROVE Keyed'
    <2>1. UNCHANGED <<wire, typed, held, down, kbd, hole>>
      BY <1>14 DEF Drained, ghosts
    <2> QED
      BY <1>1, <1>2, <2>1
  <1>15. ASSUME ReadMouse \/ Rest \/ UNCHANGED vars PROVE Keyed'
    <2>1. UNCHANGED <<wire, typed, held, down, kbd, hole>>
      BY <1>15 DEF ReadMouse, Rest, vars, ghosts
    <2> QED
      BY <1>1, <1>2, <2>1
  <1>16. ASSUME NEW p \in Readers, Overlap(p) PROVE FALSE
    BY <1>16, BrokenFacts DEF Overlap
  <1> QED
    BY <1>3, <1>4, <1>5, <1>6, <1>7, <1>8, <1>9, <1>10, <1>11, <1>12, <1>13, <1>14, <1>15, <1>16 DEF Next

(* At boot nothing was typed and no key is down. *)
LEMMA InitKeyed ==
    ASSUME Init, wire \in Seq(Octet), \A i \in 1 .. Len(wire) : wire[i].src = "aux"
    PROVE  Keyed
  <1>1. typed = <<>> /\ held = {} /\ down = {}
    BY DEF Init
  <1>2. /\ IsKbd(kbd) /\ kbd.keys = {} /\ kbd.ext = {} /\ kbd.e0 = FALSE /\ kbd.shift = FALSE
        /\ kbd.ctrl = FALSE /\ kbd.ev = <<>> /\ kbd.rep = "none"
    BY DEF Init, IsKbd
  <1>3. PICK h \in Moment : h = Hands({}, 0) /\ h.down = {} /\ h.n = 0 /\ h.e0 = FALSE
    <2>1. {} \in SUBSET Keys /\ 0 \in Nat
      OBVIOUS
    <2> QED
      BY <2>1, HandsFacts
  <1>4. PICK m \in Nat : m = Len(wire)
    OBVIOUS
  <1>5. PICK s : s = [i \in 0 .. m |-> h]
    OBVIOUS
  <1>6. s \in [0 .. m -> Moment] /\ \A i \in 0 .. m : s[i] = h
    BY <1>5
  <1>7. History(wire, typed, s)
    <2>1. ASSUME NEW i \in 1 .. m PROVE Turn(wire[i], s[i - 1], s[i], typed)
      <3>1. s[i - 1] = h /\ s[i] = h /\ wire[i].src = "aux"
        BY <1>4, <1>6
      <3> QED
        BY <1>3, <3>1 DEF Turn
    <2>2. ASSUME NEW i \in 0 .. m, NEW j \in 0 .. m PROVE s[i].n <= s[j].n
      BY <1>3, <1>6
    <2> QED
      BY <1>4, <1>6, <2>1, <2>2 DEF History
  <1>8. Driven(kbd, down, h, typed)
    <2>1. Filled(kbd.ev, 0, typed)
      BY <1>2 DEF Filled
    <2>2. Flags(kbd, {})
      BY <1>2 DEF Flags
    <2>3. Shown(down, {})
      BY <1>1 DEF Shown
    <2> QED
      BY <1>2, <1>3, <2>1, <2>2, <2>3 DEF Driven
  <1>9. Story(s)
    <2>1. s[m] = Hands(held, Len(typed)) /\ s[0] = h
      <3>1. Len(typed) = 0 /\ m \in 0 .. m /\ 0 \in 0 .. m
        BY <1>1
      <3> QED
        BY <1>1, <1>3, <1>6, <3>1
    <2> QED
      BY <1>4, <1>7, <1>8, <2>1 DEF Story
  <1>10. typed \in Seq(Chars) /\ held \subseteq Keys
    BY <1>1
  <1> QED
    BY <1>9, <1>10 DEF Keyed

(* What Keyed says when no byte of the keyboard is on the wire. *)
LEMMA KeyedQuiet ==
    ASSUME wire \in Seq(Octet), Keyed, KeyboardQuiet
    PROVE  typed \in Seq(Chars) /\ Driven(kbd, down, Hands(held, Len(typed)), typed)
  <1>1. PICK s : Story(s)
    BY DEF Keyed
  <1>2. \A i \in 1 .. Len(wire) : wire[i].src # "kbd"
    BY DEF KeyboardQuiet
  <1>3. s[Len(wire)] = s[0]
    BY <1>1, <1>2, HistoryQuiet DEF Story
  <1> QED
    BY <1>1, <1>3 DEF Story, Keyed

(* What was typed is what the ring has. *)
LEMMA KeyedArrives ==
    ASSUME wire \in Seq(Octet), Keyed, KeyboardQuiet
    PROVE  kbd.ev = typed
  <1>1. typed \in Seq(Chars) /\ Driven(kbd, down, Hands(held, Len(typed)), typed)
    BY KeyedQuiet
  <1>2. Filled(kbd.ev, Len(typed), typed)
    BY <1>1 DEF Driven, Hands
  <1> QED
    BY <1>1, <1>2 DEF Filled

(* With the hands off the keys nothing is down. *)
LEMMA KeyedUnstuck ==
    ASSUME wire \in Seq(Octet), Keyed, KeyboardQuiet, held = {}
    PROVE  /\ ~ kbd.shift /\ ~ kbd.ctrl /\ kbd.keys = {} /\ kbd.ext = {} /\ kbd.rep = "none"
           /\ down = {}
  <1>1. Driven(kbd, down, Hands({}, Len(typed)), typed)
    BY KeyedQuiet
  <1>2. Flags(kbd, {}) /\ Shown(down, {})
    BY <1>1 DEF Driven, Hands
  <1> QED
    BY <1>2 DEF Flags, Shown

-----------------------------------------------------------------------------
(* At boot the wire is empty or has the last byte of a packet. *)
LEMMA InitWire ==
    ASSUME Init
    PROVE  /\ wire \in Seq(Octet)
           /\ wire = <<>> \/ (Len(wire) = 1 /\ wire[1].src = "aux" /\ wire[1].part = 2 /\ wire[1].key = 0)
  <1>1. CASE wire = <<>>
    BY <1>1, EmptySeq
  <1>2. CASE wire # <<>>
    <2>1. PICK x \in BOOLEAN : wire = <<[src |-> "aux", part |-> 2, key |-> 0, sync |-> x]>>
      BY <1>2 DEF Init
    <2>a. \A y \in BOOLEAN : [src |-> "aux", part |-> 2, key |-> 0, sync |-> y] \in AuxByte
      BY DEF AuxByte
    <2>2. PICK b : b = [src |-> "aux", part |-> 2, key |-> 0, sync |-> x] /\ b \in AuxByte
      BY <2>1, <2>a, Zenon
    <2>3. b \in Octet /\ b.src = "aux" /\ b.part = 2 /\ b.key = 0
      <3>1. b.src = "aux" /\ b.part = 2 /\ b.key = 0
        BY <2>2
      <3> QED
        BY <2>2, <3>1, OctetFacts
    <2>4. wire = <<b>>
      BY <2>1, <2>2, Zenon
    <2>5. wire \in Seq(Octet) /\ Len(wire) = 1 /\ wire[1] = b
      BY <2>3, <2>4
    <2> QED
      BY <2>3, <2>5, Zenon
  <1> QED
    BY <1>1, <1>2

(* The state at boot, with or without the rest of a packet on the wire. *)
LEMMA InitInv == Init => Inv
  <1>1. SUFFICES ASSUME Init PROVE Inv
    OBVIOUS
  <1>2. mouse \in MouseState /\ mouse.got = <<>> /\ mouse.last = 0
    <2>1. <<>> \in Seq(AuxByte) /\ <<>> \in Seq({0, 1}) /\ <<>> \in Seq(MouseEvent)
      BY EmptySeq
    <2>2. mouse = [got |-> <<>>, pkt |-> <<>>, iev |-> <<>>, last |-> 0]
      BY <1>1 DEF Init
    <2>3. PICK u, v, w : /\ u = <<>> /\ v = <<>> /\ w = <<>>
                         /\ u \in Seq(AuxByte) /\ v \in Seq({0, 1}) /\ w \in Seq(MouseEvent)
      BY <2>1
    <2>4. mouse = [got |-> u, pkt |-> v, iev |-> w, last |-> 0]
      BY <2>2, <2>3, Zenon
    <2>5. mouse \in MouseState /\ mouse.got = u /\ mouse.last = 0
      BY <2>3, <2>4 DEF MouseState
    <2> QED
      BY <2>3, <2>5, Zenon
  <1>3. /\ wire \in Seq(Octet)
        /\ wire = <<>> \/ (Len(wire) = 1 /\ wire[1].src = "aux" /\ wire[1].part = 2 /\ wire[1].key = 0)
    BY <1>1, InitWire
  <1>4. Types
    <2>1. DOMAIN Idle = {"at", "canon", "line", "saw"}
      BY DEF Idle
    <2>2. reader = [p \in Readers |-> Idle]
      BY <1>1 DEF Init
    <2>3. DOMAIN reader = Readers /\ \A p \in Readers : DOMAIN reader[p] = {"at", "canon", "line", "saw"}
      BY <2>1, <2>2
    <2>4. reading \in BOOLEAN /\ garbled \in BOOLEAN /\ overlapped \in BOOLEAN /\ hit \in BOOLEAN
      BY <1>1 DEF Init
    <2> QED
      BY <1>2, <1>3, <2>3, <2>4 DEF Types
  <1>5. PICK m \in {0, 1} : m = Len(wire) /\ (m = 1 => wire[1].src = "aux" /\ wire[1].part = 2 /\ wire[1].key = 0)
        /\ (wire # <<>> => m = 1)
    BY <1>3
  <1>6. Packets
    <2>1. ASSUME NEW i \in 1 .. m PROVE i = 1 /\ wire[i].part = 2
      BY <1>5, <2>1
    <2> QED
      BY <1>5, <2>1 DEF Packets
  <1>7. OneReads /\ (hit => overlapped)
    BY <1>1 DEF Init, OneReads, Idle
  <1>8. InStep
    <2>1. ~ garbled /\ Len(mouse.got) = 0
      BY <1>1, <1>2 DEF Init
    <2>2. wire # <<>> => wire[1].part # 1
      BY <1>5
    <2> QED
      BY <1>2, <2>1, <2>2 DEF InStep
  <1>9. Latest
    <2>1. buttons = 0 /\ sent = 0
      BY <1>1 DEF Init
    <2>2. ASSUME NEW i \in 1 .. m PROVE wire[i].key = 0
      BY <1>5, <2>2
    <2> QED
      BY <1>2, <1>5, <2>1, <2>2 DEF Latest
  <1> QED
    BY <1>4, <1>6, <1>7, <1>8, <1>9 DEF Inv

(* Every step keeps the invariant. *)
LEMMA InvStep == Inv /\ [Next]_vars => Inv'
  <1>1. SUFFICES ASSUME Inv, [Next]_vars PROVE Inv'
    OBVIOUS
  <1>2. Tracks
    BY <1>1, NextTracks DEF Inv
  <1>3. Spares
    BY <1>1, NextSpares DEF Inv
  <1> QED
    BY <1>2, <1>3 DEF Inv, Tracks, Spares, Types, Seats

(* The inductive invariant of the mouse driver and the terminal's flag. *)
THEOREM TerminalInvariant == Spec => []Inv
  BY InitInv, InvStep, PTL DEF Spec

(* The packets mouse_irq_handler puts together are the packets the mouse    *)
(* sent, also when it starts in the middle of one, and the buttons reported *)
(* are those of the last: for any queue lengths, keys between the packets   *)
(* and readers.                                                             *)
THEOREM TerminalTracksMouse == Spec => []MouseIsTracked
  <1>1. ASSUME Inv PROVE MouseIsTracked
    <2>1. SUFFICES ASSUME hole = "none"
                   PROVE  ~ garbled /\ (wire = <<>> /\ mouse.got = <<>> => buttons = sent)
      BY DEF MouseIsTracked
    <2>2. InStep /\ Latest
      BY <1>1, <2>1 DEF Inv
    <2>3. ASSUME wire = <<>>, mouse.got = <<>> PROVE buttons = sent
      <3>1. Len(wire) = 0
        BY <2>3
      <3>2. \A i \in 1 .. Len(wire) : Aux(i) => wire[i].part = 2
        BY <3>1
      <3> QED
        BY <2>2, <2>3, <3>2 DEF Latest
    <2> QED
      BY <2>2, <2>3 DEF InStep
  <1> QED
    BY <1>1, TerminalInvariant, PTL

(* Control-C never becomes a signal while one process reads the terminal:   *)
(* tty_read_mode has g_tty_reading up from its start to its end, unless two *)
(* reads overlap.                                                           *)
THEOREM TerminalSparesReader == Spec => []InterruptSparesReader
  <1>1. Inv => InterruptSparesReader
    BY DEF Inv, InterruptSparesReader
  <1> QED
    BY <1>1, TerminalInvariant, PTL

(* Up to the first hole the bytes on the wire are what the hands did since  *)
(* the moment the keyboard driver is at: its tables, its flags, its ring    *)
(* and what it reported down are those of that moment, whether              *)
(* keyboard_irq_handler or kb_poll took the bytes.                          *)
THEOREM TerminalKeyed == Spec => [](hole = "none" => Keyed)
  <1> DEFINE Held == hole = "none" => Keyed
  <1>1. Init => Held
    <2>1. SUFFICES ASSUME Init PROVE Keyed
      OBVIOUS
    <2>2. wire \in Seq(Octet) /\ \A i \in 1 .. Len(wire) : wire[i].src = "aux"
      BY <2>1, InitWire
    <2> QED
      BY <2>1, <2>2, InitKeyed
  <1>2. Inv /\ Held /\ [Next]_vars => Held'
    <2>1. SUFFICES ASSUME Inv, Held, [Next]_vars, hole' = "none" PROVE Keyed'
      OBVIOUS
    <2>2. wire \in Seq(Octet)
      BY <2>1 DEF Inv, Types
    <2> QED
      BY <2>1, <2>2, NextKeyed
  <1> HIDE DEF Held
  <1>3. Spec => []Held
    BY <1>1, <1>2, TerminalInvariant, PTL DEF Spec
  <1> QED
    BY <1>3 DEF Held

(* With no byte of the keyboard on the wire, what was read from the event   *)
(* ring and is still in it is what was typed: keyboard_irq_handler and      *)
(* kb_poll take each key once, in order and under its modifiers.            *)
THEOREM TerminalKeysArrive == Spec => []KeysArriveAsTyped
  <1>1. Inv /\ (hole = "none" => Keyed) => KeysArriveAsTyped
    <2>1. SUFFICES ASSUME Inv, Keyed, KeyboardQuiet PROVE kbd.ev = typed
      BY DEF KeysArriveAsTyped
    <2>2. wire \in Seq(Octet)
      BY <2>1 DEF Inv, Types
    <2> QED
      BY <2>1, <2>2, KeyedArrives
  <1> QED
    BY <1>1, TerminalInvariant, TerminalKeyed, PTL

(* With every key up and no byte of the keyboard on the wire, no modifier   *)
(* is on, no key repeats and every key reported down was reported up.       *)
THEOREM TerminalNothingSticks == Spec => []NothingSticks
  <1>1. Inv /\ (hole = "none" => Keyed) => NothingSticks
    <2>1. SUFFICES ASSUME Inv, Keyed, KeyboardQuiet, held = {}
                   PROVE  /\ ~ kbd.shift /\ ~ kbd.ctrl /\ kbd.keys = {} /\ kbd.ext = {} /\ kbd.rep = "none"
                          /\ down = {}
      BY DEF NothingSticks
    <2>2. wire \in Seq(Octet)
      BY <2>1 DEF Inv, Types
    <2> QED
      BY <2>1, <2>2, KeyedUnstuck
  <1> QED
    BY <1>1, TerminalInvariant, TerminalKeyed, PTL
=============================================================================
