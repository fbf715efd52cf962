-------------------------------- MODULE Ps2 --------------------------------
(***************************************************************************)
(* The readers of the PS/2 data port: the keyboard interrupt handler       *)
(* (keyboard/ps2_keyboard.c), the mouse interrupt handler                  *)
(* (mouse/ps2_mouse.c) and the kernel's terminal, which polls the port     *)
(* with interrupts enabled (kernel/mainloop.c).  All three read port 0x60  *)
(* without asking whose byte is in it.                                     *)
(*                                                                         *)
(* The controller is external: it puts the next byte of either device in   *)
(* its output buffer when that is empty and raises the device's interrupt, *)
(* which stays pending until it is served; reading an empty buffer returns *)
(* the byte read last.  A handler runs with interrupts off, but not with   *)
(* the controller stopped, and the keyboard's reads the port twice.        *)
(***************************************************************************)
EXTENDS Integers, Sequences, FiniteSets

CONSTANTS
    MaxKeys,        \* bound on the bytes the keyboard sends
    MaxMoves,       \* bound on the bytes the mouse sends
    Width,          \* x_resolution of the screen
    Step            \* how far a movement byte moves the mouse

ASSUME Ps2Assumption ==
    MaxKeys \in Nat /\ MaxMoves \in Nat /\ Width \in Nat \ {0} /\ Step \in Nat

ShiftKeys == {"left", "right"}

\* What the drivers tell bytes apart by: the scancodes of both shift keys, of caps
\* lock and of letters, with and without bit 3. Bit 7 is the release bit of a
\* scancode and the sign of a movement.
Codes == [key : ShiftKeys, up : BOOLEAN] \cup [key : {"caps", "Q"}, up : {FALSE}]
         \cup [key : {"A"}, up : {TRUE}]
Bit3(code) == code.key \in {"left", "caps", "A"}
Movement(code) == IF code.up THEN -Step ELSE Step

\* A keyboard byte, and the n-th byte of a mouse report: the first has bit 3 set,
\* the second is the movement. Nothing in a byte says whose it is.
Press(k) == [key |-> k, up |-> FALSE]
KeyBytes == [dev : {"keyboard"}, code : Codes, n : {0}]
MouseBytes ==
    [dev : {"mouse"}, code : {Press("left")}, n : {1, 3}]
    \cup [dev : {"mouse"}, code : {Press("left"), Press("Q"), [key |-> "A", up |-> TRUE]}, n : {2}]
Bytes == KeyBytes \cup MouseBytes
Empty == [dev |-> "none"]

VARIABLES
    report,         \* how many bytes of its report the mouse has sent
    held,           \* the shift keys that are down
    sent,           \* how many bytes each device has sent
    out, last,      \* the output buffer, and the byte read last
    irq,            \* the pending interrupts
    shift_down, caps,
    reading,        \* the keyboard handler between its two reads: its scancode
    packet, mouse_x,
    loop,           \* kernel_run_main_loop: "poll" the status or "read" the data
    astray          \* history: a byte was read by another reader, or twice

devices == <<report, held, sent>>
port == <<out, last, irq>>
drivers == <<shift_down, caps, reading, packet, mouse_x>>
ps2Vars == <<report, held, sent, out, last, irq, shift_down, caps, reading,
          packet, mouse_x, loop, astray>>

Devices == {"keyboard", "mouse"}
Bound(d) == IF d = "mouse" THEN MaxMoves ELSE MaxKeys
NoCode == [key |-> "none", up |-> FALSE]

Ps2Init ==
    /\ report = 0 /\ held = {}
    /\ sent = [d \in Devices |-> 0]
    /\ out = Empty /\ last = [dev |-> "keyboard", code |-> Press("Q"), n |-> 0]
    /\ irq = {} /\ shift_down = FALSE /\ caps = FALSE /\ reading = NoCode
    /\ packet = <<>> /\ mouse_x = 0 /\ loop = "poll" /\ astray = FALSE

-----------------------------------------------------------------------------
(***************************************************************************)
(* The devices and the controller: a byte waits in its device until the    *)
(* output buffer is empty.                                                 *)
(***************************************************************************)
Load(b) ==
    /\ out = Empty /\ sent[b.dev] < Bound(b.dev)
    /\ out' = b
    /\ sent' = [sent EXCEPT ![b.dev] = @ + 1]
    /\ irq' = irq \cup {b.dev}
    /\ UNCHANGED <<last, drivers, loop, astray>>

\* A key goes down or up.
LoadKey(b) ==
    /\ Load(b)
    /\ b.code.key \in ShiftKeys => (b.code.up <=> b.code.key \in held)
    /\ held' = IF b.code.up THEN held \ {b.code.key}
               ELSE held \cup ({b.code.key} \cap ShiftKeys)
    /\ UNCHANGED report

\* The mouse sends the next byte of a report.
LoadMouse(b) ==
    /\ Load(b)
    /\ b.n = report + 1
    /\ report' = (report + 1) % 3
    /\ UNCHANGED held

\* insb(0x60): what it returns, and what it leaves in the controller.
Data == IF out = Empty THEN last ELSE out
ReadPort == out' = Empty /\ last' = Data

\* The byte is a new one and from the device the reader serves.
Mine(d) == out # Empty /\ out.dev = d

-----------------------------------------------------------------------------
(***************************************************************************)
(* classic_keyboard_handle_interrupt, at its two reads.                    *)
(***************************************************************************)
\* Seeded fault: the handler leaves without reading while a shift is down.
KeyboardInterruptUnread ==
    /\ "keyboard" \in irq /\ reading = NoCode
    /\ irq' = irq \ {"keyboard"}
    /\ IF shift_down
       THEN UNCHANGED <<out, last, reading, astray>>
       ELSE /\ ReadPort
            /\ reading' = Data.code
            /\ astray' = (astray \/ ~Mine("keyboard"))
    /\ UNCHANGED <<devices, shift_down, caps, packet, mouse_x, loop>>
KeyboardInterrupt ==
    /\ "keyboard" \in irq /\ reading = NoCode
    /\ irq' = irq \ {"keyboard"}
    /\ ReadPort
    /\ reading' = Data.code
    /\ astray' = (astray \/ ~Mine("keyboard"))
    /\ UNCHANGED <<devices, shift_down, caps, packet, mouse_x, loop>>

\* Seeded fault: only the left shift key is looked for on a release.
ShiftAfterLeftOnly(code) ==
    IF code.key = "left" THEN ~code.up
    ELSE shift_down \/ (code.key = "right" /\ ~code.up)
\* shift_down once a scancode has been looked at.
ShiftAfter(code) == IF code.key \in ShiftKeys THEN ~code.up ELSE shift_down

\* The second read discards a byte "if needed"; then the scancode is handled.
KeyboardDiscard ==
    /\ reading # NoCode
    /\ ReadPort
    /\ shift_down' = ShiftAfter(reading)
    /\ caps' = IF reading = Press("caps") THEN ~caps ELSE caps
    /\ reading' = NoCode
    /\ astray' = (astray \/ out # Empty)
    /\ UNCHANGED <<devices, irq, packet, mouse_x, loop>>

-----------------------------------------------------------------------------
(***************************************************************************)
(* ps2_mouse_handle_interrupt: a byte without bit 3 is no first byte; the  *)
(* third completes the packet.                                             *)
(***************************************************************************)
Clamp(x) == IF x < 0 THEN 0 ELSE IF x >= Width THEN Width - 1 ELSE x

\* Seeded fault: a packet is complete with its second byte.
PacketAfterShort(b) ==
    IF packet = <<>> /\ ~Bit3(b.code) THEN <<>>
    ELSE IF Len(packet) = 1 THEN <<>> ELSE Append(packet, b)
\* The bytes kept once b has been read.
PacketAfter(b) ==
    IF packet = <<>> /\ ~Bit3(b.code) THEN <<>>
    ELSE IF Len(packet) = 2 THEN <<>> ELSE Append(packet, b)

\* The position a movement leads to.
MoveTo(x) == Clamp(x)

MouseInterrupt ==
    /\ "mouse" \in irq /\ reading = NoCode
    /\ irq' = irq \ {"mouse"}
    /\ ReadPort
    /\ packet' = PacketAfter(Data)
    /\ mouse_x' = IF Len(packet) = 2 THEN MoveTo(mouse_x + Movement(packet[2].code)) ELSE mouse_x
    /\ astray' = (astray \/ ~Mine("mouse"))
    /\ UNCHANGED <<devices, shift_down, caps, reading, loop>>

-----------------------------------------------------------------------------
(***************************************************************************)
(* kernel_run_main_loop: inb(0x64) says there is a byte, inb(0x60) reads   *)
(* one; an interrupt can come before, between and after.                   *)
(***************************************************************************)
PollStatus ==
    /\ loop = "poll" /\ reading = NoCode /\ out # Empty
    /\ loop' = "read"
    /\ UNCHANGED <<devices, port, drivers, astray>>

PollData ==
    /\ loop = "read" /\ reading = NoCode
    /\ ReadPort
    /\ loop' = "poll"
    /\ astray' = TRUE
    /\ UNCHANGED <<devices, irq, drivers>>

Ps2Next ==
    \/ \E b \in KeyBytes : LoadKey(b)
    \/ \E b \in MouseBytes : LoadMouse(b)
    \/ KeyboardInterrupt \/ KeyboardDiscard \/ MouseInterrupt
    \/ PollStatus \/ PollData

\* Interrupts are enabled in the main loop and in user mode, so a pending one
\* is served, and a handler runs to its end.
Ps2Spec ==
    /\ Ps2Init /\ [][Ps2Next]_ps2Vars
    /\ WF_ps2Vars(KeyboardInterrupt) /\ WF_ps2Vars(KeyboardDiscard) /\ WF_ps2Vars(MouseInterrupt)

-----------------------------------------------------------------------------
\* The mouse stays on the screen and at most two bytes of a packet wait.
Ps2TypeOK ==
    /\ report \in 0 .. 2 /\ held \subseteq ShiftKeys /\ (\A d \in Devices : sent[d] \in 0 .. Bound(d))
    /\ out \in Bytes \cup {Empty} /\ last \in Bytes /\ irq \subseteq Devices
    /\ shift_down \in BOOLEAN /\ caps \in BOOLEAN /\ reading \in Codes \cup {NoCode}
    /\ packet \in Seq(Bytes) /\ Len(packet) < 3
    /\ mouse_x \in 0 .. Width - 1
    /\ loop \in {"poll", "read"}

\* Whatever bytes the mouse driver is given it keeps its types; and as long as
\* every byte was read once and by its own driver, it puts packets together from
\* the bytes of one report each (ps2_mouse.c:27-82).
PacketsWhole ==
    /\ Ps2TypeOK
    /\ ~astray => \A i \in DOMAIN packet : packet[i].dev = "mouse" /\ packet[i].n = i

\* As long as every byte was read once and by its own driver, shift is not down
\* once both shift keys are up and the driver has seen it.
ShiftReleased ==
    ~astray /\ held = {} /\ ~Mine("keyboard") /\ reading = NoCode => ~shift_down

\* Whatever the readers do to each other, a byte in the port is read in the end:
\* no order of interrupts and polls leaves the keyboard and the mouse blocked.
PortIsRead == out # Empty ~> out = Empty
=============================================================================
