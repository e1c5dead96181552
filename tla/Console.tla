------------------------------ MODULE Console ------------------------------
(***************************************************************************)
(* Console input of project3/kern/console.c: the keyboard's scan codes and *)
(* the serial port's characters, the circular buffer in front of readers,  *)
(* and cons_getc(), which polls both devices because interrupts are off.   *)
(*                                                                         *)
(* The devices work on their own: keys go up and down and characters       *)
(* arrive between any two reads of a port, so cons_getc() has a program    *)
(* counter and each proc_data() call is a step.                            *)
(*                                                                         *)
(* `shift' is the set of the flags that are 1 in the code's word.  The     *)
(* tables hold the keys of Code only; all other codes give NO.             *)
(***************************************************************************)
EXTENDS Integers, Sequences, FiniteSetsExt

CONSTANTS
    Users,          \* [keys, serial, mouse]: the keys someone works with, the
                    \* characters someone sends to the serial port, and
                    \* whether there is a mouse
    CONSBUFSIZE,    \* length of cons.buf
    KbdFifo         \* bytes the keyboard controller keeps

NO == 0
KEY_DEL == \hE9

(* The bytes a key sends when it goes down, the last of them + 128 when it *)
(* comes up.                                                               *)
Code ==
    [ lshift |-> <<\h2A>>,       rshift |-> <<\h36>>,
      lctl   |-> <<\h1D>>,       rctl   |-> <<\hE0, \h1D>>,
      lalt   |-> <<\h38>>,       ralt   |-> <<\hE0, \h38>>,
      caps   |-> <<\h3A>>,       a      |-> <<\h1E>>,
      delete |-> <<\hE0, \h53>>, keypad_dot |-> <<\h53>> ]

ASSUME UsersAssumption ==
    \A u \in Users :
        u.keys \subseteq DOMAIN Code /\ u.serial \subseteq 1..255 /\ u.mouse \in BOOLEAN
ASSUME BufferAssumption ==
    /\ CONSBUFSIZE \in Nat \ {0}
    /\ KbdFifo \in Nat

(* The modifier each key stands for. *)
Modifier(k) == CASE k \in {"lshift", "rshift"} -> {"SHIFT"}
                 [] k \in {"lctl", "rctl"}     -> {"CTL"}
                 [] k \in {"lalt", "ralt"}     -> {"ALT"}
                 [] OTHER                      -> {}

Modifiers == {"SHIFT", "CTL", "ALT"}

VARIABLES
    user,       \* who is there
    kbd,        \* the controller's bytes, each with the keys held then
    down,       \* the keys that are down
    uart,       \* the serial port's received character, or 0
    terr,       \* the controller's status says KBS_TERR: mouse data comes first
    shift,      \* kbd_proc_data()'s static variable
    held,       \* the keys that were down when the last byte read was sent
    cons,       \* [buf, rpos, wpos]
    poll,       \* where cons_getc() is
    ret,        \* what cons_getc() returned last
    unread,     \* how many of kbd's bytes were there when this call began
    owed,       \* a character that waited in the buffer or in a device when this
                \* call began is due: it waits in the buffer now, or in uart
    rebooted    \* the machine was reset

devices == <<user, kbd, down, uart, terr>>
call == <<poll, ret, unread, owed, rebooted>>
consVars == <<devices, shift, held, cons, call>>

-----------------------------------------------------------------------------
(* The keyboard tables. *)
shiftcode(b) == CASE b \in {\h1D, \h9D} -> {"CTL"}
                  [] b \in {\h2A, \h36} -> {"SHIFT"}
                  [] b \in {\h38, \hB8} -> {"ALT"}
                  [] OTHER              -> {}

togglecode(b) == CASE b = \h3A -> {"CAPSLOCK"}
                   [] b = \h45 -> {"NUMLOCK"}
                   [] b = \h46 -> {"SCROLLLOCK"}
                   [] OTHER    -> {}

(* normalmap, shiftmap and ctlmap, and charcode's choice among them. *)
charcode(s, b) ==
    CASE b = \hD3                    -> KEY_DEL
      [] b = \h1E /\ "CTL" \in s     -> 1
      [] b = \h1E /\ "CTL" \notin s  -> IF "SHIFT" \in s THEN 65 ELSE 97
      [] b = \h53 /\ "CTL" \notin s  -> 46
      [] OTHER                       -> NO

CapsSwap(s, c) ==
    CASE "CAPSLOCK" \in s /\ c \in 97..122 -> c - 32
      [] "CAPSLOCK" \in s /\ c \in 65..90  -> c + 32
      [] OTHER                             -> c

(* What the tables and the serial port give. *)
Chars == (UNION {u.serial : u \in Users}) \cup {1, 46, 65, 97, KEY_DEL}

(* Ctrl-Alt-Del. *)
Reboots(t, c) == {"CTL", "ALT"} \subseteq t /\ c = KEY_DEL

(* A key goes down: the byte with the E0 prefix folded in. *)
KeyDown(s, b) ==
    LET e == IF "E0ESC" \in s THEN b + 128 ELSE b
        t == SymDiff((s \ {"E0ESC"}) \cup shiftcode(e), togglecode(e))
        c == CapsSwap(t, charcode(t, e))
    IN  [shift |-> t, c |-> c,
         reboot |-> Reboots(t, c)]

(* A faulty release that takes every code for one with the E0 prefix. *)
KeyUp_Extended(s, b) ==
    [shift |-> s \ (shiftcode(b) \cup {"E0ESC"}), c |-> 0, reboot |-> FALSE]

(* A key comes up. *)
KeyUp(s, b) ==
    LET e == IF "E0ESC" \in s THEN b ELSE b - 128
    IN  [shift |-> s \ (shiftcode(e) \cup {"E0ESC"}), c |-> 0, reboot |-> FALSE]

kbd_proc_data(s, b) ==
    IF b = \hE0 THEN [shift |-> s \cup {"E0ESC"}, c |-> 0, reboot |-> FALSE]
    ELSE IF b >= 128 THEN KeyUp(s, b)
    ELSE KeyDown(s, b)

-----------------------------------------------------------------------------
(* The buffer. *)

(* The characters between the read and the write position. *)
Waiting(q) ==
    [k \in 1..((q.wpos - q.rpos) % CONSBUFSIZE) |->
        q.buf[(q.rpos + k - 1) % CONSBUFSIZE]]

(* A faulty store that wraps to the second place. *)
cons_store_OffByOne(q, c) ==
    IF c = 0 THEN q
    ELSE [q EXCEPT !.buf[q.wpos] = c,
                   !.wpos = IF q.wpos + 1 = CONSBUFSIZE THEN 1 ELSE q.wpos + 1]

(* The body of cons_intr()'s loop, for what proc() returned. *)
cons_store(q, c) ==
    IF c = 0 THEN q
    ELSE [q EXCEPT !.buf[q.wpos] = c,
                   !.wpos = IF q.wpos + 1 = CONSBUFSIZE THEN 0 ELSE q.wpos + 1]

(* A character that goes into the last free place: all that wait are lost. *)
Overflows(q, c) == c # 0 /\ Len(Waiting(q)) = CONSBUFSIZE - 1

-----------------------------------------------------------------------------
ConsInit ==
    /\ user \in Users
    /\ kbd = <<>> /\ down = {} /\ uart = 0 /\ terr = FALSE
    /\ shift = {} /\ held = {}
    /\ cons = [buf |-> [k \in 0..(CONSBUFSIZE - 1) |-> 0], rpos |-> 0, wpos |-> 0]
    /\ poll = "idle" /\ ret = 0 /\ unread = 0 /\ owed = FALSE /\ rebooted = FALSE

(* The keyboard sends the bytes of a keystroke.  The bound: the controller *)
(* has room for them.                                                      *)
Send(bytes, d) ==
    LET n == Len(bytes)
        records == [k \in 1..n |-> [byte |-> bytes[k],
                                    held |-> IF k = n THEN d ELSE down]]
    IN  /\ down' = d
        /\ Len(kbd) + n <= KbdFifo
        /\ kbd' = kbd \o records
        /\ UNCHANGED <<user, uart, terr, shift, held, cons, call>>

(* A key goes down, or repeats while it is down. *)
Press(k) == ~rebooted /\ Send(Code[k], down \cup {k})

Release(k) ==
    /\ ~rebooted /\ k \in down
    /\ Send([Code[k] EXCEPT ![Len(Code[k])] = @ + 128], down \ {k})

(* A character arrives; without a FIFO it replaces one that was not read. *)
SerialArrives(c) ==
    /\ ~rebooted
    /\ uart' = c
    /\ UNCHANGED <<user, kbd, down, terr, shift, held, cons, call>>

(* The mouse sends something, or the status changes back. *)
MouseData ==
    /\ user.mouse /\ ~rebooted
    /\ terr' = ~terr
    /\ UNCHANGED <<user, kbd, down, uart, shift, held, cons, call>>

CallGetc ==
    /\ poll = "idle" /\ ~rebooted
    /\ poll' = "serial"
    /\ unread' = Len(kbd)
    /\ owed' = (uart # 0 \/ cons.rpos # cons.wpos)
    /\ UNCHANGED <<devices, shift, held, cons, ret, rebooted>>

(* serial_intr(): one turn of cons_intr()'s loop over serial_proc_data(). *)
SerialIntr ==
    /\ poll = "serial" /\ ~rebooted
    /\ uart' = 0
    /\ IF uart = 0 THEN poll' = "kbd" /\ UNCHANGED <<cons, owed>>
       ELSE /\ cons' = cons_store(cons, uart)
            /\ owed' = (owed /\ ~Overflows(cons, uart))
            /\ UNCHANGED poll
    /\ UNCHANGED <<user, kbd, down, terr, shift, held, ret, unread, rebooted>>

(* A faulty cons_getc() that does not poll the keyboard. *)
KbdIntr_Skipped ==
    /\ poll = "kbd" /\ ~rebooted
    /\ poll' = "take"
    /\ UNCHANGED <<devices, shift, held, cons, ret, unread, owed, rebooted>>

(* kbd_intr(): one turn of cons_intr()'s loop over kbd_proc_data().  The   *)
(* loop ends when there is no data or when the data is the mouse's, which  *)
(* is not read: no key that waits behind it can be seen, so none is due.   *)
KbdIntr ==
    /\ poll = "kbd" /\ ~rebooted
    /\ IF kbd = <<>> \/ terr
       THEN /\ poll' = "take"
            /\ unread' = IF terr THEN 0 ELSE unread
            /\ UNCHANGED <<kbd, shift, held, cons, owed, rebooted>>
       ELSE LET r == kbd_proc_data(shift, Head(kbd).byte)
            IN  /\ kbd' = Tail(kbd)
                /\ held' = Head(kbd).held
                /\ shift' = r.shift
                /\ rebooted' = r.reboot
                /\ cons' = cons_store(cons, r.c)
                /\ unread' = IF unread > 0 THEN unread - 1 ELSE 0
                /\ owed' = ((owed \/ (unread > 0 /\ r.c # 0)) /\ ~Overflows(cons, r.c))
                /\ UNCHANGED poll
    /\ UNCHANGED <<user, down, uart, terr, ret>>

(* The rest of cons_getc(). *)
Take ==
    /\ poll = "take" /\ ~rebooted
    /\ poll' = "idle" /\ owed' = FALSE /\ unread' = 0
    /\ IF cons.rpos # cons.wpos
       THEN /\ ret' = cons.buf[cons.rpos]
            /\ cons' = [cons EXCEPT !.rpos = IF @ + 1 = CONSBUFSIZE THEN 0 ELSE @ + 1]
       ELSE ret' = 0 /\ UNCHANGED cons
    /\ UNCHANGED <<devices, shift, held, rebooted>>

(* After a reset nothing of this kernel is left. *)
Reset == rebooted /\ UNCHANGED consVars

ConsNext ==
    \/ \E k \in user.keys : Press(k)
    \/ \E k \in user.keys : Release(k)
    \/ \E c \in user.serial : SerialArrives(c)
    \/ MouseData
    \/ CallGetc
    \/ SerialIntr
    \/ KbdIntr
    \/ Take
    \/ Reset

ConsSpec == ConsInit /\ [][ConsNext]_consVars

-----------------------------------------------------------------------------
(* What kbd_proc_data() remembers of the modifiers fits the keyboard: a    *)
(* flag is set only while a key of its kind is down, and is set when all   *)
(* of them are.  (Between the two lies the code's simplification: when one *)
(* of two Ctrl keys comes up, CTL is cleared.)  Plain and E0 keys mixed,   *)
(* in any order, polled at any time.  So the machine is reset only while   *)
(* Ctrl, Alt and the Delete key are down together: not by the keypad's     *)
(* dot, whose code differs by the prefix only, and not by modifiers that   *)
(* came up before.                                                         *)
ModifiersHeld ==
    /\ \A m \in Modifiers :
          LET ks == {k \in user.keys : Modifier(k) = {m}}
          IN  /\ m \in shift => ks \cap held # {}
              /\ ks # {} /\ ks \subseteq held => m \in shift
    /\ rebooted =>
          /\ "delete" \in held
          /\ \E k, l \in held : Modifier(k) = {"CTL"} /\ Modifier(l) = {"ALT"}

(* cons_getc() does not answer 0 when a character waited as it was called, *)
(* in the buffer, in the serial port or in the keyboard controller; it has *)
(* read all the bytes that the controller had then, unless mouse data came *)
(* before them.  Only the overflow of the buffer loses a character.        *)
WaitingIsAnswered ==
    [][poll = "take" /\ poll' = "idle" => unread = 0 /\ (owed => ret' # 0)]_consVars

(* cons_intr() and cons_getc() implement a queue with room for all but one *)
(* of the buffer's places, which forgets everything when it overflows      *)
(* because cons_intr() does not look at rpos.                              *)
Queue == INSTANCE CharQueue WITH
    queue <- Waiting(cons), answer <- ret, Char <- Chars,
    Capacity <- CONSBUFSIZE - 1, None <- 0

ImplementsCharQueue == Queue!QSpec
=============================================================================
