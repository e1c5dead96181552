---------------------------- MODULE ConsoleProofs ----------------------------
(***************************************************************************)
(* Theorems about the console's input, for a buffer of any length, a       *)
(* keyboard controller of any size and any users.                          *)
(*                                                                         *)
(* The circular buffer implements the queue of CharQueue: the arithmetic   *)
(* of the positions is done once, in StoreWaiting and TakeWaiting.         *)
(*                                                                         *)
(* What kbd_proc_data() remembers is right because the bytes that still    *)
(* wait in the controller tell a consistent story: read one after the      *)
(* other they lead from the keys held at the last byte read to the keys    *)
(* that are down now.  That is KbdInv.                                     *)
(***************************************************************************)
EXTENDS Console, SequenceTheorems, TLAPS

Idx == 0..(CONSBUFSIZE - 1)
Char0 == Chars \cup {0}
Buffers == [buf : [Idx -> Char0], rpos : Idx, wpos : Idx]

(* What waits in a buffer are characters, none of them 0. *)
Good(q) ==
    /\ q \in Buffers
    /\ \A k \in 1..Len(Waiting(q)) : Waiting(q)[k] \in Chars

BufInv == Good(cons) /\ uart \in Char0

(* Where cons_getc() stands, a character that it owes is still to be had,  *)
(* and the bytes it owes the reading of are still in the controller.       *)
OwedInv ==
    /\ poll \in {"idle", "serial", "kbd", "take"}
    /\ unread \in 0..Len(kbd) /\ (poll = "take" => unread = 0)
    /\ poll = "serial" /\ owed => uart # 0 \/ cons.rpos # cons.wpos
    /\ poll \in {"kbd", "take"} /\ owed => cons.rpos # cons.wpos

LastByte(k) == Code[k][Len(Code[k])]
Prefixed(k) == Len(Code[k]) = 2

KeySets == SUBSET DOMAIN Code
Records == [byte : 0..255, held : SUBSET DOMAIN Code]

(* The record r is what the keyboard with these keys sends next when the   *)
(* keys h are held and e says whether the byte before was the prefix.      *)
Follows(keys, h, e, r) ==
    \/ r.byte = \hE0 /\ ~e /\ r.held = h
    \/ \E k \in keys :
          /\ e <=> Prefixed(k)
          /\ \/ r.byte = LastByte(k) /\ r.held = h \cup {k}
             \/ r.byte = LastByte(k) + 128 /\ r.held = h \ {k}

(* What is held, and whether a prefix came, before the j-th byte of q, if  *)
(* it was h with the flags s before all of them.                           *)
HeldBefore(h, q, j) == IF j = 1 THEN h ELSE q[j - 1].held
Esc(s) == "E0ESC" \in s
EscBefore(s, q, j) == IF j = 1 THEN Esc(s) ELSE q[j - 1].byte = \hE0

(* The bytes q lead from h and s to d. *)
Story(keys, h, s, q, d) ==
    /\ q \in Seq(Records)
    /\ h \in SUBSET DOMAIN Code /\ d \in SUBSET DOMAIN Code
    /\ \A j \in 1..Len(q) : Follows(keys, HeldBefore(h, q, j), EscBefore(s, q, j), q[j])
    /\ HeldBefore(h, q, Len(q) + 1) = d /\ ~EscBefore(s, q, Len(q) + 1)

KbdInv == Story(user.keys, held, shift, kbd, down)

(* The first part of ModifiersHeld, for the flags s and the keys h. *)
FlagsOK(keys, s, h) ==
    \A m \in Modifiers :
        LET ks == {k \in keys : Modifier(k) = {m}}
        IN  /\ m \in s => ks \cap h # {}
            /\ ks # {} /\ ks \subseteq h => m \in s

(* The second part: the keys that reset the machine. *)
CtrlAltDel(h) ==
    /\ "delete" \in h
    /\ \E k, l \in h : Modifier(k) = {"CTL"} /\ Modifier(l) = {"ALT"}

Inv == user \in Users /\ BufInv /\ OwedInv /\ KbdInv /\ ModifiersHeld

-----------------------------------------------------------------------------
(* The circular buffer. *)

(* % on the k-th place from a position on, and on a difference of two.     *)
LEMMA ModUp ==
    ASSUME NEW r \in Idx, NEW k \in 1..CONSBUFSIZE
    PROVE  (r + k - 1) % CONSBUFSIZE
              = IF r + k - 1 < CONSBUFSIZE THEN r + k - 1 ELSE r + k - 1 - CONSBUFSIZE
  <1> DEFINE a == r + k - 1
  <1>1. a \in 0..(2 * CONSBUFSIZE - 1)
    BY BufferAssumption DEF Idx
  <1> HIDE DEF a
  <1>2. a % CONSBUFSIZE = IF a < CONSBUFSIZE THEN a ELSE a - CONSBUFSIZE
    BY <1>1, BufferAssumption
  <1> QED
    BY <1>1, <1>2, BufferAssumption DEF a, Idx

(* The distance from one position of the buffer on to another. *)
LEMMA ModDown ==
    ASSUME NEW a \in Idx, NEW b \in Idx
    PROVE  (a - b) % CONSBUFSIZE = IF a >= b THEN a - b ELSE a - b + CONSBUFSIZE
  BY BufferAssumption DEF Idx

(* Waiting() is a sequence; its places are positions of the buffer, from   *)
(* rpos on, around the end and short of wpos.                              *)
LEMMA WaitingSeq ==
    ASSUME NEW q \in Buffers
    PROVE  /\ (q.wpos - q.rpos) % CONSBUFSIZE \in Idx
           /\ Waiting(q) \in Seq(Char0)
           /\ Len(Waiting(q)) = (q.wpos - q.rpos) % CONSBUFSIZE
           /\ Waiting(q) = <<>> <=> q.rpos = q.wpos
           /\ \A k \in 1..Len(Waiting(q)) :
                 /\ (q.rpos + k - 1) % CONSBUFSIZE \in Idx \ {q.wpos}
                 /\ Waiting(q)[k] = q.buf[(q.rpos + k - 1) % CONSBUFSIZE]
  <1> DEFINE n == (q.wpos - q.rpos) % CONSBUFSIZE
  <1>1. n = IF q.wpos >= q.rpos THEN q.wpos - q.rpos ELSE q.wpos - q.rpos + CONSBUFSIZE
    BY ModDown DEF Buffers
  <1> HIDE DEF n
  <1>a. q.rpos \in Idx /\ q.wpos \in Idx
    BY DEF Buffers
  <1>2. n \in Idx /\ n \in Nat /\ (n = 0 <=> q.rpos = q.wpos)
    BY <1>1, <1>a, BufferAssumption DEF Idx
  <1>3. ASSUME NEW k \in 1..n
        PROVE  (q.rpos + k - 1) % CONSBUFSIZE \in Idx \ {q.wpos}
    <2> DEFINE x == (q.rpos + k - 1) % CONSBUFSIZE
    <2>1. k \in 1..CONSBUFSIZE
      BY <1>2, BufferAssumption DEF Idx
    <2>2. x = IF q.rpos + k - 1 < CONSBUFSIZE THEN q.rpos + k - 1 ELSE q.rpos + k - 1 - CONSBUFSIZE
      BY <1>a, <2>1, ModUp
    <2> HIDE DEF x
    <2>3. x \in Idx \ {q.wpos}
      BY <1>1, <1>a, <1>2, <2>2, BufferAssumption DEF Idx
    <2> QED
      BY <2>3 DEF x
  <1>4. Waiting(q) = [k \in 1..n |-> q.buf[(q.rpos + k - 1) % CONSBUFSIZE]]
    BY DEF Waiting, n
  <1>5. Waiting(q) \in [1..n -> Char0]
    BY <1>3, <1>4 DEF Buffers
  <1>6. Waiting(q) \in Seq(Char0) /\ Len(Waiting(q)) = n
    BY <1>2, <1>4, <1>5, IsASeq, LenProperties
  <1>7. Waiting(q) = <<>> <=> n = 0
    BY <1>6, EmptySeq
  <1> QED
    BY <1>2, <1>3, <1>4, <1>6, <1>7 DEF n

(* Storing a character appends it to what waits, or forgets everything     *)
(* when all but one of the places are taken.                               *)
LEMMA StoreWaiting ==
    ASSUME NEW q \in Buffers, NEW c \in Chars, c # 0
    PROVE  /\ cons_store(q, c) \in Buffers
           /\ Waiting(cons_store(q, c))
                 = IF Len(Waiting(q)) = CONSBUFSIZE - 1 THEN <<>> ELSE Append(Waiting(q), c)
  <1> DEFINE p == cons_store(q, c)
             n == Len(Waiting(q))
  <1>1. /\ p.buf = [q.buf EXCEPT ![q.wpos] = c] /\ p.rpos = q.rpos
        /\ p.wpos = IF q.wpos + 1 = CONSBUFSIZE THEN 0 ELSE q.wpos + 1
        /\ p \in Buffers
    <2>1. p = [q EXCEPT !.buf[q.wpos] = c,
                        !.wpos = IF q.wpos + 1 = CONSBUFSIZE THEN 0 ELSE q.wpos + 1]
      BY DEF cons_store
    <2>2. (IF q.wpos + 1 = CONSBUFSIZE THEN 0 ELSE q.wpos + 1) \in Idx
      BY BufferAssumption DEF Buffers, Idx
    <2>3. [q.buf EXCEPT ![q.wpos] = c] \in [Idx -> Char0]
      BY DEF Buffers, Char0
    <2> QED
      BY <2>1, <2>2, <2>3 DEF Buffers
  <1>2. n = IF q.wpos >= q.rpos THEN q.wpos - q.rpos ELSE q.wpos - q.rpos + CONSBUFSIZE
    BY WaitingSeq, ModDown DEF Buffers
  <1>3. Len(Waiting(p)) = IF p.wpos >= p.rpos THEN p.wpos - p.rpos ELSE p.wpos - p.rpos + CONSBUFSIZE
    BY <1>1, WaitingSeq, ModDown DEF Buffers
  <1> HIDE DEF p, n
  <1>4. Len(Waiting(p)) = IF n = CONSBUFSIZE - 1 THEN 0 ELSE n + 1
    <2>1. q.rpos \in Idx /\ q.wpos \in Idx /\ p.rpos = q.rpos
          /\ p.wpos = IF q.wpos + 1 = CONSBUFSIZE THEN 0 ELSE q.wpos + 1
      BY <1>1 DEF Buffers
    <2>2. CASE q.wpos + 1 = CONSBUFSIZE
      <3>1. p.wpos = 0 /\ q.wpos >= q.rpos /\ n = q.wpos - q.rpos
        BY <1>2, <2>1, <2>2, BufferAssumption DEF Idx
      <3> QED
        BY <1>3, <2>1, <2>2, <3>1, BufferAssumption DEF Idx
    <2>3. CASE q.wpos + 1 # CONSBUFSIZE
      <3>1. p.wpos = q.wpos + 1
        BY <2>1, <2>3
      <3>2. CASE q.wpos >= q.rpos
        BY <1>2, <1>3, <2>1, <2>3, <3>1, <3>2, BufferAssumption DEF Idx
      <3>3. CASE ~(q.wpos >= q.rpos)
        BY <1>2, <1>3, <2>1, <2>3, <3>1, <3>3, BufferAssumption DEF Idx
      <3> QED
        BY <3>2, <3>3
    <2> QED
      BY <2>2, <2>3
  <1>5. CASE n = CONSBUFSIZE - 1
    BY <1>1, <1>4, <1>5, WaitingSeq, EmptySeq DEF p, n
  <1>6. CASE n # CONSBUFSIZE - 1
    <2>1. /\ Waiting(p) \in Seq(Char0) /\ Len(Waiting(p)) = n + 1
          /\ Waiting(q) \in Seq(Char0) /\ Len(Waiting(q)) = n
      BY <1>1, <1>4, <1>6, WaitingSeq DEF n
    <2>2. /\ Append(Waiting(q), c) \in Seq(Char0) /\ Len(Append(Waiting(q), c)) = n + 1
          /\ Append(Waiting(q), c)[n + 1] = c
          /\ \A k \in 1..n : Append(Waiting(q), c)[k] = Waiting(q)[k]
      BY <2>1, AppendProperties DEF Char0
    <2>3. ASSUME NEW k \in 1..(n + 1) PROVE Waiting(p)[k] = Append(Waiting(q), c)[k]
      <3>1. Waiting(p)[k] = p.buf[(q.rpos + k - 1) % CONSBUFSIZE]
        BY <1>1, <2>1, WaitingSeq
      <3>2. CASE k = n + 1
        <4> DEFINE x == (q.rpos + k - 1) % CONSBUFSIZE
        <4>0. q.rpos \in Idx /\ q.wpos \in Idx
          BY DEF Buffers
        <4>1. k \in 1..CONSBUFSIZE
          BY <1>2, <3>2, <4>0, BufferAssumption DEF Idx
        <4>2. x = IF q.rpos + k - 1 < CONSBUFSIZE THEN q.rpos + k - 1 ELSE q.rpos + k - 1 - CONSBUFSIZE
          BY <4>0, <4>1, ModUp
        <4> HIDE DEF x
        <4>3. x = q.wpos
          BY <1>2, <3>2, <4>0, <4>2, BufferAssumption DEF Idx
        <4>4. p.buf[x] = c
          BY <1>1, <4>0, <4>3 DEF Buffers
        <4> QED
          BY <2>2, <3>1, <3>2, <4>4 DEF x
      <3>3. CASE k # n + 1
        <4>1. k \in 1..n
          BY <3>3, <2>1, LenProperties
        <4>2. (q.rpos + k - 1) % CONSBUFSIZE \in Idx \ {q.wpos}
              /\ Waiting(q)[k] = q.buf[(q.rpos + k - 1) % CONSBUFSIZE]
          BY <4>1, WaitingSeq DEF n
        <4> QED
          BY <1>1, <2>2, <3>1, <4>1, <4>2 DEF Buffers
      <3> QED
        BY <3>2, <3>3
    <2>4. Waiting(p) = Append(Waiting(q), c)
      BY <2>1, <2>2, <2>3, SeqEqual
    <2> QED
      BY <1>1, <1>6, <2>4 DEF p, n
  <1> QED
    BY <1>5, <1>6

(* What cons_getc() leaves of a buffer it takes a character from. *)
Taken(q) == [q EXCEPT !.rpos = IF @ + 1 = CONSBUFSIZE THEN 0 ELSE @ + 1]

(* Taking a character takes the oldest: the head of what waits. *)
LEMMA TakeWaiting ==
    ASSUME NEW q \in Buffers, q.rpos # q.wpos
    PROVE  /\ Taken(q) \in Buffers
           /\ Waiting(q) # <<>> /\ Head(Waiting(q)) = q.buf[q.rpos]
           /\ q.buf[q.rpos] = Waiting(q)[1] /\ 1 \in 1..Len(Waiting(q))
           /\ Waiting(Taken(q)) = Tail(Waiting(q))
  <1> DEFINE p == Taken(q)
             n == Len(Waiting(q))
  <1>1. /\ p.buf = q.buf /\ p.wpos = q.wpos
        /\ p.rpos = IF q.rpos + 1 = CONSBUFSIZE THEN 0 ELSE q.rpos + 1
        /\ p \in Buffers
    BY BufferAssumption DEF Taken, Buffers, Idx
  <1>2. n = IF q.wpos >= q.rpos THEN q.wpos - q.rpos ELSE q.wpos - q.rpos + CONSBUFSIZE
    BY WaitingSeq, ModDown DEF Buffers
  <1>3. Len(Waiting(p)) = IF p.wpos >= p.rpos THEN p.wpos - p.rpos ELSE p.wpos - p.rpos + CONSBUFSIZE
    BY <1>1, WaitingSeq, ModDown DEF Buffers
  <1>4. n \in Nat /\ n > 0 /\ Len(Waiting(p)) = n - 1
    BY <1>1, <1>2, <1>3, BufferAssumption DEF Buffers, Idx
  <1> HIDE DEF p, n
  <1>5. /\ Waiting(p) \in Seq(Char0) /\ Waiting(q) \in Seq(Char0) /\ Waiting(q) # <<>>
    BY <1>1, WaitingSeq
  <1>6. /\ Head(Waiting(q)) = Waiting(q)[1]
        /\ Tail(Waiting(q)) \in Seq(Char0) /\ Len(Tail(Waiting(q))) = n - 1
        /\ \A k \in 1..(n - 1) : Tail(Waiting(q))[k] = Waiting(q)[k + 1]
    BY <1>5, HeadTailProperties DEF n
  <1>7. Waiting(q)[1] = q.buf[q.rpos]
    <2>1. Waiting(q)[1] = q.buf[(q.rpos + 1 - 1) % CONSBUFSIZE]
      BY <1>4, WaitingSeq DEF n
    <2>2. q.rpos \in Idx /\ 1 \in 1..CONSBUFSIZE /\ q.rpos + 1 - 1 < CONSBUFSIZE
          /\ q.rpos + 1 - 1 = q.rpos
      BY BufferAssumption DEF Buffers, Idx
    <2>3. (q.rpos + 1 - 1) % CONSBUFSIZE = q.rpos
      BY <2>2, ModUp
    <2> QED
      BY <2>1, <2>2, <2>3
  <1>8. ASSUME NEW k \in 1..(n - 1) PROVE Waiting(p)[k] = Tail(Waiting(q))[k]
    <2>1. k + 1 \in 1..n /\ k \in Nat
      BY <1>4
    <2>2. /\ Waiting(p)[k] = q.buf[(p.rpos + k - 1) % CONSBUFSIZE]
          /\ Waiting(q)[k + 1] = q.buf[(q.rpos + (k + 1) - 1) % CONSBUFSIZE]
      BY <1>1, <1>4, <2>1, WaitingSeq DEF n
    <2>3. n < CONSBUFSIZE
      BY <1>2, BufferAssumption DEF Buffers, Idx, n
    <2>4. /\ p.rpos \in Idx /\ k \in 1..CONSBUFSIZE
          /\ q.rpos \in Idx /\ k + 1 \in 1..CONSBUFSIZE
      BY <1>1, <1>4, <2>3, BufferAssumption DEF Buffers, Idx
    <2>5. (p.rpos + k - 1) % CONSBUFSIZE
             = IF p.rpos + k - 1 < CONSBUFSIZE THEN p.rpos + k - 1 ELSE p.rpos + k - 1 - CONSBUFSIZE
      BY <2>4, ModUp
    <2>6. (q.rpos + (k + 1) - 1) % CONSBUFSIZE
             = IF q.rpos + (k + 1) - 1 < CONSBUFSIZE THEN q.rpos + (k + 1) - 1
               ELSE q.rpos + (k + 1) - 1 - CONSBUFSIZE
      BY <2>4, ModUp
    <2>7. (p.rpos + k - 1) % CONSBUFSIZE = (q.rpos + (k + 1) - 1) % CONSBUFSIZE
      BY <1>1, <1>4, <2>3, <2>5, <2>6, BufferAssumption DEF Buffers, Idx
    <2> QED
      BY <1>6, <2>2, <2>7
  <1>9. Waiting(p) = Tail(Waiting(q))
    BY <1>4, <1>5, <1>6, <1>8, SeqEqual
  <1> QED
    BY <1>1, <1>4, <1>5, <1>6, <1>7, <1>9 DEF p, n

-----------------------------------------------------------------------------
(* The keyboard. *)

(* The keys: whether the code has the prefix, its last byte, the modifier. *)
LEMMA KeyTable ==
    ASSUME NEW k \in DOMAIN Code
    PROVE  \/ k = "lshift" /\ ~Prefixed(k) /\ LastByte(k) = 42 /\ Modifier(k) = {"SHIFT"}
           \/ k = "rshift" /\ ~Prefixed(k) /\ LastByte(k) = 54 /\ Modifier(k) = {"SHIFT"}
           \/ k = "lctl" /\ ~Prefixed(k) /\ LastByte(k) = 29 /\ Modifier(k) = {"CTL"}
           \/ k = "rctl" /\ Prefixed(k) /\ LastByte(k) = 29 /\ Modifier(k) = {"CTL"}
           \/ k = "lalt" /\ ~Prefixed(k) /\ LastByte(k) = 56 /\ Modifier(k) = {"ALT"}
           \/ k = "ralt" /\ Prefixed(k) /\ LastByte(k) = 56 /\ Modifier(k) = {"ALT"}
           \/ k = "caps" /\ ~Prefixed(k) /\ LastByte(k) = 58 /\ Modifier(k) = {}
           \/ k = "a" /\ ~Prefixed(k) /\ LastByte(k) = 30 /\ Modifier(k) = {}
           \/ k = "delete" /\ Prefixed(k) /\ LastByte(k) = 83 /\ Modifier(k) = {}
           \/ k = "keypad_dot" /\ ~Prefixed(k) /\ LastByte(k) = 83 /\ Modifier(k) = {}
  <1>0. k \in {"lshift", "rshift", "lctl", "rctl", "lalt", "ralt", "caps",
              "a", "delete", "keypad_dot"}
    BY DEF Code
  <1>1. CASE k = "lshift"
    BY <1>1 DEF Code, Prefixed, LastByte, Modifier
  <1>2. CASE k = "rshift"
    BY <1>2 DEF Code, Prefixed, LastByte, Modifier
  <1>3. CASE k = "lctl"
    BY <1>3 DEF Code, Prefixed, LastByte, Modifier
  <1>4. CASE k = "rctl"
    BY <1>4 DEF Code, Prefixed, LastByte, Modifier
  <1>5. CASE k = "lalt"
    BY <1>5 DEF Code, Prefixed, LastByte, Modifier
  <1>6. CASE k = "ralt"
    BY <1>6 DEF Code, Prefixed, LastByte, Modifier
  <1>7. CASE k = "caps"
    BY <1>7 DEF Code, Prefixed, LastByte, Modifier
  <1>8. CASE k = "a"
    BY <1>8 DEF Code, Prefixed, LastByte, Modifier
  <1>9. CASE k = "delete"
    BY <1>9 DEF Code, Prefixed, LastByte, Modifier
  <1>10. CASE k = "keypad_dot"
    BY <1>10 DEF Code, Prefixed, LastByte, Modifier
  <1> QED
    BY <1>0, <1>1, <1>2, <1>3, <1>4, <1>5, <1>6, <1>7, <1>8, <1>9, <1>10

(* What a code is: one byte or the prefix and one, which fit in a byte     *)
(* when the key comes up.                                                  *)
LEMMA CodeBytes ==
    ASSUME NEW k \in DOMAIN Code
    PROVE  /\ Code[k] = IF Prefixed(k) THEN <<\hE0, LastByte(k)>> ELSE <<LastByte(k)>>
           /\ Len(Code[k]) = IF Prefixed(k) THEN 2 ELSE 1
           /\ LastByte(k) \in 0..127
           /\ [Code[k] EXCEPT ![Len(Code[k])] = @ + 128]
                 = IF Prefixed(k) THEN <<\hE0, LastByte(k) + 128>> ELSE <<LastByte(k) + 128>>
  <1>0. k \in {"lshift", "rshift", "lctl", "rctl", "lalt", "ralt", "caps",
              "a", "delete", "keypad_dot"}
    BY DEF Code
  <1>1. CASE k = "lshift"
    BY <1>1 DEF Code, Prefixed, LastByte
  <1>2. CASE k = "rshift"
    BY <1>2 DEF Code, Prefixed, LastByte
  <1>3. CASE k = "lctl"
    BY <1>3 DEF Code, Prefixed, LastByte
  <1>4. CASE k = "rctl"
    BY <1>4 DEF Code, Prefixed, LastByte
  <1>5. CASE k = "lalt"
    BY <1>5 DEF Code, Prefixed, LastByte
  <1>6. CASE k = "ralt"
    BY <1>6 DEF Code, Prefixed, LastByte
  <1>7. CASE k = "caps"
    BY <1>7 DEF Code, Prefixed, LastByte
  <1>8. CASE k = "a"
    BY <1>8 DEF Code, Prefixed, LastByte
  <1>9. CASE k = "delete"
    BY <1>9 DEF Code, Prefixed, LastByte
  <1>10. CASE k = "keypad_dot"
    BY <1>10 DEF Code, Prefixed, LastByte
  <1> QED
    BY <1>0, <1>1, <1>2, <1>3, <1>4, <1>5, <1>6, <1>7, <1>8, <1>9, <1>10

(* What the tables give for a byte that is not Delete's: not Delete. *)
LEMMA CharOf ==
    ASSUME NEW s, NEW e \in Nat
    PROVE  /\ CapsSwap(s, charcode(s, e)) \in Char0
           /\ CapsSwap(s, charcode(s, e)) = KEY_DEL => e = 211
  <1>1. charcode(s, e) \in {0, 1, 46, 65, 97, 233} /\ (charcode(s, e) = 233 => e = 211)
    BY DEF charcode, NO, KEY_DEL
  <1>2. /\ CapsSwap(s, charcode(s, e)) \in {0, 1, 46, 65, 97, 233}
        /\ CapsSwap(s, charcode(s, e)) = 233 => charcode(s, e) = 233
    BY <1>1 DEF CapsSwap
  <1>3. {0, 1, 46, 65, 97, 233} \subseteq Char0
    BY DEF Char0, Chars, KEY_DEL
  <1>4. CapsSwap(s, charcode(s, e)) \in Char0
    BY <1>2, <1>3
  <1>5. KEY_DEL = 233
    BY DEF KEY_DEL
  <1> QED
    BY <1>1, <1>2, <1>4, <1>5

(* A key that goes down adds its modifier to the flags, and only Delete    *)
(* with Ctrl and Alt reboots; one that comes up takes it away.             *)
LEMMA PressEffect ==
    ASSUME NEW k \in DOMAIN Code, NEW s, "E0ESC" \in s <=> Prefixed(k)
    PROVE  LET r == kbd_proc_data(s, LastByte(k)) IN
           /\ \A m \in Modifiers : m \in r.shift <=> m \in s \/ m \in Modifier(k)
           /\ "E0ESC" \notin r.shift /\ r.c \in Char0 /\ r.reboot \in BOOLEAN
           /\ r.reboot => k = "delete" /\ {"CTL", "ALT"} \subseteq s
  <1> DEFINE b == LastByte(k)
             e == IF "E0ESC" \in s THEN b + 128 ELSE b
             t == SymDiff((s \ {"E0ESC"}) \cup shiftcode(e), togglecode(e))
             c == CapsSwap(t, charcode(t, e))
             r == kbd_proc_data(s, b)
  <1>1. b \in 0..127
    BY CodeBytes
  <1>2. e = IF Prefixed(k) THEN b + 128 ELSE b
    OBVIOUS
  <1>3. r = [shift |-> t, c |-> c, reboot |-> Reboots(t, c)]
    BY <1>1 DEF kbd_proc_data, KeyDown
  <1> HIDE DEF b
  <1>4. shiftcode(e) = Modifier(k) /\ (e = 211 => k = "delete")
    BY <1>2, KeyTable DEF shiftcode, b
  <1>5. togglecode(e) \cap (Modifiers \cup {"E0ESC"}) = {}
    BY DEF togglecode, Modifiers
  <1>6. Modifier(k) \subseteq Modifiers
    BY DEF Modifier, Modifiers
  <1> HIDE DEF e
  <1>7. /\ \A m \in Modifiers : m \in t <=> m \in s \/ m \in Modifier(k)
        /\ "E0ESC" \notin t
    BY <1>4, <1>5, <1>6 DEF SymDiff, Modifiers
  <1>8. e \in Nat
    BY <1>1, <1>2 DEF e
  <1> HIDE DEF t
  <1>9. c \in Char0 /\ (c = KEY_DEL => e = 211)
    BY <1>8, CharOf
  <1> HIDE DEF c
  <1>10. Reboots(t, c) => k = "delete" /\ {"CTL", "ALT"} \subseteq s /\ c = KEY_DEL
    <2> SUFFICES ASSUME Reboots(t, c) PROVE k = "delete" /\ {"CTL", "ALT"} \subseteq s
      BY DEF Reboots
    <2>1. "CTL" \in t /\ "ALT" \in t /\ c = KEY_DEL
      BY DEF Reboots
    <2>2. k = "delete"
      BY <1>4, <1>9, <2>1
    <2>3. Modifier(k) = {}
      BY <2>2 DEF Modifier
    <2> QED
      BY <1>7, <2>1, <2>2, <2>3 DEF Modifiers
  <1>11. Reboots(t, c) \in BOOLEAN
    BY DEF Reboots
  <1>12. r = [shift |-> t, c |-> c, reboot |-> Reboots(t, c)]
    BY <1>3
  <1> QED
    BY <1>7, <1>9, <1>10, <1>11, <1>12 DEF b

(* The last byte of a release drops what the key set in shift, gives no    *)
(* character and never reboots.                                            *)
LEMMA ReleaseEffect ==
    ASSUME NEW k \in DOMAIN Code, NEW s, "E0ESC" \in s <=> Prefixed(k),
           NEW b, b = LastByte(k) + 128
    PROVE  LET r == kbd_proc_data(s, b) IN
           /\ \A m \in Modifiers : m \in r.shift <=> m \in s /\ m \notin Modifier(k)
           /\ "E0ESC" \notin r.shift /\ r.c = 0 /\ r.reboot = FALSE
  <1> DEFINE e == IF "E0ESC" \in s THEN b ELSE b - 128
  <1>1. b \in 128..255 /\ b # \hE0 /\ LastByte(k) \in Int
    BY KeyTable
  <1>2. kbd_proc_data(s, b) = [shift |-> s \ (shiftcode(e) \cup {"E0ESC"}), c |-> 0, reboot |-> FALSE]
    BY <1>1 DEF kbd_proc_data, KeyUp
  <1>3. e = IF Prefixed(k) THEN LastByte(k) + 128 ELSE LastByte(k)
    <2>1. CASE Prefixed(k)
      BY <1>1, <2>1
    <2>2. CASE ~Prefixed(k)
      BY <1>1, <2>2
    <2> QED
      BY <2>1, <2>2
  <1> HIDE DEF e
  <1>4. shiftcode(e) = Modifier(k)
    BY <1>3, KeyTable DEF shiftcode
  <1> QED
    BY <1>2, <1>4 DEF Modifiers

(* The prefix byte 0xE0 sets E0ESC and nothing else. *)
LEMMA PrefixEffect ==
    ASSUME NEW s
    PROVE  LET r == kbd_proc_data(s, \hE0) IN
           /\ \A m \in Modifiers : m \in r.shift <=> m \in s
           /\ "E0ESC" \in r.shift /\ r.c = 0 /\ r.reboot = FALSE
  BY DEF kbd_proc_data, Modifiers

-----------------------------------------------------------------------------
(* What a key sends besides the prefix is another byte. *)
LEMMA SentBytes ==
    ASSUME NEW k \in DOMAIN Code
    PROVE  /\ LastByte(k) \in 0..255 /\ LastByte(k) # \hE0
           /\ LastByte(k) + 128 \in 0..255 /\ LastByte(k) + 128 # \hE0
  BY KeyTable

(* The bytes of a keystroke continue the story. *)
LEMMA SendStory ==
    ASSUME NEW keys \in KeySets, NEW h, NEW s, NEW q, NEW d, Story(keys, h, s, q, d),
           NEW k \in keys, NEW b, NEW g, NEW n, NEW recs,
           \/ b = LastByte(k) /\ g = d \cup {k}
           \/ b = LastByte(k) + 128 /\ g = d \ {k},
           b \in 0..255, b # \hE0,
           n = IF Prefixed(k) THEN 2 ELSE 1,
           recs \in [1..n -> Records],
           recs[n] = [byte |-> b, held |-> g],
           n = 2 => recs[1] = [byte |-> \hE0, held |-> d]
    PROVE  Story(keys, h, s, q \o recs, g)
  <1> SUFFICES ASSUME NEW m \in Nat, m = Len(q)
               PROVE  Story(keys, h, s, q \o recs, g)
    BY LenProperties DEF Story
  <1> DEFINE p == q \o recs
  <1>1. k \in DOMAIN Code
    BY DEF KeySets
  <1>2. b \in 0..255 /\ b # \hE0
    OBVIOUS
  <1>3. n \in Nat /\ n \in 1..2 /\ q \in Seq(Records) /\ h \in SUBSET DOMAIN Code
        /\ g \in SUBSET DOMAIN Code
    BY <1>1 DEF Story
  <1>4. recs \in Seq(Records) /\ Len(recs) = n
    BY <1>3, IsASeq, LenProperties
  <1>5. /\ p \in Seq(Records) /\ Len(p) = m + n
        /\ \A j \in 1..m : p[j] = q[j]
        /\ \A j \in 1..n : p[m + j] = recs[j]
    <2>1. /\ p \in Seq(Records) /\ Len(p) = m + n
          /\ \A j \in 1..(m + n) : p[j] = IF j <= m THEN q[j] ELSE recs[j - m]
      BY <1>3, <1>4, ConcatProperties
    <2> HIDE DEF p
    <2>2. \A j \in 1..n : m + j \in 1..(m + n) /\ ~(m + j <= m) /\ m + j - m = j
      BY <1>3
    <2>3. \A j \in 1..m : j \in 1..(m + n) /\ j <= m
      BY <1>3
    <2> QED
      BY <2>1, <2>2, <2>3, SMTT(20)
  <1> HIDE DEF p
  <1>6. ASSUME NEW j \in 1..(m + 1)
        PROVE  HeldBefore(h, p, j) = HeldBefore(h, q, j) /\ EscBefore(s, p, j) = EscBefore(s, q, j)
    <2>1. CASE j = 1
      BY <2>1 DEF HeldBefore, EscBefore
    <2>2. CASE j # 1
      <3>1. j - 1 \in 1..m
        BY <2>2
      <3>2. p[j - 1] = q[j - 1]
        BY <1>5, <3>1
      <3> QED
        BY <2>2, <3>2 DEF HeldBefore, EscBefore
    <2> QED
      BY <2>1, <2>2
  <1>7. ASSUME NEW j \in 1..m
        PROVE  Follows(keys, HeldBefore(h, p, j), EscBefore(s, p, j), p[j])
    <2>1. Follows(keys, HeldBefore(h, q, j), EscBefore(s, q, j), q[j])
      BY DEF Story
    <2>2. HeldBefore(h, p, j) = HeldBefore(h, q, j) /\ EscBefore(s, p, j) = EscBefore(s, q, j)
          /\ p[j] = q[j]
      BY <1>5, <1>6
    <2> QED
      BY <2>1, <2>2
  <1>8. HeldBefore(h, p, m + 1) = d /\ ~EscBefore(s, p, m + 1)
    <2>1. HeldBefore(h, q, m + 1) = d /\ ~EscBefore(s, q, m + 1)
      BY DEF Story
    <2>2. m + 1 \in 1..(m + 1)
      OBVIOUS
    <2> QED
      BY <1>6, <2>1, <2>2
  <1>9. /\ HeldBefore(h, p, m + 2) = p[m + 1].held /\ (EscBefore(s, p, m + 2) <=> p[m + 1].byte = \hE0)
        /\ HeldBefore(h, p, m + 3) = p[m + 2].held /\ (EscBefore(s, p, m + 3) <=> p[m + 2].byte = \hE0)
    <2>1. m + 2 # 1 /\ m + 2 - 1 = m + 1 /\ m + 3 # 1 /\ m + 3 - 1 = m + 2
      OBVIOUS
    <2> QED
      BY <2>1 DEF HeldBefore, EscBefore
  <1>10. CASE Prefixed(k)
    <2>1. n = 2 /\ 1 \in 1..n /\ 2 \in 1..n
      BY <1>10
    <2>2. p[m + 1] = [byte |-> \hE0, held |-> d] /\ p[m + 2] = [byte |-> b, held |-> g]
      BY <1>5, <2>1
    <2>3. Follows(keys, HeldBefore(h, p, m + 1), EscBefore(s, p, m + 1), p[m + 1])
      BY <1>8, <2>2 DEF Follows
    <2>4. Follows(keys, HeldBefore(h, p, m + 2), EscBefore(s, p, m + 2), p[m + 2])
      BY <1>9, <1>10, <2>2 DEF Follows
    <2>5. Len(p) = m + 2 /\ m + 2 + 1 = m + 3
          /\ \A j \in 1..(m + 2) : j \in 1..m \/ j = m + 1 \/ j = m + 2
      BY <1>5, <2>1
    <2>6. HeldBefore(h, p, m + 3) = g /\ ~EscBefore(s, p, m + 3)
      BY <1>2, <1>9, <2>2
    <2>7. Story(keys, h, s, p, g)
      BY <1>3, <1>5, <1>7, <2>3, <2>4, <2>5, <2>6 DEF Story
    <2> QED
      BY <2>7 DEF p
  <1>11. CASE ~Prefixed(k)
    <2>1. n = 1 /\ 1 \in 1..n
      BY <1>11
    <2>2. p[m + 1] = [byte |-> b, held |-> g]
      BY <1>5, <2>1
    <2>3. Follows(keys, HeldBefore(h, p, m + 1), EscBefore(s, p, m + 1), p[m + 1])
      BY <1>8, <1>11, <2>2 DEF Follows
    <2>4. Len(p) = m + 1 /\ m + 1 + 1 = m + 2
          /\ \A j \in 1..(m + 1) : j \in 1..m \/ j = m + 1
      BY <1>5, <2>1
    <2>5. HeldBefore(h, p, m + 2) = g /\ ~EscBefore(s, p, m + 2)
      BY <1>2, <1>9, <2>2
    <2>6. Story(keys, h, s, p, g)
      BY <1>3, <1>5, <1>7, <2>3, <2>4, <2>5 DEF Story
    <2> QED
      BY <2>6 DEF p
  <1> QED
    BY <1>10, <1>11

(* The story goes on after its first byte. *)
LEMMA ReadStory ==
    ASSUME NEW keys, NEW h, NEW s, NEW q, NEW d, Story(keys, h, s, q, d), q # <<>>,
           NEW t, "E0ESC" \in t <=> q[1].byte = \hE0
    PROVE  /\ Head(q) = q[1] /\ q[1] \in Records
           /\ Follows(keys, h, Esc(s), q[1])
           /\ Story(keys, q[1].held, t, Tail(q), d)
  <1> SUFFICES ASSUME NEW m \in Nat, m = Len(q)
               PROVE  /\ Head(q) = q[1] /\ q[1] \in Records
                      /\ Follows(keys, h, Esc(s), q[1])
                      /\ Story(keys, q[1].held, t, Tail(q), d)
    BY LenProperties DEF Story
  <1> DEFINE p == Tail(q)
             g == q[1].held
  <1>1. q \in Seq(Records) /\ m # 0
    BY EmptySeq DEF Story
  <1>2. /\ Head(q) = q[1] /\ q[1] \in Records
        /\ p \in Seq(Records) /\ Len(p) = m - 1
        /\ \A j \in 1..(m - 1) : p[j] = q[j + 1]
    <2>1. Head(q) \in Records
      BY <1>1, HeadTailProperties
    <2> QED
      BY <1>1, <2>1, HeadTailProperties
  <1> HIDE DEF p
  <1>3. Follows(keys, h, Esc(s), q[1])
    <2>1. 1 \in 1..m
      BY <1>1
    <2>2. Follows(keys, HeldBefore(h, q, 1), EscBefore(s, q, 1), q[1])
      BY <2>1 DEF Story
    <2> QED
      BY <2>2 DEF HeldBefore, EscBefore
  <1>4. ASSUME NEW j \in 1..m
        PROVE  HeldBefore(g, p, j) = HeldBefore(h, q, j + 1)
               /\ (EscBefore(t, p, j) <=> EscBefore(s, q, j + 1))
    <2>1. j + 1 # 1 /\ j + 1 - 1 = j
      OBVIOUS
    <2>2. CASE j = 1
      BY <2>1, <2>2 DEF HeldBefore, EscBefore, Esc
    <2>3. CASE j # 1
      <3>1. j - 1 \in 1..(m - 1) /\ j - 1 + 1 = j
        BY <2>3
      <3>2. p[j - 1] = q[j]
        BY <1>2, <3>1
      <3> QED
        BY <2>1, <2>3, <3>2 DEF HeldBefore, EscBefore
    <2> QED
      BY <2>2, <2>3
  <1> HIDE DEF g
  <1>5. ASSUME NEW j \in 1..(m - 1)
        PROVE  Follows(keys, HeldBefore(g, p, j), EscBefore(t, p, j), p[j])
    <2>1. j + 1 \in 1..m /\ j \in 1..m
      OBVIOUS
    <2>2. Follows(keys, HeldBefore(h, q, j + 1), EscBefore(s, q, j + 1), q[j + 1])
      BY <2>1 DEF Story
    <2>3. p[j] = q[j + 1] /\ HeldBefore(g, p, j) = HeldBefore(h, q, j + 1)
          /\ (EscBefore(t, p, j) <=> EscBefore(s, q, j + 1))
      BY <1>2, <1>4, <2>1
    <2> QED
      BY <2>2, <2>3 DEF Follows
  <1>6. HeldBefore(g, p, m) = d /\ ~EscBefore(t, p, m)
    <2>1. HeldBefore(h, q, m + 1) = d /\ ~EscBefore(s, q, m + 1)
      BY DEF Story
    <2>2. m \in 1..m
      BY <1>1
    <2> QED
      BY <1>4, <2>1, <2>2
  <1>7. m - 1 + 1 = m
    OBVIOUS
  <1>8. g \in SUBSET DOMAIN Code /\ d \in SUBSET DOMAIN Code
    BY <1>2 DEF Records, Story, g
  <1>9. Story(keys, g, t, p, d)
    BY <1>2, <1>5, <1>6, <1>7, <1>8 DEF Story
  <1> QED
    BY <1>2, <1>3, <1>9 DEF g, p

(* The flags fit the keys held after both have changed alike. *)
LEMMA FlagsFollow ==
    ASSUME NEW keys \in KeySets, NEW k \in keys, NEW s, NEW t, NEW h, NEW g,
           FlagsOK(keys, s, h),
           \/ /\ g = h \cup {k}
              /\ \A m \in Modifiers : m \in t <=> m \in s \/ m \in Modifier(k)
           \/ /\ g = h \ {k}
              /\ \A m \in Modifiers : m \in t <=> m \in s /\ m \notin Modifier(k)
    PROVE  FlagsOK(keys, t, g)
  <1>1. \A m \in Modifier(k) : Modifier(k) = {m}
    <2>1. k \in DOMAIN Code
      BY DEF KeySets
    <2> QED
      BY <2>1, KeyTable
  <1> SUFFICES ASSUME NEW m \in Modifiers
               PROVE  LET ks == {l \in keys : Modifier(l) = {m}}
                      IN  /\ m \in t => ks \cap g # {}
                          /\ ks # {} /\ ks \subseteq g => m \in t
    BY DEF FlagsOK
  <1> DEFINE ks == {l \in keys : Modifier(l) = {m}}
  <1>2. (m \in s => ks \cap h # {}) /\ (ks # {} /\ ks \subseteq h => m \in s)
    BY DEF FlagsOK
  <1>3. m \in Modifier(k) <=> k \in ks
    BY <1>1
  <1> HIDE DEF ks
  <1>4. (m \in t => ks \cap g # {}) /\ (ks # {} /\ ks \subseteq g => m \in t)
    <2>1. CASE g = h \cup {k} /\ (m \in t <=> m \in s \/ m \in Modifier(k))
      BY <1>2, <1>3, <2>1
    <2>2. CASE g = h \ {k} /\ (m \in t <=> m \in s /\ m \notin Modifier(k))
      BY <1>2, <1>3, <2>2
    <2> QED
      BY <2>1, <2>2
  <1> QED
    BY <1>4 DEF ks

(* A byte that follows keeps the flags right and reboots for good reason.  *)
LEMMA ByteEffect ==
    ASSUME NEW keys \in KeySets, NEW s, NEW h, FlagsOK(keys, s, h),
           NEW r, Follows(keys, h, Esc(s), r)
    PROVE  LET p == kbd_proc_data(s, r.byte) IN
           /\ "E0ESC" \in p.shift <=> r.byte = \hE0
           /\ p.c \in Char0
           /\ FlagsOK(keys, p.shift, r.held)
           /\ p.reboot => CtrlAltDel(r.held)
  <1> DEFINE p == kbd_proc_data(s, r.byte)
  <1>1. CASE r.byte = \hE0 /\ "E0ESC" \notin s /\ r.held = h
    <2>1. /\ \A m \in Modifiers : m \in p.shift <=> m \in s
          /\ "E0ESC" \in p.shift /\ p.c = 0 /\ p.reboot = FALSE
      <3>1. p = kbd_proc_data(s, \hE0)
        BY <1>1
      <3> HIDE DEF p
      <3> QED
        BY <3>1, PrefixEffect, ZenonT(30)
    <2> HIDE DEF p
    <2>2. FlagsOK(keys, p.shift, h)
      BY <2>1 DEF FlagsOK
    <2>3. "E0ESC" \in p.shift /\ p.c \in Char0 /\ p.reboot = FALSE
      BY <2>1 DEF Char0
    <2> QED
      BY <1>1, <2>2, <2>3 DEF p
  <1>2. ASSUME NEW k \in keys, "E0ESC" \in s <=> Prefixed(k),
               r.byte = LastByte(k), r.held = h \cup {k}
        PROVE  /\ "E0ESC" \notin p.shift /\ r.byte # \hE0 /\ p.c \in Char0
               /\ FlagsOK(keys, p.shift, r.held)
               /\ p.reboot => CtrlAltDel(r.held)
    <2>1. k \in DOMAIN Code
      BY DEF KeySets
    <2>2. r.byte # \hE0
      BY <1>2, <2>1, KeyTable
    <2>3. /\ \A m \in Modifiers : m \in p.shift <=> m \in s \/ m \in Modifier(k)
          /\ "E0ESC" \notin p.shift /\ p.c \in Char0
          /\ p.reboot => k = "delete" /\ {"CTL", "ALT"} \subseteq s
      BY <1>2, <2>1, PressEffect
    <2> HIDE DEF p
    <2>4. FlagsOK(keys, p.shift, r.held)
      BY <1>2, <2>3, FlagsFollow
    <2>5. ASSUME p.reboot PROVE CtrlAltDel(r.held)
      <3>1. "CTL" \in s /\ "ALT" \in s /\ "delete" \in r.held
        BY <1>2, <2>3, <2>5
      <3>2. /\ \E n \in h : Modifier(n) = {"CTL"}
            /\ \E n \in h : Modifier(n) = {"ALT"}
        BY <3>1 DEF FlagsOK, Modifiers
      <3> QED
        BY <1>2, <3>1, <3>2 DEF CtrlAltDel
    <2> QED
      BY <2>2, <2>3, <2>4, <2>5
  <1>3. ASSUME NEW k \in keys, "E0ESC" \in s <=> Prefixed(k),
               r.byte = LastByte(k) + 128, r.held = h \ {k}
        PROVE  /\ "E0ESC" \notin p.shift /\ r.byte # \hE0 /\ p.c \in Char0
               /\ FlagsOK(keys, p.shift, r.held) /\ p.reboot = FALSE
    <2>1. k \in DOMAIN Code
      BY DEF KeySets
    <2>2. r.byte # \hE0
      BY <1>3, <2>1, KeyTable
    <2>3. /\ \A m \in Modifiers : m \in p.shift <=> m \in s /\ m \notin Modifier(k)
          /\ "E0ESC" \notin p.shift /\ p.c = 0 /\ p.reboot = FALSE
      <3>1. ("E0ESC" \in s <=> Prefixed(k)) /\ r.byte = LastByte(k) + 128
        BY <1>3
      <3> QED
        BY <2>1, <3>1, ReleaseEffect, ZenonT(30)
    <2> HIDE DEF p
    <2>4. FlagsOK(keys, p.shift, r.held)
      BY <1>3, <2>3, FlagsFollow
    <2> QED
      BY <2>2, <2>3, <2>4 DEF Char0
  <1> HIDE DEF p
  <1>4. /\ "E0ESC" \in p.shift <=> r.byte = \hE0
        /\ p.c \in Char0
        /\ FlagsOK(keys, p.shift, r.held)
        /\ p.reboot => CtrlAltDel(r.held)
    BY <1>1, <1>2, <1>3 DEF Follows, Esc, p
  <1> QED
    BY <1>4 DEF p

-----------------------------------------------------------------------------
(* What the buffer does, seen from outside. *)
LEMMA NoZero == 0 \notin Chars
  BY UsersAssumption DEF Chars, KEY_DEL

(* cons_intr() keeps the buffer good: a zero is not stored, another        *)
(* character is queued or empties the queue.                               *)
LEMMA StoreGood ==
    ASSUME NEW q, Good(q), NEW c \in Char0
    PROVE  /\ Good(cons_store(q, c))
           /\ c = 0 => cons_store(q, c) = q
           /\ c # 0 => /\ c \in Chars
                       /\ Waiting(cons_store(q, c))
                             = IF Len(Waiting(q)) = CONSBUFSIZE - 1 THEN <<>>
                               ELSE Append(Waiting(q), c)
  <1> DEFINE p == cons_store(q, c)
  <1>1. CASE c = 0
    BY <1>1 DEF cons_store
  <1>2. CASE c # 0
    <2>1. q \in Buffers /\ c \in Chars
      BY <1>2 DEF Good, Char0
    <2>2. /\ p \in Buffers
          /\ Waiting(p) = IF Len(Waiting(q)) = CONSBUFSIZE - 1 THEN <<>> ELSE Append(Waiting(q), c)
      BY <1>2, <2>1, StoreWaiting
    <2> HIDE DEF p
    <2>3. ASSUME NEW k \in 1..Len(Waiting(p)) PROVE Waiting(p)[k] \in Chars
      <3>1. Waiting(q) \in Seq(Chars)
        <4>1. Waiting(q) \in Seq(Char0) /\ Len(Waiting(q)) \in Nat
          BY <2>1, WaitingSeq, LenProperties
        <4>2. Waiting(q) \in [1..Len(Waiting(q)) -> Char0]
          BY <4>1, LenProperties
        <4>3. Waiting(q) \in [1..Len(Waiting(q)) -> Chars]
          BY <4>2 DEF Good
        <4> QED
          BY <4>1, <4>3, IsASeq
      <3>2. <<>> \in Seq(Chars) /\ Append(Waiting(q), c) \in Seq(Chars)
        BY <2>1, <3>1, EmptySeq, AppendProperties
      <3>3. Waiting(p) \in Seq(Chars)
        BY <2>2, <3>2
      <3> QED
        BY <3>3, ElementOfSeq
    <2>4. Good(p)
      BY <2>2, <2>3 DEF Good
    <2> QED
      BY <1>2, <2>1, <2>2, <2>4 DEF p
  <1> QED
    BY <1>1, <1>2

(* A character waits after a store that does not overflow the buffer, if   *)
(* one was stored or one waited before.                                    *)
LEMMA StoreLeaves ==
    ASSUME NEW q, Good(q), NEW c \in Char0, ~Overflows(q, c), c # 0 \/ q.rpos # q.wpos
    PROVE  cons_store(q, c).rpos # cons_store(q, c).wpos
  <1> DEFINE p == cons_store(q, c)
  <1>1. CASE c = 0
    BY <1>1, StoreGood
  <1>2. CASE c # 0
    <2>1. Good(p) /\ Waiting(p) = Append(Waiting(q), c)
      BY <1>2, StoreGood DEF Overflows
    <2>2. Waiting(q) \in Seq(Char0)
      BY WaitingSeq DEF Good
    <2>3. Append(Waiting(q), c) # <<>>
      BY <2>2, AppendProperties
    <2> HIDE DEF p
    <2>4. p.rpos # p.wpos
      BY <2>1, <2>3, WaitingSeq DEF Good
    <2> QED
      BY <2>4 DEF p
  <1> QED
    BY <1>1, <1>2

(* The bytes of a keystroke come behind those that are unread. *)
LEMMA UnreadSend ==
    ASSUME Inv, NEW recs, NEW n \in Nat, recs \in [1..n -> Records], kbd' = kbd \o recs,
           UNCHANGED <<unread, uart, cons, poll, owed>>
    PROVE  OwedInv'
  <1>1. kbd \in Seq(Records) /\ recs \in Seq(Records) /\ Len(recs) = n
    <2>1. kbd \in Seq(Records)
      BY DEF Inv, KbdInv, Story
    <2>2. recs \in Seq(Records)
      BY IsASeq
    <2> QED
      BY <2>1, <2>2, LenProperties
  <1>2. Len(kbd') = Len(kbd) + n /\ Len(kbd) \in Nat
    BY <1>1, ConcatProperties, LenProperties
  <1>3. unread' \in 0..Len(kbd')
    BY <1>2 DEF Inv, OwedInv
  <1> QED
    BY <1>3 DEF Inv, OwedInv

(* cons_getc() keeps the buffer good, and what it takes is no zero. *)
LEMMA TakeGood ==
    ASSUME NEW q, Good(q), q.rpos # q.wpos
    PROVE  /\ Good(Taken(q))
           /\ Waiting(q) # <<>> /\ q.buf[q.rpos] = Head(Waiting(q)) /\ q.buf[q.rpos] # 0
           /\ Waiting(Taken(q)) = Tail(Waiting(q))
  <1> DEFINE p == Taken(q)
  <1>1. q \in Buffers
    BY DEF Good
  <1>2. /\ p \in Buffers
        /\ Waiting(q) # <<>> /\ Head(Waiting(q)) = q.buf[q.rpos]
        /\ q.buf[q.rpos] = Waiting(q)[1] /\ 1 \in 1..Len(Waiting(q))
        /\ Waiting(p) = Tail(Waiting(q))
    BY <1>1, TakeWaiting
  <1> HIDE DEF p
  <1>3. q.buf[q.rpos] # 0
    BY <1>2, NoZero DEF Good
  <1>4. ASSUME NEW k \in 1..Len(Waiting(p)) PROVE Waiting(p)[k] \in Chars
    <2>1. Waiting(q) \in Seq(Char0) /\ Len(Waiting(q)) \in Nat
      BY <1>1, WaitingSeq, LenProperties
    <2>2. /\ Len(Tail(Waiting(q))) = Len(Waiting(q)) - 1
          /\ \A j \in 1..Len(Tail(Waiting(q))) : Tail(Waiting(q))[j] = Waiting(q)[j + 1]
      BY <1>2, <2>1, HeadTailProperties
    <2>3. k + 1 \in 1..Len(Waiting(q)) /\ Waiting(p)[k] = Waiting(q)[k + 1]
      BY <1>2, <2>1, <2>2
    <2> QED
      BY <2>3 DEF Good
  <1> QED
    BY <1>2, <1>3, <1>4 DEF Good, p

-----------------------------------------------------------------------------
(* The console starts with empty buffers and no key down. *)
LEMMA InitInv == ConsInit => Inv
  <1> SUFFICES ASSUME ConsInit PROVE Inv
    OBVIOUS
  <1>1. cons \in Buffers /\ cons.rpos = cons.wpos
    BY BufferAssumption DEF ConsInit, Buffers, Idx, Char0
  <1>2. Waiting(cons) = <<>>
    BY <1>1, WaitingSeq
  <1>3. BufInv
    <2>1. Len(Waiting(cons)) = 0 /\ uart = 0
      BY <1>2, EmptySeq DEF ConsInit
    <2> QED
      BY <1>1, <2>1 DEF BufInv, Good, Char0
  <1>4. OwedInv
    BY EmptySeq DEF ConsInit, OwedInv
  <1>5. KbdInv
    <2>1. /\ kbd \in Seq(Records) /\ Len(kbd) = 0 /\ Len(kbd) + 1 = 1
          /\ held = {} /\ down = {} /\ shift = {}
      BY EmptySeq DEF ConsInit
    <2> QED
      BY <2>1 DEF KbdInv, Story, HeldBefore, EscBefore, Esc
  <1>6. ModifiersHeld
    BY DEF ConsInit, ModifiersHeld
  <1> QED
    BY <1>3, <1>4, <1>5, <1>6 DEF Inv, ConsInit

(* The keyboard and the serial port work on their own. *)
LEMMA PressInv ==
    ASSUME Inv, NEW k \in user.keys, Press(k) PROVE Inv'
  <1>1. k \in DOMAIN Code /\ user.keys \in KeySets
    BY UsersAssumption DEF Inv, KeySets
  <1>2. Send(Code[k], down \cup {k})
    BY DEF Press
  <1> DEFINE g == down \cup {k}
             n == Len(Code[k])
             recs == [j \in 1..n |-> [byte |-> Code[k][j], held |-> IF j = n THEN g ELSE down]]
  <1>3. /\ down' = g /\ kbd' = kbd \o recs
        /\ UNCHANGED <<user, uart, shift, held, cons, poll, unread, owed, rebooted>>
    BY <1>2 DEF Send, call
  <1>4. /\ Code[k] = IF Prefixed(k) THEN <<\hE0, LastByte(k)>> ELSE <<LastByte(k)>>
        /\ n = IF Prefixed(k) THEN 2 ELSE 1
        /\ LastByte(k) \in 0..255 /\ LastByte(k) # \hE0
    <2>1. LastByte(k) \in 0..255 /\ LastByte(k) # \hE0
      BY <1>1, SentBytes
    <2>2. /\ Code[k] = IF Prefixed(k) THEN <<\hE0, LastByte(k)>> ELSE <<LastByte(k)>>
          /\ n = IF Prefixed(k) THEN 2 ELSE 1
      BY <1>1, CodeBytes
    <2> QED
      BY <2>1, <2>2
  <1>a. recs \in [1..n -> Records]
    <2>1. g \in SUBSET DOMAIN Code /\ down \in SUBSET DOMAIN Code
      BY <1>1 DEF Inv, KbdInv, Story
    <2>2. \A j \in 1..n : Code[k][j] \in 0..255
      BY <1>4
    <2> HIDE DEF n, g
    <2> QED
      BY <2>1, <2>2 DEF Records
  <1>5. KbdInv'
    <2>1. g \in SUBSET DOMAIN Code /\ down \in SUBSET DOMAIN Code
      BY <1>1 DEF Inv, KbdInv, Story
    <2>4. recs[n] = [byte |-> LastByte(k), held |-> g]
          /\ (n = 2 => recs[1] = [byte |-> \hE0, held |-> down])
      <3>1. n \in 1..n /\ Code[k][n] = LastByte(k)
            /\ (n = 2 => 1 \in 1..n /\ 1 # n /\ Code[k][1] = \hE0)
        BY <1>4
      <3> HIDE DEF n, g
      <3> QED
        BY <3>1
    <2>5. Story(user.keys, held, shift, kbd, down)
      BY DEF Inv, KbdInv
    <2> HIDE DEF recs, g, n
    <2>6. Story(user.keys, held, shift, kbd \o recs, g)
      <3>1. g = down \cup {k}
        BY DEF g
      <3> QED
        BY <1>1, <1>4, <1>a, <2>4, <2>5, <3>1, SendStory, ZenonT(30)
    <2> QED
      BY <1>3, <2>6 DEF KbdInv
  <1>6. OwedInv'
    <2>1. n \in Nat
      BY <1>4
    <2> HIDE DEF recs, n
    <2> QED
      BY <1>3, <1>a, <2>1, UnreadSend
  <1> QED
    BY <1>3, <1>5, <1>6 DEF Inv, BufInv, ModifiersHeld

(* A key that is let go sends its bytes; the story of the keyboard port    *)
(* goes on.                                                                *)
LEMMA ReleaseInv ==
    ASSUME Inv, NEW k \in user.keys, Release(k) PROVE Inv'
  <1>1. k \in DOMAIN Code /\ user.keys \in KeySets
    BY UsersAssumption DEF Inv, KeySets
  <1> DEFINE g == down \ {k}
             b == LastByte(k) + 128
             bytes == IF Prefixed(k) THEN <<\hE0, b>> ELSE <<b>>
             n == IF Prefixed(k) THEN 2 ELSE 1
             recs == [j \in 1..n |-> [byte |-> bytes[j], held |-> IF j = n THEN g ELSE down]]
  <1>2. b \in 0..255 /\ b # \hE0
    BY <1>1, SentBytes
  <1>3. Send(bytes, g)
    BY <1>1, CodeBytes DEF Release
  <1>4. Len(bytes) = n
    OBVIOUS
  <1>5. /\ down' = g /\ kbd' = kbd \o recs
        /\ UNCHANGED <<user, uart, shift, held, cons, poll, unread, owed, rebooted>>
    <2> HIDE DEF bytes, n, g
    <2> QED
      BY <1>3, <1>4 DEF Send, call
  <1>a. recs \in [1..n -> Records]
    <2>1. g \in SUBSET DOMAIN Code /\ down \in SUBSET DOMAIN Code
      BY <1>1 DEF Inv, KbdInv, Story
    <2>2. \A j \in 1..n : bytes[j] \in 0..255
      BY <1>2
    <2> HIDE DEF n, g, bytes
    <2> QED
      BY <2>1, <2>2 DEF Records
  <1>6. KbdInv'
    <2>1. g \in SUBSET DOMAIN Code /\ down \in SUBSET DOMAIN Code
      BY <1>1 DEF Inv, KbdInv, Story
    <2>4. recs[n] = [byte |-> b, held |-> g]
          /\ (n = 2 => recs[1] = [byte |-> \hE0, held |-> down])
      <3>1. n \in 1..n /\ bytes[n] = b /\ (n = 2 => 1 \in 1..n /\ 1 # n /\ bytes[1] = \hE0)
        OBVIOUS
      <3> HIDE DEF n, g, bytes, b
      <3> QED
        BY <3>1
    <2>5. Story(user.keys, held, shift, kbd, down)
      BY DEF Inv, KbdInv
    <2>6. b = LastByte(k) + 128 /\ g = down \ {k} /\ n = IF Prefixed(k) THEN 2 ELSE 1
      OBVIOUS
    <2> HIDE DEF recs, g, n, b
    <2>7. Story(user.keys, held, shift, kbd \o recs, g)
      BY <1>1, <1>2, <1>a, <2>4, <2>5, <2>6, SendStory, ZenonT(30)
    <2> QED
      BY <1>5, <2>7 DEF KbdInv
  <1>7. OwedInv'
    <2>1. n \in Nat
      OBVIOUS
    <2> HIDE DEF recs, n
    <2> QED
      BY <1>5, <1>a, <2>1, UnreadSend
  <1> QED
    BY <1>5, <1>6, <1>7 DEF Inv, BufInv, ModifiersHeld

(* The two loops of cons_intr(). *)
LEMMA SerialIntrInv ==
    ASSUME Inv, SerialIntr PROVE Inv'
  <1>1. Good(cons) /\ uart \in Char0
    BY DEF Inv, BufInv
  <1>2. KbdInv' /\ ModifiersHeld' /\ user' \in Users /\ uart' = 0
    BY DEF Inv, KbdInv, ModifiersHeld, SerialIntr
  <1>3. Good(cons_store(cons, uart))
    BY <1>1, StoreGood
  <1>4. Good(cons') /\ OwedInv'
    <2>1. CASE uart = 0
      BY <1>1, <2>1 DEF SerialIntr, Inv, OwedInv
    <2>2. CASE uart # 0
      <3>1. /\ cons' = cons_store(cons, uart) /\ owed' = (owed /\ ~Overflows(cons, uart))
            /\ UNCHANGED <<poll, kbd, unread>> /\ poll = "serial"
        BY <2>2 DEF SerialIntr
      <3>2. owed' => cons'.rpos # cons'.wpos
        BY <1>1, <2>2, <3>1, StoreLeaves
      <3> QED
        BY <1>3, <3>1, <3>2 DEF Inv, OwedInv
    <2> QED
      BY <2>1, <2>2
  <1> QED
    BY <1>2, <1>4 DEF Inv, BufInv, Char0

(* What kbd_intr() knows of the byte it reads. *)
LEMMA NextByte ==
    ASSUME Inv, kbd # <<>>
    PROVE  LET p == kbd_proc_data(shift, Head(kbd).byte) IN
           /\ Head(kbd) = kbd[1] /\ p.c \in Char0
           /\ Story(user.keys, Head(kbd).held, p.shift, Tail(kbd), down)
           /\ FlagsOK(user.keys, p.shift, Head(kbd).held)
           /\ p.reboot => CtrlAltDel(Head(kbd).held)
  <1> DEFINE r == kbd[1]
             p == kbd_proc_data(shift, r.byte)
  <1>1. user.keys \in KeySets
    BY UsersAssumption DEF Inv, KeySets
  <1>2. Story(user.keys, held, shift, kbd, down)
    BY DEF Inv, KbdInv
  <1>3. Head(kbd) = r /\ Follows(user.keys, held, Esc(shift), r)
    <2>1. \E t : "E0ESC" \in t <=> kbd[1].byte = \hE0
      <3>1. CASE kbd[1].byte = \hE0
        <4>1. "E0ESC" \in {"E0ESC"}
          OBVIOUS
        <4> QED
          BY <3>1, <4>1
      <3>2. CASE kbd[1].byte # \hE0
        <4>1. "E0ESC" \notin {}
          OBVIOUS
        <4> QED
          BY <3>2, <4>1
      <3> QED
        BY <3>1, <3>2
    <2> QED
      BY <1>2, <2>1, ReadStory
  <1>4. FlagsOK(user.keys, shift, held)
    BY DEF Inv, ModifiersHeld, FlagsOK
  <1> HIDE DEF r
  <1>5. /\ "E0ESC" \in p.shift <=> r.byte = \hE0
        /\ p.c \in Char0
        /\ FlagsOK(user.keys, p.shift, r.held)
        /\ p.reboot => CtrlAltDel(r.held)
    <2>1. p = kbd_proc_data(shift, r.byte)
      OBVIOUS
    <2> HIDE DEF p
    <2> QED
      BY <1>1, <1>3, <1>4, <2>1, ByteEffect
  <1> HIDE DEF p
  <1>6. Story(user.keys, r.held, p.shift, Tail(kbd), down)
    BY <1>2, <1>5, ReadStory DEF r
  <1> QED
    BY <1>3, <1>5, <1>6 DEF p, r

(* The keyboard handler reads one byte, and the flags follow the keys. *)
LEMMA KbdIntrInv ==
    ASSUME Inv, KbdIntr PROVE Inv'
  <1>1. CASE kbd = <<>> \/ terr
    <2>1. /\ poll = "kbd" /\ poll' = "take" /\ unread' = IF terr THEN 0 ELSE unread
          /\ UNCHANGED <<user, down, uart, kbd, shift, held, cons, owed, rebooted>>
      BY <1>1 DEF KbdIntr
    <2>2. unread' = 0 /\ Len(kbd) \in Nat
      <3>1. kbd \in Seq(Records)
        BY DEF Inv, KbdInv, Story
      <3>2. Len(kbd) \in Nat /\ (kbd = <<>> => Len(kbd) = 0)
        BY <3>1, LenProperties, EmptySeq
      <3> QED
        BY <1>1, <2>1, <3>2 DEF Inv, OwedInv
    <2>3. OwedInv'
      BY <2>1, <2>2 DEF Inv, OwedInv
    <2>4. user' \in Users /\ BufInv' /\ KbdInv' /\ ModifiersHeld'
      BY <2>1 DEF Inv, BufInv, KbdInv, ModifiersHeld
    <2> QED
      BY <2>3, <2>4 DEF Inv
  <1>2. CASE ~(kbd = <<>> \/ terr)
    <2> DEFINE p == kbd_proc_data(shift, Head(kbd).byte)
               q == cons_store(cons, p.c)
    <2>1. /\ p.c \in Char0
          /\ Story(user.keys, Head(kbd).held, p.shift, Tail(kbd), down)
          /\ FlagsOK(user.keys, p.shift, Head(kbd).held)
          /\ p.reboot => CtrlAltDel(Head(kbd).held)
      BY <1>2, NextByte
    <2>2. /\ kbd' = Tail(kbd) /\ held' = Head(kbd).held /\ shift' = p.shift
          /\ rebooted' = p.reboot /\ cons' = q
          /\ unread' = IF unread > 0 THEN unread - 1 ELSE 0
          /\ owed' = ((owed \/ (unread > 0 /\ p.c # 0)) /\ ~Overflows(cons, p.c))
          /\ UNCHANGED <<user, down, uart, poll>> /\ poll = "kbd"
      BY <1>2 DEF KbdIntr
    <2> HIDE DEF p
    <2>3. Good(q)
      BY <2>1, StoreGood DEF Inv, BufInv
    <2>a. owed' => cons'.rpos # cons'.wpos
      BY <2>1, <2>2, StoreLeaves DEF Inv, BufInv, OwedInv
    <2>b. unread' \in 0..Len(kbd')
      <3>1. kbd \in Seq(Records)
        BY DEF Inv, KbdInv, Story
      <3>2. Len(kbd) \in Nat /\ Len(Tail(kbd)) = Len(kbd) - 1 /\ Len(kbd) > 0
        BY <1>2, <3>1, LenProperties, HeadTailProperties, EmptySeq
      <3>3. unread \in 0..Len(kbd)
        BY DEF Inv, OwedInv
      <3> QED
        BY <2>2, <3>2, <3>3
    <2> HIDE DEF q
    <2>4. BufInv' /\ OwedInv'
      BY <2>2, <2>3, <2>a, <2>b DEF Inv, BufInv, OwedInv
    <2>5. KbdInv'
      BY <2>1, <2>2 DEF KbdInv
    <2>6. ModifiersHeld'
      BY <2>1, <2>2 DEF ModifiersHeld, FlagsOK, CtrlAltDel
    <2> QED
      BY <2>2, <2>4, <2>5, <2>6 DEF Inv
  <1> QED
    BY <1>1, <1>2

(* Every step of the console, the user and the wires keeps the invariant. *)
LEMMA StepInv == Inv /\ [ConsNext]_consVars => Inv'
  <1> SUFFICES ASSUME Inv, [ConsNext]_consVars PROVE Inv'
    OBVIOUS
  <1>1. ASSUME NEW c \in user.serial, SerialArrives(c) PROVE Inv'
    <2>1. c \in Chars /\ c # 0
      BY NoZero DEF Inv, Chars
    <2> QED
      BY <1>1, <2>1 DEF SerialArrives, call, Inv, BufInv, OwedInv, KbdInv, ModifiersHeld, Char0
  <1>a. CASE MouseData
    BY <1>a DEF MouseData, call, Inv, BufInv, OwedInv, KbdInv, ModifiersHeld
  <1>l. Len(kbd) \in Nat
    BY LenProperties DEF Inv, KbdInv, Story
  <1>2. CASE CallGetc
    <2>1. /\ poll' = "serial" /\ unread' = Len(kbd)
          /\ owed' = (uart # 0 \/ cons.rpos # cons.wpos)
          /\ UNCHANGED <<user, kbd, down, uart, shift, held, cons, rebooted>>
      BY <1>2 DEF CallGetc, devices
    <2>2. OwedInv'
      <3>1. unread' \in 0..Len(kbd')
        BY <1>l, <2>1
      <3>2. owed' => uart' # 0 \/ cons'.rpos # cons'.wpos
        BY <2>1
      <3> QED
        BY <2>1, <3>1, <3>2 DEF OwedInv
    <2>3. user' \in Users /\ BufInv' /\ KbdInv' /\ ModifiersHeld'
      BY <2>1 DEF Inv, BufInv, KbdInv, ModifiersHeld
    <2> QED
      BY <2>2, <2>3 DEF Inv
  <1>3. CASE Take
    <2>1. KbdInv' /\ ModifiersHeld' /\ OwedInv' /\ user' \in Users /\ uart' = uart
      BY <1>3, <1>l DEF Take, devices, Inv, KbdInv, ModifiersHeld, OwedInv
    <2>2. cons' = IF cons.rpos # cons.wpos THEN Taken(cons) ELSE cons
      BY <1>3 DEF Take, Taken
    <2>3. Good(cons')
      BY <2>2, TakeGood DEF Inv, BufInv
    <2> QED
      BY <2>1, <2>3 DEF Inv, BufInv
  <1>4. CASE UNCHANGED consVars
    BY <1>4 DEF consVars, devices, call, Inv, BufInv, OwedInv, KbdInv, ModifiersHeld
  <1>5. CASE Reset
    BY <1>4, <1>5 DEF Reset
  <1> QED
    BY <1>1, <1>a, <1>2, <1>3, <1>4, <1>5, PressInv, ReleaseInv, SerialIntrInv, KbdIntrInv DEF ConsNext

(* The induction invariant. *)
THEOREM Invariant == ConsSpec => []Inv
  BY InitInv, StepInv, PTL DEF ConsSpec

(* For any keys pressed and released in any order and polled at any time,  *)
(* kbd_proc_data()'s flags fit the keyboard, and the machine is reset only *)
(* while Ctrl, Alt and Delete are down together.                           *)
THEOREM ModifiersHeldAlways == ConsSpec => []ModifiersHeld
  <1>1. Inv => ModifiersHeld
    BY DEF Inv
  <1> QED
    BY Invariant, <1>1, PTL

(* cons_getc() never answers 0 to a caller for whom a character waited, in *)
(* the buffer, in the serial port or in the keyboard controller, and it    *)
(* returns only when it has read what the controller had at the call, or   *)
(* met mouse data there.                                                   *)
THEOREM WaitingIsAnsweredAlways == ConsSpec => WaitingIsAnswered
  <1>1. Inv /\ [ConsNext]_consVars
          => [poll = "take" /\ poll' = "idle" => unread = 0 /\ (owed => ret' # 0)]_consVars
    <2> SUFFICES ASSUME Inv, ConsNext, poll = "take", poll' = "idle"
                 PROVE  unread = 0 /\ (owed => ret' # 0)
      OBVIOUS
    <2>1. Take
      BY DEF ConsNext, Press, Release, Send, SerialArrives, MouseData, CallGetc, SerialIntr, KbdIntr,
             Reset, call, devices, consVars
    <2>2. unread = 0 /\ (owed => cons.rpos # cons.wpos)
      BY DEF Inv, OwedInv
    <2>3. cons.rpos # cons.wpos => ret' = cons.buf[cons.rpos]
      BY <2>1 DEF Take
    <2> QED
      BY <2>2, <2>3, TakeGood DEF Inv, BufInv
  <1> QED
    BY Invariant, <1>1, PTL DEF ConsSpec, WaitingIsAnswered

(* Every step of the console is a step of the queue or changes nothing the *)
(* queue shows.                                                            *)
LEMMA StepQueue == Inv /\ [ConsNext]_consVars => [Queue!QNext]_(Queue!qvars)
  <1> SUFFICES ASSUME Inv, [ConsNext]_consVars PROVE [Queue!QNext]_(Queue!qvars)
    OBVIOUS
  <1> USE DEF Queue!qvars
  <1>1. Good(cons) /\ uart \in Char0
    BY DEF Inv, BufInv
  <1>2. ASSUME NEW c \in Char0, cons' = cons_store(cons, c), ret' = ret
        PROVE  [Queue!QNext]_(Queue!qvars)
    <2>1. CASE c = 0
      BY <1>1, <1>2, <2>1, StoreGood DEF Waiting
    <2>2. CASE c # 0
      <3>1. /\ c \in Chars
            /\ Waiting(cons_store(cons, c))
                  = IF Len(Waiting(cons)) = CONSBUFSIZE - 1 THEN <<>> ELSE Append(Waiting(cons), c)
        BY <1>1, <2>2, StoreGood
      <3>2. Waiting(cons)' = Waiting(cons_store(cons, c))
        BY <1>2 DEF Waiting
      <3>3. Queue!Put(c)
        BY <1>2, <3>1, <3>2 DEF Queue!Put
      <3> QED
        BY <3>1, <3>3 DEF Queue!QNext
    <2> QED
      BY <2>1, <2>2
  <1>3. CASE cons' = cons /\ ret' = ret
    BY <1>3 DEF Waiting
  <1>4. CASE SerialIntr
    BY <1>1, <1>2, <1>3, <1>4 DEF SerialIntr
  <1>5. CASE KbdIntr
    <2>1. CASE kbd = <<>> \/ terr
      BY <1>3, <1>5, <2>1 DEF KbdIntr
    <2>2. CASE ~(kbd = <<>> \/ terr)
      <3> DEFINE c == kbd_proc_data(shift, Head(kbd).byte).c
      <3>1. c \in Char0
        BY <2>2, NextByte
      <3>2. cons' = cons_store(cons, c) /\ ret' = ret
        BY <1>5, <2>2 DEF KbdIntr
      <3> HIDE DEF c
      <3> QED
        BY <1>2, <3>1, <3>2
    <2> QED
      BY <2>1, <2>2
  <1>6. CASE Take
    <2>1. CASE cons.rpos # cons.wpos
      <3>1. cons' = Taken(cons) /\ ret' = cons.buf[cons.rpos]
        BY <1>6, <2>1 DEF Take, Taken
      <3>2. /\ Waiting(cons) # <<>> /\ cons.buf[cons.rpos] = Head(Waiting(cons))
            /\ Waiting(Taken(cons)) = Tail(Waiting(cons))
        BY <1>1, <2>1, TakeGood
      <3>3. Waiting(cons)' = Waiting(Taken(cons))
        BY <3>1 DEF Waiting
      <3> QED
        BY <3>1, <3>2, <3>3 DEF Queue!Get, Queue!QNext
    <2>2. CASE cons.rpos = cons.wpos
      <3>1. cons' = cons /\ ret' = 0
        BY <1>6, <2>2 DEF Take
      <3>2. Waiting(cons) = <<>>
        BY <1>1, <2>2, WaitingSeq DEF Good
      <3>3. Waiting(cons)' = Waiting(cons)
        BY <3>1 DEF Waiting
      <3> QED
        BY <3>1, <3>2, <3>3 DEF Queue!GetNone, Queue!QNext
    <2> QED
      BY <2>1, <2>2
  <1> QED
    BY <1>3, <1>4, <1>5, <1>6
       DEF ConsNext, consVars, Press, Release, Send, SerialArrives, MouseData, CallGetc,
           devices, call, Reset

(* cons_intr() and cons_getc() implement the queue, for every length of    *)
(* the buffer.                                                             *)
THEOREM Implements == ConsSpec => ImplementsCharQueue
  <1>1. ConsInit => Queue!QInit
    <2> SUFFICES ASSUME ConsInit PROVE Waiting(cons) = <<>> /\ ret = 0
      BY DEF Queue!QInit
    <2>1. cons \in Buffers /\ cons.rpos = cons.wpos
      BY BufferAssumption DEF ConsInit, Buffers, Idx, Char0
    <2> QED
      BY <2>1, WaitingSeq DEF ConsInit
  <1> QED
    BY Invariant, StepQueue, <1>1, PTL DEF ConsSpec, ImplementsCharQueue, Queue!QSpec
=============================================================================
