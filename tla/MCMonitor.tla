---------------------------- MODULE MCMonitor ----------------------------
(***************************************************************************)
(* The console's input, the monitor's dialogue and the library under them, *)
(* in one run.  None shares state with another, so one works at a time and *)
(* the others stay where they start: the dialogue at the first prompt on   *)
(* an empty screen, the library idle, and the console before anyone        *)
(* touches it.                                                             *)
(*                                                                         *)
(* Console: five users, one who presses modifiers and Delete, one who      *)
(* works with keys that differ by the E0 prefix only, one who shifts, one  *)
(* who types while characters come over the serial line, and one who also  *)
(* moves the mouse.                                                        *)
(*                                                                         *)
(* Monitor: a screen of five rows of two characters and lines of up to     *)
(* seven, which wrap and make the screen scroll; "a" and "aa" are          *)
(* commands.                                                               *)
(***************************************************************************)
EXTENDS Console, Monitor, Library

User(keys, serial, mouse) == [keys |-> keys, serial |-> serial, mouse |-> mouse]
Typist == User({"a"}, {115}, FALSE)
MCUsers ==
    { User({"rctl", "lctl", "lalt", "delete"}, {}, FALSE),
      User({"lctl", "ralt", "delete", "keypad_dot"}, {}, FALSE),
      User({"lshift", "rshift", "caps"}, {}, FALSE),
      Typist,
      User({"caps", "a"}, {}, TRUE) }

MCKeys == {BS, TAB, LF, CR, BLANK, DEL, 97}
MCCommands == {<<97>>, <<97, 97>>}

(* Tables of five entries, any of them of the type that is searched, with  *)
(* addresses in ascending order.                                           *)
Entry(type, value, desc) == [n_type |-> type, n_value |-> value, n_desc |-> desc]
Placed(S, V) ==
    [m \in 0 .. 4 |->
        IF m \in S
        THEN Entry("FUN", CHOOSE v \in V : Cardinality({w \in V : w < v})
                                             = Cardinality({k \in S : k < m}), 0)
        ELSE Entry("PSYM", 2, 0)]
SearchTables ==
    UNION {{Placed(S, V) : V \in kSubset(Cardinality(S), 0 .. 5)} : S \in SUBSET (0 .. 4)}
MCSearches == [stabs : SearchTables, left : {0, 1}, right : {3, 4}, addr : 0 .. 6]

(* Tables as the compiler writes them: files, in them functions with their *)
(* parameters, and statements two bytes apart with a block or an included  *)
(* file between them.                                                      *)
Body(at, params, between, line) ==
    <<Entry("FUN", at, line)>>
    \o [k \in 1 .. params |-> Entry("PSYM", 0, 0)]
    \o <<Entry("SLINE", 0, line + 1)>>
    \o (IF between = "none" THEN <<>> ELSE <<Entry(between, at + 2, 0)>>)
    \o <<Entry("SLINE", 2, line + 2)>>
TableOf(seq) == [m \in 0 .. Len(seq) - 1 |-> seq[m + 1]]
Program(p, q, between) ==
    TableOf(<<Entry("UNDF", 0, 0), Entry("SO", 2, 0)>>
            \o Body(2, p, between, 10) \o Body(6, q, "none", 20)
            \o <<Entry("SO", 10, 0)>>
            \o Body(10, q, "none", 30) \o Body(14, p, between, 40)
            \o <<Entry("SO", 18, 0)>>)
MCLookups ==
    {[stabs |-> Program(p, q, b), addr |-> a] :
        p \in 0 .. 2, q \in 0 .. 1, b \in {"none", "LBRAC", "SOL"}, a \in 0 .. 19}

(* Every conversion with its flags, and texts of up to three parts. *)
Convert(ch, pad, width, precision, stars, longs, alt, arg) ==
    [kind |-> "convert", ch |-> ch, pad |-> pad, width |-> width, precision |-> precision,
     stars |-> stars, longs |-> longs, alt |-> alt, arg |-> arg]
Other(kind, ch) ==
    [kind |-> kind, ch |-> ch, pad |-> " ", width |-> 5, precision |-> -1,
     stars |-> FALSE, longs |-> 0, alt |-> FALSE, arg |-> 0]
Numbers == {0, 1, 8, 10, 99, 127, 128, 255, 256, 1000, -1, -128, -1000}
NumberParts ==
    {Convert(ch, pad, w, -1, stars, longs, FALSE, n) :
        ch \in {"d", "u", "o", "x", "p"}, pad \in {" ", "0", "-"}, w \in {-1, 1, 4},
        stars \in BOOLEAN, longs \in {0, 1, 2}, n \in Numbers}
StringParts ==
    {Convert("s", pad, w, precision, stars, 0, alt, str) :
        pad \in {" ", "0", "-"}, w \in {-1, 1, 3}, precision \in {-1, 1, 2}, stars \in BOOLEAN,
        alt \in BOOLEAN, str \in {<<>>, <<"a">>, <<"a", "\n", "b">>}}
    \cup {Convert("s", " ", w, 0, TRUE, 0, FALSE, <<"a", "b">>) : w \in {-1, 3}}
OtherParts ==
    {Convert("e", " ", -1, -1, FALSE, 0, FALSE, n) : n \in {-2, -1, 0, 1, 3}}
    \cup {Other("char", "a"), Other("percent", "%"), Other("unknown", "y")}
Mixed ==
    {Other("char", "a"), Other("percent", "%"), Other("unknown", "y"),
     Convert("c", " ", -1, -1, FALSE, 0, FALSE, "b"), Convert("d", " ", 2, -1, TRUE, 0, FALSE, -7),
     Convert("s", "-", 3, 1, TRUE, 0, FALSE, <<"c", "d">>)}
MCFormats ==
    [items : {<<part>> : part \in NumberParts \cup StringParts \cup OtherParts}, n : {4}]
    \cup [items : SeqOf(Mixed, 3), n : {0, 1, 3, 20}]

MCErrorTexts == <<"unspecified error", "bad environment">>

MCCopies == {c \in [d : 0 .. 11, s : 0 .. 11, n : 0 .. 8] : c.d + c.n <= 12 /\ c.s + c.n <= 12}

MCPairs == [p : SeqOf({97, 200}, 3), q : SeqOf({97, 200}, 3), n : 0 .. 4]

Marks == {BLANK, PLUS, MINUS, 48, 49, 56, 120, 97}
MCNumerals ==
    [s : SeqOf(Marks, 3) \cup {<<c>> \o s : c \in {BLANK, MINUS}, s \in TupleOf(Marks, 3)},
     base : {0, 8, 10, 16}]

FirstPrompt == crt.pos = 1 /\ i = 0 /\ pc = "readline" /\ \A k \in DOMAIN buf : buf[k] = 0
NobodyYet   == ConsInit /\ user = Typist

MCInit == ConsInit /\ Init /\ LibInit /\ (FirstPrompt \/ NobodyYet)

MCNext ==
    \/ FirstPrompt /\ job = Idle /\ ConsNext /\ UNCHANGED <<vars, job>>
    \/ NobodyYet /\ job = Idle /\ Next /\ UNCHANGED <<consVars, job>>
    \/ NobodyYet /\ FirstPrompt /\ LibNext /\ UNCHANGED <<consVars, vars>>

MCSpec == MCInit /\ [][MCNext]_<<consVars, vars, job>>
=============================================================================
