------------------------------ MODULE Template ------------------------------
(***************************************************************************)
(* engine/esma_template.c: the parser of *.esma files, which turns a text  *)
(*     states { idle; work; };                                             *)
(*     trans  { init -> idle: 0;  work -> self: tick_0: 1s; };             *)
(* into a template: an array of states, each with its transitions.         *)
(*                                                                         *)
(* A step reads the next token, whatever it is, so that the behaviours of  *)
(* this module parse every text.  Blanks and comments are between tokens,  *)
(* and what a channel has between its code and the next colon is ignored.  *)
(* An allocation fails like a bad token: the parser gives up.  (The entry  *)
(* of a state is written to all the same; that is left out.)               *)
(***************************************************************************)
EXTENDS Integers, Sequences

CONSTANTS
    Name,       \* names the text declares ("self", too, can be declared)
    Used,       \* names the statements use
    Torn,       \* what strlen() finds in memory nobody cleared
    Junk,       \* and in its counters
    Code,       \* codes of transitions and channels
    Number,     \* numbers of intervals
    Signal,     \* numbers of the signals known by name
    Period,     \* ESMA_TM_ONESHOT, ESMA_TM_PERIODIC
    Event,      \* the events of data transitions
    Word,       \* 2^32, the range of a u32
    StateCap,   \* first capacity of the array of states, 10
    MaxStates,  \* bound: states of a template
    MaxTrans    \* bound: statements of the text

Reserved == {"init", "fini"}
POLLIN  == 1
POLLOUT == 2
POLLHUP == 4
POLLERR == 8
Unit   == {"ms", "s"}

ASSUME TemplateAssumption ==
    /\ Torn \notin Name \cup Used \cup Reserved /\ Name \cap Reserved = {}
    /\ Word \in Nat /\ Word > POLLERR
    /\ Junk \subseteq 0..(Word - 1)
    /\ Code \subseteq Int /\ \A c \in Code : -Word <= 2 * c /\ 2 * c < Word  \* an int
    /\ Number \subseteq Nat /\ \A n \in Number : 2 * n < Word * Word      \* a long
    /\ Signal \subseteq 1..(Word - 1)
    /\ "none" \notin Period
    /\ Event \subseteq {POLLIN, POLLOUT, POLLHUP, POLLERR}
    /\ StateCap \in Nat /\ StateCap >= 2
    /\ MaxStates \in Nat
    /\ MaxTrans \in Nat /\ MaxTrans < Word - 1

VARIABLES
    st,         \* the automaton's state, "reserved", "accepted" or "failed"
    states,     \* et->states
    eti,        \* the statement being parsed
    now,        \* what that statement said so far (history)
    said        \* the statements parsed so far (history)

pvars == <<st, states, eti, now, said>>

\* est_src, est_dst and next_state point to states: they are positions in the
\* array here, NULL is 0, and a pointer into freed memory is Dangling.
NULL == 0
Dangling == -1

Done == {"accepted", "failed"}

\* The counters of an entry the array was calloc'ed with.
Counts(C) == [ntrans: C, maxCode: C, maxTick: C, maxSign: C]
NewState(name, counts) ==
    [name |-> name, trans |-> <<>>, ntrans |-> counts.ntrans, maxCode |-> counts.maxCode,
     maxTick |-> counts.maxTick, maxSign |-> counts.maxSign]
FirstState(name) == [name |-> name, trans |-> <<>>, ntrans |-> 0, maxCode |-> 0,
                     maxTick |-> 0, maxSign |-> 0]

Cleared == [code |-> -1, flags |-> "none", type |-> "none", data |-> 0,
            src |-> NULL, dst |-> NULL]
\* _esma_template_internal_clean
BUG_Clean(e) == [e EXCEPT !.flags = "none", !.type = "none"]    \* pointers stay
Clean(e) == Cleared

\* A statement of which nothing was read.
Silent == [src |-> "", dst |-> "", type |-> "none", code |-> -1, data |-> 0, flags |-> "none"]

\* esma_template_init
Init ==
    /\ st = "idle"
    /\ states = <<FirstState("init"), FirstState("fini")>>
    /\ eti = Cleared
    /\ now = Silent
    /\ said = <<>>

----------------------------------------------------------------------------
(* Punctuation and key words.                                              *)

Goes(from, to) ==
    /\ st \in from /\ st' = to
    /\ UNCHANGED <<states, eti, now, said>>

SectionWord   == Goes({"idle"}, "state_section") \/ Goes({"idle"}, "trans_section")
\* In a state section everything before the brace is skipped.
OpenBrace     == Goes({"state_section"}, "state_section_enter")
                   \/ Goes({"trans_section"}, "trans_section_enter")
CloseBrace    == Goes({"state_section_enter"}, "state_section_leave")
                   \/ Goes({"trans_section_enter"}, "trans_section_leave")
Semicolon     == Goes({"state_name_leave"}, "state_section_enter")
                   \/ Goes({"state_section_leave", "trans_section_leave"}, "idle")
Row           == Goes({"row"}, "dst")
Colon         == Goes({"colon"}, "code")

\* _decode_buffer returns; its variables are gone.
Returns(from, result) ==
    /\ st \in from /\ st' = result
    /\ eti' = Clean(eti) /\ now' = Silent
    /\ UNCHANGED <<states, said>>

\* Any token that is not expected; nothing is unexpected in front of a state
\* section's brace.
BadToken == Returns({"state_name_leave", "reserved", "state_section_enter", "state_section_leave",
                     "idle", "trans_section", "trans_section_enter", "trans_section_leave",
                     "row", "dst", "colon", "code", "interval", "period", "signal",
                     "event", "semicolon"}, "failed")

\* The loop stops at the last character without looking at it, in whatever
\* state the automaton is.
TextEnds == st \notin Done \cup {"reserved"} /\ Returns({st}, "accepted")

----------------------------------------------------------------------------
(* The states section.                                                     *)

\* "init" and "fini" get as far as the other names, but the word is not
\* skipped: it is still the next token where the semicolon should be.
DeclareReserved == Goes({"state_section_enter"}, "reserved")

\* n items fill an esma_array, whose capacity has doubled since it was made.
Full(n, first) == \E k \in 0..n, times \in 1..(n + 1) : times = 2^k /\ n = first * times

\* What is in slot n of the array when a state of this name is written there:
\* realloc does not clear what it adds, where a name need not end.
Fresh(w, n) == IF n <= StateCap THEN {FirstState(w)}
               ELSE {NewState(x, c) : x \in {w, Torn}, c \in Counts(Junk)}

\* The array has moved: the transitions still point to where it was.
Moved(array) ==
    [i \in DOMAIN array |->
        [array[i] EXCEPT !.trans =
            [j \in DOMAIN @ |-> IF @[j].dst = NULL THEN @[j]
                               ELSE [@[j] EXCEPT !.dst = Dangling]]]]

\* _new_esma_state_template.  The array may move when it grows.
Declare(w) ==
    /\ st = "state_section_enter" /\ Len(states) < MaxStates
    /\ st' = "state_name_leave"
    /\ \E new \in Fresh(w, Len(states) + 1),
          old \in {states} \cup (IF Full(Len(states), StateCap) THEN {Moved(states)} ELSE {}) :
          states' = Append(old, new)
    /\ UNCHANGED <<eti, now, said>>

----------------------------------------------------------------------------
(* The trans section.                                                      *)

\* The first state of that name; nothing is assigned when there is none.
Named(w) == {i \in DOMAIN states : states[i].name = w}
Find(w, old) == IF Named(w) = {} THEN old
                ELSE CHOOSE i \in Named(w) : \A k \in Named(w) : i <= k

Reads(from, to, e, n) ==
    /\ st = from /\ st' = to
    /\ eti' = e /\ now' = n
    /\ UNCHANGED <<states, said>>

Src(w) ==
    /\ Len(said) < MaxTrans
    /\ Find(w, eti.src) # NULL
    /\ Reads("trans_section_enter", "row",
             [eti EXCEPT !.src = Find(w, eti.src)], [now EXCEPT !.src = w])

Dst(w) ==
    LET d == IF w = "self" THEN NULL ELSE Find(w, eti.dst) IN
    /\ w = "self" \/ d # NULL
    /\ Reads("dst", "colon", [eti EXCEPT !.dst = d], [now EXCEPT !.dst = w])

PlainCode(c) ==
    Reads("code", "semicolon", [eti EXCEPT !.code = c], [now EXCEPT !.code = c])

\* sscanf() reads tick_, sign_ and data_ with a signed code; a plain code is
\* negative when its digits run over.
Channel(type, next, c) ==
    Reads("code", next, [eti EXCEPT !.code = c, !.type = type],
                        [now EXCEPT !.code = c, !.type = type])

\* Milliseconds; an interval of 0 is an error, and so is a product that wraps
\* around to 0.
BUG_Msec(n, unit) == IF unit = "s" THEN n * 1000 ELSE n     \* does not fit
Msec(n, unit) == (IF unit = "s" THEN n * 1000 ELSE n) % Word
Interval(n, unit) ==
    /\ Msec(n, unit) # 0
    /\ \E next \in {"period", "semicolon"} :
          Reads("interval", next, [eti EXCEPT !.data = Msec(n, unit)],
                [now EXCEPT !.data = IF unit = "s" THEN n * 1000 ELSE n])

PeriodWord(p) ==
    Reads("period", "semicolon", [eti EXCEPT !.flags = p], [now EXCEPT !.flags = p])

DataWord(from, set) == \E x \in set :
    Reads(from, "semicolon", [eti EXCEPT !.data = x], [now EXCEPT !.data = x])
SignalWord == DataWord("signal", Signal)
EventWord  == DataWord("event", Event)

Larger(x, y) == IF x > y THEN x ELSE y

\* A code compared with or used as a u32.
U32(c) == IF c < 0 THEN c + Word ELSE c

\* _new_esma_trans_template: counters, then the transition itself.
Counted(s, e) ==
    CASE e.type = "none" -> [s EXCEPT !.ntrans = (@ + 1) % Word,
                                      !.maxCode = Larger(U32(e.code), @)]
      [] e.type = "tick" -> [s EXCEPT !.maxTick = Larger(U32(e.code), @)]
      [] e.type = "sign" -> [s EXCEPT !.maxSign = Larger(U32(e.code), @)]
      [] OTHER           -> s

NewTrans ==
    LET src == Counted(states[eti.src], eti)
        new == [code |-> eti.code, dst |-> eti.dst, type |-> eti.type,
                data |-> eti.data, flags |-> eti.flags] IN
    /\ st = "semicolon" /\ st' = "trans_section_enter"
    /\ states' = [states EXCEPT ![eti.src] = [src EXCEPT !.trans = Append(@, new)]]
    /\ eti' = Clean(eti)
    /\ said' = Append(said, now) /\ now' = Silent

----------------------------------------------------------------------------

Statement ==
    \/ \E w \in Used : Src(w) \/ Dst(w)
    \/ \E c \in Code :
          \/ PlainCode(c) \/ Channel("tick", "interval", c)
          \/ Channel("sign", "signal", c) \/ Channel("data", "event", c)
    \/ \E n \in Number, u \in Unit : Interval(n, u)
    \/ \E p \in Period : PeriodWord(p)
    \/ SignalWord \/ EventWord \/ NewTrans

Parse ==
    \/ SectionWord \/ OpenBrace \/ CloseBrace \/ Semicolon \/ Row \/ Colon
    \/ BadToken \/ TextEnds \/ DeclareReserved
    \/ \E w \in Name : Declare(w)
    \/ Statement

----------------------------------------------------------------------------
(* Properties.                                                             *)

\* Up to its first capacity the array of states has neither moved nor been
\* given memory that was not cleared.
Fits == Len(states) <= StateCap

StateIndex == DOMAIN states

\* No transition points to where the array of states was before it moved.
Settled == \A i \in StateIndex : \A j \in DOMAIN states[i].trans :
              states[i].trans[j].dst # Dangling

TransOK(t) ==
    /\ t.code \in Code /\ t.dst \in StateIndex \cup {NULL, Dangling}
    /\ t.type \in {"none", "tick", "data", "sign"}
    /\ t.data \in 0..(Word - 1) /\ t.flags \in Period \cup {"none"}
ParserTypeOK ==
    /\ \A i \in StateIndex :
          /\ states[i].name \in Name \cup Reserved \cup {Torn}
          /\ {states[i].ntrans, states[i].maxCode, states[i].maxTick, states[i].maxSign}
                \subseteq 0..(Word - 1)
          /\ \A j \in DOMAIN states[i].trans : TransOK(states[i].trans[j])
    /\ eti.src \in StateIndex \cup {NULL} /\ eti.dst \in StateIndex \cup {NULL}
    /\ eti.type \in {"none", "tick", "data", "sign"}

\* A template is what its text says: the transitions of a state are the
\* statements that name it as their source, in their order, each with the code,
\* channel and target of its own statement and of no other, and its interval as
\* far as a word holds it; unless the array of states moved under a target.
Means(t, s) ==
    /\ t.code = s.code /\ t.type = s.type /\ t.flags = s.flags
    /\ t.data = s.data % Word
    /\ IF s.dst = "self" THEN t.dst = NULL
       ELSE t.dst # NULL /\ states[t.dst].name = s.dst
\* The items of an array, in their order, mean the statements at positions P.
InOrder(array, P) == \E f \in [DOMAIN array -> P] :
    /\ \A i, j \in DOMAIN array : i < j => f[i] < f[j]
    /\ \A p \in P : \E j \in DOMAIN array : f[j] = p
    /\ \A j \in DOMAIN array : Means(array[j], said[f[j]])
\* The statements that name state i as their source.
Mine(i) == {p \in DOMAIN said : Find(said[p].src, NULL) = i}
TemplateIsText == Settled => \A i \in StateIndex : InOrder(states[i].trans, Mine(i))

\* "for special states - init and fini": naming them in the states section is
\* no error.
ReservedCanBeNamed == [][st = "reserved" => st' # "failed"]_pvars
=============================================================================
