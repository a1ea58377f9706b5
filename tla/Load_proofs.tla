----------------------------- MODULE Load_proofs -----------------------------
(***************************************************************************)
(* Theorems about Template and Load: for texts of any length, any names,   *)
(* codes, intervals and signals.                                           *)
(***************************************************************************)
EXTENDS Load, WellFoundedInduction, TLAPS

----------------------------------------------------------------------------
(* Arithmetic and enumerations.                                            *)

\* Numbers in a word.
LEMMA WordFacts ==
    /\ Word \in Nat /\ Word > 8 /\ 0 \in 0..(Word - 1) /\ Word - 1 \in 0..(Word - 1)
    /\ \A n \in Nat : n % Word \in 0..(Word - 1) /\ (n < Word => n % Word = n)
    /\ \A c \in Code : c \in Int /\ U32(c) \in 0..(Word - 1) /\ (U32(c) = Word - 1 => c = -1)
    /\ \A e \in Event : e \in 0..(Word - 1) /\ e < Word
    /\ \A s \in Signal : s \in 0..(Word - 1) /\ s < Word
    /\ MaxTrans \in Nat /\ MaxTrans + 1 < Word
<1>1. Word \in Nat /\ Word > 8
  BY TemplateAssumption DEF POLLERR
<1>2. \A n \in Nat : n % Word \in 0..(Word - 1) /\ (n < Word => n % Word = n)
  BY <1>1
<1>3. \A c \in Code : c \in Int /\ U32(c) \in 0..(Word - 1) /\ (U32(c) = Word - 1 => c = -1)
  BY <1>1, TemplateAssumption DEF U32
<1>4. \A e \in Event : e \in 0..(Word - 1) /\ e < Word
  BY <1>1, TemplateAssumption DEF POLLIN, POLLOUT, POLLHUP, POLLERR
<1>5. \A s \in Signal : s \in 0..(Word - 1) /\ s < Word
  BY <1>1, TemplateAssumption
<1>6. MaxTrans \in Nat /\ MaxTrans + 1 < Word
  BY <1>1, TemplateAssumption
<1>7. QED
  BY <1>1, <1>2, <1>3, <1>4, <1>5, <1>6

\* A set of numbers has a least one, what a search from the front finds.
LEMMA LeastOf == ASSUME NEW S \in SUBSET Nat, S # {} PROVE \E i \in S : \A k \in S : i <= k
<1>1. OpToRel(<, Nat) = {ss \in Nat \X Nat : ss[1] < ss[2]}
  BY Zenon DEF OpToRel
<1>2. PICK i \in S : \A k \in S : ~ (<<k, i>> \in OpToRel(<, Nat))
  BY NatLessThanWellFounded, WFMin
<1>3. \A k \in S : ~ (<<k, i>> \in {ss \in Nat \X Nat : ss[1] < ss[2]})
  BY <1>1, <1>2, Zenon
<1>4. \A k \in S : ~(k < i)
  BY <1>3
<1>5. QED
  BY <1>4

\* f goes through the positions P upwards.
GoesUp(f, n, P) ==
    /\ n \in Nat /\ P \subseteq Nat /\ f \in [1..n -> P]
    /\ \A i, j \in 1..n : i < j => f[i] < f[j]
    /\ \A p \in P : \E j \in 1..n : f[j] = p

Below(P, p) == \A q \in P : q < p

Continues(f, n, P, p) == \E g : /\ GoesUp(g, n + 1, P \cup {p})
                                /\ g[n + 1] = p /\ \A j \in 1..n : g[j] = f[j]

\* A later position is added at the end.
LEMMA UpOneMore ==
    ASSUME NEW f, NEW n, NEW P, GoesUp(f, n, P), NEW p \in Nat, Below(P, p)
    PROVE  Continues(f, n, P, p)
<1> USE DEF Below
<1> DEFINE g == [j \in 1..(n + 1) |-> IF j = n + 1 THEN p ELSE f[j]]
<1>1. /\ n \in Nat /\ P \subseteq Nat /\ f \in [1..n -> P]
      /\ \A i, j \in 1..n : i < j => f[i] < f[j]
      /\ \A q \in P : \E j \in 1..n : f[j] = q
  BY DEF GoesUp
<1>2. /\ n + 1 \in 1..(n + 1) /\ n + 1 \notin 1..n
      /\ \A j \in 1..(n + 1) : j \in 1..n \/ j = n + 1
      /\ \A j \in 1..n : j \in 1..(n + 1) /\ j # n + 1 /\ j < n + 1
  BY <1>1
<1>3. g[n + 1] = p /\ \A j \in 1..n : g[j] = f[j]
  BY <1>2
<1>4. g \in [1..(n + 1) -> P \cup {p}]
  BY <1>1, <1>2
<1> HIDE DEF g
<1>5. \A i, j \in 1..(n + 1) : i < j => g[i] < g[j]
  <2> SUFFICES ASSUME NEW i \in 1..(n + 1), NEW j \in 1..(n + 1), i < j PROVE g[i] < g[j]
    OBVIOUS
  <2>1. i \in 1..n
    BY <1>1
  <2>2. CASE j = n + 1
    BY <1>1, <1>3, <2>1, <2>2
  <2>3. CASE j \in 1..n
    BY <1>1, <1>3, <2>1, <2>3
  <2>4. QED
    BY <1>2, <2>2, <2>3
<1>6. \A q \in P \cup {p} : \E j \in 1..(n + 1) : g[j] = q
  BY <1>1, <1>2, <1>3
<1>7. n + 1 \in Nat /\ P \cup {p} \subseteq Nat
  BY <1>1
<1>8. GoesUp(g, n + 1, P \cup {p})
  BY <1>4, <1>5, <1>6, <1>7 DEF GoesUp
<1>9. QED
  BY <1>3, <1>8 DEF Continues

\* A choice of positions of a choice of positions.
LEMMA UpTwice ==
    ASSUME NEW f, NEW n, NEW P, GoesUp(f, n, P),
           NEW g, NEW m, NEW Q, GoesUp(g, m, Q), Q \subseteq 1..n
    PROVE  GoesUp([j \in 1..m |-> f[g[j]]], m, {f[q] : q \in Q})
<1> DEFINE h == [j \in 1..m |-> f[g[j]]]
           R == {f[q] : q \in Q}
<1>1. /\ n \in Nat /\ P \subseteq Nat /\ f \in [1..n -> P]
      /\ \A i, j \in 1..n : i < j => f[i] < f[j]
      /\ m \in Nat /\ g \in [1..m -> Q] /\ \A q \in Q : \E j \in 1..m : g[j] = q
      /\ \A i, j \in 1..m : i < j => g[i] < g[j]
  BY DEF GoesUp
<1>2. R \subseteq Nat /\ h \in [1..m -> R]
  BY <1>1
<1>3. \A i, j \in 1..m : i < j => h[i] < h[j]
  BY <1>1
<1>4. \A r \in R : \E j \in 1..m : h[j] = r
  BY <1>1
<1> HIDE DEF h, R
<1>5. GoesUp(h, m, R)
  BY <1>1, <1>2, <1>3, <1>4 DEF GoesUp
<1>6. QED
  BY <1>5 DEF h, R

----------------------------------------------------------------------------
(* The parser's invariant.                                                 *)

Types == {"none", "tick", "data", "sign"}
Flags == Period \cup {"none"}
Datum == 0..(Word - 1)
Trans == [code : Code, dst : Int, type : Types, data : Datum, flags : Flags]
State == [name : Name \cup Reserved \cup {Torn}, trans : Seq(Trans), ntrans : Datum,
          maxCode : Datum, maxTick : Datum, maxSign : Datum]
Eti   == [code : Code \cup {-1}, flags : Flags, type : Types, data : Datum, src : Int, dst : Int]
Stmt  == [src : Used \cup {""}, dst : Used \cup {"", "self"}, type : Types,
          code : Code \cup {-1}, data : Nat, flags : Flags]

\* What a transition indexes its array with.
LEMMA CodeIsNat == ASSUME NEW t \in Trans PROVE U32(t.code) \in Nat /\ t.type \in Types
<1>1. t.code \in Code /\ t.type \in Types
  BY DEF Trans
<1>2. U32(t.code) \in 0..(Word - 1) /\ Word \in Nat
  BY <1>1, WordFacts
<1>3. QED
  BY <1>1, <1>2

\* Where the pointers of a statement and of the transitions lead.
Pointers ==
    /\ eti.src \in StateIndex \cup {NULL} /\ eti.dst \in StateIndex \cup {NULL}
    /\ \A i \in StateIndex : \A j \in DOMAIN states[i].trans :
          states[i].trans[j].dst \in StateIndex \cup {NULL, Dangling}

Typed ==
    /\ states \in Seq(State) /\ Len(states) >= 2
    /\ eti \in Eti /\ now \in Stmt /\ said \in Seq(Stmt)

\* The automaton's states inside a statement.
BeforeTarget == {"row", "dst"}
AfterCode    == {"interval", "period", "signal", "event", "semicolon"}
AfterTarget  == {"colon", "code"} \cup AfterCode
InStatement  == BeforeTarget \cup AfterTarget

\* The statement being parsed is this one and no other: eti holds what its
\* tokens said, and nothing between statements.
Between == st \notin InStatement => eti = Cleared /\ now = Silent
Sourced == st \in InStatement =>
    /\ Named(now.src) # {} /\ eti.src = Find(now.src, NULL)
    /\ Len(said) < MaxTrans
Aimed   == st \in BeforeTarget =>
    eti = [Cleared EXCEPT !.src = eti.src] /\ now = [Silent EXCEPT !.src = now.src]
Telling == st \in AfterTarget => Means(eti, now)
Channels ==
    /\ st \in {"colon", "code"} => eti.type = "none" /\ now.data = 0
    /\ st \in AfterCode => eti.code \in Code
    /\ st \in {"interval", "period"} => eti.type = "tick"
    /\ st = "signal" => eti.type = "sign"
    /\ st = "semicolon" /\ now.type = "data" => now.data \in Event
OneStatement == Between /\ Sourced /\ Aimed /\ Telling /\ Channels

\* The statements parsed so far.
SaidOK ==
    /\ Len(said) <= MaxTrans
    /\ \A p \in DOMAIN said : Named(said[p].src) # {}
    /\ \A p \in DOMAIN said : said[p].type = "data" => said[p].data \in Event

\* What the loader sizes its arrays by.
Endless(s) == s.maxCode # Word - 1 /\ s.maxTick # Word - 1 /\ s.maxSign # Word - 1
Counters(s) ==
    /\ s.ntrans <= Len(said) /\ (CountersEnd => Endless(s))
    /\ \A j \in DOMAIN s.trans :
          /\ s.trans[j].dst # Dangling
          /\ s.trans[j].type = "none" => U32(s.trans[j].code) <= s.maxCode
CountersOK == Fits => \A i \in StateIndex : Counters(states[i])

ParserInv == Typed /\ Pointers /\ OneStatement /\ SaidOK /\ CountersOK /\ TemplateIsText

\* The first of the states with a name.
LEMMA FindFirst ==
    ASSUME NEW w, Named(w) # {}, states \in Seq(State)
    PROVE  /\ \A old : Find(w, old) = Find(w, NULL)
           /\ Find(w, NULL) \in Named(w)
           /\ \A k \in Named(w) : Find(w, NULL) <= k
<1>1. Named(w) \in SUBSET Nat
  BY DEF Named
<1>2. \E i \in Named(w) : \A k \in Named(w) : i <= k
  BY <1>1, LeastOf
<1>3. \A old : Find(w, old) = CHOOSE i \in Named(w) : \A k \in Named(w) : i <= k
  BY DEF Find
<1>4. QED
  BY <1>2, <1>3

\* States may be added, and none changes its name.
NamesKept ==
    /\ states \in Seq(State) /\ states' \in Seq(State) /\ Len(states) <= Len(states')
    /\ \A i \in StateIndex : states'[i].name = states[i].name

\* More states of later declarations change no search that found one.
LEMMA FindKept ==
    ASSUME NEW w, Named(w) # {}, NamesKept
    PROVE  Named(w)' # {} /\ Find(w, NULL)' = Find(w, NULL)
<1> USE DEF NamesKept
<1> DEFINE i == Find(w, NULL)
<1>1. i \in Named(w) /\ \A k \in Named(w) : i <= k
  BY FindFirst
<1>2. i \in StateIndex /\ states[i].name = w /\ StateIndex = 1..Len(states)
  BY <1>1 DEF Named, StateIndex
<1>3. i \in Named(w)' /\ Named(w)' \in SUBSET Nat
  BY <1>2 DEF Named
<1>4. \A k \in Named(w)' : i <= k
  <2> SUFFICES ASSUME NEW k \in Named(w)' PROVE i <= k
    OBVIOUS
  <2>1. k \in 1..Len(states') /\ states'[k].name = w
    BY DEF Named
  <2>2. CASE k <= Len(states)
    <3>1. k \in StateIndex /\ k \in Named(w)
      BY <1>2, <2>1, <2>2 DEF Named
    <3>2. QED
      BY <1>1, <3>1
  <2>3. CASE ~(k <= Len(states))
    BY <1>2, <2>1, <2>3
  <2>4. QED
    BY <2>2, <2>3
<1>5. Find(w, NULL)' = CHOOSE j \in Named(w)' : \A k \in Named(w)' : j <= k
  BY <1>3 DEF Find
<1>6. \A j \in Named(w)' : (\A k \in Named(w)' : j <= k) => j = i
  BY <1>3, <1>4
<1>7. Find(w, NULL)' \in Named(w)' /\ \A k \in Named(w)' : Find(w, NULL)' <= k
  BY <1>3, <1>4, <1>5
<1>8. QED
  BY <1>3, <1>6, <1>7

\* Means in the next state, of a transition and a statement of this one.
MeansNext(t, s) ==
    /\ t.code = s.code /\ t.type = s.type /\ t.flags = s.flags
    /\ t.data = s.data % Word
    /\ IF s.dst = "self" THEN t.dst = NULL
       ELSE t.dst # NULL /\ states'[t.dst].name = s.dst

\* A transition still means its statement when no state changes its name.
LEMMA MeansKept ==
    ASSUME NEW t, NEW s, Means(t, s),
           t.dst \in StateIndex \cup {NULL}, NamesKept
    PROVE  MeansNext(t, s)
BY DEF Means, MeansNext, NamesKept, NULL

\* Steps that neither declare nor finish a statement.
LEMMA ReadKeeps ==
    ASSUME ParserInv, UNCHANGED <<states, said>>, eti' \in Eti, now' \in Stmt,
           eti'.src \in StateIndex \cup {NULL}, eti'.dst \in StateIndex \cup {NULL},
           OneStatement'
    PROVE  ParserInv'
<1>1. Typed' /\ Pointers'
  BY DEF ParserInv, Typed, Pointers, StateIndex
<1>2. SaidOK' /\ CountersOK'
  BY DEF ParserInv, SaidOK, CountersOK, Counters, CountersEnd, Named, Fits, StateIndex
<1>3. TemplateIsText'
  <2>1. \A w : Find(w, NULL)' = Find(w, NULL)
    BY DEF Find, Named
  <2>2. \A i : Mine(i)' = Mine(i)
    BY <2>1 DEF Mine
  <2>3. \A t, s : Means(t, s)' <=> Means(t, s)
    BY DEF Means
  <2>4. \A array, P : InOrder(array, P)' <=> InOrder(array, P)
    BY <2>3 DEF InOrder
  <2>5. QED
    BY <2>2, <2>4 DEF ParserInv, TemplateIsText, Settled, StateIndex
<1>4. QED
  BY <1>1, <1>2, <1>3 DEF ParserInv

\* Punctuation and key words.
LEMMA GoesKeeps ==
    ASSUME ParserInv, UNCHANGED <<states, eti, now, said>>,
           \/ st \notin InStatement /\ st' \notin InStatement
           \/ {st, st'} \subseteq BeforeTarget
           \/ {st, st'} \subseteq {"colon", "code"}
    PROVE  ParserInv'
<1>1. OneStatement' 
  <2>1. OneStatement
    BY DEF ParserInv
  <2>2. Sourced' /\ Between' 
    BY <2>1 DEF OneStatement, Sourced, Between, Find, Named, InStatement, BeforeTarget,
                AfterTarget, AfterCode
  <2>3. Aimed' /\ Telling' 
    BY <2>1 DEF OneStatement, Aimed, Telling, Means, InStatement, BeforeTarget,
                AfterTarget, AfterCode
  <2>4. Channels'
    BY <2>1 DEF OneStatement, Channels, InStatement, BeforeTarget, AfterTarget, AfterCode
  <2>5. QED
    BY <2>2, <2>3, <2>4 DEF OneStatement
<1>2. QED
  BY <1>1, ReadKeeps DEF ParserInv, Typed, Pointers

\* A cleared statement.
LEMMA ClearedTyped == Cleared \in Eti /\ Silent \in Stmt /\ Cleared.src = NULL /\ Cleared.dst = NULL
BY WordFacts DEF Cleared, Silent, Eti, Stmt, Types, Flags, Datum, NULL

\* _decode_buffer returns.
LEMMA ReturnsKeeps ==
    ASSUME ParserInv, NEW from, NEW result \in Done, Returns(from, result)
    PROVE  ParserInv'
<1>1. eti' = Cleared /\ now' = Silent /\ UNCHANGED <<states, said>> /\ st' \in Done
  BY DEF Returns, Clean
<1>2. OneStatement'
  BY <1>1 DEF OneStatement, Between, Sourced, Aimed, Telling, Channels, InStatement,
              BeforeTarget, AfterTarget, AfterCode, Done
<1>3. QED
  BY <1>1, <1>2, ClearedTyped, ReadKeeps

\* esma_template.c:487-538: the source of a statement.
LEMMA SrcKeeps == ASSUME ParserInv, NEW w \in Used, Src(w) PROVE ParserInv'
<1>0. Typed /\ OneStatement /\ Between
  BY DEF ParserInv, OneStatement
<1>1. /\ st = "trans_section_enter" /\ st' = "row" /\ UNCHANGED <<states, said>>
      /\ Len(said) < MaxTrans /\ Find(w, eti.src) # NULL
      /\ eti' = [eti EXCEPT !.src = Find(w, eti.src)] /\ now' = [now EXCEPT !.src = w]
  BY DEF Src, Reads
<1>2. eti = Cleared /\ now = Silent
  BY <1>0, <1>1 DEF Between, InStatement, BeforeTarget, AfterTarget, AfterCode
<1>3. Named(w) # {}
  BY <1>1, <1>2 DEF Find, Cleared
<1>4. Find(w, eti.src) = Find(w, NULL) /\ Find(w, NULL) \in StateIndex
  BY <1>0, <1>3, FindFirst DEF Typed, Named, StateIndex
<1> DEFINE k == Find(w, NULL)
<1>5. k \in Int
  BY <1>0, <1>4 DEF Typed, StateIndex
<1> HIDE DEF k
<1>6. eti' = [Cleared EXCEPT !.src = k] /\ now' = [Silent EXCEPT !.src = w]
  BY <1>1, <1>2, <1>4 DEF k
<1>7. eti'.src = k /\ eti'.dst = NULL /\ now'.src = w /\ eti' \in Eti /\ now' \in Stmt
  BY <1>5, <1>6, ClearedTyped DEF Cleared, Silent, Eti, Stmt, Flags
<1>8. Named(now'.src) # {} /\ k = Find(now'.src, NULL)
  BY <1>3, <1>7 DEF k
<1>9. Sourced'
  BY <1>1, <1>7, <1>8 DEF Sourced, Find, Named
<1>10. OneStatement'
  BY <1>1, <1>6, <1>7, <1>9 DEF OneStatement, Between, Aimed, Telling, Channels, InStatement,
     BeforeTarget, AfterTarget, AfterCode
<1>11. eti'.src \in StateIndex \cup {NULL}
  BY <1>4, <1>7 DEF k
<1>12. QED
  BY <1>1, <1>7, <1>10, <1>11, ReadKeeps

\* Reading on in a statement: its source stays.
LEMMA SourceStays ==
    ASSUME ParserInv, st \in InStatement, UNCHANGED <<states, said>>,
           eti'.src = eti.src, now'.src = now.src
    PROVE  Sourced' /\ eti'.src \in StateIndex \cup {NULL}
<1>1. Sourced /\ eti.src \in StateIndex \cup {NULL}
  BY DEF ParserInv, OneStatement, Pointers
<1>2. QED
  BY <1>1 DEF Sourced, Find, Named

\* esma_template.c:551-602: the target.
LEMMA DstKeeps == ASSUME ParserInv, NEW w \in Used, Dst(w) PROVE ParserInv'
<1> DEFINE d == IF w = "self" THEN NULL ELSE Find(w, eti.dst)
<1>0. Typed /\ OneStatement /\ Aimed
  BY DEF ParserInv, OneStatement
<1>1. /\ st = "dst" /\ st' = "colon" /\ UNCHANGED <<states, said>>
      /\ w = "self" \/ d # NULL
      /\ eti' = [eti EXCEPT !.dst = d] /\ now' = [now EXCEPT !.dst = w]
  BY DEF Dst, Reads
<1>2. /\ eti = [Cleared EXCEPT !.src = eti.src] /\ now = [Silent EXCEPT !.src = now.src]
      /\ st \in InStatement
  BY <1>0, <1>1 DEF Aimed, InStatement, BeforeTarget
<1>3. /\ eti.dst = NULL /\ eti.code = -1 /\ eti.type = "none" /\ eti.data = 0 /\ eti.flags = "none"
      /\ now.code = -1 /\ now.type = "none" /\ now.data = 0 /\ now.flags = "none"
  BY <1>2 DEF Cleared, Silent
<1>4. w # "self" => d \in StateIndex /\ states[d].name = w
  <2> SUFFICES ASSUME w # "self" PROVE d \in StateIndex /\ states[d].name = w
    OBVIOUS
  <2>1. Named(w) # {}
    BY <1>1, <1>3 DEF Find
  <2>2. d \in Named(w)
    BY <1>0, <2>1, FindFirst DEF Typed
  <2>3. QED
    BY <2>2 DEF Named, StateIndex
<1>5. d \in StateIndex \cup {NULL} /\ d \in Int
  BY <1>0, <1>4 DEF Typed, StateIndex, NULL
<1> HIDE DEF d
<1>6. /\ eti'.dst = d /\ eti'.src = eti.src /\ eti'.code = -1 /\ eti'.type = "none"
      /\ eti'.data = 0 /\ eti'.flags = "none" /\ eti' \in Eti
  BY <1>0, <1>1, <1>3, <1>5 DEF Typed, Eti
<1>7. /\ now'.dst = w /\ now'.src = now.src /\ now'.code = -1 /\ now'.type = "none"
      /\ now'.data = 0 /\ now'.flags = "none" /\ now' \in Stmt
  BY <1>0, <1>1, <1>3 DEF Typed, Stmt
<1>8. w = "self" => d = NULL
  BY DEF d
<1>9. w # "self" => d # NULL
  BY <1>1
<1>10. Telling'
  BY <1>1, <1>4, <1>6, <1>7, <1>8, <1>9, WordFacts DEF Telling, Means
<1>11. OneStatement'
  BY <1>1, <1>2, <1>6, <1>7, <1>10, SourceStays DEF OneStatement, Between, Aimed, Channels,
     InStatement, BeforeTarget, AfterTarget, AfterCode
<1>12. QED
  BY <1>1, <1>2, <1>5, <1>6, <1>7, <1>11, SourceStays, ReadKeeps

\* Reading on behind the target: the target stays.
LEMMA TargetStays ==
    ASSUME ParserInv, st \in AfterTarget, st' \in AfterTarget, UNCHANGED <<states, said>>,
           eti' \in Eti, now' \in Stmt,
           eti'.src = eti.src, now'.src = now.src, eti'.dst = eti.dst, now'.dst = now.dst,
           eti'.code = now'.code, eti'.type = now'.type, eti'.flags = now'.flags,
           eti'.data = now'.data % Word, Channels'
    PROVE  ParserInv'
<1>1. Telling /\ st \in InStatement /\ eti.dst \in StateIndex \cup {NULL}
  BY DEF ParserInv, OneStatement, Pointers, InStatement
<1>2. Telling'
  BY <1>1 DEF Telling, Means
<1>3. Sourced' /\ eti'.src \in StateIndex \cup {NULL}
  BY <1>1, SourceStays
<1>4. OneStatement'
  BY <1>2, <1>3 DEF OneStatement, Between, Aimed, InStatement, BeforeTarget, AfterTarget, AfterCode
<1>5. QED
  BY <1>1, <1>3, <1>4, ReadKeeps

\* What holds behind the target, before any of the following tokens.
LEMMA BehindTarget ==
    ASSUME ParserInv, st \in AfterTarget
    PROVE  /\ eti \in Eti /\ now \in Stmt
           /\ eti.code = now.code /\ eti.type = now.type /\ eti.flags = now.flags
           /\ eti.data = now.data % Word
           /\ Channels
BY DEF ParserInv, OneStatement, Typed, Telling, Means

\* esma_template.c:616-666: the code, of the transition or of its channel.
LEMMA CodeKeeps ==
    ASSUME ParserInv, NEW c \in Code,
           \/ PlainCode(c) \/ Channel("tick", "interval", c)
           \/ Channel("sign", "signal", c) \/ Channel("data", "event", c)
    PROVE  ParserInv'
<1>1. PICK type \in Types, next \in AfterCode :
        /\ Reads("code", next, [eti EXCEPT !.code = c, !.type = type],
                               [now EXCEPT !.code = c, !.type = type])
        /\ \/ type = "none" /\ next = "semicolon"
           \/ type = "tick" /\ next = "interval"
           \/ type = "sign" /\ next = "signal"
           \/ type = "data" /\ next = "event"
  <2>1. CASE PlainCode(c)
    <3>1. st = "code" /\ eti.type = "none" /\ now.type = "none" /\ eti \in Eti /\ now \in Stmt
      BY <2>1, BehindTarget DEF PlainCode, Reads, AfterTarget, Channels
    <3>2. /\ [eti EXCEPT !.code = c, !.type = "none"] = [eti EXCEPT !.code = c]
          /\ [now EXCEPT !.code = c, !.type = "none"] = [now EXCEPT !.code = c]
      BY <3>1 DEF Eti, Stmt
    <3>3. QED
      BY <2>1, <3>2 DEF PlainCode, Types, AfterCode
  <2>2. CASE Channel("tick", "interval", c)
    BY <2>2 DEF Channel, Types, AfterCode
  <2>3. CASE Channel("sign", "signal", c)
    BY <2>3 DEF Channel, Types, AfterCode
  <2>4. CASE Channel("data", "event", c)
    BY <2>4 DEF Channel, Types, AfterCode
  <2>5. QED
    BY <2>1, <2>2, <2>3, <2>4
<1>2. /\ st = "code" /\ st' = next /\ UNCHANGED <<states, said>>
      /\ eti' = [eti EXCEPT !.code = c, !.type = type]
      /\ now' = [now EXCEPT !.code = c, !.type = type]
  BY <1>1 DEF Reads
<1>3. st \in AfterTarget /\ st' \in AfterTarget
  BY <1>2 DEF AfterTarget
<1>4. /\ eti \in Eti /\ now \in Stmt /\ eti.flags = now.flags
      /\ eti.data = now.data % Word
      /\ eti.type = "none" /\ now.data = 0
  BY <1>2, <1>3, BehindTarget DEF Channels
<1>5. /\ eti' \in Eti /\ eti'.src = eti.src /\ eti'.dst = eti.dst /\ eti'.code = c
      /\ eti'.type = type /\ eti'.flags = eti.flags /\ eti'.data = eti.data
  BY <1>2, <1>4 DEF Eti
<1>6. /\ now' \in Stmt /\ now'.src = now.src /\ now'.dst = now.dst /\ now'.code = c
      /\ now'.type = type /\ now'.flags = now.flags /\ now'.data = now.data
  BY <1>2, <1>4 DEF Stmt
<1>7. Channels'
  BY <1>1, <1>2, <1>5, <1>6 DEF Channels, AfterCode
<1>8. QED
  BY <1>2, <1>3, <1>4, <1>5, <1>6, <1>7, TargetStays

\* esma_template.c:668-717: the interval of a timer, in a u32.
LEMMA IntervalKeeps ==
    ASSUME ParserInv, NEW n \in Number, NEW u \in Unit, Interval(n, u)
    PROVE  ParserInv'
<1> DEFINE d == Msec(n, u)
           x == IF u = "s" THEN n * 1000 ELSE n
<1>1. /\ st = "interval" /\ st' \in {"period", "semicolon"} /\ UNCHANGED <<states, said>>
      /\ eti' = [eti EXCEPT !.data = d] /\ now' = [now EXCEPT !.data = x]
  BY DEF Interval, Reads
<1>2. x \in Nat /\ d \in Datum /\ d = x % Word
  <2>1. x \in Nat
    BY TemplateAssumption
  <2>2. d = x % Word
    BY DEF Msec
  <2> HIDE DEF x, d
  <2>3. QED
    BY <2>1, <2>2, WordFacts DEF Datum
<1> HIDE DEF d, x
<1>3. st \in AfterTarget /\ st' \in AfterTarget
  BY <1>1 DEF AfterTarget, AfterCode
<1>4. /\ eti \in Eti /\ now \in Stmt /\ eti.code = now.code /\ eti.flags = now.flags
      /\ eti.type = now.type /\ eti.type = "tick" /\ eti.code \in Code
  BY <1>1, <1>3, BehindTarget DEF Channels, AfterCode
<1>5. /\ eti' \in Eti /\ eti'.src = eti.src /\ eti'.dst = eti.dst /\ eti'.code = eti.code
      /\ eti'.type = eti.type /\ eti'.flags = eti.flags /\ eti'.data = d
  BY <1>1, <1>2, <1>4 DEF Eti
<1>6. /\ now' \in Stmt /\ now'.src = now.src /\ now'.dst = now.dst /\ now'.code = now.code
      /\ now'.type = now.type /\ now'.flags = now.flags /\ now'.data = x
  BY <1>1, <1>2, <1>4 DEF Stmt
<1>7. Channels'
  BY <1>1, <1>4, <1>5, <1>6 DEF Channels, AfterCode
<1>8. QED
  BY <1>1, <1>2, <1>3, <1>4, <1>5, <1>6, <1>7, TargetStays

\* esma_template.c:719-757: periodic or not.
LEMMA PeriodKeeps == ASSUME ParserInv, NEW p \in Period, PeriodWord(p) PROVE ParserInv'
<1>1. /\ st = "period" /\ st' = "semicolon" /\ UNCHANGED <<states, said>>
      /\ eti' = [eti EXCEPT !.flags = p] /\ now' = [now EXCEPT !.flags = p]
  BY DEF PeriodWord, Reads
<1>2. st \in AfterTarget /\ st' \in AfterTarget
  BY <1>1 DEF AfterTarget, AfterCode
<1>3. /\ eti \in Eti /\ now \in Stmt /\ eti.code = now.code /\ eti.type = now.type
      /\ eti.data = now.data % Word
      /\ eti.type = "tick" /\ eti.code \in Code
  BY <1>1, <1>2, BehindTarget DEF Channels, AfterCode
<1>4. /\ eti' \in Eti /\ eti'.src = eti.src /\ eti'.dst = eti.dst /\ eti'.code = eti.code
      /\ eti'.type = eti.type /\ eti'.flags = p /\ eti'.data = eti.data
  BY <1>1, <1>3 DEF Eti, Flags
<1>5. /\ now' \in Stmt /\ now'.src = now.src /\ now'.dst = now.dst /\ now'.code = now.code
      /\ now'.type = now.type /\ now'.flags = p /\ now'.data = now.data
  BY <1>1, <1>3 DEF Stmt, Flags
<1>6. Channels'
  BY <1>1, <1>3, <1>4, <1>5 DEF Channels, AfterCode
<1>7. QED
  BY <1>1, <1>2, <1>3, <1>4, <1>5, <1>6, TargetStays

\* esma_template.c:759-932: the signal's number or the event.
LEMMA DataKeeps == ASSUME ParserInv, SignalWord \/ EventWord PROVE ParserInv'
<1>1. PICK x : /\ st \in {"signal", "event"} /\ st' = "semicolon" /\ UNCHANGED <<states, said>>
               /\ eti' = [eti EXCEPT !.data = x] /\ now' = [now EXCEPT !.data = x]
               /\ st = "signal" => x \in Signal
               /\ st = "event" => x \in Event
  BY DEF SignalWord, EventWord, DataWord, Reads
<1>2. st \in AfterTarget /\ st' \in AfterTarget
  BY <1>1 DEF AfterTarget, AfterCode
<1>3. /\ eti \in Eti /\ now \in Stmt /\ eti.code = now.code /\ eti.type = now.type
      /\ eti.flags = now.flags /\ eti.code \in Code
      /\ st = "signal" => eti.type = "sign"
  BY <1>1, <1>2, BehindTarget DEF Channels, AfterCode
<1>4. x \in Datum /\ x \in Nat /\ x = x % Word
  BY <1>1, WordFacts DEF Datum
<1>5. /\ eti' \in Eti /\ eti'.src = eti.src /\ eti'.dst = eti.dst /\ eti'.code = eti.code
      /\ eti'.type = eti.type /\ eti'.flags = eti.flags /\ eti'.data = x
  BY <1>1, <1>3, <1>4 DEF Eti
<1>6. /\ now' \in Stmt /\ now'.src = now.src /\ now'.dst = now.dst /\ now'.code = now.code
      /\ now'.type = now.type /\ now'.flags = now.flags /\ now'.data = x
  BY <1>1, <1>3, <1>4 DEF Stmt
<1>7. Channels'
  BY <1>1, <1>3, <1>5, <1>6 DEF Channels, AfterCode
<1>8. QED
  BY <1>1, <1>2, <1>3, <1>4, <1>5, <1>6, <1>7, TargetStays

\* InOrder in the next state.
InOrderNext(array, P) == \E f \in [DOMAIN array -> P] :
    /\ \A i, j \in DOMAIN array : i < j => f[i] < f[j]
    /\ \A p \in P : \E j \in DOMAIN array : f[j] = p
    /\ \A j \in DOMAIN array : MeansNext(array[j], said'[f[j]])

LEMMA InOrderPrimed ==
    ASSUME NEW i PROVE InOrderNext(states'[i].trans, Mine(i)') => InOrder(states[i].trans, Mine(i))'
BY DEF InOrderNext, InOrder, Means, MeansNext

\* The enumeration behind InOrder.
LEMMA InOrderIs ==
    ASSUME NEW array, NEW n \in Nat, DOMAIN array = 1..n, NEW P \in SUBSET Nat
    PROVE  /\ InOrder(array, P) <=>
                \E f : GoesUp(f, n, P) /\ \A j \in 1..n : Means(array[j], said[f[j]])
           /\ InOrderNext(array, P) <=>
                \E f : GoesUp(f, n, P) /\ \A j \in 1..n : MeansNext(array[j], said'[f[j]])
BY DEF InOrder, InOrderNext, GoesUp

\* Statements read before are still told by the same transitions.
LEMMA InOrderKept ==
    ASSUME NEW array, NEW P, InOrder(array, P), NamesKept,
           \A j \in DOMAIN array : array[j].dst \in StateIndex \cup {NULL},
           \A p \in P : said'[p] = said[p]
    PROVE  InOrderNext(array, P)
<1>1. PICK f \in [DOMAIN array -> P] :
        /\ \A i, j \in DOMAIN array : i < j => f[i] < f[j]
        /\ \A p \in P : \E j \in DOMAIN array : f[j] = p
        /\ \A j \in DOMAIN array : Means(array[j], said[f[j]])
  BY DEF InOrder
<1>2. \A j \in DOMAIN array : MeansNext(array[j], said'[f[j]])
  <2> SUFFICES ASSUME NEW j \in DOMAIN array PROVE MeansNext(array[j], said'[f[j]])
    OBVIOUS
  <2>1. MeansNext(array[j], said[f[j]])
    BY <1>1, MeansKept
  <2>2. said'[f[j]] = said[f[j]]
    BY <1>1
  <2>3. QED
    BY <2>1, <2>2
<1>3. QED
  BY <1>1, <1>2 DEF InOrderNext

\* The statements of a state are positions of said.
LEMMA MineIs ==
    ASSUME Typed, SaidOK
    PROVE  /\ DOMAIN said = 1..Len(said) /\ Len(said) \in Nat
           /\ \A i : Mine(i) \in SUBSET (1..Len(said))
           /\ \A p \in DOMAIN said : Find(said[p].src, NULL) \in StateIndex
<1>1. DOMAIN said = 1..Len(said) /\ Len(said) \in Nat
  BY DEF Typed
<1>2. \A i : Mine(i) \in SUBSET (1..Len(said))
  BY <1>1 DEF Mine
<1>3. ASSUME NEW p \in DOMAIN said PROVE Find(said[p].src, NULL) \in StateIndex
  <2>1. Find(said[p].src, NULL) \in Named(said[p].src)
    BY FindFirst DEF Typed, SaidOK
  <2>2. QED
    BY <2>1 DEF Named, StateIndex
<1>4. QED
  BY <1>1, <1>2, <1>3

\* A sequence with one more item.
LEMMA PushIs ==
    ASSUME NEW S, NEW q \in Seq(S), NEW x \in S
    PROVE  /\ Append(q, x) \in Seq(S) /\ Len(q) \in Nat /\ DOMAIN q = 1..Len(q)
           /\ Len(Append(q, x)) = Len(q) + 1 /\ DOMAIN Append(q, x) = 1..(Len(q) + 1)
           /\ \A j \in 1..Len(q) : Append(q, x)[j] = q[j]
           /\ Append(q, x)[Len(q) + 1] = x
           /\ \A j \in 1..(Len(q) + 1) : j \in 1..Len(q) \/ j = Len(q) + 1
OBVIOUS

LEMMA SeqIs ==
    ASSUME NEW S, NEW n \in Nat, NEW q \in [1..n -> S]
    PROVE  q \in Seq(S) /\ Len(q) = n
OBVIOUS

\* The states after the array moved: the same but for the pointers.
LEMMA MovedOK ==
    ASSUME NEW array \in Seq(State), NEW i \in DOMAIN array
    PROVE  LET m == Moved(array)[i] IN
           /\ m \in State /\ m.name = array[i].name
           /\ \A j \in DOMAIN m.trans : m.trans[j].dst \in {NULL, Dangling}
           /\ (\A j \in DOMAIN m.trans : m.trans[j].dst # Dangling) => m.trans = array[i].trans
<1> DEFINE s == array[i]
           t == [j \in DOMAIN s.trans |-> IF s.trans[j].dst = NULL THEN s.trans[j]
                                          ELSE [s.trans[j] EXCEPT !.dst = Dangling]]
<1>1. s \in State
  OBVIOUS
<1>2. Moved(array)[i] = [s EXCEPT !.trans = t]
  BY DEF Moved
<1> HIDE DEF s
<1>3. /\ s.trans \in Seq(Trans) /\ DOMAIN s.trans = 1..Len(s.trans) /\ Len(s.trans) \in Nat
      /\ s.trans \in [1..Len(s.trans) -> Trans]
      /\ \A j \in DOMAIN s.trans : s.trans[j] \in Trans
  BY <1>1 DEF State
<1>4. ASSUME NEW j \in DOMAIN s.trans
      PROVE  /\ t[j] \in Trans /\ t[j].dst \in {NULL, Dangling}
             /\ t[j].dst # Dangling => t[j] = s.trans[j]
  <2>1. t[j] = IF s.trans[j].dst = NULL THEN s.trans[j] ELSE [s.trans[j] EXCEPT !.dst = Dangling]
    OBVIOUS
  <2> HIDE DEF t
  <2>2. s.trans[j] \in Trans
    BY <1>3
  <2>3. QED
    BY <2>1, <2>2 DEF Trans, Dangling
<1>5. DOMAIN t = DOMAIN s.trans
  OBVIOUS
<1>6. t \in [1..Len(s.trans) -> Trans] /\ t \in Seq(Trans)
  <2>1. t \in [1..Len(s.trans) -> Trans]
    BY <1>3, <1>4
  <2>2. QED
    BY <1>3, <2>1
<1>7. (\A j \in DOMAIN t : t[j].dst # Dangling) => t = s.trans
  <2> SUFFICES ASSUME \A j \in DOMAIN t : t[j].dst # Dangling PROVE t = s.trans
    OBVIOUS
  <2>1. \A j \in DOMAIN s.trans : t[j] = s.trans[j]
    BY <1>4, <1>5
  <2> HIDE DEF t
  <2>2. QED
    BY <1>3, <1>6, <2>1
<1> HIDE DEF t
<1>8. LET m == [s EXCEPT !.trans = t] IN m.name = s.name /\ m.trans = t /\ m \in State
  BY <1>1, <1>6 DEF State
<1>9. QED
  BY <1>2, <1>4, <1>5, <1>7, <1>8 DEF s

\* A new state has no transitions, and no counts as long as its slot was cleared.
LEMMA FreshOK ==
    ASSUME NEW w \in Name, NEW n, NEW s \in Fresh(w, n)
    PROVE  s \in State /\ s.trans = <<>> /\ (n <= StateCap => s = FirstState(w))
<1>1. FirstState(w) \in State /\ FirstState(w).trans = <<>>
  BY WordFacts DEF FirstState, State, Datum
<1>2. ASSUME NEW x \in {w, Torn}, NEW c \in Counts(Junk)
      PROVE  NewState(x, c) \in State /\ NewState(x, c).trans = <<>>
  <2>1. Junk \subseteq Datum
    BY TemplateAssumption DEF Datum
  <2>2. QED
    BY <2>1 DEF Counts, NewState, State
<1>3. QED
  BY <1>1, <1>2 DEF Fresh

\* esma_array.c:79: an array with fewer items than its first capacity has room.
LEMMA FullAtCapacity ==
    ASSUME NEW n \in Nat, NEW first \in Nat, Full(n, first)
    PROVE  first <= n
<1>1. PICK times \in 1..(n + 1) : n = first * times
  BY DEF Full
<1>2. first * times = first + first * (times - 1) /\ times - 1 \in Nat
  OBVIOUS
<1>3. first * (times - 1) >= 0
  BY <1>2
<1>4. QED
  BY <1>1, <1>2, <1>3

\* esma_template.c:241-259 _new_esma_state_template.
LEMMA DeclareKeeps == ASSUME ParserInv, NEW w \in Name, Declare(w) PROVE ParserInv'
<1>17. PICK l : l = Len(states)
  OBVIOUS
<1>0. /\ Typed /\ Pointers /\ OneStatement /\ SaidOK /\ CountersOK /\ TemplateIsText
      /\ l \in Nat /\ StateIndex = 1..l /\ DOMAIN states = 1..l /\ states \in Seq(State)
      /\ \A i \in StateIndex : states[i] \in State
      /\ StateCap \in Nat
  BY <1>17, TemplateAssumption DEF ParserInv, Typed, StateIndex
<1>18. l \in Nat /\ StateIndex = 1..l /\ DOMAIN states = 1..l
  BY <1>0
<1>1. PICK new \in Fresh(w, l + 1),
           old \in {states} \cup (IF Full(l, StateCap) THEN {Moved(states)} ELSE {}) :
        states' = Append(old, new)
  BY <1>17 DEF Declare
<1>2. st = "state_section_enter" /\ st' = "state_name_leave" /\ UNCHANGED <<eti, now, said>>
  BY DEF Declare
<1>3. ASSUME NEW i \in StateIndex
      PROVE  /\ old[i] \in State /\ old[i].name = states[i].name
             /\ \A j \in DOMAIN old[i].trans : old[i].trans[j].dst \in StateIndex \cup {NULL, Dangling}
             /\ (\A j \in DOMAIN old[i].trans : old[i].trans[j].dst # Dangling)
                    => old[i].trans = states[i].trans
  <2>1. CASE old = states
    BY <1>0, <2>1 DEF Pointers
  <2>2. CASE old = Moved(states)
    BY <1>0, <2>2, MovedOK
  <2>3. QED
    BY <2>1, <2>2
<1>4. old \in Seq(State) /\ Len(old) = l
  <2>1. CASE old = states
    BY <1>0, <1>17, <2>1
  <2>2. CASE old = Moved(states)
    <3>1. old = [i \in 1..l |-> old[i]]
      BY <1>0, <2>2 DEF Moved
    <3>2. old \in [1..l -> State]
      BY <1>0, <1>3, <3>1
    <3>3. QED
      BY <1>18, <3>2, SeqIs
  <2>3. QED
    BY <2>1, <2>2
<1>5. new \in State /\ new.trans = <<>> /\ (l + 1 <= StateCap => new = FirstState(w))
  BY FreshOK
<1>6. /\ states' \in Seq(State) /\ Len(states') = l + 1
      /\ DOMAIN states' = 1..(l + 1) /\ states'[l + 1] = new
      /\ \A i \in StateIndex : states'[i] = old[i]
  <2>1. /\ Append(old, new) \in Seq(State) /\ Len(Append(old, new)) = l + 1
        /\ DOMAIN Append(old, new) = 1..(l + 1) /\ Append(old, new)[l + 1] = new
        /\ \A i \in 1..l : Append(old, new)[i] = old[i]
    BY <1>4, <1>5, PushIs
  <2>2. QED
    BY <1>1, <1>18, <2>1
<1>7. NamesKept
  <2>1. Len(states) <= Len(states')
    BY <1>6, <1>17, <1>18
  <2>2. QED
    BY <1>0, <1>3, <1>6, <2>1 DEF NamesKept
<1>8. Typed'
  <2>1. Len(states) >= 2
    BY <1>0 DEF Typed
  <2>2. Len(states') >= 2
    BY <1>6, <1>17, <1>18, <2>1
  <2>3. QED
    BY <1>0, <1>2, <1>6, <2>2 DEF Typed
<1>9. /\ StateIndex' = 1..(l + 1) /\ \A i \in StateIndex : i \in StateIndex'
      /\ \A i \in StateIndex' : i \in StateIndex \/ i = l + 1
  BY <1>6, <1>18 DEF StateIndex
<1>10. Pointers'
  <2>1. StateIndex \subseteq StateIndex'
    BY <1>9
  <2>2. \A i \in StateIndex' : \A j \in DOMAIN states'[i].trans :
            states'[i].trans[j].dst \in StateIndex' \cup {NULL, Dangling}
    BY <1>3, <1>5, <1>6, <1>9, <2>1
  <2>3. QED
    BY <1>0, <1>2, <2>1, <2>2 DEF Pointers
<1>11. OneStatement'
  <2>1. st \notin InStatement /\ st' \notin InStatement
    BY <1>2 DEF InStatement, BeforeTarget, AfterTarget, AfterCode
  <2>2. QED
    BY <1>0, <1>2, <2>1 DEF OneStatement, Between, Sourced, Aimed, Telling, Channels, InStatement,
       BeforeTarget, AfterTarget
<1>12. \A v : Named(v) # {} => Named(v)' # {} /\ Find(v, NULL)' = Find(v, NULL)
  BY <1>7, FindKept
<1>13. SaidOK'
  BY <1>0, <1>2, <1>12 DEF SaidOK
<1>14. CountersOK'
  <2> SUFFICES ASSUME Fits', NEW i \in StateIndex' PROVE Counters(states[i])'
    BY DEF CountersOK
  <2>1. Fits /\ ~Full(l, StateCap) /\ l + 1 <= StateCap
    BY <1>0, <1>6, FullAtCapacity DEF Fits
  <2>2. CASE i \in StateIndex
    <3>1. states'[i] = states[i]
      BY <1>1, <1>6, <2>1, <2>2
    <3>2. QED
      BY <1>2, <1>0, <2>1, <2>2, <3>1 DEF CountersOK, Counters, CountersEnd
  <2>3. CASE i = l + 1
    <3>1. states'[i] = FirstState(w) /\ Len(said') \in Nat
      BY <1>0, <1>2, <1>5, <1>6, <2>1, <2>3 DEF Typed
    <3>2. QED
      BY <3>1, WordFacts DEF Counters, Endless, FirstState
  <2>4. QED
    BY <1>9, <2>2, <2>3
<1>15. TemplateIsText'
  <2> SUFFICES ASSUME Settled', NEW i \in StateIndex' PROVE InOrder(states[i].trans, Mine(i))'
    BY DEF TemplateIsText
  <2>1. \A p \in DOMAIN said : Find(said[p].src, NULL)' = Find(said[p].src, NULL)
    BY <1>0, <1>2, <1>12 DEF SaidOK
  <2>2. Mine(i)' = Mine(i)
    BY <1>2, <2>1 DEF Mine
  <2>3. ASSUME NEW k \in StateIndex
        PROVE  states'[k].trans = states[k].trans
               /\ \A j \in DOMAIN states[k].trans : states[k].trans[j].dst # Dangling
    <3>1. k \in StateIndex' /\ states'[k] = old[k]
      BY <1>6, <1>9
    <3>2. \A j \in DOMAIN old[k].trans : old[k].trans[j].dst # Dangling
      BY <3>1 DEF Settled
    <3>3. QED
      BY <1>3, <3>1, <3>2
  <2>4. CASE i \in StateIndex
    <3>1. states'[i].trans = states[i].trans /\ InOrder(states[i].trans, Mine(i))
      BY <1>0, <2>3, <2>4 DEF TemplateIsText, Settled
    <3>2. \A j \in DOMAIN states[i].trans : states[i].trans[j].dst \in StateIndex \cup {NULL}
      BY <1>0, <2>3, <2>4 DEF Pointers
    <3>3. InOrderNext(states[i].trans, Mine(i))
      BY <1>2, <1>7, <3>1, <3>2, InOrderKept
    <3>4. QED
      BY <2>2, <3>1, <3>3, InOrderPrimed
  <2>5. CASE i = l + 1
    <3>1. Mine(i) = {}
      BY <1>0, <2>5, MineIs DEF Mine
    <3>2. states'[i].trans = <<>>
      BY <1>5, <1>6, <2>5
    <3>3. InOrderNext(<<>>, {})
      <4>1. DOMAIN <<>> = {} /\ [j \in {} |-> j] \in [{} -> {}]
        OBVIOUS
      <4>2. QED
        BY <4>1 DEF InOrderNext
    <3>4. QED
      BY <2>2, <3>1, <3>2, <3>3, InOrderPrimed
  <2>6. QED
    BY <1>9, <2>4, <2>5
<1>16. QED
  BY <1>8, <1>10, <1>11, <1>13, <1>14, <1>15 DEF ParserInv

\* esma_template.c:261-297: the counters of the source.
LEMMA CountedOK ==
    ASSUME NEW s \in State, NEW e \in Eti, e.code \in Code
    PROVE  LET c == Counted(s, e) IN
           /\ c \in State /\ c.name = s.name /\ c.trans = s.trans
           /\ s.ntrans + 1 < Word => c.ntrans <= s.ntrans + 1
           /\ s.maxCode <= c.maxCode /\ (e.type = "none" => U32(e.code) <= c.maxCode)
           /\ Endless(s) /\ (e.type # "data" => e.code # -1) => Endless(c)
<1> DEFINE u == U32(e.code)
<1>1. /\ e.type \in Types /\ u \in Datum /\ (e.code # -1 => u # Word - 1)
      /\ s.ntrans \in Datum /\ s.maxCode \in Datum /\ s.maxTick \in Datum /\ s.maxSign \in Datum
  BY WordFacts DEF Eti, State, Datum
<1> HIDE DEF u
<1>2. /\ Word \in Nat
      /\ (s.ntrans + 1) % Word \in Datum
      /\ s.ntrans + 1 < Word => (s.ntrans + 1) % Word = s.ntrans + 1
  <2>1. s.ntrans + 1 \in Nat
    BY <1>1, WordFacts DEF Datum
  <2>2. QED
    BY <2>1, WordFacts DEF Datum
<1> DEFINE larger == Larger(u, s.maxCode)
           n == (s.ntrans + 1) % Word
<1>3. /\ larger \in Datum /\ u <= larger /\ s.maxCode <= larger
      /\ Larger(u, s.maxTick) \in Datum /\ Larger(u, s.maxSign) \in Datum
      /\ \A m \in {s.maxCode, s.maxTick, s.maxSign} :
            m # Word - 1 /\ e.code # -1 => Larger(u, m) # Word - 1
  BY <1>1, <1>2 DEF Larger, Datum
<1>4. n \in Datum /\ (s.ntrans + 1 < Word => n <= s.ntrans + 1)
  BY <1>1, <1>2 DEF Datum
<1> HIDE DEF larger, n
<1>5. s.maxCode <= s.maxCode /\ s.ntrans <= s.ntrans + 1
  BY <1>1, <1>2 DEF Datum
<1>6. CASE e.type = "none"
  <2>1. Counted(s, e) = [s EXCEPT !.ntrans = n, !.maxCode = larger]
    BY <1>6 DEF Counted, larger, n, u
  <2>2. Endless(s) /\ e.code # -1 => larger # Word - 1
    BY <1>3 DEF Endless, larger
  <2>3. QED
    BY <1>3, <1>4, <1>6, <2>1, <2>2 DEF State, Endless, u
<1>7. CASE e.type = "tick"
  <2> DEFINE m == Larger(u, s.maxTick)
  <2>1. Counted(s, e) = [s EXCEPT !.maxTick = m]
    BY <1>7 DEF Counted, u
  <2>2. m \in Datum /\ (Endless(s) /\ e.code # -1 => m # Word - 1)
    BY <1>3 DEF Endless
  <2> HIDE DEF m
  <2>3. QED
    BY <1>5, <1>7, <2>1, <2>2 DEF State, Endless
<1>8. CASE e.type = "sign"
  <2> DEFINE m == Larger(u, s.maxSign)
  <2>1. Counted(s, e) = [s EXCEPT !.maxSign = m]
    BY <1>8 DEF Counted, u
  <2>2. m \in Datum /\ (Endless(s) /\ e.code # -1 => m # Word - 1)
    BY <1>3 DEF Endless
  <2> HIDE DEF m
  <2>3. QED
    BY <1>5, <1>8, <2>1, <2>2 DEF State, Endless
<1>9. CASE e.type = "data"
  <2>1. Counted(s, e) = s
    BY <1>9 DEF Counted
  <2>2. QED
    BY <1>5, <1>9, <2>1
<1>10. QED
  BY <1>1, <1>6, <1>7, <1>8, <1>9 DEF Types

\* What NewTrans does to the states: the transition it adds to the source.
NewOne == [code |-> eti.code, dst |-> eti.dst, type |-> eti.type,
           data |-> eti.data, flags |-> eti.flags]
LEMMA NewTransIs ==
    ASSUME ParserInv, NewTrans
    PROVE  LET k == eti.src IN
           /\ st' \notin InStatement /\ eti' = Cleared /\ now' = Silent
           /\ said' = Append(said, now) /\ Len(said) < MaxTrans
           /\ k \in StateIndex /\ k = Find(now.src, NULL) /\ Named(now.src) # {}
           /\ NewOne \in Trans /\ Means(NewOne, now) /\ NewOne.dst \in StateIndex \cup {NULL}
           /\ now.type = "data" => now.data \in Event
           /\ eti.type = now.type /\ eti.code = now.code
           /\ states' = [states EXCEPT ![k] =
                [Counted(states[k], eti) EXCEPT !.trans = Append(states[k].trans, NewOne)]]
<1>1. /\ st = "semicolon" /\ st' = "trans_section_enter"
      /\ eti' = Cleared /\ now' = Silent /\ said' = Append(said, now)
      /\ states' = [states EXCEPT ![eti.src] =
           [Counted(states[eti.src], eti) EXCEPT !.trans = Append(Counted(states[eti.src], eti).trans, NewOne)]]
  <2>1. /\ st = "semicolon" /\ st' = "trans_section_enter"
        /\ eti' = Cleared /\ now' = Silent /\ said' = Append(said, now)
    BY DEF NewTrans, Clean
  <2>2. states' = [states EXCEPT ![eti.src] =
           [Counted(states[eti.src], eti) EXCEPT !.trans = Append(Counted(states[eti.src], eti).trans, NewOne)]]
    <3>1. states' = [states EXCEPT ![eti.src] =
            [Counted(states[eti.src], eti) EXCEPT !.trans = Append(@, NewOne)]]
      BY DEF NewTrans, NewOne
    <3>2. QED
      BY <3>1
  <2>3. QED
    BY <2>1, <2>2
<1>2. st \in InStatement /\ st \in AfterTarget /\ st \in AfterCode /\ st' \notin InStatement
  BY <1>1 DEF InStatement, BeforeTarget, AfterTarget, AfterCode
<1>3. /\ Typed /\ Named(now.src) # {} /\ eti.src = Find(now.src, NULL) /\ Len(said) < MaxTrans
      /\ Means(eti, now) /\ eti.code \in Code /\ (now.type = "data" => now.data \in Event)
      /\ eti.dst \in StateIndex \cup {NULL} /\ eti \in Eti
  BY <1>1, <1>2 DEF ParserInv, OneStatement, Sourced, Telling, Channels, Pointers, Typed
<1>4. eti.src \in StateIndex
  BY <1>3, FindFirst DEF Typed, Named, StateIndex
<1>5. NewOne \in Trans
  BY <1>3 DEF NewOne, Trans, Eti
<1>6. Means(NewOne, now) /\ NewOne.dst = eti.dst
  BY <1>3 DEF Means, NewOne
<1>7. Counted(states[eti.src], eti).trans = states[eti.src].trans
  <2>1. states[eti.src] \in State
    BY <1>3, <1>4 DEF Typed, StateIndex
  <2>2. QED
    BY <1>3, <2>1, CountedOK
<1>8. eti.type = now.type /\ eti.code = now.code
  BY <1>3 DEF Means
<1>9. QED
  BY <1>1, <1>2, <1>3, <1>4, <1>5, <1>6, <1>7, <1>8

\* esma_template.c:934-952 and _new_esma_trans_template: the statement's
\* transition goes behind those of its source.
LEMMA NewTransKeeps == ASSUME ParserInv, NewTrans PROVE ParserInv'
<1>18. PICK k \in StateIndex : k = eti.src
  BY NewTransIs
<1>19. PICK p : p = Len(said) + 1
  OBVIOUS
<1> DEFINE old == states[k]
           trans == Append(old.trans, NewOne)
           new == [Counted(old, eti) EXCEPT !.trans = trans]
           n == Len(old.trans)
<1>0. /\ Typed /\ Pointers /\ SaidOK /\ CountersOK /\ TemplateIsText
      /\ Len(states) \in Nat /\ StateIndex = 1..Len(states) /\ DOMAIN states = 1..Len(states)
      /\ \A i \in StateIndex : states[i] \in State
  BY DEF ParserInv, Typed, StateIndex
<1>1. /\ st' \notin InStatement /\ eti' = Cleared /\ now' = Silent
      /\ said' = Append(said, now) /\ Len(said) < MaxTrans
      /\ k \in StateIndex /\ k = Find(now.src, NULL) /\ Named(now.src) # {}
      /\ NewOne \in Trans /\ Means(NewOne, now) /\ NewOne.dst \in StateIndex \cup {NULL}
      /\ now.type = "data" => now.data \in Event
      /\ eti.type = now.type /\ eti.code = now.code
      /\ states' = [states EXCEPT ![k] = new]
  BY <1>18, NewTransIs
<1>2. eti.code \in Code /\ eti \in Eti /\ now \in Stmt /\ said \in Seq(Stmt)
  BY <1>0, <1>1 DEF Typed, NewOne, Trans
<1>3. /\ old \in State /\ old.trans \in Seq(Trans) /\ old.ntrans \in Nat /\ old.maxCode \in Nat
  BY <1>0, <1>1 DEF State, Datum
<1>4. /\ trans \in Seq(Trans) /\ n \in Nat /\ DOMAIN old.trans = 1..n /\ DOMAIN trans = 1..(n + 1)
      /\ \A j \in 1..n : trans[j] = old.trans[j]
      /\ trans[n + 1] = NewOne /\ \A j \in 1..(n + 1) : j \in 1..n \/ j = n + 1
  BY <1>1, <1>3, PushIs
<1>5. /\ said' \in Seq(Stmt) /\ DOMAIN said = 1..Len(said) /\ Len(said) \in Nat
      /\ Len(said') = p /\ DOMAIN said' = 1..p
      /\ \A q \in DOMAIN said : said'[q] = said[q]
      /\ said'[p] = now /\ \A q \in DOMAIN said' : q \in DOMAIN said \/ q = p
  BY <1>1, <1>2, <1>19, PushIs
<1> HIDE DEF trans
<1>6. /\ new \in State /\ new.name = old.name /\ new.trans = trans
      /\ old.ntrans + 1 < Word => new.ntrans <= old.ntrans + 1
      /\ old.maxCode <= new.maxCode /\ (eti.type = "none" => U32(eti.code) <= new.maxCode)
      /\ Endless(old) /\ (eti.type # "data" => eti.code # -1) => Endless(new)
  <2> DEFINE c == Counted(old, eti)
  <2>1. /\ c \in State /\ c.name = old.name
        /\ old.ntrans + 1 < Word => c.ntrans <= old.ntrans + 1
        /\ old.maxCode <= c.maxCode /\ (eti.type = "none" => U32(eti.code) <= c.maxCode)
        /\ Endless(old) /\ (eti.type # "data" => eti.code # -1) => Endless(c)
    BY <1>2, <1>3, CountedOK
  <2> HIDE DEF c
  <2>2. new = [c EXCEPT !.trans = trans]
    BY DEF c
  <2> HIDE DEF new
  <2>3. /\ new \in State /\ new.name = c.name /\ new.trans = trans /\ new.ntrans = c.ntrans
        /\ new.maxCode = c.maxCode /\ new.maxTick = c.maxTick /\ new.maxSign = c.maxSign
    BY <1>4, <2>1, <2>2 DEF State
  <2>4. QED
    BY <2>1, <2>3 DEF Endless
<1> HIDE DEF new, old
<1>20. new.ntrans \in Nat /\ new.maxCode \in Nat
  BY <1>6 DEF State, Datum
<1>21. \A j \in 1..(n + 1) : trans[j] \in Trans /\ U32(trans[j].code) \in Nat
  <2>1. \A j \in 1..(n + 1) : trans[j] \in Trans
    BY <1>4
  <2>2. QED
    BY <2>1, CodeIsNat
<1>7. /\ states' \in Seq(State) /\ Len(states') = Len(states) /\ StateIndex' = StateIndex
      /\ states'[k] = new /\ \A i \in StateIndex : i # k => states'[i] = states[i]
  BY <1>0, <1>1, <1>6 DEF StateIndex, Typed
<1>8. NamesKept
  BY <1>0, <1>6, <1>7 DEF NamesKept, Typed, old
<1>9. Typed'
  BY <1>0, <1>1, <1>5, <1>7, ClearedTyped DEF Typed
<1>10. Pointers'
  <2>1. \A j \in DOMAIN trans : trans[j].dst \in StateIndex \cup {NULL, Dangling}
    BY <1>0, <1>1, <1>4 DEF Pointers, old
  <2>2. QED
    BY <1>0, <1>1, <1>6, <1>7, <2>1, ClearedTyped DEF Pointers
<1>11. OneStatement'
  BY <1>1 DEF OneStatement, Between, Sourced, Aimed, Telling, Channels, InStatement,
              BeforeTarget, AfterTarget, AfterCode
<1>12. \A v : Named(v) # {} => Named(v)' # {} /\ Find(v, NULL)' = Find(v, NULL)
  BY <1>8, FindKept
<1>13. SaidOK'
  <2>1. Len(said') <= MaxTrans
    BY <1>1, <1>5, <1>19, WordFacts
  <2>2. \A q \in DOMAIN said : Named(said[q].src) # {} /\ (said[q].type = "data" => said[q].data \in Event)
    BY <1>0 DEF SaidOK
  <2>3. \A q \in DOMAIN said' : Named(said'[q].src) # {} /\ (said'[q].type = "data" => said'[q].data \in Event)
    BY <1>1, <1>5, <2>2
  <2>4. QED
    BY <1>12, <2>1, <2>3 DEF SaidOK
<1>14. Fits' <=> Fits
  BY <1>7 DEF Fits
<1>22. CountersEnd' => CountersEnd /\ (eti.type # "data" => eti.code # -1)
  <2> SUFFICES ASSUME \A q \in DOMAIN said' : said'[q].type # "data" => said'[q].code # -1
               PROVE  CountersEnd /\ (eti.type # "data" => eti.code # -1)
    BY DEF CountersEnd
  <2>1. p \in DOMAIN said' /\ \A q \in DOMAIN said : q \in DOMAIN said'
    BY <1>5, <1>19
  <2>2. QED
    BY <1>1, <1>5, <2>1 DEF CountersEnd
<1>15. CountersOK'
  <2> SUFFICES ASSUME Fits, NEW i \in StateIndex PROVE Counters(states[i])'
    BY <1>7, <1>14 DEF CountersOK
  <2>1. Counters(states[i])
    BY <1>0 DEF CountersOK
  <2>2. CASE i # k
    <3>1. states[i].ntrans \in Nat
      BY <1>0 DEF State, Datum
    <3>2. states'[i] = states[i] /\ states[i].ntrans <= Len(said')
      <4>1. states[i].ntrans <= Len(said) /\ Len(said) \in Nat /\ Len(said') = Len(said) + 1
        BY <1>5, <1>19, <2>1 DEF Counters
      <4>2. QED
        BY <1>7, <2>2, <3>1, <4>1
    <3>3. QED
      BY <1>22, <2>1, <3>2 DEF Counters, Endless
  <2>3. CASE i = k
    <3>1. /\ old.ntrans <= Len(said) /\ (CountersEnd => Endless(old))
          /\ \A j \in DOMAIN old.trans :
                /\ old.trans[j].dst # Dangling
                /\ old.trans[j].type = "none" => U32(old.trans[j].code) <= old.maxCode
      BY <2>1, <2>3 DEF Counters, old
    <3>2. old.ntrans + 1 < Word
      <4>1. \A a, b, c, d \in Nat : a <= b /\ b < c /\ c + 1 < d => a + 1 < d
        OBVIOUS
      <4>2. Len(said) \in Nat /\ old.ntrans <= Len(said) /\ Len(said) < MaxTrans
        BY <1>1, <1>5, <3>1
      <4>3. QED
        BY <1>3, <4>1, <4>2, WordFacts
    <3>3. new.ntrans <= Len(said')
      BY <1>3, <1>5, <1>6, <1>19, <1>20, <3>1, <3>2
    <3>4. NewOne.dst # Dangling /\ (NewOne.type = "none" => U32(NewOne.code) <= new.maxCode)
      BY <1>0, <1>1, <1>6 DEF NewOne, NULL, Dangling
    <3>5. \A j \in 1..n : /\ trans[j].dst # Dangling
                          /\ trans[j].type = "none" => U32(trans[j].code) <= new.maxCode
      <4> SUFFICES ASSUME NEW j \in 1..n
                   PROVE  /\ trans[j].dst # Dangling
                          /\ trans[j].type = "none" => U32(trans[j].code) <= new.maxCode
        OBVIOUS
      <4>1. trans[j] = old.trans[j] /\ trans[j] \in Trans /\ U32(trans[j].code) \in Nat
        BY <1>4, <1>21
      <4>2. old.trans[j].dst # Dangling /\ (old.trans[j].type = "none" => U32(old.trans[j].code) <= old.maxCode)
        BY <1>4, <3>1
      <4>3. \A c, m, l \in Nat : c <= m /\ m <= l => c <= l
        OBVIOUS
      <4>4. old.maxCode <= new.maxCode /\ old.maxCode \in Nat /\ new.maxCode \in Nat
        BY <1>3, <1>6, <1>20
      <4>5. trans[j].type = "none" => U32(trans[j].code) <= new.maxCode
        BY <4>1, <4>2, <4>3, <4>4
      <4>6. QED
        BY <4>1, <4>2, <4>5
    <3>6. \A j \in DOMAIN trans : /\ trans[j].dst # Dangling
                                  /\ trans[j].type = "none" => U32(trans[j].code) <= new.maxCode
      BY <1>4, <3>4, <3>5
    <3>7. CountersEnd' => Endless(new)
      BY <1>6, <1>22, <3>1
    <3>8. CountersEnd' => Endless(states[k])'
      BY <1>7, <3>7 DEF Endless
    <3>9. QED
      BY <1>6, <1>7, <2>3, <3>3, <3>6, <3>8 DEF Counters
  <2>4. QED
    BY <2>2, <2>3
<1>23. Settled' => Settled
  <2> SUFFICES ASSUME \A i \in StateIndex : \A j \in DOMAIN states'[i].trans :
                         states'[i].trans[j].dst # Dangling
               PROVE  Settled
    BY <1>7 DEF Settled
  <2>1. \A j \in DOMAIN old.trans : old.trans[j].dst # Dangling
    BY <1>1, <1>4, <1>6, <1>7
  <2>2. QED
    BY <1>7, <2>1 DEF Settled, old
<1>16. TemplateIsText'
  <2> SUFFICES ASSUME Settled, NEW i \in StateIndex PROVE InOrder(states[i].trans, Mine(i))'
    BY <1>7, <1>23 DEF TemplateIsText
  <2>1. InOrder(states[i].trans, Mine(i))
    BY <1>0 DEF TemplateIsText
  <2>2. \A j \in DOMAIN states[i].trans : states[i].trans[j].dst \in StateIndex \cup {NULL}
    BY <1>0 DEF Pointers, Settled
  <2>3. Mine(i)' = IF i = k THEN Mine(i) \cup {p} ELSE Mine(i)
    <3>1. \A q \in DOMAIN said : Find(said[q].src, NULL)' = Find(said[q].src, NULL)
      BY <1>0, <1>5, <1>12 DEF SaidOK
    <3>2. Find(said[p].src, NULL)' = k
      BY <1>1, <1>5, <1>12
    <3>3. p \in DOMAIN said' /\ p \notin DOMAIN said /\ DOMAIN said' = DOMAIN said \cup {p}
      BY <1>5, <1>19
    <3>4. QED
      BY <3>1, <3>2, <3>3 DEF Mine
  <2>4. Mine(i) \in SUBSET (1..Len(said))
    BY <1>0, MineIs
  <2>5. \A q \in Mine(i) : said'[q] = said[q]
    BY <1>5, <2>4
  <2>6. InOrderNext(states[i].trans, Mine(i))
    BY <1>8, <2>1, <2>2, <2>5, InOrderKept
  <2>7. CASE i # k
    BY <1>7, <2>3, <2>6, <2>7, InOrderPrimed
  <2>8. CASE i = k
    <3>1. Mine(k) \in SUBSET Nat /\ Below(Mine(k), p)
      BY <1>5, <1>19, <2>4, <2>8 DEF Below
    <3>2. InOrderNext(old.trans, Mine(k))
      BY <2>6, <2>8 DEF old
    <3>3. PICK f : GoesUp(f, n, Mine(k)) /\ \A j \in 1..n : MeansNext(old.trans[j], said'[f[j]])
      BY <1>4, <3>1, <3>2, InOrderIs
    <3>4. p \in Nat
      BY <1>5, <1>19
    <3>5. PICK g : /\ GoesUp(g, n + 1, Mine(k) \cup {p})
                   /\ g[n + 1] = p /\ \A j \in 1..n : g[j] = f[j]
      <4>1. GoesUp(f, n, Mine(k))
        BY <3>3
      <4>2. Below(Mine(k), p)
        BY <3>1
      <4>3. Continues(f, n, Mine(k), p)
        BY <3>4, <4>1, <4>2, UpOneMore
      <4>4. QED
        BY <4>3 DEF Continues
    <3>6. MeansNext(trans[n + 1], said'[g[n + 1]])
      BY <1>1, <1>4, <1>5, <1>8, <3>5, MeansKept
    <3>7. \A j \in 1..n : MeansNext(trans[j], said'[g[j]])
      BY <1>4, <3>3, <3>5
    <3>8. \A j \in 1..(n + 1) : MeansNext(trans[j], said'[g[j]])
      BY <1>4, <3>6, <3>7
    <3>9. n + 1 \in Nat /\ Mine(k) \cup {p} \in SUBSET Nat
      BY <1>4, <3>1, <3>4
    <3>10. InOrderNext(trans, Mine(k) \cup {p})
      BY <1>4, <3>5, <3>8, <3>9, InOrderIs
    <3>11. states'[i].trans = trans /\ Mine(i)' = Mine(k) \cup {p}
      BY <1>6, <1>7, <2>3, <2>8
    <3>12. QED
      BY <3>10, <3>11, InOrderPrimed
  <2>9. QED
    BY <2>7, <2>8
<1>17. QED
  BY <1>9, <1>10, <1>11, <1>13, <1>15, <1>16 DEF ParserInv

\* esma_template_init: init and fini, without transitions.
LEMMA ParserStart == Init => ParserInv
<1> SUFFICES ASSUME Init PROVE ParserInv
  OBVIOUS
<1> DEFINE a == FirstState("init")
           b == FirstState("fini")
           Blank(s) == /\ s \in State /\ s.trans = <<>> /\ s.ntrans = 0
                       /\ s.maxCode = 0 /\ s.maxTick = 0 /\ s.maxSign = 0
<1>1. \A s \in {a, b} : Blank(s)
  <2>1. Blank(a)
    BY WordFacts DEF FirstState, State, Datum, Reserved
  <2>2. Blank(b)
    BY WordFacts DEF FirstState, State, Datum, Reserved
  <2> HIDE DEF a, b
  <2>3. QED
    BY <2>1, <2>2
<1>2. /\ st = "idle" /\ states = <<a, b>> /\ eti = Cleared /\ now = Silent /\ said = <<>>
  BY DEF Init
<1> HIDE DEF a, b
<1>3. /\ states \in Seq(State) /\ Len(states) = 2 /\ StateIndex = 1..2
      /\ \A i \in StateIndex : states[i] \in {a, b}
  BY <1>1, <1>2 DEF StateIndex
<1>4. Typed /\ Pointers
  <2>1. said \in Seq(Stmt)
    BY <1>2
  <2>2. \A i \in StateIndex : DOMAIN states[i].trans = {}
    BY <1>1, <1>3
  <2>3. QED
    BY <1>2, <1>3, <2>1, <2>2, ClearedTyped DEF Typed, Pointers
<1>5. OneStatement
  BY <1>2 DEF OneStatement, Between, Sourced, Aimed, Telling, Channels, InStatement,
              BeforeTarget, AfterTarget, AfterCode
<1>6. SaidOK /\ Len(said) = 0 /\ DOMAIN said = {}
  BY <1>2, WordFacts DEF SaidOK
<1>7. CountersOK
  <2> SUFFICES ASSUME NEW i \in StateIndex PROVE Counters(states[i])
    BY DEF CountersOK
  <2>1. Blank(states[i]) /\ DOMAIN states[i].trans = {}
    BY <1>1, <1>3
  <2>2. QED
    BY <1>6, <2>1, WordFacts DEF Counters, Endless
<1>8. TemplateIsText
  <2> SUFFICES ASSUME NEW i \in StateIndex PROVE InOrder(states[i].trans, Mine(i))
    BY DEF TemplateIsText
  <2>1. DOMAIN states[i].trans = {} /\ Mine(i) = {}
    BY <1>1, <1>3, <1>6 DEF Mine
  <2>2. [j \in {} |-> j] \in [{} -> {}]
    OBVIOUS
  <2>3. QED
    BY <2>1, <2>2 DEF InOrder
<1>9. QED
  BY <1>4, <1>5, <1>6, <1>7, <1>8 DEF ParserInv

\* Whatever token comes next.
LEMMA ParserStep == ParserInv /\ [Parse]_pvars => ParserInv'
<1> SUFFICES ASSUME ParserInv, [Parse]_pvars PROVE ParserInv'
  OBVIOUS
<1> USE DEF InStatement, BeforeTarget, AfterTarget, AfterCode
<1>1. CASE SectionWord \/ OpenBrace \/ CloseBrace \/ Semicolon \/ DeclareReserved
  <2>1. UNCHANGED <<states, eti, now, said>> /\ st \notin InStatement /\ st' \notin InStatement
    BY <1>1 DEF SectionWord, OpenBrace, CloseBrace, Semicolon, DeclareReserved, Goes
  <2>2. QED
    BY <2>1, GoesKeeps
<1>2. CASE Row \/ Colon
  <2>1. /\ UNCHANGED <<states, eti, now, said>>
        /\ {st, st'} \subseteq BeforeTarget \/ {st, st'} \subseteq {"colon", "code"}
    BY <1>2 DEF Row, Colon, Goes
  <2>2. QED
    BY <2>1, GoesKeeps
<1>3. CASE BadToken
  BY <1>3, ReturnsKeeps DEF BadToken, Done
<1>4. CASE TextEnds
  BY <1>4, ReturnsKeeps DEF TextEnds, Done
<1>5. ASSUME NEW w \in Name, Declare(w) PROVE ParserInv'
  BY <1>5, DeclareKeeps
<1>6. CASE Statement
  <2>1. ASSUME NEW w \in Used, Src(w) \/ Dst(w) PROVE ParserInv'
    BY <2>1, SrcKeeps, DstKeeps
  <2>2. ASSUME NEW c \in Code,
               \/ PlainCode(c) \/ Channel("tick", "interval", c)
               \/ Channel("sign", "signal", c) \/ Channel("data", "event", c)
        PROVE  ParserInv'
    BY <2>2, CodeKeeps
  <2>3. ASSUME NEW n \in Number, NEW u \in Unit, Interval(n, u) PROVE ParserInv'
    BY <2>3, IntervalKeeps
  <2>4. ASSUME NEW p \in Period, PeriodWord(p) PROVE ParserInv'
    BY <2>4, PeriodKeeps
  <2>5. CASE SignalWord \/ EventWord
    BY <2>5, DataKeeps
  <2>6. CASE NewTrans
    BY <2>6, NewTransKeeps
  <2>7. QED
    BY <1>6, <2>1, <2>2, <2>3, <2>4, <2>5, <2>6 DEF Statement
<1>7. CASE UNCHANGED pvars
  <2>1. UNCHANGED <<states, eti, now, said>> /\ st' = st
    BY <1>7 DEF pvars
  <2>2. OneStatement'
    BY <2>1 DEF ParserInv, OneStatement, Between, Sourced, Aimed, Telling, Channels, Means, Find, Named
  <2>3. QED
    BY <2>1, <2>2, ReadKeeps DEF ParserInv, Typed, Pointers
<1>8. QED
  BY <1>1, <1>2, <1>3, <1>4, <1>5, <1>6, <1>7 DEF Parse

----------------------------------------------------------------------------
(* The loader's invariant.                                                 *)

\* A transition of the machine has what its template has, and leads to a state
\* of the same name.
Copies(x, t) ==
    /\ x.code = t.code /\ x.type = t.type /\ x.data = t.data /\ x.flags = t.flags
    /\ IF t.dst = NULL THEN x.dst = NULL
       ELSE x.dst # NULL /\ states[x.dst].name = states[t.dst].name

\* x is the last of the transitions at positions D, or none.
Latest(x, T, D) == IF D = {} THEN x = Unset
                   ELSE \E j \in D : Copies(x, T[j]) /\ \A i \in D : i <= j
\* The array has the transitions at positions D, in their order.
Listed(array, T, D) == \E f : /\ GoesUp(f, Len(array), D)
                              /\ \A j \in 1..Len(array) : Copies(array[j], T[f[j]])

Typ(T, D, type)       == {j \in D : T[j].type = type}
Coded(T, D, c)        == {j \in D : T[j].type = "none" /\ U32(T[j].code) = c}
Slotted(T, D, slot)   == {j \in D : T[j].type = "data" /\ Slot(T[j].data) = slot}
SlotNames == {"pollin", "pollout", "pollerr"}

MTrans == [code : Int, dst : Int, type : Types \cup {"empty"}, data : Datum, flags : Flags]
MState(n) == [trans : [0..(n - 1) -> MTrans], tick : Seq(MTrans), sign : Seq(MTrans),
              pollin : MTrans, pollout : MTrans, pollerr : MTrans]

\* What is built of a state when the transitions at positions D are placed.
Built(m, s, D) ==
    /\ m \in MState(Capacity(s)) /\ \A j \in D : HasSlot(s, s.trans[j])
    /\ \A c \in DOMAIN m.trans : Latest(m.trans[c], s.trans, Coded(s.trans, D, c))
    /\ Listed(m.tick, s.trans, Typ(s.trans, D, "tick"))
    /\ Listed(m.sign, s.trans, Typ(s.trans, D, "sign"))
    /\ \A slot \in SlotNames : Latest(m[slot], s.trans, Slotted(s.trans, D, slot))

\* The transitions of state k that were placed.
Behind(k) == IF k < stateNo THEN DOMAIN states[k].trans
             ELSE IF k = stateNo THEN 1..(transNo - 1) ELSE {}

Counting ==
    /\ phase \in {"template", "loading", "loaded", "unloadable", "crashed"}
    /\ phase # "template" => st = "accepted"
    /\ phase = "template" => stateNo = 1 /\ transNo = 1
    /\ stateNo \in StateIndex /\ transNo \in 1..(Len(states[stateNo].trans) + 1)
    /\ phase = "loaded" => stateNo = Len(states) /\ transNo = Len(states[stateNo].trans) + 1
MachineTyped == phase \in {"loading", "loaded"} => DOMAIN machine = StateIndex
AllBuilt == Settled /\ phase \in {"loading", "loaded"} =>
    \A k \in StateIndex : Built(machine[k], states[k], Behind(k))

LoadInv == ParserInv /\ Counting /\ MachineTyped /\ AllBuilt

\* esma_load.c:78-86: the capacity is a u32.
LEMMA CapacityIsNat == ASSUME NEW s \in State PROVE Capacity(s) \in Nat
<1>1. s.maxCode \in Nat /\ s.ntrans \in Nat
  BY DEF State, Datum
<1>2. Larger(s.maxCode, s.ntrans) + 1 \in Nat
  BY <1>1 DEF Larger
<1> DEFINE n == Larger(s.maxCode, s.ntrans) + 1
<1> HIDE DEF n
<1>3. n % Word \in 0..(Word - 1) /\ Word \in Nat
  BY <1>2, WordFacts DEF n
<1>4. n % Word \in Nat
  BY <1>3
<1>5. QED
  BY <1>4 DEF n, Capacity

\* esma_load.c:65-86: without code -1 the arrays have room for every transition.
LEMMA CapacityFits ==
    ASSUME NEW s \in State, Counters(s), CountersEnd, Len(said) \in Nat, Len(said) <= MaxTrans
    PROVE  \A j \in DOMAIN s.trans : HasSlot(s, s.trans[j])
<1>1. /\ s.maxCode \in Datum /\ s.maxTick \in Datum /\ s.maxSign \in Datum /\ s.ntrans \in Nat
      /\ s.trans \in Seq(Trans) /\ s.ntrans <= Len(said)
      /\ s.maxCode # Word - 1 /\ s.maxTick # Word - 1 /\ s.maxSign # Word - 1
  BY DEF State, Datum, Counters, Endless
<1>2. ASSUME NEW n \in Datum, n # Word - 1 PROVE n + 1 < Word /\ (n + 1) % Word = n + 1
  BY <1>2, WordFacts DEF Datum
<1>3. s.ntrans + 1 < Word
  <2>1. \A a, b, c, w \in Nat : a <= b /\ b <= c /\ c + 1 < w => a + 1 < w
    OBVIOUS
  <2>2. QED
    BY <1>1, <2>1, WordFacts
<1> DEFINE l == Larger(s.maxCode, s.ntrans)
<1>4. l \in Nat /\ s.maxCode <= l /\ (l = s.maxCode \/ l = s.ntrans)
  BY <1>1 DEF Larger, Datum
<1> HIDE DEF l
<1>5. Capacity(s) = l + 1
  <2>1. l + 1 \in Nat /\ l + 1 < Word
    BY <1>1, <1>2, <1>3, <1>4
  <2>2. (l + 1) % Word = l + 1
    BY <2>1, WordFacts
  <2>3. QED
    BY <2>2 DEF Capacity, l
<1>6. Room(s.maxTick) # 0 /\ Room(s.maxSign) # 0
  <2>1. Room(s.maxTick) = s.maxTick + 1 /\ Room(s.maxSign) = s.maxSign + 1
    BY <1>1, <1>2 DEF Room
  <2>2. QED
    BY <1>1, <2>1 DEF Datum
<1>7. ASSUME NEW j \in DOMAIN s.trans PROVE HasSlot(s, s.trans[j])
  <2>1. s.trans[j] \in Trans
    BY <1>1
  <2>2. U32(s.trans[j].code) \in Nat /\ s.trans[j].type \in Types
    BY <2>1, CodeIsNat
  <2>3. s.trans[j].type = "none" => U32(s.trans[j].code) <= s.maxCode
    BY DEF Counters
  <2>4. s.trans[j].type = "none" => U32(s.trans[j].code) < Capacity(s)
    <3>1. \A a, b, c \in Nat : a <= b /\ b <= c => a < c + 1
      OBVIOUS
    <3>2. s.maxCode \in Nat
      BY <1>1 DEF Datum
    <3>3. QED
      BY <1>4, <1>5, <2>2, <2>3, <3>1, <3>2
  <2>5. QED
    BY <1>6, <2>2, <2>4 DEF HasSlot, Types
<1>8. QED
  BY <1>7

\* esma_load.c:34-89: nothing is placed yet.
LEMMA PreparedOK == ASSUME NEW s \in State PROVE Built(Prepared(s), s, {})
<1>1. Unset \in MTrans
  BY WordFacts DEF Unset, MTrans, NULL, Flags, Datum
<1> DEFINE trans == [c \in 0..(Capacity(s) - 1) |-> Unset]
<1>2. /\ trans \in [0..(Capacity(s) - 1) -> MTrans]
      /\ \A c \in DOMAIN trans : trans[c] = Unset
  BY <1>1
<1>3. <<>> \in Seq(MTrans) /\ Len(<<>>) = 0
  OBVIOUS
<1> HIDE DEF trans
<1>4. /\ Prepared(s) \in MState(Capacity(s)) /\ Prepared(s).trans = trans
      /\ Prepared(s).tick = <<>> /\ Prepared(s).sign = <<>>
      /\ \A slot \in SlotNames : Prepared(s)[slot] = Unset
  <2>1. Prepared(s) = [trans |-> trans, tick |-> <<>>, sign |-> <<>>,
                       pollin |-> Unset, pollout |-> Unset, pollerr |-> Unset]
    BY DEF Prepared, trans
  <2>2. QED
    BY <1>1, <1>2, <1>3, <2>1 DEF MState, SlotNames
<1>5. \A T : Latest(Unset, T, {})
  BY DEF Latest
<1>6. \A T : Listed(<<>>, T, {})
  <2>1. GoesUp([j \in 1..0 |-> j], 0, {})
    BY DEF GoesUp
  <2>2. \A j \in 1..0 : FALSE
    OBVIOUS
  <2>3. QED
    BY <1>3, <2>1, <2>2 DEF Listed
<1>7. \A T, type, c, slot : Typ(T, {}, type) = {} /\ Coded(T, {}, c) = {} /\ Slotted(T, {}, slot) = {}
  BY DEF Typ, Coded, Slotted
<1>8. QED
  BY <1>2, <1>4, <1>5, <1>6, <1>7 DEF Built

\* One more transition is placed behind those at positions D.
LEMMA LatestNew ==
    ASSUME NEW x, NEW T, NEW D, NEW n \in Nat, Copies(x, T[n]), D \in SUBSET Nat, Below(D, n)
    PROVE  Latest(x, T, D \cup {n})
BY DEF Latest, Below

LEMMA ListedNew ==
    ASSUME NEW q \in Seq(MTrans), NEW x \in MTrans, NEW T, NEW D, NEW n \in Nat,
           Listed(q, T, D), Copies(x, T[n]), Below(D, n)
    PROVE  Listed(Append(q, x), T, D \cup {n})
<1>1. PICK f : GoesUp(f, Len(q), D) /\ \A j \in 1..Len(q) : Copies(q[j], T[f[j]])
  BY DEF Listed
<1>2. Continues(f, Len(q), D, n)
  BY <1>1, UpOneMore
<1>3. PICK g : /\ GoesUp(g, Len(q) + 1, D \cup {n})
               /\ g[Len(q) + 1] = n /\ \A j \in 1..Len(q) : g[j] = f[j]
  BY <1>2 DEF Continues
<1>4. /\ Len(Append(q, x)) = Len(q) + 1 /\ \A j \in 1..Len(q) : Append(q, x)[j] = q[j]
      /\ Append(q, x)[Len(q) + 1] = x
      /\ \A j \in 1..(Len(q) + 1) : j \in 1..Len(q) \/ j = Len(q) + 1
  BY PushIs
<1>5. \A j \in 1..(Len(q) + 1) : Copies(Append(q, x)[j], T[g[j]])
  BY <1>1, <1>3, <1>4
<1>6. QED
  BY <1>3, <1>4, <1>5 DEF Listed

\* The transitions at positions 1 to n + 1.
LEMMA OneMorePlaced ==
    ASSUME NEW T, NEW n \in Nat
    PROVE  /\ \A type : Typ(T, 1..(n + 1), type) =
                 IF T[n + 1].type = type THEN Typ(T, 1..n, type) \cup {n + 1} ELSE Typ(T, 1..n, type)
           /\ \A c : Coded(T, 1..(n + 1), c) =
                 IF T[n + 1].type = "none" /\ U32(T[n + 1].code) = c
                 THEN Coded(T, 1..n, c) \cup {n + 1} ELSE Coded(T, 1..n, c)
           /\ \A slot : Slotted(T, 1..(n + 1), slot) =
                 IF T[n + 1].type = "data" /\ Slot(T[n + 1].data) = slot
                 THEN Slotted(T, 1..n, slot) \cup {n + 1} ELSE Slotted(T, 1..n, slot)
           /\ \A type : Below(Typ(T, 1..n, type), n + 1)
           /\ \A c : Coded(T, 1..n, c) \in SUBSET Nat /\ Below(Coded(T, 1..n, c), n + 1)
           /\ \A slot : Slotted(T, 1..n, slot) \in SUBSET Nat /\ Below(Slotted(T, 1..n, slot), n + 1)
<1>1. 1..(n + 1) = (1..n) \cup {n + 1}
  OBVIOUS
<1>2. \A i \in 1..n : i < n + 1 /\ i <= n + 1
  OBVIOUS
<1>3. QED
  BY <1>1, <1>2 DEF Typ, Coded, Slotted, Below

\* esma_load.c:163-197: where a transition goes.
LEMMA PlacedOK ==
    ASSUME NEW s \in State, NEW n \in Nat, n + 1 \in DOMAIN s.trans,
           NEW m, Built(m, s, 1..n), NEW t \in MTrans, Copies(t, s.trans[n + 1]),
           HasSlot(s, s.trans[n + 1])
    PROVE  Built(Placed(m, t), s, 1..(n + 1))
<1> DEFINE T == s.trans
           p == Placed(m, t)
           D == 1..n
           E == 1..(n + 1)
           u == U32(t.code)
<1>1. T[n + 1] \in Trans
  BY DEF State
<1>2. /\ t.code = T[n + 1].code /\ t.type = T[n + 1].type /\ t.data = T[n + 1].data
      /\ t.type \in Types /\ (t.type = "none" => u \in 0..(Capacity(s) - 1))
  <2>1. /\ t.code = T[n + 1].code /\ t.type = T[n + 1].type /\ t.data = T[n + 1].data
    BY DEF Copies
  <2>2. t.type \in Types /\ u \in Nat
    BY <1>1, <2>1, CodeIsNat
  <2>3. Capacity(s) \in Nat
    BY CapacityIsNat
  <2>4. t.type = "none" => u < Capacity(s)
    BY <2>1 DEF HasSlot
  <2>5. QED
    BY <2>1, <2>2, <2>3, <2>4
<1>3. /\ m \in MState(Capacity(s)) /\ DOMAIN m.trans = 0..(Capacity(s) - 1)
      /\ m.tick \in Seq(MTrans) /\ m.sign \in Seq(MTrans) /\ m.trans \in [0..(Capacity(s) - 1) -> MTrans]
      /\ \A c \in DOMAIN m.trans : Latest(m.trans[c], T, Coded(T, D, c))
      /\ Listed(m.tick, T, Typ(T, D, "tick")) /\ Listed(m.sign, T, Typ(T, D, "sign"))
      /\ \A slot \in SlotNames : Latest(m[slot], T, Slotted(T, D, slot))
      /\ \A j \in E : HasSlot(s, T[j])
  <2>1. E = D \cup {n + 1}
    OBVIOUS
  <2>2. \A j \in E : HasSlot(s, T[j])
    BY <2>1 DEF Built
  <2>3. QED
    BY <2>2 DEF Built, MState
<1>4. /\ \A type : Typ(T, E, type) = IF t.type = type THEN Typ(T, D, type) \cup {n + 1} ELSE Typ(T, D, type)
      /\ \A c : Coded(T, E, c) = IF t.type = "none" /\ u = c
                                 THEN Coded(T, D, c) \cup {n + 1} ELSE Coded(T, D, c)
      /\ \A slot : Slotted(T, E, slot) = IF t.type = "data" /\ Slot(t.data) = slot
                                         THEN Slotted(T, D, slot) \cup {n + 1} ELSE Slotted(T, D, slot)
      /\ \A type : Below(Typ(T, D, type), n + 1)
      /\ \A c : Coded(T, D, c) \in SUBSET Nat /\ Below(Coded(T, D, c), n + 1)
      /\ \A slot : Slotted(T, D, slot) \in SUBSET Nat /\ Below(Slotted(T, D, slot), n + 1)
  <2> HIDE DEF T
  <2>1. /\ \A type : Typ(T, 1..(n + 1), type) =
              IF T[n + 1].type = type THEN Typ(T, 1..n, type) \cup {n + 1} ELSE Typ(T, 1..n, type)
        /\ \A c : Coded(T, 1..(n + 1), c) =
              IF T[n + 1].type = "none" /\ U32(T[n + 1].code) = c
              THEN Coded(T, 1..n, c) \cup {n + 1} ELSE Coded(T, 1..n, c)
        /\ \A slot : Slotted(T, 1..(n + 1), slot) =
              IF T[n + 1].type = "data" /\ Slot(T[n + 1].data) = slot
              THEN Slotted(T, 1..n, slot) \cup {n + 1} ELSE Slotted(T, 1..n, slot)
    BY OneMorePlaced
  <2>2. /\ \A type : Below(Typ(T, 1..n, type), n + 1)
        /\ \A c : Coded(T, 1..n, c) \in SUBSET Nat /\ Below(Coded(T, 1..n, c), n + 1)
        /\ \A slot : Slotted(T, 1..n, slot) \in SUBSET Nat /\ Below(Slotted(T, 1..n, slot), n + 1)
    BY OneMorePlaced
  <2>3. T[n + 1].type = t.type /\ T[n + 1].code = t.code /\ T[n + 1].data = t.data
    BY <1>2
  <2>4. QED
    BY <2>1, <2>2, <2>3
<1>5. n + 1 \in Nat /\ Copies(t, T[n + 1])
  OBVIOUS
<1> HIDE DEF T, D, E, u
<1>6. CASE t.type = "none"
  <2>1. p = [m EXCEPT !.trans = [m.trans EXCEPT ![u] = t]]
    BY <1>6 DEF Placed, u
  <2> DEFINE a == [m.trans EXCEPT ![u] = t]
  <2>2. /\ a \in [0..(Capacity(s) - 1) -> MTrans] /\ a[u] = t
        /\ \A c \in 0..(Capacity(s) - 1) : c # u => a[c] = m.trans[c]
    BY <1>2, <1>3, <1>6
  <2> HIDE DEF a
  <2>3. /\ p \in MState(Capacity(s)) /\ p.trans = a /\ p.tick = m.tick /\ p.sign = m.sign
        /\ p.pollin = m.pollin /\ p.pollout = m.pollout /\ p.pollerr = m.pollerr
    BY <1>3, <2>1, <2>2 DEF MState, a
  <2> HIDE DEF p
  <2>4. ASSUME NEW c \in DOMAIN p.trans PROVE Latest(p.trans[c], T, Coded(T, E, c))
    <3>1. c \in 0..(Capacity(s) - 1)
      BY <2>2, <2>3
    <3>2. CASE c = u
      <4>1. Coded(T, E, c) = Coded(T, D, c) \cup {n + 1} /\ p.trans[c] = t
        BY <1>4, <1>6, <2>2, <2>3, <3>2
      <4>2. Coded(T, D, c) \in SUBSET Nat /\ Below(Coded(T, D, c), n + 1)
        BY <1>4
      <4>3. QED
        BY <1>5, <4>1, <4>2, LatestNew
    <3>3. CASE c # u
      BY <1>3, <1>4, <2>2, <2>3, <3>1, <3>3
    <3>4. QED
      BY <3>2, <3>3
  <2>5. Listed(p.tick, T, Typ(T, E, "tick")) /\ Listed(p.sign, T, Typ(T, E, "sign"))
    BY <1>3, <1>4, <1>6, <2>3
  <2>6. \A slot \in SlotNames : Latest(p[slot], T, Slotted(T, E, slot))
    BY <1>3, <1>4, <1>6, <2>3 DEF SlotNames
  <2>7. QED
    BY <1>3, <2>3, <2>4, <2>5, <2>6 DEF Built, T, E, p
<1>7. \A type : t.type # type => Typ(T, E, type) = Typ(T, D, type)
  BY <1>4
<1>8. CASE t.type = "tick"
  <2>1. p = [m EXCEPT !.tick = Append(m.tick, t)]
    BY <1>8 DEF Placed
  <2> DEFINE a == Append(m.tick, t)
  <2>2. a \in Seq(MTrans)
    BY <1>3
  <2>3. Listed(a, T, Typ(T, E, "tick"))
    BY <1>3, <1>4, <1>5, <1>8, ListedNew
  <2> HIDE DEF a
  <2>4. /\ p \in MState(Capacity(s)) /\ p.trans = m.trans /\ p.tick = a /\ p.sign = m.sign
        /\ p.pollin = m.pollin /\ p.pollout = m.pollout /\ p.pollerr = m.pollerr
    BY <1>3, <2>1, <2>2 DEF MState, a
  <2> HIDE DEF p
  <2>5. \A c \in DOMAIN p.trans : Latest(p.trans[c], T, Coded(T, E, c))
    BY <1>3, <1>4, <1>8, <2>4
  <2>6. Listed(p.tick, T, Typ(T, E, "tick")) /\ Listed(p.sign, T, Typ(T, E, "sign"))
    BY <1>3, <1>7, <1>8, <2>3, <2>4
  <2>7. \A slot \in SlotNames : Latest(p[slot], T, Slotted(T, E, slot))
    BY <1>3, <1>4, <1>8, <2>4 DEF SlotNames
  <2>8. QED
    BY <1>3, <2>4, <2>5, <2>6, <2>7 DEF Built, T, E, p
<1>9. CASE t.type = "sign"
  <2>1. p = [m EXCEPT !.sign = Append(m.sign, t)]
    BY <1>9 DEF Placed
  <2> DEFINE a == Append(m.sign, t)
  <2>2. a \in Seq(MTrans)
    BY <1>3
  <2>3. Listed(a, T, Typ(T, E, "sign"))
    BY <1>3, <1>4, <1>5, <1>9, ListedNew
  <2> HIDE DEF a
  <2>4. /\ p \in MState(Capacity(s)) /\ p.trans = m.trans /\ p.tick = m.tick /\ p.sign = a
        /\ p.pollin = m.pollin /\ p.pollout = m.pollout /\ p.pollerr = m.pollerr
    BY <1>3, <2>1, <2>2 DEF MState, a
  <2> HIDE DEF p
  <2>5. \A c \in DOMAIN p.trans : Latest(p.trans[c], T, Coded(T, E, c))
    BY <1>3, <1>4, <1>9, <2>4
  <2>6. Listed(p.tick, T, Typ(T, E, "tick")) /\ Listed(p.sign, T, Typ(T, E, "sign"))
    BY <1>3, <1>7, <1>9, <2>3, <2>4
  <2>7. \A slot \in SlotNames : Latest(p[slot], T, Slotted(T, E, slot))
    BY <1>3, <1>4, <1>9, <2>4 DEF SlotNames
  <2>8. QED
    BY <1>3, <2>4, <2>5, <2>6, <2>7 DEF Built, T, E, p
<1>10. CASE t.type = "data"
  <2> DEFINE b == Slot(t.data)
  <2>1. p = [m EXCEPT ![b] = t] /\ b \in SlotNames
    BY <1>10 DEF Placed, Slot, SlotNames
  <2> HIDE DEF b
  <2>2. /\ p \in MState(Capacity(s)) /\ p.trans = m.trans /\ p.tick = m.tick /\ p.sign = m.sign
        /\ p[b] = t /\ \A slot \in SlotNames : slot # b => p[slot] = m[slot]
    BY <1>3, <2>1 DEF MState, SlotNames
  <2> HIDE DEF p
  <2>3. \A c \in DOMAIN p.trans : Latest(p.trans[c], T, Coded(T, E, c))
    BY <1>3, <1>4, <1>10, <2>2
  <2>4. Listed(p.tick, T, Typ(T, E, "tick")) /\ Listed(p.sign, T, Typ(T, E, "sign"))
    BY <1>3, <1>7, <1>10, <2>2
  <2>5. ASSUME NEW slot \in SlotNames PROVE Latest(p[slot], T, Slotted(T, E, slot))
    <3>1. CASE slot = b
      <4>1. Slotted(T, E, slot) = Slotted(T, D, slot) \cup {n + 1}
        BY <1>4, <1>10, <3>1 DEF b
      <4>2. Slotted(T, D, slot) \in SUBSET Nat /\ Below(Slotted(T, D, slot), n + 1)
        BY <1>4
      <4>3. p[slot] = t
        BY <2>2, <3>1
      <4>4. QED
        BY <1>5, <4>1, <4>2, <4>3, LatestNew
    <3>2. CASE slot # b
      <4>1. Slotted(T, E, slot) = Slotted(T, D, slot)
        BY <1>4, <3>2 DEF b
      <4>2. QED
        BY <1>3, <2>2, <3>2, <4>1
    <3>3. QED
      BY <3>1, <3>2
  <2>6. QED
    BY <1>3, <2>2, <2>3, <2>4, <2>5 DEF Built, T, E, p
<1>11. QED
  BY <1>2, <1>6, <1>8, <1>9, <1>10 DEF Types

\* What was built is still built when the parser rests.
LEMMA BuiltPrimed ==
    ASSUME UNCHANGED states, NEW k, Built(machine'[k], states[k], Behind(k)')
    PROVE  Built(machine[k], states[k], Behind(k))'
<1>1. /\ machine'[k] \in MState(Capacity(states[k]))
      /\ \A j \in Behind(k)' : HasSlot(states[k], states[k].trans[j])
      /\ \A c \in DOMAIN machine'[k].trans :
            Latest(machine'[k].trans[c], states[k].trans, Coded(states[k].trans, Behind(k)', c))
      /\ Listed(machine'[k].tick, states[k].trans, Typ(states[k].trans, Behind(k)', "tick"))
      /\ Listed(machine'[k].sign, states[k].trans, Typ(states[k].trans, Behind(k)', "sign"))
      /\ \A slot \in SlotNames :
            Latest(machine'[k][slot], states[k].trans, Slotted(states[k].trans, Behind(k)', slot))
  BY Zenon DEF Built
<1>2. /\ machine'[k] \in MState(Capacity(states'[k]))
      /\ (\A j \in Behind(k) : HasSlot(states[k], states[k].trans[j]))'
  BY <1>1
<1>3. (\A c \in DOMAIN machine[k].trans :
          Latest(machine[k].trans[c], states[k].trans, Coded(states[k].trans, Behind(k), c)))'
  BY <1>1 DEF Latest, Copies
<1>4. Listed(machine[k].tick, states[k].trans, Typ(states[k].trans, Behind(k), "tick"))'
  BY <1>1 DEF Listed, Copies
<1>5. Listed(machine[k].sign, states[k].trans, Typ(states[k].trans, Behind(k), "sign"))'
  BY <1>1 DEF Listed, Copies
<1>6. (\A slot \in SlotNames :
          Latest(machine[k][slot], states[k].trans, Slotted(states[k].trans, Behind(k), slot)))'
  BY <1>1 DEF Latest, Copies
<1>7. QED
  BY <1>2, <1>3, <1>4, <1>5, <1>6, Zenon DEF Built

\* _esma_find_next_state_by_name: the target has the name the parser found.
LEMMA TargetOK ==
    ASSUME NEW t \in Trans, t.dst \in StateIndex \cup {NULL}, states \in Seq(State), NEW wild
    PROVE  LET x == [t EXCEPT !.dst = Target(t.dst, wild)] IN x \in MTrans /\ Copies(x, t)
<1>1. /\ t.code \in Int /\ t.type \in Types /\ t.data \in Datum /\ t.flags \in Flags
      /\ StateIndex \in SUBSET Nat /\ 0 \notin StateIndex
  <2>1. StateIndex = 1..Len(states) /\ Len(states) \in Nat
    BY DEF StateIndex
  <2>2. StateIndex \in SUBSET Nat /\ 0 \notin StateIndex
    BY <2>1
  <2>3. QED
    BY <2>2, WordFacts DEF Trans
<1> DEFINE d == Target(t.dst, wild)
           x == [t EXCEPT !.dst = d]
<1>2. d \in Int /\ IF t.dst = NULL THEN d = NULL ELSE d # NULL /\ states[d].name = states[t.dst].name
  <2>1. CASE t.dst = NULL
    BY <2>1 DEF Target, NULL
  <2>2. CASE t.dst # NULL
    <3>1. t.dst \in StateIndex /\ t.dst # Dangling
      BY <1>1, <2>2 DEF Dangling
    <3>2. d = Find(states[t.dst].name, NULL)
      BY <2>2, <3>1 DEF Target
    <3>3. t.dst \in Named(states[t.dst].name)
      BY <3>1 DEF Named, StateIndex
    <3>4. d \in Named(states[t.dst].name)
      BY <3>2, <3>3, FindFirst
    <3>5. d \in StateIndex /\ states[d].name = states[t.dst].name
      BY <3>4 DEF Named, StateIndex
    <3>6. d \in Int /\ d # NULL
      <4> HIDE DEF d
      <4>1. \A i \in StateIndex : i \in Int /\ i # 0
        BY <1>1
      <4>2. QED
        BY <3>5, <4>1 DEF NULL
    <3>7. QED
      BY <2>2, <3>5, <3>6
  <2>3. QED
    BY <2>1, <2>2
<1> HIDE DEF d
<1>3. /\ x.code = t.code /\ x.type = t.type /\ x.data = t.data /\ x.flags = t.flags
      /\ x.dst = d /\ x \in MTrans
  BY <1>1, <1>2 DEF Trans, MTrans
<1> HIDE DEF x
<1>4. Copies(x, t)
  BY <1>2, <1>3 DEF Copies
<1>5. QED
  BY <1>3, <1>4 DEF x, d

\* The transition the loader is at.
LEMMA NextIs ==
    ASSUME LoadInv, phase = "loading", MoreTrans
    PROVE  /\ states[stateNo] \in State /\ NextTrans \in Trans /\ NextTrans = states[stateNo].trans[transNo]
           /\ transNo \in Nat /\ transNo - 1 \in Nat /\ (transNo - 1) + 1 = transNo
           /\ transNo \in DOMAIN states[stateNo].trans
           /\ DOMAIN states[stateNo].trans = 1..Len(states[stateNo].trans)
           /\ Len(states[stateNo].trans) \in Nat
           /\ Settled => NextTrans.dst \in StateIndex \cup {NULL}
           /\ Fits => NextTrans.dst # Dangling
           /\ Fits /\ CountersEnd => HasSlot(states[stateNo], NextTrans)
<1>1. Typed /\ Pointers /\ SaidOK /\ CountersOK /\ stateNo \in StateIndex
  BY DEF LoadInv, ParserInv, Counting
<1>2. states[stateNo] \in State
  BY <1>1 DEF Typed, StateIndex
<1>3. transNo \in DOMAIN states[stateNo].trans /\ NextTrans = states[stateNo].trans[transNo]
  BY DEF MoreTrans, NextTrans
<1>4. states[stateNo].trans \in Seq(Trans)
  BY <1>2 DEF State
<1>5. Settled => NextTrans.dst \in StateIndex \cup {NULL}
  BY <1>1, <1>3 DEF Pointers, Settled
<1>6. ASSUME Fits
      PROVE  /\ NextTrans.dst # Dangling
             /\ CountersEnd => HasSlot(states[stateNo], NextTrans)
  <2>1. Counters(states[stateNo])
    BY <1>1, <1>6 DEF CountersOK
  <2>2. Len(said) \in Nat /\ Len(said) <= MaxTrans
    BY <1>1 DEF Typed, SaidOK
  <2>3. CountersEnd => HasSlot(states[stateNo], NextTrans)
    BY <1>2, <1>3, <2>1, <2>2, CapacityFits
  <2>4. NextTrans.dst # Dangling
    BY <1>3, <2>1 DEF Counters
  <2>5. QED
    BY <2>3, <2>4
<1>7. QED
  BY <1>2, <1>3, <1>4, <1>5, <1>6

\* The loader leaves the template alone.
LEMMA ParserRests ==
    ASSUME LoadInv, UNCHANGED pvars
    PROVE  /\ ParserInv' /\ UNCHANGED <<st, states>> /\ StateIndex' = StateIndex /\ (Settled' <=> Settled)
           /\ Typed /\ \A k \in StateIndex : states[k] \in State
<1>1. Typed /\ UNCHANGED <<st, states>>
  BY DEF LoadInv, ParserInv, pvars
<1>2. ParserInv'
  BY ParserStep DEF LoadInv
<1>3. QED
  BY <1>1, <1>2 DEF StateIndex, Settled, Typed

\* The end of the parser is final.
LEMMA ParseGoesOn == Parse => st # "accepted"
BY DEF Parse, SectionWord, OpenBrace, CloseBrace, Semicolon, Row, Colon, BadToken, TextEnds,
       DeclareReserved, Declare, Goes, Returns, Done, Statement, Src, Dst, PlainCode, Channel,
       Interval, PeriodWord, SignalWord, EventWord, DataWord, NewTrans, Reads

\* While there is no machine yet, or none any more.
LEMMA NoMachine ==
    ASSUME ParserInv', phase' \in {"template", "unloadable", "crashed"},
           phase' = "template" => stateNo' = 1 /\ transNo' = 1,
           phase' # "template" => /\ st' = "accepted" /\ stateNo' \in StateIndex'
                                  /\ transNo' \in 1..(Len(states'[stateNo'].trans) + 1)
    PROVE  LoadInv'
<1>1. 1 \in StateIndex' /\ 1 \in 1..(Len(states'[1].trans) + 1)
  <2>1. states' \in Seq(State) /\ Len(states') >= 2
    BY DEF ParserInv, Typed
  <2>2. 1 \in DOMAIN states' /\ states'[1] \in State
    BY <2>1
  <2>3. Len(states'[1].trans) \in Nat
    BY <2>2 DEF State
  <2>4. QED
    BY <2>2, <2>3 DEF StateIndex
<1>2. Counting'
  BY <1>1 DEF Counting
<1>3. MachineTyped' /\ AllBuilt'
  BY DEF MachineTyped, AllBuilt
<1>4. QED
  BY <1>2, <1>3 DEF LoadInv

LEMMA LoadStart == LoadInit => LoadInv
<1> SUFFICES ASSUME LoadInit PROVE LoadInv
  OBVIOUS
<1>1. ParserInv /\ phase = "template" /\ stateNo = 1 /\ transNo = 1
  BY ParserStart DEF LoadInit
<1>2. 1 \in StateIndex /\ 1 \in 1..(Len(states[1].trans) + 1)
  <2>1. states \in Seq(State) /\ Len(states) >= 2
    BY <1>1 DEF ParserInv, Typed
  <2>2. 1 \in DOMAIN states /\ states[1] \in State
    BY <2>1
  <2>3. Len(states[1].trans) \in Nat
    BY <2>2 DEF State
  <2>4. QED
    BY <2>2, <2>3 DEF StateIndex
<1>3. Counting
  BY <1>1, <1>2 DEF Counting
<1>4. MachineTyped /\ AllBuilt
  BY <1>1 DEF MachineTyped, AllBuilt
<1>5. QED
  BY <1>1, <1>3, <1>4 DEF LoadInv

LEMMA PrepareStatesKeeps == ASSUME LoadInv, PrepareStates PROVE LoadInv'
<1>1. /\ st = "accepted" /\ phase' = "loading" /\ stateNo' = stateNo /\ transNo' = transNo
      /\ machine' = [k \in DOMAIN states |-> Prepared(states[k])]
      /\ stateNo = 1 /\ transNo = 1 /\ Counting
  BY DEF PrepareStates, LoadInv, Counting
<1>2. /\ ParserInv' /\ UNCHANGED <<st, states>> /\ StateIndex' = StateIndex
      /\ \A k \in StateIndex : states[k] \in State
  BY ParserRests DEF PrepareStates
<1>3. Counting'
  BY <1>1, <1>2 DEF Counting
<1>4. MachineTyped'
  BY <1>1, <1>2 DEF MachineTyped, StateIndex
<1>5. \A k \in StateIndex : Built(machine'[k], states[k], {})
  BY <1>1, <1>2, PreparedOK DEF StateIndex
<1>6. \A k \in StateIndex : Behind(k)' = {}
  <2>1. StateIndex = 1..Len(states)
    BY <1>2 DEF StateIndex, LoadInv, ParserInv, Typed
  <2>2. \A k \in StateIndex : ~(k < 1)
    BY <2>1 DEF LoadInv, ParserInv, Typed
  <2>3. 1..(transNo' - 1) = {}
    BY <1>1
  <2>4. QED
    BY <1>1, <2>2, <2>3 DEF Behind
<1>7. AllBuilt'
  BY <1>2, <1>5, <1>6, BuiltPrimed DEF AllBuilt
<1>8. QED
  BY <1>2, <1>3, <1>4, <1>7 DEF LoadInv

\* esma_load.c:107-205: one transition.
LEMMA PrepareTransKeeps == ASSUME LoadInv, PrepareTrans PROVE LoadInv'
<1>1. /\ phase = "loading" /\ phase' = "loading" /\ MoreTrans
      /\ transNo' = transNo + 1 /\ stateNo' = stateNo
      /\ UNCHANGED pvars /\ Counting /\ MachineTyped /\ AllBuilt
      /\ HasSlot(states[stateNo], NextTrans)
  BY DEF PrepareTrans, LoadInv
<1>2. /\ ParserInv' /\ UNCHANGED <<st, states>> /\ StateIndex' = StateIndex /\ (Settled' <=> Settled)
      /\ states \in Seq(State)
  BY <1>1, ParserRests DEF Typed
<1>3. /\ states[stateNo] \in State /\ NextTrans \in Trans /\ NextTrans = states[stateNo].trans[transNo]
      /\ transNo \in Nat /\ transNo - 1 \in Nat /\ (transNo - 1) + 1 = transNo
      /\ transNo \in DOMAIN states[stateNo].trans
      /\ DOMAIN states[stateNo].trans = 1..Len(states[stateNo].trans)
      /\ Len(states[stateNo].trans) \in Nat
      /\ Settled => NextTrans.dst \in StateIndex \cup {NULL}
  BY <1>1, NextIs
<1>4. PICK wild \in DOMAIN states :
        machine' = [machine EXCEPT ![stateNo] =
                      Placed(machine[stateNo], [NextTrans EXCEPT !.dst = Target(NextTrans.dst, wild)])]
  BY DEF PrepareTrans
<1> DEFINE x == [NextTrans EXCEPT !.dst = Target(NextTrans.dst, wild)]
<1>5. /\ DOMAIN machine = StateIndex /\ stateNo \in StateIndex /\ DOMAIN machine' = StateIndex
      /\ machine'[stateNo] = Placed(machine[stateNo], x)
      /\ \A k \in StateIndex : k # stateNo => machine'[k] = machine[k]
  <2>1. DOMAIN machine = StateIndex /\ stateNo \in StateIndex
    BY <1>1 DEF MachineTyped, Counting
  <2> HIDE DEF x
  <2>2. machine' = [machine EXCEPT ![stateNo] = Placed(machine[stateNo], x)]
    BY <1>4 DEF x
  <2> DEFINE p == Placed(machine[stateNo], x)
  <2> HIDE DEF p
  <2>3. machine' = [machine EXCEPT ![stateNo] = p]
    BY <2>2 DEF p
  <2>4. DOMAIN machine' = StateIndex /\ machine'[stateNo] = p
        /\ \A k \in StateIndex : k # stateNo => machine'[k] = machine[k]
    BY <2>1, <2>3
  <2>5. QED
    BY <2>1, <2>4 DEF p
<1>6. Counting'
  <2>1. transNo + 1 \in 1..(Len(states[stateNo].trans) + 1)
    BY <1>3
  <2>2. QED
    BY <1>1, <1>2, <2>1 DEF Counting
<1>7. MachineTyped'
  BY <1>1, <1>2, <1>5 DEF MachineTyped
<1>8. AllBuilt'
  <2> SUFFICES ASSUME Settled, NEW k \in StateIndex PROVE Built(machine[k], states[k], Behind(k))'
    BY <1>2 DEF AllBuilt
  <2>1. Built(machine[k], states[k], Behind(k))
    BY <1>1 DEF AllBuilt
  <2>2. Built(machine'[k], states[k], Behind(k)')
    <3>1. CASE k = stateNo
      <4>1. x \in MTrans /\ Copies(x, NextTrans)
        BY <1>2, <1>3, TargetOK
      <4> HIDE DEF x
      <4>2. PICK n \in Nat : n = transNo - 1
        BY <1>3
      <4>3. n + 1 = transNo /\ n + 1 \in DOMAIN states[stateNo].trans
        BY <1>3, <4>2
      <4>4. Behind(k) = 1..n /\ Behind(k)' = 1..(n + 1)
        <5>1. ~(stateNo < stateNo) /\ (transNo + 1) - 1 = n + 1
          BY <1>2, <1>3, <1>5, <4>2 DEF StateIndex
        <5>2. QED
          BY <1>1, <3>1, <4>2, <5>1 DEF Behind
      <4>5. Built(machine[stateNo], states[stateNo], 1..n)
        BY <2>1, <3>1, <4>4
      <4>6. Copies(x, states[stateNo].trans[n + 1]) /\ HasSlot(states[stateNo], states[stateNo].trans[n + 1])
        BY <1>1, <1>3, <4>1, <4>3
      <4>7. Built(Placed(machine[stateNo], x), states[stateNo], 1..(n + 1))
        BY <1>3, <4>1, <4>3, <4>5, <4>6, PlacedOK
      <4>8. QED
        BY <1>5, <3>1, <4>4, <4>7
    <3>2. CASE k # stateNo
      <4>1. Behind(k)' = Behind(k) /\ machine'[k] = machine[k]
        BY <1>1, <1>2, <1>5, <3>2 DEF Behind
      <4>2. QED
        BY <2>1, <4>1
    <3>3. QED
      BY <3>1, <3>2
  <2>3. QED
    BY <1>2, <2>2, BuiltPrimed
<1>9. QED
  BY <1>2, <1>6, <1>7, <1>8 DEF LoadInv

\* esma_load.c:93-107: the next state.
LEMMA NextStateKeeps == ASSUME LoadInv, NextState PROVE LoadInv'
<1>1. /\ phase = "loading" /\ phase' = "loading" /\ ~MoreTrans /\ stateNo < Len(states)
      /\ stateNo' = stateNo + 1 /\ transNo' = 1 /\ machine' = machine
      /\ UNCHANGED pvars /\ Counting /\ MachineTyped /\ AllBuilt
  BY DEF NextState, LoadInv
<1>2. /\ ParserInv' /\ UNCHANGED <<st, states>> /\ StateIndex' = StateIndex /\ (Settled' <=> Settled)
      /\ Typed /\ \A k \in StateIndex : states[k] \in State
  BY <1>1, ParserRests
<1>3. StateIndex = 1..Len(states) /\ Len(states) \in Nat /\ stateNo \in StateIndex
      /\ transNo \in 1..(Len(states[stateNo].trans) + 1)
  BY <1>1, <1>2 DEF Typed, StateIndex, Counting
<1>4. stateNo + 1 \in StateIndex
  BY <1>1, <1>3
<1>5. \A k \in StateIndex : DOMAIN states[k].trans = 1..Len(states[k].trans) /\ Len(states[k].trans) \in Nat
  BY <1>2 DEF State
<1>6. Counting'
  <2>1. 1 \in 1..(Len(states[stateNo + 1].trans) + 1)
    BY <1>4, <1>5
  <2>2. QED
    BY <1>1, <1>2, <1>4, <2>1 DEF Counting
<1>7. MachineTyped'
  BY <1>1, <1>2 DEF MachineTyped
<1>8. ASSUME NEW k \in StateIndex PROVE Behind(k)' = Behind(k)
  <2>1. k \in Nat /\ stateNo \in Nat
    BY <1>3
  <2>2. CASE k = stateNo
    <3>1. k < stateNo + 1 /\ ~(k < stateNo)
      BY <2>1, <2>2
    <3>2. transNo = Len(states[stateNo].trans) + 1
      BY <1>1, <1>3, <1>5 DEF MoreTrans
    <3>3. 1..(transNo - 1) = DOMAIN states[stateNo].trans
      BY <1>3, <1>5, <3>2
    <3>4. QED
      BY <1>1, <1>2, <2>2, <3>1, <3>3 DEF Behind
  <2>3. CASE k < stateNo
    <3>1. k < stateNo + 1
      BY <2>1, <2>3
    <3>2. QED
      BY <1>1, <1>2, <2>3, <3>1 DEF Behind
  <2>4. CASE k > stateNo
    <3>1. ~(k < stateNo) /\ k # stateNo /\ ~(k < stateNo + 1) /\ 1..(1 - 1) = {}
      BY <2>1, <2>4
    <3>2. QED
      BY <1>1, <1>2, <2>4, <3>1 DEF Behind
  <2>5. QED
    BY <2>1, <2>2, <2>3, <2>4
<1>9. AllBuilt'
  <2> SUFFICES ASSUME Settled, NEW k \in StateIndex PROVE Built(machine[k], states[k], Behind(k))'
    BY <1>2 DEF AllBuilt
  <2>1. Built(machine[k], states[k], Behind(k))
    BY <1>1 DEF AllBuilt
  <2>2. Built(machine'[k], states[k], Behind(k)')
    BY <1>1, <1>8, <2>1
  <2>3. QED
    BY <1>2, <2>2, BuiltPrimed
<1>10. QED
  BY <1>2, <1>6, <1>7, <1>9 DEF LoadInv

\* The last transition of the last state was placed.
LEMMA LoadedKeeps == ASSUME LoadInv, Loaded PROVE LoadInv'
<1>1. /\ phase = "loading" /\ phase' = "loaded" /\ ~MoreTrans /\ stateNo = Len(states)
      /\ UNCHANGED <<machine, stateNo, transNo>> /\ UNCHANGED pvars
      /\ Counting /\ MachineTyped /\ AllBuilt
  BY DEF Loaded, LoadInv
<1>2. /\ ParserInv' /\ UNCHANGED <<st, states>> /\ StateIndex' = StateIndex /\ (Settled' <=> Settled)
      /\ Typed /\ \A k \in StateIndex : states[k] \in State
  BY <1>1, ParserRests
<1>3. Counting'
  <2>1. stateNo \in StateIndex /\ transNo \in 1..(Len(states[stateNo].trans) + 1)
    BY <1>1 DEF Counting
  <2>2. DOMAIN states[stateNo].trans = 1..Len(states[stateNo].trans) /\ Len(states[stateNo].trans) \in Nat
    BY <1>2, <2>1 DEF State
  <2>3. transNo = Len(states[stateNo].trans) + 1
    BY <1>1, <2>1, <2>2 DEF MoreTrans
  <2>4. QED
    BY <1>1, <1>2, <2>3 DEF Counting
<1>4. MachineTyped'
  BY <1>1, <1>2 DEF MachineTyped
<1>5. AllBuilt'
  <2> SUFFICES ASSUME Settled, NEW k \in StateIndex PROVE Built(machine[k], states[k], Behind(k))'
    BY <1>2 DEF AllBuilt
  <2>1. Built(machine[k], states[k], Behind(k))
    BY <1>1 DEF AllBuilt
  <2>2. Behind(k)' = Behind(k)
    BY <1>1, <1>2 DEF Behind
  <2>3. Built(machine'[k], states[k], Behind(k)')
    BY <1>1, <2>1, <2>2
  <2>4. QED
    BY <1>2, <2>3, BuiltPrimed
<1>6. QED
  BY <1>2, <1>3, <1>4, <1>5 DEF LoadInv

\* Every step of the parser and of the loader.
LEMMA LoadStep == LoadInv /\ [Next]_vars => LoadInv'
<1> SUFFICES ASSUME LoadInv, [Next]_vars PROVE LoadInv'
  OBVIOUS
<1>1. CASE Parse /\ UNCHANGED lvars
  <2>1. phase = "template" /\ stateNo = 1 /\ transNo = 1
    BY <1>1, ParseGoesOn DEF LoadInv, Counting
  <2>2. phase' = "template" /\ stateNo' = 1 /\ transNo' = 1
    BY <1>1, <2>1 DEF lvars
  <2>3. ParserInv'
    BY <1>1, ParserStep DEF LoadInv
  <2>4. QED
    BY <2>2, <2>3, NoMachine
<1>2. CASE PrepareStates
  BY <1>2, PrepareStatesKeeps
<1>3. CASE PrepareTrans
  BY <1>3, PrepareTransKeeps
<1>4. CASE NextState
  BY <1>4, NextStateKeeps
<1>5. CASE Loaded
  BY <1>5, LoadedKeeps
<1>6. CASE CannotLoad \/ Crashes
  <2>1. /\ phase' \in {"unloadable", "crashed"} /\ UNCHANGED pvars /\ Counting
        /\ UNCHANGED <<machine, stateNo, transNo>> /\ st = "accepted"
    BY <1>6 DEF CannotLoad, Crashes, LoadInv, Counting
  <2>2. ParserInv' /\ UNCHANGED <<st, states>> /\ StateIndex' = StateIndex
    BY <2>1, ParserRests
  <2>3. QED
    BY <2>1, <2>2, NoMachine DEF Counting
<1>7. CASE UNCHANGED vars
  <2>1. UNCHANGED pvars /\ UNCHANGED lvars
    BY <1>7 DEF vars
  <2>2. /\ ParserInv' /\ UNCHANGED <<st, states>> /\ StateIndex' = StateIndex /\ (Settled' <=> Settled)
    BY <2>1, ParserRests
  <2>3. Counting' /\ MachineTyped'
    BY <2>1, <2>2 DEF Counting, MachineTyped, lvars, LoadInv
  <2>4. AllBuilt'
    <3> SUFFICES ASSUME Settled, phase \in {"loading", "loaded"}, NEW k \in StateIndex
                 PROVE Built(machine[k], states[k], Behind(k))'
      BY <2>1, <2>2 DEF AllBuilt, lvars
    <3>1. Built(machine[k], states[k], Behind(k))
      BY DEF AllBuilt, LoadInv
    <3>2. Behind(k)' = Behind(k) /\ machine' = machine
      BY <2>1, <2>2 DEF Behind, lvars
    <3>3. Built(machine'[k], states[k], Behind(k)')
      BY <3>1, <3>2
    <3>4. QED
      BY <2>2, <3>3, BuiltPrimed
  <2>5. QED
    BY <2>2, <2>3, <2>4 DEF LoadInv
<1>8. QED
  BY <1>1, <1>2, <1>3, <1>4, <1>5, <1>6, <1>7 DEF Next

----------------------------------------------------------------------------
(* From the statements to the machine.                                     *)

LEMMA CopyMeans ==
    ASSUME NEW x, NEW t, NEW s, Copies(x, t), Means(t, s)
    PROVE  Means(x, s)
BY DEF Copies, Means

\* The transitions T of a state are the statements at positions P, by f.
Tells(f, T, n, P) == GoesUp(f, n, P) /\ \A j \in 1..n : Means(T[j], said[f[j]])
Image(f, D) == {f[j] : j \in D}

LEMMA LatestChosen ==
    ASSUME NEW f, NEW T, NEW n, NEW P, Tells(f, T, n, P),
           NEW D \in SUBSET (1..n), NEW x, Latest(x, T, D)
    PROVE  Chosen(x, Image(f, D))
<1>1. /\ n \in Nat /\ P \subseteq Nat /\ f \in [1..n -> P]
      /\ \A i, j \in 1..n : i < j => f[i] < f[j]
      /\ \A j \in 1..n : Means(T[j], said[f[j]])
  BY DEF Tells, GoesUp
<1>2. CASE D = {}
  BY <1>2 DEF Latest, Chosen, Image
<1>3. CASE D # {}
  <2>1. PICK j \in D : Copies(x, T[j]) /\ \A i \in D : i <= j
    BY <1>3 DEF Latest
  <2>2. Means(x, said[f[j]])
    BY <1>1, <2>1, CopyMeans
  <2>3. \A i \in D : f[i] <= f[j]
    <3> SUFFICES ASSUME NEW i \in D PROVE f[i] <= f[j]
      OBVIOUS
    <3>1. f[i] \in Nat /\ f[j] \in Nat /\ i \in Nat /\ j \in Nat /\ i <= j
      <4>1. i \in 1..n /\ j \in 1..n /\ i <= j
        BY <2>1
      <4>2. f[i] \in P /\ f[j] \in P
        BY <1>1, <4>1
      <4>3. f[i] \in Nat /\ f[j] \in Nat
        BY <1>1, <4>2
      <4>4. i \in Nat /\ j \in Nat
        BY <1>1, <4>1
      <4>5. QED
        BY <4>1, <4>3, <4>4
    <3>2. i < j => f[i] < f[j]
      BY <1>1
    <3>3. QED
      BY <3>1, <3>2
  <2>4. f[j] \in Image(f, D) /\ \A q \in Image(f, D) : q <= f[j]
    BY <2>3 DEF Image
  <2>5. QED
    BY <2>2, <2>4 DEF Chosen
<1>4. QED
  BY <1>2, <1>3

LEMMA ListedInOrder ==
    ASSUME NEW f, NEW T, NEW n, NEW P, Tells(f, T, n, P),
           NEW D \in SUBSET (1..n), NEW q \in Seq(MTrans), Listed(q, T, D)
    PROVE  InOrder(q, Image(f, D))
<1>1. GoesUp(f, n, P) /\ \A j \in 1..n : Means(T[j], said[f[j]])
  BY DEF Tells
<1>2. PICK g : GoesUp(g, Len(q), D) /\ \A j \in 1..Len(q) : Copies(q[j], T[g[j]])
  BY DEF Listed
<1> DEFINE h == [j \in 1..Len(q) |-> f[g[j]]]
<1>3. GoesUp(h, Len(q), Image(f, D))
  BY <1>1, <1>2, UpTwice DEF Image
<1>4. ASSUME NEW j \in 1..Len(q) PROVE Means(q[j], said[h[j]])
  <2>1. g[j] \in 1..n
    BY <1>2 DEF GoesUp
  <2>2. Means(T[g[j]], said[f[g[j]]])
    BY <1>1, <2>1
  <2>3. Means(q[j], said[f[g[j]]])
    BY <1>2, <2>2, CopyMeans
  <2>4. QED
    BY <2>3
<1> HIDE DEF h
<1>5. Image(f, D) \in SUBSET Nat /\ DOMAIN q = 1..Len(q) /\ Len(q) \in Nat
  BY <1>3 DEF GoesUp
<1>6. QED
  BY <1>3, <1>4, <1>5, InOrderIs

\* Statements and transitions of one kind.
LEMMA KindsAre ==
    ASSUME Typed, SaidOK, NEW k, NEW f, NEW T, NEW n, Tells(f, T, n, Mine(k))
    PROVE  /\ \A type : Of(k, type) = Image(f, Typ(T, 1..n, type))
           /\ \A c : {p \in Of(k, "none") : U32(said[p].code) = c} = Image(f, Coded(T, 1..n, c))
           /\ \A slot : {p \in Of(k, "data") : Slot(said[p].data) = slot}
                          = Image(f, Slotted(T, 1..n, slot))
<1>1. /\ f \in [1..n -> Mine(k)] /\ \A p \in Mine(k) : \E j \in 1..n : f[j] = p
      /\ \A j \in 1..n : T[j].type = said[f[j]].type /\ T[j].code = said[f[j]].code
  BY DEF Tells, GoesUp, Means
<1>2. ASSUME NEW j \in 1..n, T[j].type = "data" PROVE T[j].data = said[f[j]].data
  <2>1. f[j] \in DOMAIN said
    BY <1>1 DEF Mine
  <2>2. said[f[j]].data \in Event
    BY <1>1, <1>2, <2>1 DEF SaidOK
  <2>3. said[f[j]].data % Word = said[f[j]].data
    BY <2>2, WordFacts
  <2>4. QED
    BY <2>3 DEF Tells, Means
<1>3. \A type : Of(k, type) = Image(f, Typ(T, 1..n, type))
  BY <1>1 DEF Of, Image, Typ
<1>4. \A c : {p \in Of(k, "none") : U32(said[p].code) = c} = Image(f, Coded(T, 1..n, c))
  BY <1>1 DEF Of, Image, Coded
<1>5. \A slot : {p \in Of(k, "data") : Slot(said[p].data) = slot} = Image(f, Slotted(T, 1..n, slot))
  BY <1>1, <1>2 DEF Of, Image, Slotted
<1>6. QED
  BY <1>3, <1>4, <1>5

\* A state whose transitions are all placed.
LEMMA BuiltObeys ==
    ASSUME LoadInv, Settled, NEW k \in StateIndex, NEW m,
           Built(m, states[k], DOMAIN states[k].trans)
    PROVE  Obeys(m, k)
<1> DEFINE s == states[k]
           T == s.trans
           n == Len(T)
           D == 1..n
<1>1. /\ Typed /\ SaidOK /\ s \in State /\ T \in Seq(Trans) /\ n \in Nat /\ DOMAIN T = 1..n
      /\ InOrder(T, Mine(k))
  <2>1. Typed /\ SaidOK /\ TemplateIsText
    BY DEF LoadInv, ParserInv
  <2>2. s \in State
    BY <2>1 DEF Typed, StateIndex
  <2>3. T \in Seq(Trans)
    BY <2>2 DEF State
  <2>4. n \in Nat /\ DOMAIN T = 1..n
    BY <2>3
  <2>5. InOrder(T, Mine(k))
    BY <2>1 DEF TemplateIsText
  <2>6. QED
    BY <2>1, <2>2, <2>3, <2>4, <2>5
<1> HIDE DEF T, n
<1>2. Mine(k) \in SUBSET Nat
  BY <1>1, MineIs
<1>3. PICK f : Tells(f, T, n, Mine(k))
  BY <1>1, <1>2, InOrderIs DEF Tells
<1>4. /\ m \in MState(Capacity(s)) /\ \A j \in D : HasSlot(s, T[j])
      /\ \A c \in DOMAIN m.trans : Latest(m.trans[c], T, Coded(T, D, c))
      /\ Listed(m.tick, T, Typ(T, D, "tick"))
      /\ Listed(m.sign, T, Typ(T, D, "sign"))
      /\ \A slot \in SlotNames : Latest(m[slot], T, Slotted(T, D, slot))
  BY <1>1 DEF Built, T
<1>5. DOMAIN m.trans = 0..(Capacity(s) - 1) /\ m.tick \in Seq(MTrans) /\ m.sign \in Seq(MTrans)
  BY <1>4 DEF MState
<1>6. /\ \A type : Typ(T, D, type) \in SUBSET (1..n)
      /\ \A c : Coded(T, D, c) \in SUBSET (1..n)
      /\ \A slot : Slotted(T, D, slot) \in SUBSET (1..n)
  BY DEF Typ, Coded, Slotted
<1>7. /\ \A type : Of(k, type) = Image(f, Typ(T, 1..n, type))
      /\ \A c : {p \in Of(k, "none") : U32(said[p].code) = c} = Image(f, Coded(T, 1..n, c))
      /\ \A slot : {p \in Of(k, "data") : Slot(said[p].data) = slot}
                     = Image(f, Slotted(T, 1..n, slot))
  BY <1>1, <1>3, KindsAre
<1>8. \A p \in Of(k, "none") : U32(said[p].code) \in DOMAIN m.trans
  <2> SUFFICES ASSUME NEW p \in Of(k, "none") PROVE U32(said[p].code) \in DOMAIN m.trans
    OBVIOUS
  <2>1. PICK j \in 1..n : T[j].type = "none" /\ f[j] = p
    BY <1>7 DEF Image, Typ
  <2>2. T[j].code = said[p].code
    BY <1>3, <2>1 DEF Tells, Means
  <2>3. U32(T[j].code) < Capacity(s)
    BY <1>4, <2>1 DEF HasSlot
  <2>4. U32(T[j].code) \in Nat
    BY <1>1, CodeIsNat
  <2>5. Capacity(s) \in Nat
    BY <1>1, CapacityIsNat
  <2> HIDE DEF s
  <2>6. QED
    BY <1>5, <2>2, <2>3, <2>4, <2>5
<1>9. \A c \in DOMAIN m.trans : Chosen(m.trans[c], {p \in Of(k, "none") : U32(said[p].code) = c})
  <2> SUFFICES ASSUME NEW c \in DOMAIN m.trans
               PROVE  Chosen(m.trans[c], {p \in Of(k, "none") : U32(said[p].code) = c})
    OBVIOUS
  <2>1. Latest(m.trans[c], T, Coded(T, D, c)) /\ Coded(T, D, c) \in SUBSET (1..n)
    BY <1>4, <1>6
  <2>2. Chosen(m.trans[c], Image(f, Coded(T, D, c)))
    BY <1>3, <2>1, LatestChosen
  <2>3. QED
    BY <1>7, <2>2
<1>10. InOrder(m.tick, Of(k, "tick"))
  <2>1. InOrder(m.tick, Image(f, Typ(T, D, "tick")))
    BY <1>3, <1>4, <1>5, <1>6, ListedInOrder
  <2>2. QED
    BY <1>7, <2>1
<1>11. InOrder(m.sign, Of(k, "sign"))
  <2>1. InOrder(m.sign, Image(f, Typ(T, D, "sign")))
    BY <1>3, <1>4, <1>5, <1>6, ListedInOrder
  <2>2. QED
    BY <1>7, <2>1
<1>12. \A slot \in SlotNames : Chosen(m[slot], {p \in Of(k, "data") : Slot(said[p].data) = slot})
  <2> SUFFICES ASSUME NEW slot \in SlotNames
               PROVE  Chosen(m[slot], {p \in Of(k, "data") : Slot(said[p].data) = slot})
    OBVIOUS
  <2>1. Latest(m[slot], T, Slotted(T, D, slot)) /\ Slotted(T, D, slot) \in SUBSET (1..n)
    BY <1>4, <1>6
  <2>2. Chosen(m[slot], Image(f, Slotted(T, D, slot)))
    BY <1>3, <2>1, LatestChosen
  <2>3. QED
    BY <1>7, <2>2
<1>13. QED
  BY <1>8, <1>9, <1>10, <1>11, <1>12, Zenon DEF Obeys, SlotNames

\* What the invariant says of the properties.
LEMMA LoadInvMeans == LoadInv => TypeOK /\ TemplateIsText /\ AcceptedFits /\ MachineIsText
<1> SUFFICES ASSUME LoadInv PROVE TypeOK /\ TemplateIsText /\ AcceptedFits /\ MachineIsText
  OBVIOUS
<1>1. /\ TemplateIsText /\ Typed /\ Pointers /\ Counting /\ MachineTyped /\ AllBuilt
      /\ \A i \in StateIndex : states[i] \in State
  BY DEF LoadInv, ParserInv, Typed, StateIndex
<1>2. ParserTypeOK
  <2>1. \A i \in StateIndex :
          /\ states[i].name \in Name \cup Reserved \cup {Torn}
          /\ {states[i].ntrans, states[i].maxCode, states[i].maxTick, states[i].maxSign}
                \subseteq 0..(Word - 1)
    BY <1>1 DEF State, Datum
  <2>2. \A i \in StateIndex : \A j \in DOMAIN states[i].trans : TransOK(states[i].trans[j])
    <3> SUFFICES ASSUME NEW i \in StateIndex, NEW j \in DOMAIN states[i].trans
                 PROVE  TransOK(states[i].trans[j])
      OBVIOUS
    <3>1. states[i].trans \in Seq(Trans)
      BY <1>1 DEF State
    <3>2. states[i].trans[j] \in Trans
      BY <3>1
    <3>3. states[i].trans[j].dst \in StateIndex \cup {NULL, Dangling}
      BY <1>1 DEF Pointers
    <3>4. QED
      BY <3>2, <3>3 DEF TransOK, Trans, Types, Flags, Datum
  <2>3. /\ eti.src \in StateIndex \cup {NULL} /\ eti.dst \in StateIndex \cup {NULL}
        /\ eti.type \in {"none", "tick", "data", "sign"}
    BY <1>1 DEF Pointers, Typed, Eti, Types
  <2>4. QED
    BY <2>1, <2>2, <2>3 DEF ParserTypeOK
<1>3. TypeOK
  BY <1>1, <1>2 DEF TypeOK, Counting, MachineTyped, StateIndex
<1>4. MachineIsText
  <2> SUFFICES ASSUME Settled, phase = "loaded", NEW k \in DOMAIN machine PROVE Obeys(machine[k], k)
    BY DEF MachineIsText
  <2>1. k \in StateIndex /\ Built(machine[k], states[k], Behind(k))
    BY <1>1 DEF MachineTyped, AllBuilt
  <2>2. Behind(k) = DOMAIN states[k].trans
    <3>1. StateIndex = 1..Len(states) /\ Len(states) \in Nat /\ stateNo = Len(states)
          /\ transNo = Len(states[stateNo].trans) + 1
      BY <1>1 DEF Typed, StateIndex, Counting
    <3>2. states[k].trans \in Seq(Trans)
      BY <1>1, <2>1 DEF State
    <3>3. k < stateNo \/ (k = stateNo /\ ~(k < stateNo))
      BY <2>1, <3>1
    <3>4. k = stateNo => 1..(transNo - 1) = DOMAIN states[k].trans
      BY <3>1, <3>2
    <3>5. QED
      BY <3>3, <3>4 DEF Behind
  <2>3. QED
    BY <2>1, <2>2, BuiltObeys
<1>5. AcceptedFits
  BY NextIs DEF AcceptedFits
<1>6. QED
  BY <1>1, <1>3, <1>4, <1>5

----------------------------------------------------------------------------

\* Parser and loader keep the invariant.
LEMMA LoadInvariant == Spec => []LoadInv
BY LoadStart, LoadStep, PTL DEF Spec

\* What the parser and the loader keep is of its type: states in the array, the
\* pointers of the statement at states of this array, counters in a word.
THEOREM LoadTypeCorrect == Spec => []TypeOK
BY LoadInvariant, LoadInvMeans, PTL

\* A template is what its text says, after every token and for any number of
\* states and statements, as long as no transition points to where the array of
\* states was before it grew: the transitions of a state are the statements that
\* name it, in their order, an interval modulo 2^32, and nothing of one statement
\* is left in another (esma_template.c:934-952).
THEOREM TemplateCorrect == Spec => []TemplateIsText
BY LoadInvariant, LoadInvMeans, PTL

\* An accepted template of at most StateCap states without code -1 is not
\* refused for what is in it: the arrays the loader sizes by ntrans and the three
\* largest codes have room for every transition, and no next state dangles
\* (esma_load.c:65-86, 91-205).
THEOREM LoadingCorrect == Spec => []AcceptedFits
BY LoadInvariant, LoadInvMeans, PTL

\* End to end: the transitions a loaded machine runs are those of its text, with
\* the same exception, and every code of its messages is an index of its array.
THEOREM MachineCorrect == Spec => []MachineIsText
BY LoadInvariant, LoadInvMeans, PTL
=============================================================================
