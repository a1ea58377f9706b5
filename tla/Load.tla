-------------------------------- MODULE Load --------------------------------
(***************************************************************************)
(* engine/esma_load.c: from a template the parser accepted to the states   *)
(* of a machine, whose arrays of transitions the engine indexes by code    *)
(* (messages), by position (timers and signals) or by event (data).        *)
(*                                                                         *)
(* A step of the loader places one transition.  load_tool() finds the      *)
(* callbacks by name; it and the allocations may fail.  The arrays are     *)
(* taken to have less than 2^32 bytes, whose offsets are u32.              *)
(***************************************************************************)
EXTENDS Template

VARIABLES
    phase,      \* "template", "loading", and esma_load's results: "loaded" and
                \* "unloadable", or "crashed"
    machine,    \* esma->states
    stateNo,    \* i and j of _esma_prepare_trans, from 1: the state and the
    transNo     \*   transition that are next

lvars == <<phase, machine, stateNo, transNo>>
vars == <<pvars, lvars>>

LoadInit ==
    /\ Init
    /\ phase = "template" /\ machine = <<>> /\ stateNo = 1 /\ transNo = 1

\* A zeroed struct trans.
Unset == [code |-> 0, dst |-> NULL, type |-> "empty", data |-> 0, flags |-> "none"]

\* Slots of the array of a state's transitions.
BUG_Capacity(s) == (s.ntrans + 1) % Word        \* codes need not be consecutive
Capacity(s) == (Larger(s.maxCode, s.ntrans) + 1) % Word

\* First capacity of the arrays of timers and signals, which grow when
\* statements repeat a code.
Room(code) == (code + 1) % Word

\* _esma_prepare_states.
Prepared(s) ==
    [trans |-> [c \in 0..(Capacity(s) - 1) |-> Unset], tick |-> <<>>, sign |-> <<>>,
     pollin |-> Unset, pollout |-> Unset, pollerr |-> Unset]

\* _esma_find_next_state_by_name: the first state of that name.  A dangling
\* pointer may lead to any name.
Target(d, wild) == IF d = NULL THEN NULL
                   ELSE IF d = Dangling THEN wild
                   ELSE Find(states[d].name, NULL)

\* The slot a data transition takes.
Slot(event) == CASE event = POLLIN  -> "pollin"
                 [] event = POLLOUT -> "pollout"
                 [] OTHER           -> "pollerr"

BUG_Placed(s, t) ==     \* the first timer takes the slot of every other
    CASE t.type = "none" -> [s EXCEPT !.trans[U32(t.code)] = t]
      [] t.type = "tick" -> [s EXCEPT !.tick = <<t>>]
      [] t.type = "sign" -> [s EXCEPT !.sign = Append(@, t)]
      [] t.type = "data" -> [s EXCEPT ![Slot(t.data)] = t]
Placed(s, t) ==
    CASE t.type = "none" -> [s EXCEPT !.trans[U32(t.code)] = t]
      [] t.type = "tick" -> [s EXCEPT !.tick = Append(@, t)]
      [] t.type = "sign" -> [s EXCEPT !.sign = Append(@, t)]
      [] t.type = "data" -> [s EXCEPT ![Slot(t.data)] = t]

\* esma_array_n() of a code outside the array is NULL; esma_array_push() too when
\* the array is to grow from a capacity of 0.
HasSlot(s, t) == CASE t.type = "none" -> U32(t.code) < Capacity(s)
                   [] t.type = "tick" -> Room(s.maxTick) # 0
                   [] t.type = "sign" -> Room(s.maxSign) # 0
                   [] t.type = "data" -> TRUE

\* esma_machine_new loads what esma_template_set_by_path accepted.
PrepareStates ==
    /\ phase = "template" /\ st = "accepted" /\ phase' = "loading"
    /\ machine' = [k \in DOMAIN states |-> Prepared(states[k])]
    /\ UNCHANGED <<pvars, stateNo, transNo>>

MoreTrans == transNo \in DOMAIN states[stateNo].trans
NextTrans == states[stateNo].trans[transNo]

\* The inner loop of _esma_prepare_trans.
PrepareTrans ==
    /\ phase = "loading" /\ MoreTrans /\ HasSlot(states[stateNo], NextTrans)
    /\ \E wild \in DOMAIN states :
          LET t == [NextTrans EXCEPT !.dst = Target(NextTrans.dst, wild)]
          IN  machine' = [machine EXCEPT ![stateNo] = Placed(@, t)]
    /\ transNo' = transNo + 1
    /\ UNCHANGED <<pvars, phase, stateNo>>

NextState ==
    /\ phase = "loading" /\ ~MoreTrans /\ stateNo < Len(states)
    /\ stateNo' = stateNo + 1 /\ transNo' = 1
    /\ UNCHANGED <<pvars, phase, machine>>

Loaded ==
    /\ phase = "loading" /\ ~MoreTrans /\ stateNo = Len(states) /\ phase' = "loaded"
    /\ UNCHANGED <<pvars, machine, stateNo, transNo>>

\* No memory or no enter function; or, for a transition, no action, no state of
\* that name, or no slot.
CannotLoad ==
    /\ \/ phase = "template" /\ st = "accepted"
       \/ /\ phase = "loading" /\ MoreTrans
          /\ IF HasSlot(states[stateNo], NextTrans)
             THEN \/ NextTrans.dst \in {NULL, Dangling}
                  \/ /\ NextTrans.type = "sign"
                     /\ Full(Len(machine[stateNo].sign), Room(states[stateNo].maxSign))
             ELSE NextTrans.type # "tick"
    /\ phase' = "unloadable"
    /\ UNCHANGED <<pvars, machine, stateNo, transNo>>

\* The slot of a timer is written before it is compared with NULL; and a next
\* state may be where the array of states was.
Crashes ==
    /\ phase = "loading" /\ MoreTrans
    /\ \/ /\ NextTrans.type = "tick"
          /\ Full(Len(machine[stateNo].tick), Room(states[stateNo].maxTick))
       \/ HasSlot(states[stateNo], NextTrans) /\ NextTrans.dst = Dangling
    /\ phase' = "crashed"
    /\ UNCHANGED <<pvars, machine, stateNo, transNo>>

Next ==
    \/ Parse /\ UNCHANGED lvars
    \/ PrepareStates \/ PrepareTrans \/ NextState \/ Loaded \/ CannotLoad \/ Crashes

Spec == LoadInit /\ [][Next]_vars

----------------------------------------------------------------------------
(* Properties.                                                             *)

TypeOK ==
    /\ ParserTypeOK
    /\ phase \in {"template", "loading", "loaded", "unloadable", "crashed"}
    /\ phase \in {"loading", "loaded"} => DOMAIN machine = DOMAIN states
    /\ stateNo \in DOMAIN states /\ transNo \in 1..(Len(states[stateNo].trans) + 1)

\* Code -1 makes a counter the largest u32, and the capacity one above it 0.
CountersEnd == \A p \in DOMAIN said : said[p].type # "data" => said[p].code # -1

\* What the parser accepted can be loaded: the arrays it sizes have room for
\* every code and every timer and signal, and every target is found, unless a
\* code is -1 or the array of states grew.
AcceptedFits ==
    Fits /\ CountersEnd /\ phase = "loading" /\ MoreTrans =>
        HasSlot(states[stateNo], NextTrans) /\ NextTrans.dst # Dangling

Of(k, type) == {p \in Mine(k) : said[p].type = type}
\* The last of the statements at positions P, or none.
Chosen(t, P) == IF P = {} THEN t = Unset
                ELSE \E p \in P : Means(t, said[p]) /\ \A q \in P : q <= p

\* End to end, a machine obeys the text of its template.
\* - A message runs the last statement with its code; other codes are unset.
\* - Timers and signals are in the order of their statements, whatever their
\*   codes.
\* - An event runs the last data statement for it; errors and hang-ups are one.
Obeys(m, k) ==
    /\ \A p \in Of(k, "none") : U32(said[p].code) \in DOMAIN m.trans
    /\ \A c \in DOMAIN m.trans :
          Chosen(m.trans[c], {p \in Of(k, "none") : U32(said[p].code) = c})
    /\ InOrder(m.tick, Of(k, "tick")) /\ InOrder(m.sign, Of(k, "sign"))
    /\ \A slot \in {"pollin", "pollout", "pollerr"} :
          Chosen(m[slot], {p \in Of(k, "data") : Slot(said[p].data) = slot})
MachineIsText == Settled /\ phase = "loaded" => \A k \in DOMAIN machine : Obeys(machine[k], k)
=============================================================================
