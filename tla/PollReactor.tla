---------------------------- MODULE PollReactor ----------------------------
(***************************************************************************)
(* engine/modules/esma_reactor_poll.c: the two parallel arrays of the poll *)
(* reactor, and the index each channel keeps of its entry; with the        *)
(* functions of esma_machine.c that use them.                              *)
(*                                                                         *)
(* A descriptor is named by the channel it was opened for.  Allocations    *)
(* succeed.  The channels of timers and signals are added once; an io      *)
(* channel comes and goes with its connection.                             *)
(***************************************************************************)
EXTENDS Integers

CONSTANTS
    Hard,       \* channels of timers and signals
    Io,         \* io channels of machines
    Event,      \* POLLIN, POLLOUT
    Nobody,     \* a NULL channel
    InitCap,    \* the arrays' first capacity, 32
    MaxCap      \* bound: capacity of the arrays

Channel == Hard \cup Io
Mask    == SUBSET Event
Entry   == [fd: Channel \cup {Nobody}, events: Mask]

ASSUME PollAssumption ==
    /\ Hard \cap Io = {} /\ Nobody \notin Channel
    /\ InitCap \in Nat \ {0} /\ MaxCap \in Nat /\ InitCap <= MaxCap

VARIABLES
    list,       \* event_list.items: entries 0..cap-1, used or not
    channels,   \* channels.items
    cap,        \* the capacity of both arrays
    nitems,     \* and their number of items
    index,      \* [Channel -> ch->index]
    used        \* channels added and not deleted (io: type is not ESMA_CH_NONE)

vars == <<list, channels, cap, nitems, index, used>>

Cleared == [fd |-> Nobody, events |-> {}]

\* poll_reactor__init: the arrays come from calloc.
Init ==
    /\ cap = InitCap /\ nitems = 0
    /\ list = [i \in 0..(cap - 1) |-> Cleared]
    /\ channels = [i \in 0..(cap - 1) |-> Nobody]
    /\ index = [c \in Channel |-> 0]
    /\ used = {}

\* What esma_array_push leaves of slot i: realloc does not clear what it adds.
Kept(i, junk)  == IF i < cap THEN list[i] ELSE [fd |-> Nobody, events |-> junk]
KeptChannel(i) == IF i < cap THEN channels[i] ELSE Nobody

\* The capacity with which one more item is pushed.
BUG_Room == IF nitems > cap THEN 2 * cap ELSE cap
Room == IF nitems = cap THEN 2 * cap ELSE cap

\* add: a new last entry.  __mod__ is skipped when no event is asked for: the
\* entry then keeps the mask its memory holds.
Add(c, m) ==
    /\ c \notin used
    /\ cap' = Room /\ cap' <= MaxCap
    /\ \E junk \in Mask :
          list' = [i \in 0..(cap' - 1) |->
              IF i # nitems THEN Kept(i, junk)
              ELSE [fd |-> c, events |-> IF m = {} THEN Kept(i, junk).events ELSE m]]
    /\ channels' = [i \in 0..(cap' - 1) |-> IF i = nitems THEN c ELSE KeptChannel(i)]
    /\ nitems' = nitems + 1
    /\ index' = [index EXCEPT ![c] = nitems]
    /\ used' = used \cup {c}

\* del, for esma_machine_free_io_channel: pop clears the last entry, which then
\* takes the place of the channel's, and the channel is set to zero.
BUG_Del(c) ==           \* the moved channel keeps its index
    LET i == index[c]  last == nitems - 1 IN
    /\ c \in used
    /\ nitems' = last
    /\ list' = [list EXCEPT ![last] = Cleared, ![i] = list[last]]
    /\ channels' = [channels EXCEPT ![last] = Nobody, ![i] = channels[last]]
    /\ index' = [index EXCEPT ![c] = 0]
    /\ used' = used \ {c}
    /\ UNCHANGED cap
Del(c) ==
    LET i == index[c]  last == nitems - 1 IN
    /\ c \in used
    /\ nitems' = last
    /\ list' = [list EXCEPT ![last] = Cleared, ![i] = list[last]]
    /\ channels' = [channels EXCEPT ![last] = Nobody, ![i] = channels[last]]
    /\ index' = [index EXCEPT ![channels[last]] = i, ![c] = 0]
    /\ used' = used \ {c}
    /\ UNCHANGED cap

\* mod, for esma_machine_mod_channel and esma_machine_mod_io_channel.
Mod(c, m) ==
    /\ c \in used
    /\ list' = [list EXCEPT ![index[c]].events = m]
    /\ UNCHANGED <<channels, cap, nitems, index, used>>

Next ==
    \/ \E c \in Channel, m \in Mask : Add(c, m) \/ Mod(c, m)
    \/ \E c \in Io : Del(c)

Spec == Init /\ [][Next]_vars

----------------------------------------------------------------------------
(* Properties.                                                             *)

TypeOK ==
    /\ cap \in InitCap..MaxCap /\ nitems \in 0..cap
    /\ list \in [0..(cap - 1) -> Entry]
    /\ channels \in [0..(cap - 1) -> Channel \cup {Nobody}]
    /\ index \in [Channel -> Nat]
    /\ used \subseteq Channel

\* The arrays hold each channel in use once, where its index says, and nothing
\* else: what poll() reports of an entry goes to the channel of that entry's
\* descriptor, and mod and del change no entry but the channel's own.
TableOK ==
    /\ \A c \in used :
          /\ index[c] < nitems
          /\ channels[index[c]] = c
          /\ list[index[c]].fd = c
    /\ \A i \in 0..(nitems - 1) : channels[i] \in used /\ index[channels[i]] = i

R == INSTANCE Reactor WITH watched <- [c \in used |-> list[index[c]].events]
ImplementsReactor == R!Spec
=============================================================================
