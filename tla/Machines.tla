------------------------------ MODULE Machines ------------------------------
(***************************************************************************)
(* engine/esma_machine.c: the life of a machine, from the block of the     *)
(* engine's pool it is made in to the block's return, with the channels it *)
(* adds to the poll reactor.                                               *)
(*                                                                         *)
(* A machine is named by its block, and so is its io channel, which is     *)
(* inside it.  The channels of its timers and signals are in memory of     *)
(* their own, which is freed with it; one that is made later is another    *)
(* channel, wherever it lies.                                              *)
(***************************************************************************)
EXTENDS PollReactor, Mempool

\* The io channel of a machine is part of its block.
ASSUME MachineAssumption == Io = Block

VARIABLES
    life,       \* [Block -> where its machine is]
    hard,       \* [Block -> channels of its machine's timers and signals]
    left,       \* channels in the reactor whose machine was deleted
    sound       \* memory is as C and the reactor require; nothing follows FALSE

machineVars == <<vars, poolVars, life, hard, left, sound>>

\* "none": no machine; "new": not run yet, current_state is not set; "work",
\* "fini": run, and in a state that is not, or is, fini; "lost": not initialised.
Lives == {"none", "new", "work", "fini", "lost"}

MachineInit ==
    /\ Init /\ PoolInit
    /\ life = [b \in Block |-> "none"]
    /\ hard = [b \in Block |-> {}]
    /\ left = {} /\ sound = TRUE

Live(b) == life[b] \in {"new", "work", "fini"}
Becomes(b, l) == life' = [life EXCEPT ![b] = l]

\* The type of b's io channel is not ESMA_CH_NONE: esma_machine_new sets NONE
\* and does not look whether the block is still watched.
HasIo(b) == b \in used \ left

\* The step frees or writes memory it does not own, or breaks the reactor's
\* tables, which are not followed from there.
Breaks == sound' = FALSE /\ UNCHANGED <<vars, poolVars, life, hard, left>>

\* esma_machine_new, when nothing fails.  Of the channels of a template one
\* is enough here.
NewMachine(b) ==
    /\ GetBlock(b) /\ Becomes(b, "new") /\ UNCHANGED <<left, sound>>
    /\ \/ UNCHANGED <<vars, hard>>
       \/ \E c \in Hard : Add(c, {}) /\ hard' = [hard EXCEPT ![b] = {c}]

\* When the template does not load, or a descriptor cannot be had, for the
\* first channel or for the second: esma_machine_del refuses a machine that is
\* not in fini.  The block is lost, and the first channel stays.
BUG_FailedMachine(b) ==     \* the block is put back, its channel stays
    /\ basket # <<>> /\ b = Head(basket)
    /\ \E c \in Hard : Add(c, {}) /\ hard' = [hard EXCEPT ![b] = {c}]
    /\ UNCHANGED <<poolVars, life, left, sound>>
FailedMachine(b) ==
    /\ GetBlock(b) /\ Becomes(b, "lost") /\ UNCHANGED <<left, sound>>
    /\ \/ UNCHANGED <<vars, hard>>
       \/ \E c \in Hard : Add(c, {}) /\ hard' = [hard EXCEPT ![b] = {c}]

\* When the array of states cannot be had, for a block that was used: it still
\* looks like its last machine, in fini, so esma_machine_del frees the arrays of
\* that machine again.  (A block of a page looks like none and is lost.)
FailedStates == basket # <<>> /\ Breaks

NoMachine == NoBlock /\ UNCHANGED <<vars, life, hard, left, sound>>

\* esma_machine_run, of any machine: to init, whatever its state.
RunMachine(b) ==
    /\ Live(b) /\ Becomes(b, "work")
    /\ UNCHANGED <<vars, poolVars, hard, left, sound>>

\* The dispatcher takes the machine to fini.
Ends(b) ==
    /\ life[b] = "work" /\ Becomes(b, "fini")
    /\ UNCHANGED <<vars, poolVars, hard, left, sound>>

RestartMachine(b) ==
    /\ life[b] = "fini" /\ Becomes(b, "work")
    /\ UNCHANGED <<vars, poolVars, hard, left, sound>>

\* esma_machine_del looks at the state only: whatever the reactor watches for
\* the machine stays there, its io channel in a block that is free, the others in
\* memory that is freed.
DelMachine(b) ==
    /\ life[b] = "fini" /\ PutBlock(b) /\ Becomes(b, "none")
    /\ hard' = [hard EXCEPT ![b] = {}]
    /\ left' = left \cup hard[b] \cup ({b} \cap used)
    /\ UNCHANGED <<vars, sound>>

\* esma_machine_init_io_channel, which does nothing when there is an io channel.
\* A channel that is left in the reactor would be there twice.
InitIo(b) ==
    /\ Live(b) /\ ~HasIo(b)
    /\ \/ Add(b, {}) /\ UNCHANGED <<poolVars, life, hard, left, sound>>
       \/ b \in used /\ Breaks

\* esma_machine_free_io_channel goes by the descriptor, which esma_machine_new
\* does not clear: it also deletes a channel that is left.  del writes the index
\* of the last channel, whose memory may be freed.
FreeIo(b) ==
    LET moved == channels[nitems - 1] IN
    /\ Live(b) /\ b \in used
    /\ \/ /\ moved \notin Hard \cap left
          /\ Del(b) /\ left' = left \ {b}
          /\ UNCHANGED <<poolVars, life, hard, sound>>
       \/ moved \in Hard \cap left /\ Breaks

\* esma_machine_mod_io_channel, which does nothing without an io channel.
ModIo(b, m) ==
    /\ Live(b) /\ HasIo(b) /\ Mod(b, m)
    /\ UNCHANGED <<poolVars, life, hard, left, sound>>

\* esma_machine_mod_channel.
ModHard(b, c, m) ==
    /\ Live(b) /\ c \in hard[b] /\ Mod(c, m)
    /\ UNCHANGED <<poolVars, life, hard, left, sound>>

MachineNext ==
    /\ sound /\ addr # "undefined"
    /\ \/ NoMachine \/ FailedStates
       \/ \E b \in Block :
            \/ NewMachine(b) \/ FailedMachine(b) \/ DelMachine(b)
            \/ RunMachine(b) \/ Ends(b) \/ RestartMachine(b)
            \/ InitIo(b) \/ FreeIo(b)
            \/ \E m \in Mask : ModIo(b, m) \/ \E c \in hard[b] : ModHard(b, c, m)

MachineSpec == MachineInit /\ [][MachineNext]_machineVars

----------------------------------------------------------------------------
(* Properties.                                                             *)

MachineTypeOK ==
    /\ TypeOK /\ PoolTypeOK
    /\ life \in [Block -> Lives]
    /\ hard \in [Block -> SUBSET Hard]
    /\ left \subseteq Channel /\ sound \in BOOLEAN

\* What the reactor watches is in memory of a machine whose block is taken, and
\* of one machine only, but for what esma_machine_del left there: nothing else
\* leaves a channel behind, neither a machine that cannot be made nor a block's
\* next machine, and what was left is no machine's timer or signal.
ChannelsHaveOwners ==
    /\ \A c \in (used \ left) \cap Io : Live(c)
    /\ \A c \in (used \ left) \cap Hard : \E b \in taken : c \in hard[b]
    /\ \A b \in Block : hard[b] \subseteq used \ left
    /\ \A a, b \in Block : a # b => hard[a] \cap hard[b] = {}
    /\ \A b \in Block : b \in taken <=> life[b] # "none"
    /\ left \subseteq used
=============================================================================
