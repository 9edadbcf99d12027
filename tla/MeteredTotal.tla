---------------------------- MODULE MeteredTotal -----------------------------
(***************************************************************************)
(* What an energy sensor promises its reader, with no polls, windows,       *)
(* buckets or revisions: a register that grows, while it is remembered, by  *)
(* nothing but metered energy.                                             *)
(*                                                                         *)
(* A register is empty, or holds a total somebody else counted, or has been *)
(* given a base and counts its meter.  Each load of the config entry has    *)
(* its own registers, and one copy of them is on disk.  EnergyLedger        *)
(* implements this specification.                                          *)
(***************************************************************************)
EXTENDS Integers

CONSTANTS
    Keys,    \* metered property keys
    Loads,   \* loads of the config entry
    Seeds    \* totals counted elsewhere

VARIABLES
    meter,    \* meter[k]: all the energy key k has ever drawn
    memory,   \* memory[c][k]: the register load c has for key k
    disk      \* disk[k]: the register a next load will start from

vars == <<meter, memory, disk>>

Empty == [known |-> FALSE, metered |-> FALSE, total |-> 0, base |-> 0]

Blank == [k \in Keys |-> Empty]

\* Nothing was booked that the meter did not draw after the base was taken.
Backed(k, r) == r.metered => r.total + r.base <= meter[k]

Init ==
    /\ meter = [k \in Keys |-> 0]
    /\ memory = [c \in Loads |-> Blank]
    /\ disk = Blank

Draw ==
    /\ \A k \in Keys : meter'[k] >= meter[k]
    /\ UNCHANGED <<memory, disk>>

\* Only the register of (c, k) changes, into one that is backed by its meter.
Rewrites(c, k) ==
    /\ memory' = [memory EXCEPT ![c][k] = memory'[c][k]]
    /\ Backed(k, memory'[c][k])
    /\ UNCHANGED <<meter, disk>>

\* An empty register takes over a total.
Adopt(c, k) ==
    /\ ~memory[c][k].known
    /\ \E total \in Seeds :
         memory'[c][k] = [known |-> TRUE, metered |-> FALSE, total |-> total, base |-> 0]
    /\ Rewrites(c, k)

\* A register that does not count yet takes its base, and shows what it showed.
TakeBase(c, k) ==
    /\ ~memory[c][k].metered
    /\ memory'[c][k].known
    /\ memory'[c][k].metered
    /\ memory'[c][k].total = memory[c][k].total
    /\ Rewrites(c, k)

\* A register that counts books energy.
Book(c, k) ==
    /\ memory[c][k].metered
    /\ memory'[c][k].known
    /\ memory'[c][k].metered
    /\ memory'[c][k].base = memory[c][k].base
    /\ memory'[c][k].total >= memory[c][k].total
    /\ Rewrites(c, k)

Load(c) ==
    /\ memory[c] = Blank
    /\ memory' = [memory EXCEPT ![c] = disk]
    /\ UNCHANGED <<meter, disk>>

Save(c) ==
    /\ disk' = memory[c]
    /\ UNCHANGED <<meter, memory>>

\* The process dies, and every load with it.
Lose ==
    /\ memory' = [c \in Loads |-> Blank]
    /\ UNCHANGED <<meter, disk>>

Wipe ==
    /\ disk' = Blank
    /\ UNCHANGED <<meter, memory>>

Next ==
    \/ Draw
    \/ Lose
    \/ Wipe
    \/ \E c \in Loads :
         \/ Load(c)
         \/ Save(c)
         \/ \E k \in Keys : Adopt(c, k) \/ TakeBase(c, k) \/ Book(c, k)

Spec == Init /\ [][Next]_vars
=============================================================================
