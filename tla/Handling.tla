------------------------------ MODULE Handling ------------------------------
(***************************************************************************)
(* The frame that every kind of payload is handled in: it comes, the code  *)
(* makes something of it, at once or in a number of steps, and the next    *)
(* one of its kind may come.                                               *)
(***************************************************************************)
EXTENDS Integers

CONSTANTS MaxSteps    \* the most steps that one exchange takes

ASSUME HandlingAssumption == MaxSteps \in Nat

VARIABLES
    turn,    \* the kind of payload that comes in
    kind,    \* what has been handled
    given,   \* what it was made from
    got      \* what the code made of it

vars == <<turn, kind, given, got>>

Kinds == {"body", "bytes", "frame", "damaged frame", "attach", "snapshot", "damaged snapshot",
          "command", "energy", "call", "stream", "sign-in", "pad", "description", "session",
          "registration", "certificate"}

NoneGiven == "nothing"
Init == turn \in Kinds /\ kind = "idle" /\ given = NoneGiven /\ got = NoneGiven

Comes(k) == turn = k /\ kind = "idle"
Handled(input, output) == kind' = turn /\ given' = input /\ got' = output /\ UNCHANGED turn

\* An exchange that goes on: what it was made from so far is in given.
GoesOn(k) == turn = k /\ kind = k
Follows(input, output) == given' = input /\ got' = output /\ UNCHANGED <<turn, kind>>

Rest == kind # "idle" /\ kind' = "idle" /\ given' = NoneGiven /\ got' = NoneGiven /\ UNCHANGED turn

\* Any step in the handling of other kinds of payload.
Elsewhere(kinds) == turn \notin kinds /\ kind' \in {turn, "idle"} /\ UNCHANGED turn

=============================================================================
