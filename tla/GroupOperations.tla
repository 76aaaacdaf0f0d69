-------------------------- MODULE GroupOperations --------------------------
(***************************************************************************)
(* What the group-management commands promise their callers, whatever      *)
(* interleaving, crash, lost reply, retry or key rotation lies behind it:  *)
(* an operation id of an actor takes effect at most once, on the version   *)
(* of the group it expects, and everyone who is told that it succeeded is  *)
(* told the same result (GroupRepository.commit and findOperation).        *)
(***************************************************************************)
EXTENDS Integers

CONSTANTS
    Operations,     \* operation ids, each within the namespace of its actor
    Groups,
    Commands,       \* the commands an operation id can be used for
    Versions,       \* versions of a group; 0 stands for 'Absent'
    Null

VARIABLES
    version,        \* version of each group
    outcome,        \* the stored result of each operation, or Null
    replies         \* successes reported to callers

vars == <<version, outcome, replies>>

Init ==
    /\ version = [g \in Groups |-> 0]
    /\ outcome = [o \in Operations |-> Null]
    /\ replies = {}

\* Only someone who sent the very command that took effect is told its result.
Told(o, result) == [operation |-> o, command |-> result.command, result |-> result]

\* Operation o takes effect on g, once, as command: it creates g, moves it to
\* the next version, or, changing nothing, confirms the version it read.  Whoever
\* waits for it may be told at once.
Execute(o, g, command) ==
    /\ outcome[o] = Null
    /\ \E v \in {version[g], version[g] + 1} \cap (Versions \ {0}) :
           LET result == [group |-> g, command |-> command, base |-> version[g],
                          version |-> v]
           IN  /\ version' = [version EXCEPT ![g] = v]
               /\ outcome' = [outcome EXCEPT ![o] = result]
               /\ replies' \in {replies,
                                replies \cup {Told(o, result)}}

\* Later callers are told the stored result.
Answer(o) ==
    /\ outcome[o] # Null
    /\ replies' = replies \cup {Told(o, outcome[o])}
    /\ UNCHANGED <<version, outcome>>

Next ==
    \E o \in Operations :
        \/ \E g \in Groups, command \in Commands : Execute(o, g, command)
        \/ Answer(o)

Spec == Init /\ [][Next]_vars
=============================================================================
