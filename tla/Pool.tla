-------------------------------- MODULE Pool --------------------------------
(***************************************************************************)
(* What the users of a MemPool rely on: an object that is handed out is not *)
(* handed out again before it is returned, and returning what is not out is *)
(* refused and changes nothing.                                             *)
(***************************************************************************)
EXTENDS Integers

CONSTANTS Objects,  \* everything a pointer can point to
          NULL      \* the null pointer

VARIABLES
    live,   \* the objects handed out
    reply   \* what the last call answered, and of which object

Answer(answer, p) == [answer |-> answer, node |-> p]

Init == live = {} /\ reply = Answer("none", NULL)

Allocate(p) ==
    /\ p \notin live
    /\ live' = live \cup {p}
    /\ reply' = Answer("pointer", p)

Free(p) ==
    /\ p \in live
    /\ live' = live \ {p}
    /\ reply' = Answer("none", p)

\* Returning an object that is not out, or what never came from here.
Refuse ==
    /\ reply'.node \notin live \cup {NULL}
    /\ reply'.answer \in {"double free", "not in pool"}
    /\ UNCHANGED live

\* Returning nothing, or asking about an index or for the one of an object.
Other ==
    /\ reply'.answer = "none" => reply'.node = NULL
    /\ reply'.answer = "not in pool" => reply'.node \notin live
    /\ reply'.answer \in {"none", "node", "index", "not in pool", "out of range"}
    /\ UNCHANGED live

Next == (\E p \in Objects : Allocate(p) \/ Free(p)) \/ Refuse \/ Other

Spec == Init /\ [][Next]_<<live, reply>>
=============================================================================
