------------------------------ MODULE StaticRE2 ------------------------------
(***************************************************************************)
(* What LazyRE2 promises to threads that use it (re2/re2.h:914-926): they  *)
(* see one RE2, as if it had been a static RE2 built before any of them    *)
(* used it, and the one table of group names that this RE2 gives.          *)
(***************************************************************************)
CONSTANTS
  Threads,
  NULL,
  Kinds,          \* what constructing the RE2 may make of the pattern
  TableOf(_)      \* the table of group names that an RE2 of this kind gives

VARIABLES
  made,    \* what the RE2 is, NULL before it exists
  answer   \* the table that a thread was just given, or NULL

vars == <<made, answer>>

Init == made = NULL /\ answer = [t \in Threads |-> NULL]

Make == /\ made = NULL
        /\ \E k \in Kinds : made' = k
        /\ UNCHANGED answer

Answer(t) == /\ made # NULL /\ answer[t] = NULL
             /\ answer' = [answer EXCEPT ![t] = TableOf(made)]
             /\ UNCHANGED made

Forget(t) == /\ answer[t] # NULL
             /\ answer' = [answer EXCEPT ![t] = NULL]
             /\ UNCHANGED made

Next == Make \/ \E t \in Threads : Answer(t) \/ Forget(t)

Spec == Init /\ [][Next]_vars
=============================================================================
