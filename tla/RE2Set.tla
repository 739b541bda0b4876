------------------------------ MODULE RE2Set ------------------------------
(***************************************************************************)
(* RE2::Set (re2/set.cc): pieces of storage in which a client constructs,  *)
(* fills, compiles, matches, moves and destroys sets of regexps, and the   *)
(* heap of the RegexSet programs that their prog_ pointers own.            *)
(*                                                                         *)
(* The regex crate is a parameter: what rure_compile accepts, what         *)
(* rure_compile_set accepts, and which texts a pattern matches.            *)
(***************************************************************************)
EXTENDS Integers, Sequences

CONSTANTS
  Objs,           \* storage for Set objects
  Progs,          \* addresses of RegexSet programs
  NULL,           \* the null prog_
  Patterns,       \* what clients pass to Add
  Anchors,        \* RE2::Anchor
  Texts,          \* what clients pass to Match
  Accepts(_),     \* rure_compile compiles the pattern, as far as its first NUL
  SetAccepts(_),  \* rure_compile_set compiles the pattern
  Hits(_, _),     \* the pattern, as a member of a RegexSet, matches the text
  CText(_),       \* what strlen sees from a text's first byte on
  Garbage,        \* the values an uninitialised int may hold
  MaxAdds         \* bound: patterns in one set

ASSUME SetAssumption ==
  /\ NULL \notin Progs
  /\ Garbage \subseteq Int
  /\ Anchors \subseteq {"UNANCHORED", "ANCHOR_START", "ANCHOR_BOTH"}
  /\ Anchors # {}

VARIABLES
  live,       \* the storage that holds an object
  anchor,     \* anchor_
  elem,       \* elem_, a sequence of decorated patterns
  size,       \* size_
  compiled,   \* compiled_
  prog,       \* prog_
  heap,       \* the allocated programs: the patterns each was compiled from
  given,      \* history: the patterns that Add accepted since the object was made
  adopted,    \* history: the objects that the move constructor made
  reply,      \* what the last call returned
  crashed     \* undefined behaviour has ended the process

vars == <<live, anchor, elem, size, compiled, prog, heap, given,
          adopted, reply, crashed>>

\* The text of the pattern that Add compiles and stores: "^" p "$", as bytes, so
\* that the anchors bind tighter than an alternation in p.
Decorated(a, p) ==
  [bol |-> a # "UNANCHORED", eol |-> a = "ANCHOR_BOTH", pattern |-> p]
RurePatterns == {rp \in [bol : BOOLEAN, eol : BOOLEAN, pattern : Patterns] : Accepts(rp)}

NoAnchor == CHOOSE a \in Anchors : TRUE

Reply(call, o, ret) == [call |-> call, obj |-> o, ret |-> ret]
Moved(d, s) == [call |-> "move", obj |-> d, from |-> s]
NoReply == [call |-> "none"]

Init ==
  /\ live = {}
  /\ anchor = [o \in Objs |-> NoAnchor]
  /\ elem = [o \in Objs |-> <<>>]
  /\ size = [o \in Objs |-> 0]
  /\ compiled = [o \in Objs |-> FALSE]
  /\ prog = [o \in Objs |-> NULL]
  /\ heap = [id \in {} |-> <<>>]
  /\ given = [o \in Objs |-> <<>>]
  /\ adopted = {}
  /\ reply = NoReply
  /\ crashed = FALSE
------------------------------------------------------------------------------
\* Set::Set(options, anchor).
Construct(o, a) ==
  /\ o \notin live
  /\ live' = live \cup {o}
  /\ anchor' = [anchor EXCEPT ![o] = a]
  /\ reply' = Reply("construct", o, TRUE)
  /\ UNCHANGED <<elem, size, compiled, prog, heap, given, adopted, crashed>>

\* Bug: a pattern that does not compile is stored and numbered too.
AcceptAny(o, p) ==
  /\ elem' = [elem EXCEPT ![o] = Append(@, Decorated(anchor[o], p))]
  /\ size' = [size EXCEPT ![o] = @ + 1]
  /\ given' = [given EXCEPT ![o] = Append(@, p)]
  /\ reply' = Reply("Add", o, size[o])

\* Set::Add: a pattern that compiles is stored and numbered, also in a set that
\* is already compiled.
Accept(o, p) ==
  /\ Accepts(Decorated(anchor[o], p))
  /\ elem' = [elem EXCEPT ![o] = Append(@, Decorated(anchor[o], p))]
  /\ size' = [size EXCEPT ![o] = @ + 1]
  /\ given' = [given EXCEPT ![o] = Append(@, p)]
  /\ reply' = Reply("Add", o, size[o])

Reject(o, p) ==
  /\ ~Accepts(Decorated(anchor[o], p))
  /\ reply' = Reply("Add", o, -1)
  /\ UNCHANGED <<elem, size, given>>

Add(o, p) ==
  /\ o \in live
  /\ Len(elem[o]) < MaxAdds
  /\ Accept(o, p) \/ Reject(o, p)
  /\ UNCHANGED <<live, anchor, compiled, prog, heap, adopted, crashed>>
------------------------------------------------------------------------------
\* Set::Compile.  When rure_compile_set fails, the null result is handed to
\* rure_set_free, which drops it: the process may or may not survive that.
CompileAgain(o) ==
  /\ compiled[o]
  /\ reply' = Reply("Compile", o, FALSE)
  /\ UNCHANGED <<compiled, prog, heap, crashed>>

CompileOK(o) ==
  /\ ~compiled[o]
  /\ \A i \in DOMAIN elem[o] : SetAccepts(elem[o][i])
  /\ \E id \in Progs \ DOMAIN heap :
       /\ heap' = [g \in (DOMAIN heap \ {prog[o]}) \cup {id} |->
                    IF g = id THEN elem[o] ELSE heap[g]]
       /\ prog' = [prog EXCEPT ![o] = id]
  /\ compiled' = [compiled EXCEPT ![o] = TRUE]
  /\ reply' = Reply("Compile", o, TRUE)
  /\ UNCHANGED crashed

CompileFails(o) ==
  /\ ~compiled[o]
  /\ \E i \in DOMAIN elem[o] : ~SetAccepts(elem[o][i])
  /\ crashed' \in BOOLEAN
  /\ reply' = Reply("Compile", o, FALSE)
  /\ UNCHANGED <<compiled, prog, heap>>

Compile(o) ==
  /\ o \in live
  /\ CompileAgain(o) \/ CompileOK(o) \/ CompileFails(o)
  /\ UNCHANGED <<live, anchor, elem, size, given, adopted>>
------------------------------------------------------------------------------
\* Set::Match.  The indices of the program's patterns that match the text.
HitIndices(o, t) ==
  {i \in 0..Len(heap[prog[o]]) - 1 : Hits(heap[prog[o]][i + 1], CText(t))}

\* Match(text, NULL).
IsMatch(o, t) == compiled[o] /\ HitIndices(o, t) # {}

\* The contents that Match(text, v) may leave in v when the program matches: it
\* reads elem_.size() flags, of which the program set the first ones.
Reported(o, t) ==
  LET n == Len(elem[o])
      m == Len(heap[prog[o]])
  IN {(HitIndices(o, t) \cap 0..n - 1) \cup unset : unset \in SUBSET (m..n - 1)}

\* rure_set_matches writes one flag per pattern of the program.
Overruns(o) == Len(elem[o]) < Len(heap[prog[o]])

MatchUncompiled(o) ==
  /\ ~compiled[o]
  /\ reply' = Reply("Match", o, "kNotCompiled")
  /\ UNCHANGED crashed

MatchAny(o, t) ==
  /\ compiled[o]
  /\ reply' = Reply("Match", o, IsMatch(o, t))
  /\ UNCHANGED crashed

MatchIndices(o, t) ==
  /\ compiled[o]
  /\ IF IsMatch(o, t) THEN \E v \in Reported(o, t) : reply' = Reply("Match", o, v)
     ELSE reply' = Reply("Match", o, FALSE)
  /\ crashed' \in IF Overruns(o) THEN BOOLEAN ELSE {FALSE}

Match(o, t) ==
  /\ o \in live
  /\ MatchUncompiled(o) \/ MatchAny(o, t) \/ MatchIndices(o, t)
  /\ UNCHANGED <<live, anchor, elem, size, compiled, prog, heap, given, adopted>>
------------------------------------------------------------------------------
\* Bug: other.elem_ not cleared.
TakeElemKeep(d, s) == elem' = [elem EXCEPT ![d] = <<>>]

\* The move constructor Set(Set&&) of d from s.  elem_ is not in its initialiser
\* list: d starts empty and the patterns of s are cleared.
TakeElem(d, s) == elem' = [elem EXCEPT ![d] = <<>>, ![s] = <<>>]

\* Bug: other.size_ not reset.
TakeSizeKeep(d, s) == \E n \in Garbage : size' = [size EXCEPT ![d] = n]

\* size_ of d is not initialised.
TakeSize(d, s) == \E n \in Garbage : size' = [size EXCEPT ![d] = n, ![s] = 0]

\* Bugs: the pointer copied and not moved; compiled_ not taken over.
TakeProgCopy(d, s) ==
  /\ compiled' = [compiled EXCEPT ![d] = compiled[s]]
  /\ prog' = [prog EXCEPT ![d] = prog[s]]

TakeProgOnly(d, s) ==
  /\ compiled' = [compiled EXCEPT ![d] = FALSE, ![s] = FALSE]
  /\ prog' = [prog EXCEPT ![d] = prog[s], ![s] = NULL]

TakeProg(d, s) ==
  /\ compiled' = [compiled EXCEPT ![d] = compiled[s], ![s] = FALSE]
  /\ prog' = [prog EXCEPT ![d] = prog[s], ![s] = NULL]

Adopt(d, s) ==
  /\ anchor' = [anchor EXCEPT ![d] = anchor[s]]
  /\ TakeElem(d, s) /\ TakeSize(d, s) /\ TakeProg(d, s)
  /\ given' = [given EXCEPT ![d] = <<>>, ![s] = <<>>]
  /\ adopted' = (adopted \cup {d}) \ {s}
  /\ reply' = Moved(d, s)

MoveConstruct(d, s) ==
  /\ s \in live /\ d \notin live
  /\ live' = live \cup {d}
  /\ Adopt(d, s)
  /\ UNCHANGED <<heap, crashed>>

\* What the destructor of prog_ leaves of the heap.
Freed(o) == [g \in DOMAIN heap \ {prog[o]} |-> heap[g]]

\* operator=(Set&&) destroys *this and constructs it anew.
MoveAssign(d, s) ==
  /\ s \in live /\ d \in live /\ d # s
  /\ heap' = Freed(d)
  /\ Adopt(d, s)
  /\ UNCHANGED <<live, crashed>>

\* The object of storage o becomes as if new, with no program.
Reset(o) ==
  /\ elem' = [elem EXCEPT ![o] = <<>>]
  /\ size' = [size EXCEPT ![o] = 0]
  /\ compiled' = [compiled EXCEPT ![o] = FALSE]
  /\ prog' = [prog EXCEPT ![o] = NULL]
  /\ given' = [given EXCEPT ![o] = <<>>]
  /\ adopted' = adopted \ {o}
  /\ heap' = Freed(o)

\* operator= of an object to itself moves from what it has just destroyed: a
\* program, if there is one, may be deleted twice.
MoveToSelf(o) ==
  /\ o \in live
  /\ Reset(o)
  /\ crashed' \in IF prog[o] # NULL THEN BOOLEAN ELSE {FALSE}
  /\ reply' = Reply("selfmove", o, TRUE)
  /\ UNCHANGED <<live, anchor>>

\* Set::~Set.
Destroy(o) ==
  /\ o \in live
  /\ live' = live \ {o}
  /\ Reset(o)
  /\ anchor' = [anchor EXCEPT ![o] = NoAnchor]
  /\ reply' = Reply("destroy", o, TRUE)
  /\ UNCHANGED crashed

Next ==
  /\ ~crashed
  /\ \E o \in Objs :
       \/ \E a \in Anchors : Construct(o, a)
       \/ \E p \in Patterns : Add(o, p)
       \/ Compile(o)
       \/ \E t \in Texts : Match(o, t)
       \/ \E s \in Objs : MoveConstruct(o, s) \/ MoveAssign(o, s)
       \/ MoveToSelf(o)
       \/ Destroy(o)

Spec == Init /\ [][Next]_vars
------------------------------------------------------------------------------
(***************************************************************************)
(* Properties.                                                             *)
(***************************************************************************)
TypeOK ==
  /\ live \subseteq Objs /\ adopted \subseteq Objs
  /\ anchor \in [Objs -> Anchors]
  /\ elem \in [Objs -> Seq(RurePatterns)]
  /\ size \in [Objs -> Int]
  /\ compiled \in [Objs -> BOOLEAN]
  /\ prog \in [Objs -> Progs \cup {NULL}]
  /\ DOMAIN heap \subseteq Progs
  /\ heap \in [DOMAIN heap -> Seq(RurePatterns)]
  /\ given \in [Objs -> Seq(Patterns)]
  /\ crashed \in BOOLEAN

\* Memory safety of prog_ across compilations, moves and destructions: an object
\* is compiled exactly when it holds a program, the program is allocated and no
\* other object holds it, and no program is left without an owner.
OwnedOnce ==
  /\ \A o \in Objs : compiled[o] <=> prog[o] # NULL
  /\ \A o \in Objs : compiled[o] => o \in live /\ prog[o] \in DOMAIN heap
  /\ \A o1, o2 \in Objs : prog[o1] = prog[o2] /\ prog[o1] # NULL => o1 = o2
  /\ \A id \in DOMAIN heap : \E o \in Objs : prog[o] = id

\* Index i of an answer identifies the regexp for which Add returned i
\* (set.h:48-50): in an object that no move constructor made, whatever happened to
\* its storage before and to other objects, whether it was moved from, and even if
\* patterns were added after Compile, every index that Match reports below the
\* number of compiled patterns is that of an added pattern that matches, and none
\* of those is missing.
AnswersIdentify ==
  \A o \in live \ adopted, t \in Texts :
    compiled[o] /\ IsMatch(o, t)
    => \A v \in Reported(o, t), i \in 0..Len(heap[prog[o]]) - 1 :
         i \in v <=> /\ i < Len(given[o])
                     /\ Hits(Decorated(anchor[o], given[o][i + 1]), CText(t))

\* Add numbers patterns "in sequential order starting from 0" and "errors do not
\* increment the index" (set.h:49-50), also in an object that was moved from.
AddNumbersInOrder ==
  [][ reply'.call = "Add" /\ reply'.obj \notin adopted
      => reply'.ret \in {-1, Len(given[reply'.obj])} ]_vars

\* A move changes no answer of Match(text, NULL): "The moved-to object should do
\* what the moved-from object did" (set_test.cc:234), as far as the test looks.
MoveKeepsIsMatch ==
  [][ \A d, s \in Objs, t \in Texts :
        reply' = Moved(d, s) => (IsMatch(d, t)' <=> IsMatch(s, t)) ]_vars

\* The same comment, for the callers who pass a vector.
MoveKeepsReported ==
  [][ \A d, s \in Objs, t \in Texts :
        reply' = Moved(d, s) /\ IsMatch(s, t) => Reported(d, t)' = Reported(s, t) ]_vars
=============================================================================
