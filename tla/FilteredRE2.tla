---------------------------- MODULE FilteredRE2 ----------------------------
(***************************************************************************)
(* FilteredRE2 (re2/filtered_re2.cc): objects that each hold a vector of   *)
(* RE2s, and the one global map_atoms in which the last Compile of any of  *)
(* them left the atoms that AtomsToRegexps filters with.                   *)
(*                                                                         *)
(* The client does what filtered_re2.h asks of it: it keeps the strings    *)
(* that Compile returned for an object, and passes the indices of those    *)
(* that occur in the text.  What atoms a pattern has (my_compile, in Rust) *)
(* and what an RE2 matches are parameters.                                 *)
(***************************************************************************)
EXTENDS Integers, Sequences, FiniteSets, SequencesExt

CONSTANTS
  Objs,            \* storage for FilteredRE2 objects
  NoObj,           \* no object
  Additions,       \* what clients pass to Add: records [pattern, latin1]
  TotalKey,        \* the key "total" of map_atoms
  Texts,
  MinAtomLens,     \* what clients pass to the constructor
  DefaultMinLen,   \* 3
  Ok(_, _),        \* RE2(pattern, encoding) is ok
  Matches(_, _, _),\* PartialMatch(text, RE2(pattern, encoding))
  CString(_),      \* what a C string shows of a pattern: it ends at the first NUL
  Atoms(_, _),     \* rure_filter_compile(C string, min_atom_len)
  Panics(_, _),    \* it panics: the string is not UTF-8, or my_compile fails on it
  Lower(_),        \* tolower of each byte
  Occurs(_, _),    \* the client finds the string in the text
  MaxRegexps       \* bound: regexps of all objects together

\* Compile takes a pattern's c_str(), finds atoms in that and files them under it; they are
\* looked up under the whole pattern.
KeyOf(re) == CString(re.pattern)

\* my_compile returns a vector.  The client looks for its strings in a case-insensitive way
\* or in the text in lower case (filtered_re2.h:18): either way, a string that it finds
\* it finds in lower case as well.
ASSUME FilteredAssumption ==
  /\ NoObj \notin Objs
  /\ \A re \in Additions, m \in MinAtomLens \cup {DefaultMinLen} :
       Atoms(KeyOf(re), m) \in Seq(ToSet(Atoms(KeyOf(re), m)))
  /\ \A re \in Additions, t \in Texts :
       Occurs(re.pattern, t) => Occurs(Lower(re.pattern), t)

VARIABLES
  live,        \* the storage that holds an object
  re2_vec_,    \* of each object: a sequence of [pattern, latin1]
  compiled_,
  latin,       \* of prefilter_tree_: is_latin and str_latin
  min_atom_len_,
  map_atoms,   \* global: from a pattern, or TotalKey, to a sequence of atoms
  atoms,       \* the client's vector of strings for each object
  owner,       \* history: the object that map_atoms was last filled by
  filed,       \* history: how many of its regexps got an entry of their own then
  reply,       \* what the last call returned
  crashed      \* undefined behaviour or a panic has ended the process

vars == <<live, re2_vec_, compiled_, latin, min_atom_len_, map_atoms, atoms, owner,
          filed, reply, crashed>>

Keys == {re.pattern : re \in Additions} \cup {KeyOf(re) : re \in Additions} \cup {TotalKey}
NumRegexps == FoldFunctionOnSet(LAMBDA v, n : n + Len(v), 0, re2_vec_, Objs)
NoLatin == [on |-> FALSE, str |-> TotalKey]
NoMap == [k \in {} |-> <<>>]

Reply(call, o, ret) == [call |-> call, obj |-> o, ret |-> ret]
Moved(d, s) == [call |-> "move", obj |-> d, from |-> s]

Init ==
  /\ live = {}
  /\ re2_vec_ = [o \in Objs |-> <<>>]
  /\ compiled_ = [o \in Objs |-> FALSE]
  /\ latin = [o \in Objs |-> NoLatin]
  /\ min_atom_len_ = [o \in Objs |-> DefaultMinLen]
  /\ map_atoms = NoMap
  /\ atoms = [o \in Objs |-> <<>>]
  /\ owner = NoObj
  /\ filed = 0
  /\ reply = [call |-> "none"]
  /\ crashed = FALSE
------------------------------------------------------------------------------
Construct(o, m) ==
  /\ o \notin live
  /\ live' = live \cup {o}
  /\ min_atom_len_' = [min_atom_len_ EXCEPT ![o] = m]
  /\ reply' = Reply("construct", o, TRUE)
  /\ UNCHANGED <<re2_vec_, compiled_, latin, map_atoms, atoms, owner, filed, crashed>>

\* Bug: an Add that keeps a regexp that is not ok.
AddAny(o, re) ==
  /\ o \in live
  /\ NumRegexps < MaxRegexps
  /\ latin' = [latin EXCEPT ![o] = IF re.latin1 THEN [on |-> TRUE, str |-> re.pattern]
                                   ELSE NoLatin]
  /\ re2_vec_' = [re2_vec_ EXCEPT ![o] = Append(@, re)]
  /\ reply' = Reply("Add", o, Len(re2_vec_[o]))
  /\ UNCHANGED <<live, compiled_, min_atom_len_, map_atoms, atoms, owner, filed, crashed>>

\* Add: the tree remembers the encoding of the last call only, even of one whose
\* regexp is not ok, and uses str_latin only while is_latin is set.
Add(o, re) ==
  /\ o \in live
  /\ NumRegexps < MaxRegexps
  /\ latin' = [latin EXCEPT ![o] = IF re.latin1 THEN [on |-> TRUE, str |-> re.pattern]
                                   ELSE NoLatin]
  /\ IF Ok(re.pattern, re.latin1)
     THEN /\ re2_vec_' = [re2_vec_ EXCEPT ![o] = Append(@, re)]
          /\ reply' = Reply("Add", o, Len(re2_vec_[o]))
     ELSE /\ reply' = Reply("Add", o, "error")
          /\ UNCHANGED re2_vec_
  /\ UNCHANGED <<live, compiled_, min_atom_len_, map_atoms, atoms, owner, filed, crashed>>
------------------------------------------------------------------------------
\* std::map::insert of the pairs <<key, atoms>> one after the other into the empty
\* map: a key that is there already keeps its value.
MapOf(pairs) ==
  LET First(k) == Min({i \in DOMAIN pairs : pairs[i][1] = k})
  IN [k \in {pairs[i][1] : i \in DOMAIN pairs} |-> pairs[First(k)][2]]

\* Called twice or before Add, Compile clears the global map and returns.
CompileRefused(o) ==
  /\ compiled_[o] \/ re2_vec_[o] = <<>>
  /\ map_atoms' = NoMap
  /\ owner' = NoObj
  /\ filed' = 0
  /\ UNCHANGED <<compiled_, atoms, crashed>>

\* The last regexp added was Latin-1: its text is the only atom.
CompileLatin(o) ==
  /\ ~compiled_[o] /\ re2_vec_[o] # <<>> /\ latin[o].on
  /\ LET str == latin[o].str
     IN /\ atoms' = [atoms EXCEPT ![o] = <<Lower(str)>>]
        /\ map_atoms' = MapOf(<< <<str, <<str>> >>, <<TotalKey, <<str>> >> >>)
  /\ compiled_' = [compiled_ EXCEPT ![o] = TRUE]
  /\ owner' = o
  /\ filed' = 0
  /\ UNCHANGED crashed

\* Otherwise every pattern goes through rure_filter_compile, which panics on a Latin-1
\* pattern that was not the last one added (from_utf8(...).unwrap()), and on those for
\* which my_compile does (the "panic" of module Prefilter).
AtomsAt(o, i) == Atoms(KeyOf(re2_vec_[o][i]), min_atom_len_[o])
PanicsAt(o, i) == Panics(KeyOf(re2_vec_[o][i]), min_atom_len_[o])

\* Bug: the atoms of one regexp, the last, are inserted as "total".
CompileUtf8LastTotal(o) ==
  /\ ~compiled_[o] /\ re2_vec_[o] # <<>> /\ ~latin[o].on
  /\ \A i \in DOMAIN re2_vec_[o] : ~PanicsAt(o, i)
  /\ LET own == [i \in DOMAIN re2_vec_[o] |-> <<KeyOf(re2_vec_[o][i]), AtomsAt(o, i)>>]
     IN /\ atoms' = [atoms EXCEPT ![o] = FlattenSeq([i \in DOMAIN own |-> own[i][2]])]
        /\ map_atoms' = MapOf(Append(own, <<TotalKey, Last(own)[2]>>))
  /\ compiled_' = [compiled_ EXCEPT ![o] = TRUE]
  /\ owner' = o
  /\ filed' = Len(re2_vec_[o])
  /\ UNCHANGED crashed

\* Bug: a pattern without atoms gets no entry.
CompileUtf8Sparse(o) ==
  /\ ~compiled_[o] /\ re2_vec_[o] # <<>> /\ ~latin[o].on
  /\ \A i \in DOMAIN re2_vec_[o] : ~PanicsAt(o, i)
  /\ LET own == [i \in DOMAIN re2_vec_[o] |-> <<KeyOf(re2_vec_[o][i]), AtomsAt(o, i)>>]
         all == FlattenSeq([i \in DOMAIN re2_vec_[o] |-> AtomsAt(o, i)])
     IN /\ atoms' = [atoms EXCEPT ![o] = all]
        /\ map_atoms' = MapOf(Append(SelectSeq(own, LAMBDA p : p[2] # <<>>), <<TotalKey, all>>))
  /\ compiled_' = [compiled_ EXCEPT ![o] = TRUE]
  /\ owner' = o
  /\ filed' = Len(re2_vec_[o])
  /\ UNCHANGED crashed

CompileUtf8(o) ==
  /\ ~compiled_[o] /\ re2_vec_[o] # <<>> /\ ~latin[o].on
  /\ \A i \in DOMAIN re2_vec_[o] : ~PanicsAt(o, i)
  /\ LET own == [i \in DOMAIN re2_vec_[o] |-> <<KeyOf(re2_vec_[o][i]), AtomsAt(o, i)>>]
         all == FlattenSeq([i \in DOMAIN re2_vec_[o] |-> AtomsAt(o, i)])
     IN /\ atoms' = [atoms EXCEPT ![o] = all]
        /\ map_atoms' = MapOf(Append(own, <<TotalKey, all>>))
  /\ compiled_' = [compiled_ EXCEPT ![o] = TRUE]
  /\ owner' = o
  /\ filed' = Len(re2_vec_[o])
  /\ UNCHANGED crashed

CompilePanics(o) ==
  /\ ~compiled_[o] /\ ~latin[o].on
  /\ \E i \in DOMAIN re2_vec_[o] : PanicsAt(o, i)
  /\ map_atoms' = NoMap
  /\ owner' = NoObj
  /\ filed' = 0
  /\ crashed' = TRUE
  /\ UNCHANGED <<compiled_, atoms>>

Compile(o) ==
  /\ o \in live
  /\ CompileRefused(o) \/ CompileLatin(o) \/ CompileUtf8(o) \/ CompilePanics(o)
  /\ reply' = Reply("Compile", o, TRUE)
  /\ UNCHANGED <<live, re2_vec_, latin, min_atom_len_>>
------------------------------------------------------------------------------
(***************************************************************************)
(* AtomsToRegexps.                                                         *)
(***************************************************************************)
Entry(k) == IF k \in DOMAIN map_atoms THEN map_atoms[k] ELSE <<>>

\* What the client passes: the positions in its vector of the strings it found.
Found(o, t) == {i \in DOMAIN atoms[o] : Occurs(atoms[o][i], t)}

\* A position past the end of "total" reads whatever string lies there.
OutOfRange(o, t) == Found(o, t) \ DOMAIN Entry(TotalKey)
Junk == SUBSET UNION {ToSet(map_atoms[k]) : k \in DOMAIN map_atoms}

\* The atoms that the positions may stand for.
Named(o, t) ==
  LET named == {Entry(TotalKey)[i] : i \in Found(o, t) \cap DOMAIN Entry(TotalKey)}
  IN IF OutOfRange(o, t) = {} THEN {named} ELSE {named \cup junk : junk \in Junk}

\* Bug: a regexp without atoms does not pass.
PassesNeedsAtom(o, i, named) ==
  LET my_atoms == Entry(re2_vec_[o][i].pattern)
  IN my_atoms # <<>> /\ ToSet(my_atoms) \subseteq named

\* The regexps that pass, those all of whose atoms are named; the code lists them in
\* ascending order.
Passes(o, i, named) == ToSet(Entry(re2_vec_[o][i].pattern)) \subseteq named

Regexps(o, named) == {i \in DOMAIN re2_vec_[o] : Passes(o, i, named)}

\* map_atoms[...] creates the entries that it does not find.
Looked(o) ==
  [k \in DOMAIN map_atoms \cup {TotalKey} \cup {re2_vec_[o][i].pattern : i \in DOMAIN re2_vec_[o]}
     |-> Entry(k)]
------------------------------------------------------------------------------
MatchesAt(o, i, t) == Matches(re2_vec_[o][i].pattern, re2_vec_[o][i].latin1, t)
AllMatching(o, t) == {i - 1 : i \in {j \in DOMAIN re2_vec_[o] : MatchesAt(o, j, t)}}

\* FirstMatch returns a position in the list of the regexps that pass: how many of them
\* come before the first that matches.
FirstMatchResult(o, t, named) ==
  LET hits == {i \in Regexps(o, named) : MatchesAt(o, i, t)}
  IN IF hits = {} THEN -1 ELSE Cardinality({i \in Regexps(o, named) : i < Min(hits)})

\* Bug: a move constructor that starts not compiled.
CompiledByMoveNot(d, s) == compiled_' = [compiled_ EXCEPT ![d] = FALSE, ![s] = FALSE]

CompiledByMove(d, s) == compiled_' = [compiled_ EXCEPT ![d] = compiled_[s], ![s] = FALSE]

\* SlowFirstMatch builds an RE2 with default options from each pattern.
SlowFirstMatch(o, t) ==
  /\ o \in live
  /\ LET hits == {i \in DOMAIN re2_vec_[o] : /\ Ok(re2_vec_[o][i].pattern, FALSE)
                                             /\ Matches(re2_vec_[o][i].pattern, FALSE, t)}
     IN reply' = Reply("SlowFirstMatch", o, IF hits = {} THEN -1 ELSE Min(hits) - 1)
  /\ UNCHANGED <<live, re2_vec_, compiled_, latin, min_atom_len_, map_atoms, atoms, owner,
                 filed, crashed>>

\* What the three filtered calls have in common.
Filter(o, t) ==
  /\ map_atoms' = Looked(o)
  /\ crashed' \in IF OutOfRange(o, t) = {} THEN {FALSE} ELSE BOOLEAN

FirstMatch(o, t) ==
  /\ o \in live
  /\ \/ /\ ~compiled_[o]
        /\ reply' = Reply("FirstMatch", o, -1)
        /\ UNCHANGED <<map_atoms, crashed>>
     \/ /\ compiled_[o]
        /\ Filter(o, t)
        /\ \E named \in Named(o, t) : reply' = Reply("FirstMatch", o, FirstMatchResult(o, t, named))
  /\ UNCHANGED <<live, re2_vec_, compiled_, latin, min_atom_len_, atoms, owner, filed>>

\* AllMatches filters, and tries all regexps whatever passed.
AllMatches(o, t) ==
  /\ o \in live
  /\ Filter(o, t)
  /\ reply' = Reply("AllMatches", o, AllMatching(o, t))
  /\ UNCHANGED <<live, re2_vec_, compiled_, latin, min_atom_len_, atoms, owner, filed>>

\* AllPotentials: the reply is what it appends to the client's vector, which it does
\* not clear.
AllPotentials(o, t) ==
  /\ o \in live
  /\ Filter(o, t)
  /\ \E named \in Named(o, t) :
       reply' = Reply("AllPotentials", o, {i - 1 : i \in Regexps(o, named)})
  /\ UNCHANGED <<live, re2_vec_, compiled_, latin, min_atom_len_, atoms, owner, filed>>
------------------------------------------------------------------------------
\* The move constructor of d from s; the client's strings go along.
Adopt(d, s) ==
  /\ re2_vec_' = [re2_vec_ EXCEPT ![d] = re2_vec_[s], ![s] = <<>>]
  /\ CompiledByMove(d, s)
  /\ latin' = [latin EXCEPT ![d] = latin[s], ![s] = NoLatin]
  /\ min_atom_len_' = [min_atom_len_ EXCEPT ![d] = min_atom_len_[s], ![s] = DefaultMinLen]
  /\ atoms' = [atoms EXCEPT ![d] = atoms[s], ![s] = <<>>]
  /\ owner' = IF owner = s THEN d ELSE IF owner = d THEN NoObj ELSE owner
  /\ reply' = Moved(d, s)
  /\ live' = live \cup {d}
  /\ filed' = IF owner' = NoObj THEN 0 ELSE filed
  /\ UNCHANGED <<map_atoms, crashed>>

MoveConstruct(d, s) == s \in live /\ d \notin live /\ Adopt(d, s)
MoveAssign(d, s) == s \in live /\ d \in live /\ d # s /\ Adopt(d, s)

\* Assigned to itself, an object is destroyed and then moved from where it lay: it ends
\* up as new, or the process has come to grief.  Its strings are thrown away.
SelfAssign(o) ==
  /\ o \in live
  /\ re2_vec_' = [re2_vec_ EXCEPT ![o] = <<>>]
  /\ compiled_' = [compiled_ EXCEPT ![o] = FALSE]
  /\ latin' = [latin EXCEPT ![o] = NoLatin]
  /\ min_atom_len_' = [min_atom_len_ EXCEPT ![o] = DefaultMinLen]
  /\ owner' = IF owner = o THEN NoObj ELSE owner
  /\ reply' = Reply("self-assign", o, TRUE)
  /\ atoms' = [atoms EXCEPT ![o] = <<>>]
  /\ filed' = IF owner' = NoObj THEN 0 ELSE filed
  /\ crashed' \in BOOLEAN
  /\ UNCHANGED <<live, map_atoms>>

Destroy(o) ==
  /\ o \in live
  /\ live' = live \ {o}
  /\ re2_vec_' = [re2_vec_ EXCEPT ![o] = <<>>]
  /\ compiled_' = [compiled_ EXCEPT ![o] = FALSE]
  /\ latin' = [latin EXCEPT ![o] = NoLatin]
  /\ min_atom_len_' = [min_atom_len_ EXCEPT ![o] = DefaultMinLen]
  /\ atoms' = [atoms EXCEPT ![o] = <<>>]
  /\ owner' = IF owner = o THEN NoObj ELSE owner
  /\ reply' = Reply("destroy", o, TRUE)
  /\ filed' = IF owner' = NoObj THEN 0 ELSE filed
  /\ UNCHANGED <<map_atoms, crashed>>

Next ==
  /\ ~crashed
  /\ \E o \in Objs :
       \/ \E m \in MinAtomLens : Construct(o, m)
       \/ \E re \in Additions : Add(o, re)
       \/ Compile(o)
       \/ \E t \in Texts : SlowFirstMatch(o, t) \/ FirstMatch(o, t)
                             \/ AllMatches(o, t) \/ AllPotentials(o, t)
       \/ \E s \in Objs : MoveConstruct(o, s) \/ MoveAssign(o, s)
       \/ SelfAssign(o) \/ Destroy(o)

Spec == Init /\ [][Next]_vars
------------------------------------------------------------------------------
(***************************************************************************)
(* Properties.                                                             *)
(***************************************************************************)
TypeOK ==
  /\ live \subseteq Objs
  /\ re2_vec_ \in [Objs -> Seq(Additions)]
  /\ \A o \in Objs : \A i \in DOMAIN re2_vec_[o] :
       Ok(re2_vec_[o][i].pattern, re2_vec_[o][i].latin1)
  /\ compiled_ \in [Objs -> BOOLEAN]
  /\ latin \in [Objs -> [on : BOOLEAN, str : Keys]]
  /\ min_atom_len_ \in [Objs -> MinAtomLens \cup {DefaultMinLen}]
  /\ DOMAIN map_atoms \subseteq Keys
  /\ owner \in live \cup {NoObj}
  /\ crashed \in BOOLEAN

\* Every atom recorded for regexp i occurs in every text that it matches.  This is
\* what the atoms of my_compile should be; they are not for an alternation.
AtomsNecessary(o, i) ==
  \A t \in Texts, a \in ToSet(Entry(re2_vec_[o][i].pattern)) :
    MatchesAt(o, i, t) => Occurs(a, t)

\* The regexps of o that match t and do not pass the filter, for some reading of
\* map_atoms.
Missed(o, t) ==
  {i \in DOMAIN re2_vec_[o] :
     MatchesAt(o, i, t) /\ \E named \in Named(o, t) : ~Passes(o, i, named)}

\* The key "total" stands for one thing: no pattern of o is filed under it, or no other
\* pattern of o has atoms.
TotalApart(o) ==
  (\E i \in DOMAIN re2_vec_[o] : KeyOf(re2_vec_[o][i]) = TotalKey)
  => \A i \in DOMAIN re2_vec_[o] : KeyOf(re2_vec_[o][i]) # TotalKey => AtomsAt(o, i) = <<>>

\* "A regexp that does not pass the filter is guaranteed to not match"
\* (filtered_re2.h:83): this holds of the object that filled map_atoms, as long as
\* "total" stands for one thing and every atom is necessary, whatever other objects
\* looked up, added, were moved or destroyed since, for duplicate patterns, for patterns
\* with a NUL, and for regexps added after Compile.
OwnerMissesNothing ==
  owner # NoObj /\ TotalApart(owner)
  => \A t \in Texts, i \in DOMAIN re2_vec_[owner] :
       AtomsNecessary(owner, i) => i \notin Missed(owner, t)

\* FirstMatch finds something exactly when AllMatches does (filtered_re2.h:67-73),
\* under the same conditions.
OwnerFindsFirst ==
  owner # NoObj /\ TotalApart(owner)
                /\ (\A i \in DOMAIN re2_vec_[owner] : AtomsNecessary(owner, i))
  => \A t \in Texts : \A named \in Named(owner, t) :
       FirstMatchResult(owner, t, named) = -1 <=> AllMatching(owner, t) = {}

\* Every regexp of o is filed in map_atoms under its own pattern.
AllFiled(o) ==
  /\ filed = Len(re2_vec_[o])
  /\ \A i \in DOMAIN re2_vec_[o] : KeyOf(re2_vec_[o][i]) = re2_vec_[o][i].pattern

\* FirstMatch, AllMatches and AllPotentials are const: on the object that filled
\* map_atoms, with every regexp that it has since filed there under its own pattern,
\* they only read the map, so that threads may call them at the same time (as an
\* object's const functions are called).  On any other object, and for a pattern with a
\* NUL, map_atoms[...] inserts.
ConstCallsOnlyRead ==
  [][ /\ reply'.call \in {"FirstMatch", "AllMatches", "AllPotentials"}
      /\ reply'.obj = owner /\ AllFiled(owner)
      => map_atoms' = map_atoms ]_vars

\* "The moved-to object should do what the moved-from object did"
\* (filtered_re2_test.cc:311): a move changes no answer of FirstMatch or
\* AllMatches, whichever object filled map_atoms.
Answers(o, t) ==
  [all |-> AllMatching(o, t),
   first |-> IF compiled_[o] THEN {FirstMatchResult(o, t, named) : named \in Named(o, t)} ELSE {-1}]

MoveKeepsAnswers ==
  [][ reply'.call = "move"
      => \A s \in {reply'.from}, d \in {reply'.obj}, t \in Texts :
           Answers(d, t)' = Answers(s, t) ]_vars

\* The guarantee of filtered_re2.h:83 for every compiled object.
FilterMissesNothing ==
  \A o \in live : compiled_[o] =>
    \A t \in Texts, i \in DOMAIN re2_vec_[o] : AtomsNecessary(o, i) => i \notin Missed(o, t)

\* "Returns the index of the first matching regexp" (filtered_re2.h:67), also of
\* the object that filled map_atoms.
FirstMatchIsIndex ==
  owner # NoObj =>
    \A t \in Texts : \A named \in Named(owner, t) :
      LET r == FirstMatchResult(owner, t, named)
      IN r # -1 => MatchesAt(owner, r + 1, t)
=============================================================================
