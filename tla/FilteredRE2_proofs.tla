------------------------- MODULE FilteredRE2_proofs -------------------------
(***************************************************************************)
(* Proofs about FilteredRE2, for any storage, patterns, texts, atoms and   *)
(* engine.                                                                 *)
(*                                                                         *)
(* The properties speak of the global map while every object changes it    *)
(* and its own regexps.  The invariant says what has become of the map     *)
(* since the owner's Compile filled it: it is still what that call made of *)
(* a prefix of the owner's regexps, with empty entries added.              *)
(***************************************************************************)
EXTENDS FilteredRE2, SequenceLemmas, FiniteSetTheorems, TLAPS

(***************************************************************************)
(* What the map and the client's strings are after the Compile of an       *)
(* object with the regexps vec, of which the first n were filed, and the   *)
(* limit m.                                                                *)
(***************************************************************************)

\* Every pattern has its atoms, "total" the atoms of all, unless a pattern is filed there.
FiledMap(vec, m, strs, n, map) ==
  /\ strs = FlattenSeq([i \in 1..n |-> Atoms(KeyOf(vec[i]), m)])
  /\ \A i \in 1..n : /\ KeyOf(vec[i]) \in DOMAIN map
                     /\ map[KeyOf(vec[i])] = Atoms(KeyOf(vec[i]), m)
  /\ (\A i \in 1..n : KeyOf(vec[i]) # TotalKey) => map[TotalKey] = strs
  /\ \A k \in DOMAIN map \ {TotalKey} :
       (\A i \in 1..n : KeyOf(vec[i]) # k) => map[k] = <<>>

\* The last regexp added was Latin-1: its text is the only atom.
LatinMap(strs, map) ==
  \E re \in Additions : /\ strs = <<Lower(re.pattern)>>
                        /\ map[TotalKey] = <<re.pattern>>
                        /\ \A k \in DOMAIN map : map[k] \in {<<re.pattern>>, <<>>}

Filled(vec, m, strs, n, map) ==
  /\ vec # <<>>
  /\ n \in 0..Len(vec)
  /\ TotalKey \in DOMAIN map
  /\ IF n = 0 THEN LatinMap(strs, map) ELSE FiledMap(vec, m, strs, n, map)

\* The map and the strings of the owner are what its Compile made of its first regexps.
OwnerFilled ==
  owner # NoObj => Filled(re2_vec_[owner], min_atom_len_[owner], atoms[owner], filed, map_atoms)

\* A Latin-1 string is the pattern of an addition.
LatinOK == \A o \in Objs : latin[o].on => \E re \in Additions : latin[o].str = re.pattern

IndInv ==
  /\ TypeOK
  /\ atoms = [o \in Objs |-> atoms[o]]
  /\ map_atoms = [k \in DOMAIN map_atoms |-> map_atoms[k]]
  /\ LatinOK
  /\ OwnerFilled
------------------------------------------------------------------------------
(***************************************************************************)
(* What Compile makes of the map.                                          *)
(***************************************************************************)

\* The map has the keys of the pairs, and for each the value of its first pair.
LEMMA MapOfFirst ==
  ASSUME NEW n \in Nat, NEW pairs, DOMAIN pairs = 1..n
  PROVE  /\ DOMAIN MapOf(pairs) = {pairs[i][1] : i \in DOMAIN pairs}
         /\ \A k \in DOMAIN MapOf(pairs) :
              \E i \in DOMAIN pairs : /\ pairs[i][1] = k /\ MapOf(pairs)[k] = pairs[i][2]
                                      /\ \A j \in 1..i - 1 : pairs[j][1] # k
  <1>1. DOMAIN MapOf(pairs) = {pairs[i][1] : i \in DOMAIN pairs}
    BY DEF MapOf
  <1>2. ASSUME NEW k \in DOMAIN MapOf(pairs)
        PROVE  \E i \in DOMAIN pairs : /\ pairs[i][1] = k /\ MapOf(pairs)[k] = pairs[i][2]
                                       /\ \A j \in 1..i - 1 : pairs[j][1] # k
    <2> DEFINE S == {i \in DOMAIN pairs : pairs[i][1] = k}
               i == Min(S)
    <2>1. S \in SUBSET Nat /\ S # {}
      BY <1>1
    <2>2. i \in S /\ \A y \in S : i <= y
      BY <2>1, NatMin
    <2>3. MapOf(pairs)[k] = pairs[i][2]
      BY <1>1 DEF MapOf
    <2> HIDE DEF i
    <2>4. ASSUME NEW j \in 1..i - 1
          PROVE  pairs[j][1] # k
      <3>1. i \in Nat /\ i <= n
        BY <2>2
      <3>2. j \in DOMAIN pairs /\ ~(i <= j)
        BY <3>1
      <3> QED
        BY <3>2, <2>2
    <2> QED
      BY <2>2, <2>3, <2>4
  <1> QED
    BY <1>1, <1>2

\* The map of the other case: a pair for every regexp, and one for "total".
LEMMA CompiledUtf8 ==
  ASSUME NEW vec \in Seq(Additions), vec # <<>>, NEW m, NEW own, NEW all,
         own = [i \in DOMAIN vec |-> <<KeyOf(vec[i]), Atoms(KeyOf(vec[i]), m)>>],
         all = FlattenSeq([i \in DOMAIN vec |-> Atoms(KeyOf(vec[i]), m)])
  PROVE  Filled(vec, m, all, Len(vec), MapOf(Append(own, <<TotalKey, all>>)))
  <1> DEFINE n == Len(vec)
             pairs == Append(own, <<TotalKey, all>>)
             map == MapOf(pairs)
  <1>1. n \in Nat /\ n # 0 /\ DOMAIN vec = 1..n
    OBVIOUS
  <1> HIDE DEF n
  <1>2. own \in Seq({own[i] : i \in DOMAIN vec} \cup {<<TotalKey, all>>}) /\ Len(own) = n
    BY <1>1
  <1>3. n + 1 \in Nat /\ DOMAIN pairs = 1..n + 1
    BY <1>1, <1>2
  <1>4. \A i \in 1..n : pairs[i] = <<KeyOf(vec[i]), Atoms(KeyOf(vec[i]), m)>>
    BY <1>1, <1>2
  <1>5. pairs[n + 1] = <<TotalKey, all>>
    BY <1>1, <1>2
  <1> HIDE DEF pairs
  <1>a. /\ DOMAIN map = {pairs[i][1] : i \in DOMAIN pairs}
        /\ \A k \in DOMAIN map :
             \E i \in DOMAIN pairs : /\ pairs[i][1] = k /\ map[k] = pairs[i][2]
                                     /\ \A j \in 1..i - 1 : pairs[j][1] # k
    BY <1>3, MapOfFirst, ZenonT(30)
  <1>6. DOMAIN map = {pairs[i][1] : i \in 1..n + 1}
    BY <1>3, <1>a
  <1>7. \A k \in DOMAIN map : \E i \in 1..n + 1 :
          /\ pairs[i][1] = k /\ map[k] = pairs[i][2]
          /\ \A j \in 1..i - 1 : pairs[j][1] # k
    BY <1>3, <1>a
  <1> HIDE DEF map
  <1>8. \A i \in 1..n + 1 : i \in 1..n \/ i = n + 1
    BY <1>1
  <1>9. TotalKey \in DOMAIN map
    <2>1. n + 1 \in 1..n + 1 /\ pairs[n + 1][1] = TotalKey
      BY <1>1, <1>5
    <2> QED
      BY <2>1, <1>6
  <1>10. ASSUME NEW i \in 1..n
         PROVE  KeyOf(vec[i]) \in DOMAIN map /\ map[KeyOf(vec[i])] = Atoms(KeyOf(vec[i]), m)
    <2> DEFINE k == KeyOf(vec[i])
    <2>1. i \in 1..n + 1 /\ pairs[i][1] = k
      BY <1>1, <1>4
    <2>2. k \in DOMAIN map
      BY <2>1, <1>6
    <2>3. PICK j \in 1..n + 1 : /\ pairs[j][1] = k /\ map[k] = pairs[j][2]
                                /\ \A l \in 1..j - 1 : pairs[l][1] # k
      BY <2>2, <1>7
    <2>4. j \in 1..n
      <3>1. j # n + 1
        BY <2>1, <2>3, <1>1
      <3> QED
        BY <3>1, <1>8
    <2> QED
      BY <2>2, <2>3, <2>4, <1>4
  <1>11. ASSUME \A i \in 1..n : KeyOf(vec[i]) # TotalKey
         PROVE  map[TotalKey] = all
    <2>1. PICK j \in 1..n + 1 : pairs[j][1] = TotalKey /\ map[TotalKey] = pairs[j][2]
      BY <1>9, <1>7
    <2>2. j = n + 1
      BY <2>1, <1>8, <1>4, <1>11
    <2> QED
      BY <2>1, <2>2, <1>5
  <1>12. ASSUME NEW k \in DOMAIN map \ {TotalKey}
         PROVE  \E i \in 1..n : KeyOf(vec[i]) = k
    <2>1. PICK j \in 1..n + 1 : pairs[j][1] = k
      BY <1>6
    <2>2. j \in 1..n
      BY <2>1, <1>8, <1>5
    <2> QED
      BY <2>1, <2>2, <1>4
  <1>13. FiledMap(vec, m, all, n, map)
    BY <1>1, <1>10, <1>11, <1>12 DEF FiledMap
  <1> QED
    BY <1>1, <1>9, <1>13 DEF Filled, n, map, pairs

\* The map of the Latin-1 case.
LEMMA CompiledLatin ==
  ASSUME NEW vec, vec # <<>>, Len(vec) \in Nat, NEW m, NEW re \in Additions
  PROVE  LET str == re.pattern
         IN Filled(vec, m, <<Lower(str)>>, 0, MapOf(<< <<str, <<str>> >>, <<TotalKey, <<str>> >> >>))
  <1> DEFINE str == re.pattern
             pairs == << <<str, <<str>> >>, <<TotalKey, <<str>> >> >>
             map == MapOf(pairs)
  <1>1. /\ 2 \in Nat /\ DOMAIN pairs = 1..2
        /\ pairs[1] = <<str, <<str>> >> /\ pairs[2] = <<TotalKey, <<str>> >>
    OBVIOUS
  <1> HIDE DEF pairs
  <1>a. /\ DOMAIN map = {pairs[i][1] : i \in DOMAIN pairs}
        /\ \A k \in DOMAIN map :
             \E i \in DOMAIN pairs : /\ pairs[i][1] = k /\ map[k] = pairs[i][2]
                                     /\ \A j \in 1..i - 1 : pairs[j][1] # k
    <2>1. PICK n \in Nat : n = 2
      OBVIOUS
    <2>2. DOMAIN pairs = 1..n
      BY <1>1, <2>1
    <2> QED
      BY <2>2, MapOfFirst, ZenonT(30)
  <1>2. /\ DOMAIN map = {pairs[i][1] : i \in 1..2}
        /\ \A k \in DOMAIN map : \E i \in 1..2 : map[k] = pairs[i][2]
    BY <1>1, <1>a
  <1> HIDE DEF map
  <1>3. \A i \in 1..2 : pairs[i][2] = <<str>>
    BY <1>1
  <1>4. TotalKey \in DOMAIN map
    BY <1>1, <1>2
  <1>5. LatinMap(<<Lower(str)>>, map)
    BY <1>2, <1>3, <1>4 DEF LatinMap
  <1>6. 0 \in 0..Len(vec)
    OBVIOUS
  <1> QED
    BY <1>4, <1>5, <1>6 DEF Filled, map, pairs
------------------------------------------------------------------------------
(***************************************************************************)
(* What the other operations make of it.                                   *)
(***************************************************************************)

\* An Add after Compile changes nothing of what was filed.
LEMMA FilledAppend ==
  ASSUME NEW vec \in Seq(Additions), NEW m, NEW strs, NEW n, NEW map, NEW re \in Additions,
         Filled(vec, m, strs, n, map)
  PROVE  Filled(Append(vec, re), m, strs, n, map)
  <1> DEFINE wec == Append(vec, re)
  <1>1. wec # <<>> /\ n \in 0..Len(vec) /\ Len(wec) = Len(vec) + 1 /\ n \in 0..Len(wec)
    BY DEF Filled
  <1>2. CASE n = 0
    BY <1>1, <1>2 DEF Filled
  <1>3. CASE n # 0
    <2>1. \A i \in 1..n : wec[i] = vec[i]
      BY <1>1
    <2>2. FiledMap(vec, m, strs, n, map)
      BY <1>3 DEF Filled
    <2> HIDE DEF wec
    <2>3. [i \in 1..n |-> Atoms(KeyOf(wec[i]), m)] = [i \in 1..n |-> Atoms(KeyOf(vec[i]), m)]
      BY <2>1
    <2>4. FiledMap(wec, m, strs, n, map)
      BY <2>1, <2>2, <2>3 DEF FiledMap
    <2> QED
      BY <1>1, <1>3, <2>4 DEF Filled, wec
  <1> QED
    BY <1>2, <1>3

\* Nor does a lookup, which adds empty entries.
LEMMA FilledLooked ==
  ASSUME NEW vec, NEW m, NEW strs, NEW n, NEW map, NEW mapp,
         Filled(vec, m, strs, n, map),
         DOMAIN map \subseteq DOMAIN mapp,
         \A k \in DOMAIN map : mapp[k] = map[k],
         \A k \in DOMAIN mapp \ DOMAIN map : mapp[k] = <<>>
  PROVE  Filled(vec, m, strs, n, mapp)
  <1>1. vec # <<>> /\ n \in 0..Len(vec) /\ TotalKey \in DOMAIN map /\ TotalKey \in DOMAIN mapp
    BY DEF Filled
  <1>2. CASE n = 0
    <2>1. LatinMap(strs, map)
      BY <1>2 DEF Filled
    <2>2. LatinMap(strs, mapp)
      BY <1>1, <2>1 DEF LatinMap
    <2> QED
      BY <1>1, <1>2, <2>2 DEF Filled
  <1>3. CASE n # 0
    <2>1. FiledMap(vec, m, strs, n, map)
      BY <1>3 DEF Filled
    <2>2. FiledMap(vec, m, strs, n, mapp)
      BY <1>1, <2>1 DEF FiledMap
    <2> QED
      BY <1>1, <1>3, <2>2 DEF Filled
  <1> QED
    BY <1>2, <1>3
------------------------------------------------------------------------------
(***************************************************************************)
(* The invariant, action by action.                                        *)
(***************************************************************************)

\* The initial state satisfies the invariant.
LEMMA InitEstablishes == Init => IndInv
  <1> SUFFICES ASSUME Init PROVE IndInv
    OBVIOUS
  <1>1. TypeOK
    <2>1. <<>> \in Seq(Additions) /\ NoLatin \in [on : BOOLEAN, str : Keys]
      BY DEF NoLatin, Keys
    <2>2. re2_vec_ \in [Objs -> Seq(Additions)] /\ latin \in [Objs -> [on : BOOLEAN, str : Keys]]
      BY <2>1 DEF Init
    <2>3. \A o \in Objs : DOMAIN re2_vec_[o] = {}
      BY DEF Init
    <2> QED
      BY <2>2, <2>3 DEF Init, TypeOK, NoMap
  <1> QED
    BY <1>1 DEF Init, IndInv, LatinOK, NoLatin, NoMap, OwnerFilled

\* The constructor starts from storage that no object occupies.
LEMMA ConstructPreserves ==
  ASSUME IndInv, NEW o \in Objs, NEW m \in MinAtomLens, Construct(o, m)
  PROVE  IndInv'
  <1>1. TypeOK'
    BY DEF IndInv, TypeOK, Construct
  <1>2. OwnerFilled'
    <2>1. owner # NoObj => owner # o
      BY DEF IndInv, TypeOK, Construct
    <2>2. owner # NoObj => min_atom_len_'[owner] = min_atom_len_[owner]
      BY <2>1 DEF IndInv, TypeOK, Construct
    <2> QED
      BY <2>2 DEF IndInv, OwnerFilled, Construct
  <1> QED
    BY <1>1, <1>2 DEF IndInv, LatinOK, Construct

\* Add only appends.
LEMMA AddPreserves ==
  ASSUME IndInv, NEW o \in Objs, NEW re \in Additions, Add(o, re)
  PROVE  IndInv'
  <1>1. re2_vec_' \in [Objs -> Seq(Additions)]
    <2>1. re2_vec_ \in [Objs -> Seq(Additions)] /\ re2_vec_[o] \in Seq(Additions)
      BY DEF IndInv, TypeOK
    <2>2. Append(re2_vec_[o], re) \in Seq(Additions)
      BY <2>1
    <2>3. re2_vec_' \in {re2_vec_, [re2_vec_ EXCEPT ![o] = Append(@, re)]}
      BY DEF Add
    <2> QED
      BY <2>1, <2>2, <2>3
  <1>2. ASSUME NEW q \in Objs, NEW i \in DOMAIN re2_vec_'[q]
        PROVE  Ok(re2_vec_'[q][i].pattern, re2_vec_'[q][i].latin1)
    <2>1. CASE re2_vec_'[q] = re2_vec_[q]
      BY <2>1 DEF IndInv, TypeOK
    <2>2. CASE re2_vec_'[q] # re2_vec_[q]
      <3>1. q = o /\ Ok(re.pattern, re.latin1) /\ re2_vec_'[q] = Append(re2_vec_[q], re)
        BY <2>2 DEF IndInv, TypeOK, Add
      <3>2. re2_vec_[q] \in Seq(Additions)
        BY DEF IndInv, TypeOK
      <3>3. CASE i \in DOMAIN re2_vec_[q]
        <4>1. re2_vec_'[q][i] = re2_vec_[q][i]
          BY <3>1, <3>2, <3>3
        <4> QED
          BY <4>1, <3>3 DEF IndInv, TypeOK
      <3>4. CASE i \notin DOMAIN re2_vec_[q]
        BY <3>1, <3>2, <3>4
      <3> QED
        BY <3>3, <3>4
    <2> QED
      BY <2>1, <2>2
  <1>3. latin' \in [Objs -> [on : BOOLEAN, str : Keys]] /\ LatinOK'
    BY DEF IndInv, TypeOK, Add, LatinOK, Keys, NoLatin
  <1>4. TypeOK'
    BY <1>1, <1>2, <1>3 DEF IndInv, TypeOK, Add
  <1>5. OwnerFilled'
    <2> SUFFICES ASSUME owner # NoObj
                 PROVE  Filled(re2_vec_'[owner], min_atom_len_[owner], atoms[owner], filed, map_atoms)
      BY DEF OwnerFilled, Add
    <2>1. owner \in Objs /\ re2_vec_[owner] \in Seq(Additions)
      BY DEF IndInv, TypeOK
    <2>2. re2_vec_'[owner] \in {re2_vec_[owner], Append(re2_vec_[owner], re)}
      BY <2>1 DEF IndInv, TypeOK, Add
    <2>3. Filled(re2_vec_[owner], min_atom_len_[owner], atoms[owner], filed, map_atoms)
      BY DEF IndInv, OwnerFilled
    <2> QED
      BY <2>1, <2>2, <2>3, FilledAppend
  <1> QED
    BY <1>3, <1>4, <1>5 DEF IndInv, Add

\* What Compile leaves in the map, if anything, is what the object's regexps give.
LEMMA CompilePreserves ==
  ASSUME IndInv, NEW o \in Objs, Compile(o)
  PROVE  IndInv'
  <1>1. /\ UNCHANGED <<live, re2_vec_, latin, min_atom_len_>> /\ o \in live
        /\ CompileRefused(o) \/ CompileLatin(o) \/ CompileUtf8(o) \/ CompilePanics(o)
    BY DEF Compile
  <1>2. re2_vec_[o] \in Seq(Additions) /\ LatinOK'
    BY <1>1 DEF IndInv, TypeOK, LatinOK
  <1>3. ASSUME CompileRefused(o) \/ CompilePanics(o)
        PROVE  IndInv'
    <2>1. /\ map_atoms' = NoMap /\ owner' = NoObj /\ crashed' \in BOOLEAN
          /\ UNCHANGED <<compiled_, atoms>>
      BY <1>3 DEF CompileRefused, CompilePanics, IndInv, TypeOK
    <2>2. DOMAIN NoMap = {} /\ NoMap = [k \in DOMAIN NoMap |-> NoMap[k]]
      BY DEF NoMap
    <2>3. TypeOK'
      BY <1>1, <2>1, <2>2 DEF IndInv, TypeOK
    <2>4. OwnerFilled'
      BY <2>1 DEF OwnerFilled
    <2> QED
      BY <1>1, <1>2, <2>1, <2>2, <2>3, <2>4 DEF IndInv
  <1>5. CASE CompileLatin(o)
    <2>1. PICK re \in Additions : latin[o].str = re.pattern
      BY <1>5 DEF IndInv, LatinOK, CompileLatin
    <2> DEFINE str == re.pattern
               map == MapOf(<< <<str, <<str>> >>, <<TotalKey, <<str>> >> >>)
    <2>2. /\ owner' = o /\ filed' = 0 /\ crashed' = crashed /\ map_atoms' = map
          /\ atoms' = [atoms EXCEPT ![o] = <<Lower(str)>>]
          /\ compiled_' = [compiled_ EXCEPT ![o] = TRUE]
          /\ re2_vec_[o] # <<>>
      BY <1>5, <2>1 DEF CompileLatin
    <2>3. Filled(re2_vec_[o], min_atom_len_[o], <<Lower(str)>>, 0, map)
      BY <1>2, <2>2, CompiledLatin
    <2>4. DOMAIN map \subseteq Keys
      <3>1. DOMAIN map = {str, TotalKey}
        BY DEF MapOf
      <3> QED
        BY <3>1 DEF Keys
    <2>5. map = [k \in DOMAIN map |-> map[k]]
      BY DEF MapOf
    <2> HIDE DEF map
    <2>6. atoms'[o] = <<Lower(str)>>
      BY <2>2 DEF IndInv
    <2>7. OwnerFilled'
      BY <2>2, <2>3, <2>6, <1>1 DEF OwnerFilled
    <2> QED
      BY <2>2, <2>4, <2>5, <2>7, <1>1, <1>2 DEF IndInv, TypeOK
  <1>6. CASE CompileUtf8(o)
    <2> DEFINE own == [i \in DOMAIN re2_vec_[o] |-> <<KeyOf(re2_vec_[o][i]), AtomsAt(o, i)>>]
               all == FlattenSeq([i \in DOMAIN re2_vec_[o] |-> AtomsAt(o, i)])
               map == MapOf(Append(own, <<TotalKey, all>>))
    <2>2. /\ owner' = o /\ filed' = Len(re2_vec_[o]) /\ crashed' = crashed /\ map_atoms' = map
          /\ atoms' = [atoms EXCEPT ![o] = all]
          /\ compiled_' = [compiled_ EXCEPT ![o] = TRUE]
          /\ re2_vec_[o] # <<>>
      BY <1>6 DEF CompileUtf8
    <2>3. Filled(re2_vec_[o], min_atom_len_[o], all, Len(re2_vec_[o]), map)
      BY <1>2, <2>2, CompiledUtf8 DEF AtomsAt
    <2>4. DOMAIN map \subseteq Keys
      <3>1. \A i \in DOMAIN re2_vec_[o] : KeyOf(re2_vec_[o][i]) \in Keys
        BY <1>2 DEF Keys
      <3>2. \A p \in ToSet(Append(own, <<TotalKey, all>>)) : p[1] \in Keys
        <4> DEFINE Y == Keys \X ({AtomsAt(o, i) : i \in DOMAIN re2_vec_[o]} \cup {all})
        <4>1. own \in Seq(Y)
          <5>1. DOMAIN re2_vec_[o] = 1..Len(re2_vec_[o]) /\ Len(re2_vec_[o]) \in Nat
            BY <1>2
          <5>2. \A i \in DOMAIN re2_vec_[o] : own[i] \in Y
            BY <3>1
          <5> HIDE DEF Y
          <5>3. own \in [1..Len(re2_vec_[o]) -> Y]
            BY <5>1, <5>2
          <5> QED
            BY <5>1, <5>3
        <4>2. <<TotalKey, all>> \in Y
          BY DEF Keys
        <4>3. \A p \in Y : p[1] \in Keys
          OBVIOUS
        <4> HIDE DEF own, all, Y
        <4>4. Append(own, <<TotalKey, all>>) \in Seq(Y)
          BY <4>1, <4>2
        <4> QED
          BY <4>3, <4>4 DEF ToSet
      <3> QED
        BY <3>2 DEF MapOf, ToSet
    <2>5. map = [k \in DOMAIN map |-> map[k]]
      BY DEF MapOf
    <2> HIDE DEF map, all, own
    <2>6. atoms'[o] = all
      BY <2>2 DEF IndInv
    <2>7. OwnerFilled'
      BY <2>2, <2>3, <2>6, <1>1 DEF OwnerFilled
    <2> QED
      BY <2>2, <2>4, <2>5, <2>7, <1>1, <1>2 DEF IndInv, TypeOK
  <1> QED
    BY <1>1, <1>3, <1>5, <1>6

\* The lookups add empty entries only.
LEMMA LookedPreserves ==
  ASSUME IndInv, NEW o \in Objs, map_atoms' = Looked(o), crashed' \in BOOLEAN,
         UNCHANGED <<live, re2_vec_, compiled_, latin, min_atom_len_, atoms, owner, filed>>
  PROVE  IndInv'
  <1>1. /\ DOMAIN map_atoms \subseteq DOMAIN map_atoms'
        /\ \A k \in DOMAIN map_atoms : map_atoms'[k] = map_atoms[k]
        /\ \A k \in DOMAIN map_atoms' \ DOMAIN map_atoms : map_atoms'[k] = <<>>
    BY DEF Looked, Entry
  <1>2. DOMAIN map_atoms' \subseteq Keys
    <2>1. re2_vec_[o] \in Seq(Additions)
      BY DEF IndInv, TypeOK
    <2>2. \A i \in DOMAIN re2_vec_[o] : re2_vec_[o][i].pattern \in Keys
      BY <2>1 DEF Keys
    <2> QED
      BY <2>2 DEF Looked, IndInv, TypeOK, Keys
  <1>3. map_atoms' = [k \in DOMAIN map_atoms' |-> map_atoms'[k]]
    BY DEF Looked
  <1>4. OwnerFilled'
    <2> SUFFICES ASSUME owner # NoObj
                 PROVE  Filled(re2_vec_[owner], min_atom_len_[owner], atoms[owner], filed, map_atoms')
      BY DEF OwnerFilled
    <2>1. Filled(re2_vec_[owner], min_atom_len_[owner], atoms[owner], filed, map_atoms)
      BY DEF IndInv, OwnerFilled
    <2> QED
      BY <2>1, <1>1, FilledLooked
  <1> QED
    BY <1>2, <1>3, <1>4 DEF IndInv, TypeOK, LatinOK

\* SlowFirstMatch changes the reply only.
LEMMA SlowFirstMatchPreserves ==
  ASSUME IndInv, NEW o \in Objs, NEW t \in Texts, SlowFirstMatch(o, t)
  PROVE  IndInv'
  BY DEF IndInv, TypeOK, LatinOK, OwnerFilled, SlowFirstMatch

\* FirstMatch returns at once, or looks entries up.
LEMMA FirstMatchPreserves ==
  ASSUME IndInv, NEW o \in Objs, NEW t \in Texts, FirstMatch(o, t)
  PROVE  IndInv'
  <1>1. UNCHANGED <<live, re2_vec_, compiled_, latin, min_atom_len_, atoms, owner, filed>>
    BY DEF FirstMatch
  <1>2. CASE UNCHANGED <<map_atoms, crashed>>
    BY <1>1, <1>2 DEF IndInv, TypeOK, LatinOK, OwnerFilled
  <1>3. CASE Filter(o, t)
    <2>1. map_atoms' = Looked(o) /\ crashed' \in BOOLEAN
      BY <1>3 DEF Filter
    <2> QED
      BY <1>1, <2>1, LookedPreserves
  <1> QED
    BY <1>2, <1>3 DEF FirstMatch

\* AllMatches and AllPotentials look entries up.
LEMMA FilterPreserves ==
  ASSUME IndInv, NEW o \in Objs, NEW t \in Texts, AllMatches(o, t) \/ AllPotentials(o, t)
  PROVE  IndInv'
  <1>1. /\ UNCHANGED <<live, re2_vec_, compiled_, latin, min_atom_len_, atoms, owner, filed>>
        /\ map_atoms' = Looked(o) /\ crashed' \in BOOLEAN
    BY DEF AllMatches, AllPotentials, Filter
  <1> QED
    BY <1>1, LookedPreserves

\* A move takes all that the invariant speaks of along with the ownership.
LEMMA AdoptPreserves ==
  ASSUME IndInv, NEW d \in Objs, NEW s \in live, d # s, Adopt(d, s)
  PROVE  IndInv'
  <1>0. s \in Objs /\ owner \in live \cup {NoObj} /\ live \subseteq Objs /\ NoObj \notin Objs
    BY FilteredAssumption DEF IndInv, TypeOK
  <1>1. re2_vec_' \in [Objs -> Seq(Additions)]
    <2>1. <<>> \in Seq(Additions)
      OBVIOUS
    <2> QED
      BY <1>0, <2>1 DEF Adopt, IndInv, TypeOK
  <1>2. \A q \in Objs \ {d, s} : /\ re2_vec_'[q] = re2_vec_[q] /\ latin'[q] = latin[q]
                                 /\ min_atom_len_'[q] = min_atom_len_[q] /\ atoms'[q] = atoms[q]
    BY <1>0 DEF Adopt, IndInv, TypeOK
  <1>3. /\ re2_vec_'[d] = re2_vec_[s] /\ latin'[d] = latin[s]
        /\ min_atom_len_'[d] = min_atom_len_[s] /\ atoms'[d] = atoms[s]
    BY <1>0 DEF Adopt, IndInv, TypeOK
  <1>4. re2_vec_'[s] = <<>> /\ latin'[s] = NoLatin
    BY <1>0 DEF Adopt, IndInv, TypeOK
  <1>5. ASSUME NEW q \in Objs, NEW i \in DOMAIN re2_vec_'[q]
        PROVE  Ok(re2_vec_'[q][i].pattern, re2_vec_'[q][i].latin1)
    <2>1. \A p \in Objs : \A j \in DOMAIN re2_vec_[p] : Ok(re2_vec_[p][j].pattern, re2_vec_[p][j].latin1)
      BY DEF IndInv, TypeOK
    <2>2. DOMAIN <<>> = {}
      OBVIOUS
    <2>3. CASE q = s
      BY <1>4, <2>2, <2>3
    <2>4. CASE q = d /\ q # s
      BY <1>0, <1>3, <2>1, <2>4
    <2>5. CASE q \notin {d, s}
      BY <1>2, <2>1, <2>5
    <2> QED
      BY <2>3, <2>4, <2>5
  <1>6. latin' \in [Objs -> [on : BOOLEAN, str : Keys]] /\ LatinOK'
    <2>1. NoLatin \in [on : BOOLEAN, str : Keys] /\ ~NoLatin.on
      BY DEF NoLatin, Keys
    <2>2. latin' \in [Objs -> [on : BOOLEAN, str : Keys]]
      BY <1>0, <2>1 DEF Adopt, IndInv, TypeOK
    <2>3. \A q \in Objs : latin[q].on => \E re \in Additions : latin[q].str = re.pattern
      BY DEF IndInv, LatinOK
    <2>4. ASSUME NEW q \in Objs, latin'[q].on
          PROVE  \E re \in Additions : latin'[q].str = re.pattern
      <3>1. q # s
        BY <1>4, <2>1, <2>4
      <3>2. CASE q = d
        BY <1>0, <1>3, <2>3, <2>4, <3>2
      <3>3. CASE q # d
        BY <1>2, <2>3, <2>4, <3>1, <3>3
      <3> QED
        BY <3>2, <3>3
    <2> QED
      BY <2>2, <2>4 DEF LatinOK
  <1>7. TypeOK'
    BY <1>0, <1>1, <1>5, <1>6 DEF Adopt, CompiledByMove, IndInv, TypeOK
  <1>8. OwnerFilled'
    <2> SUFFICES ASSUME owner' # NoObj
                 PROVE  Filled(re2_vec_'[owner'], min_atom_len_'[owner'], atoms'[owner'], filed', map_atoms')
      BY DEF OwnerFilled
    <2>1. filed' = filed /\ map_atoms' = map_atoms
      BY DEF Adopt
    <2>2. CASE owner = s
      <3>1. owner' = d
        BY <2>2 DEF Adopt
      <3> QED
        BY <1>0, <1>3, <2>1, <2>2, <3>1 DEF IndInv, OwnerFilled
    <2>3. CASE owner # s
      <3>1. owner' = owner /\ owner \in Objs \ {d, s}
        BY <1>0, <2>3 DEF Adopt
      <3> QED
        BY <1>0, <1>2, <2>1, <3>1 DEF IndInv, OwnerFilled
    <2> QED
      BY <2>2, <2>3
  <1> QED
    BY <1>6, <1>7, <1>8 DEF IndInv, Adopt

\* An object that is assigned to itself or destroyed no longer owns the map.
LEMMA EmptyPreserves ==
  ASSUME IndInv, NEW o \in Objs, SelfAssign(o) \/ Destroy(o)
  PROVE  IndInv'
  <1>0. owner \in live \cup {NoObj} /\ live \subseteq Objs /\ NoObj \notin Objs
    BY FilteredAssumption DEF IndInv, TypeOK
  <1>1. /\ re2_vec_' = [re2_vec_ EXCEPT ![o] = <<>>]
        /\ compiled_' = [compiled_ EXCEPT ![o] = FALSE]
        /\ latin' = [latin EXCEPT ![o] = NoLatin]
        /\ min_atom_len_' = [min_atom_len_ EXCEPT ![o] = DefaultMinLen]
        /\ atoms' = [atoms EXCEPT ![o] = <<>>]
        /\ owner' = IF owner = o THEN NoObj ELSE owner
        /\ filed' = IF owner' = NoObj THEN 0 ELSE filed
        /\ live' \in {live, live \ {o}} /\ crashed' \in BOOLEAN /\ map_atoms' = map_atoms
    BY DEF SelfAssign, Destroy, IndInv, TypeOK
  <1>2. re2_vec_' \in [Objs -> Seq(Additions)]
    <2>1. <<>> \in Seq(Additions)
      OBVIOUS
    <2> QED
      BY <1>1, <2>1 DEF IndInv, TypeOK
  <1>3. ASSUME NEW q \in Objs, NEW i \in DOMAIN re2_vec_'[q]
        PROVE  Ok(re2_vec_'[q][i].pattern, re2_vec_'[q][i].latin1)
    <2>1. re2_vec_'[q] = <<>> \/ re2_vec_'[q] = re2_vec_[q]
      BY <1>1 DEF IndInv, TypeOK
    <2>2. \A j \in DOMAIN re2_vec_[q] : Ok(re2_vec_[q][j].pattern, re2_vec_[q][j].latin1)
      BY DEF IndInv, TypeOK
    <2>3. DOMAIN <<>> = {}
      OBVIOUS
    <2> QED
      BY <2>1, <2>2, <2>3
  <1>4. latin' \in [Objs -> [on : BOOLEAN, str : Keys]] /\ LatinOK'
    <2>1. NoLatin \in [on : BOOLEAN, str : Keys] /\ ~NoLatin.on
      BY DEF NoLatin, Keys
    <2> QED
      BY <1>1, <2>1 DEF IndInv, TypeOK, LatinOK
  <1>5. TypeOK'
    BY <1>0, <1>1, <1>2, <1>3, <1>4 DEF IndInv, TypeOK, SelfAssign, Destroy
  <1>6. OwnerFilled'
    <2> SUFFICES ASSUME owner' # NoObj
                 PROVE  Filled(re2_vec_'[owner'], min_atom_len_'[owner'], atoms'[owner'], filed', map_atoms')
      BY DEF OwnerFilled
    <2>1. owner' = owner /\ owner # o /\ owner \in Objs /\ filed' = filed
      BY <1>0, <1>1
    <2>2. /\ re2_vec_'[owner] = re2_vec_[owner] /\ min_atom_len_'[owner] = min_atom_len_[owner]
          /\ atoms'[owner] = atoms[owner]
      BY <1>1, <2>1 DEF IndInv, TypeOK
    <2> QED
      BY <1>1, <2>1, <2>2 DEF IndInv, OwnerFilled
  <1> QED
    BY <1>1, <1>4, <1>5, <1>6 DEF IndInv

\* Every step preserves the invariant.
LEMMA NextPreserves ==
  ASSUME IndInv, [Next]_vars
  PROVE  IndInv'
  <1>1. ASSUME NEW o \in Objs, NEW m \in MinAtomLens, Construct(o, m)
        PROVE  IndInv'
    BY <1>1, ConstructPreserves
  <1>2. ASSUME NEW o \in Objs, NEW re \in Additions, Add(o, re)
        PROVE  IndInv'
    BY <1>2, AddPreserves
  <1>3. ASSUME NEW o \in Objs, Compile(o)
        PROVE  IndInv'
    BY <1>3, CompilePreserves
  <1>4. ASSUME NEW o \in Objs, NEW t \in Texts,
               SlowFirstMatch(o, t) \/ FirstMatch(o, t) \/ AllMatches(o, t) \/ AllPotentials(o, t)
        PROVE  IndInv'
    BY <1>4, SlowFirstMatchPreserves, FirstMatchPreserves, FilterPreserves
  <1>5. ASSUME NEW d \in Objs, NEW s \in Objs, MoveConstruct(d, s) \/ MoveAssign(d, s)
        PROVE  IndInv'
    <2>1. s \in live /\ d # s /\ Adopt(d, s)
      BY <1>5 DEF MoveConstruct, MoveAssign
    <2> QED
      BY <2>1, AdoptPreserves
  <1>6. ASSUME NEW o \in Objs, SelfAssign(o) \/ Destroy(o)
        PROVE  IndInv'
    BY <1>6, EmptyPreserves
  <1>7. CASE UNCHANGED vars
    BY <1>7 DEF vars, IndInv, TypeOK, LatinOK, OwnerFilled
  <1> QED
    BY <1>1, <1>2, <1>3, <1>4, <1>5, <1>6, <1>7 DEF Next

\* The invariant holds in every reachable state.
LEMMA Inductive == Spec => []IndInv
  BY InitEstablishes, NextPreserves, PTL DEF Spec

\* The types of the variables; in particular, re2_vec_ holds only regexps that are ok, and
\* the owner of the map is an object.
THEOREM TypesHold == Spec => []TypeOK
  <1>1. IndInv => TypeOK
    BY DEF IndInv
  <1> QED
    BY <1>1, Inductive, PTL
------------------------------------------------------------------------------
(***************************************************************************)
(* What the filter lets pass.                                              *)
(***************************************************************************)

\* The atoms that the client's positions stand for are among those named, whatever a
\* position past the end reads.
LEMMA NamedAtLeast ==
  ASSUME NEW o, NEW t, NEW named \in Named(o, t),
         NEW i \in Found(o, t) \cap DOMAIN Entry(TotalKey)
  PROVE  Entry(TotalKey)[i] \in named
  BY DEF Named

\* An atom of "total" is named if, at its positions there, the client's vector has strings
\* that occur in the text.
LEMMA OccurringIsNamed ==
  ASSUME NEW o, NEW t, NEW named \in Named(o, t), NEW a \in ToSet(Entry(TotalKey)),
         \A i \in DOMAIN Entry(TotalKey) :
           Entry(TotalKey)[i] = a => i \in DOMAIN atoms[o] /\ Occurs(atoms[o][i], t)
  PROVE  a \in named
  <1>1. PICK i \in DOMAIN Entry(TotalKey) : Entry(TotalKey)[i] = a
    BY DEF ToSet
  <1>2. i \in Found(o, t)
    BY <1>1 DEF Found
  <1> QED
    BY <1>1, <1>2, NamedAtLeast

\* The strings of a compiled object: each sequence of atoms that was filed is among them.
LEMMA OwnerCollects ==
  ASSUME IndInv, owner # NoObj, filed # 0
  PROVE  LET vec == re2_vec_[owner]
             m == min_atom_len_[owner]
         IN /\ filed \in Nat /\ filed <= Len(vec)
            /\ \E X : Collects(X, [i \in 1..filed |-> Atoms(KeyOf(vec[i]), m)], filed, atoms[owner])
  <1> DEFINE vec == re2_vec_[owner]
             m == min_atom_len_[owner]
             s == [i \in 1..filed |-> Atoms(KeyOf(vec[i]), m)]
             X == UNION {ToSet(s[i]) : i \in 1..filed}
  <1>1. owner \in Objs /\ vec \in Seq(Additions) /\ m \in MinAtomLens \cup {DefaultMinLen}
    BY DEF IndInv, TypeOK
  <1>2. filed \in 0..Len(vec) /\ atoms[owner] = FlattenSeq(s)
    BY DEF IndInv, OwnerFilled, Filled, FiledMap
  <1>3. filed \in Nat /\ filed <= Len(vec) /\ Len(vec) \in Nat
    BY <1>1, <1>2
  <1>4. ASSUME NEW i \in 1..filed
        PROVE  s[i] \in Seq(X)
    <2>1. i \in DOMAIN vec
      BY <1>1, <1>3
    <2>2. vec[i] \in Additions
      BY <1>1, <2>1
    <2>3. s[i] \in Seq(ToSet(s[i]))
      BY <1>1, <2>2, FilteredAssumption
    <2>4. ToSet(s[i]) \subseteq X
      OBVIOUS
    <2> HIDE DEF s, X
    <2> QED
      BY <2>3, <2>4
  <1> HIDE DEF X
  <1>5. s \in [1..filed -> Seq(X)]
    BY <1>4
  <1> HIDE DEF s
  <1>6. Collects(X, s, filed, atoms[owner])
    BY <1>2, <1>3, <1>5, Flattened
  <1> QED
    BY <1>3, <1>6 DEF s

\* A key has no atoms, those of my_compile for a regexp of the owner with that key, or,
\* if it is "total", those of all.
LEMMA OwnerEntries ==
  ASSUME IndInv, owner # NoObj, filed # 0, NEW k
  PROVE  \/ Entry(k) = <<>>
         \/ \E i \in 1..filed : /\ KeyOf(re2_vec_[owner][i]) = k
                                /\ Entry(k) = AtomsAt(owner, i)
         \/ k = TotalKey /\ Entry(k) = atoms[owner]
  BY DEF IndInv, OwnerFilled, Filled, FiledMap, Entry, AtomsAt

\* Every atom of a matching regexp of the owner is named.
LEMMA OwnerNames ==
  ASSUME IndInv, owner # NoObj, TotalApart(owner), NEW t \in Texts,
         NEW i \in DOMAIN re2_vec_[owner], NEW named \in Named(owner, t),
         NEW a \in ToSet(Entry(re2_vec_[owner][i].pattern)),
         \A b \in ToSet(Entry(re2_vec_[owner][i].pattern)) : Occurs(b, t)
  PROVE  a \in named
  <1> DEFINE vec == re2_vec_[owner]
             k == vec[i].pattern
             total == Entry(TotalKey)
  <1>1. Filled(vec, min_atom_len_[owner], atoms[owner], filed, map_atoms) /\ vec \in Seq(Additions)
    BY DEF IndInv, TypeOK, OwnerFilled
  <1>2. TotalKey \in DOMAIN map_atoms /\ total = map_atoms[TotalKey]
    BY <1>1 DEF Filled, Entry
  <1>3. CASE filed = 0
    <2>1. PICK re \in Additions : /\ atoms[owner] = <<Lower(re.pattern)>>
                                  /\ total = <<re.pattern>>
                                  /\ \A key \in DOMAIN map_atoms : map_atoms[key] \in {<<re.pattern>>, <<>>}
      BY <1>1, <1>2, <1>3 DEF Filled, LatinMap
    <2>2. a = re.pattern
      BY <2>1 DEF Entry, ToSet
    <2>3. Occurs(Lower(re.pattern), t)
      BY <2>2, FilteredAssumption
    <2>4. 1 \in Found(owner, t) \cap DOMAIN total
      BY <2>1, <2>3 DEF Found
    <2>5. total[1] = a
      BY <2>1, <2>2
    <2> QED
      BY <2>4, <2>5, NamedAtLeast
  <1>4. CASE filed # 0 /\ total = atoms[owner]
    <2>1. a \in ToSet(total)
      <3>1. CASE Entry(k) = <<>>
        BY <3>1 DEF ToSet
      <3>2. CASE k = TotalKey
        BY <3>2
      <3>3. ASSUME NEW j \in 1..filed, Entry(k) = AtomsAt(owner, j)
            PROVE  a \in ToSet(total)
        BY <3>3, <1>4, OwnerCollects DEF Collects, AtomsAt
      <3> QED
        BY <3>1, <3>2, <3>3, <1>4, OwnerEntries
    <2>2. Occurs(a, t)
      OBVIOUS
    <2> QED
      BY <1>4, <2>1, <2>2, OccurringIsNamed
  <1>5. CASE filed # 0 /\ total # atoms[owner]
    <2>1. PICK j \in 1..filed : KeyOf(vec[j]) = TotalKey
      BY <1>1, <1>2, <1>5 DEF Filled, FiledMap
    <2>2. filed <= Len(vec) /\ filed \in Nat
      BY <1>5, OwnerCollects
    <2>3. 1..filed \subseteq DOMAIN vec
      BY <1>1, <2>2
    <2>4. \A l \in 1..filed : KeyOf(vec[l]) # TotalKey => AtomsAt(owner, l) = <<>>
      BY <2>1, <2>3 DEF TotalApart
    <2>5. \A l \in 1..filed : KeyOf(vec[l]) = TotalKey => AtomsAt(owner, l) = total
      BY <1>1, <1>2, <1>5 DEF Filled, FiledMap, AtomsAt
    <2>6. k = TotalKey
      <3> SUFFICES ASSUME k # TotalKey PROVE FALSE
        OBVIOUS
      <3>1. Entry(k) = <<>>
        BY <1>5, <2>4, OwnerEntries
      <3> QED
        BY <3>1 DEF ToSet
    <2>7. \A b \in ToSet(atoms[owner]) : b \in ToSet(total)
      <3> SUFFICES ASSUME NEW b \in ToSet(atoms[owner]) PROVE b \in ToSet(total)
        OBVIOUS
      <3>1. PICK l \in 1..filed : b \in ToSet(AtomsAt(owner, l))
        BY <1>5, OwnerCollects DEF Collects, AtomsAt
      <3>2. AtomsAt(owner, l) # <<>>
        BY <3>1 DEF ToSet
      <3> QED
        BY <3>1, <3>2, <2>4, <2>5
    <2>8. Len(total) <= Len(atoms[owner]) /\ \E X : atoms[owner] \in Seq(X)
      BY <1>5, <2>1, <2>5, OwnerCollects DEF Collects, AtomsAt
    <2>9. total \in Seq(ToSet(total))
      <3>1. total = Atoms(KeyOf(vec[j]), min_atom_len_[owner])
        BY <2>1, <2>5 DEF AtomsAt
      <3>2. vec[j] \in Additions /\ min_atom_len_[owner] \in MinAtomLens \cup {DefaultMinLen}
        BY <1>1, <2>1, <2>3 DEF IndInv, TypeOK
      <3> QED
        BY <3>1, <3>2, FilteredAssumption
    <2>10. \A l \in DOMAIN total : l \in DOMAIN atoms[owner] /\ Occurs(atoms[owner][l], t)
      <3> SUFFICES ASSUME NEW l \in DOMAIN total
                   PROVE  l \in DOMAIN atoms[owner] /\ Occurs(atoms[owner][l], t)
        OBVIOUS
      <3>1. l \in DOMAIN atoms[owner]
        BY <2>8, <2>9
      <3>2. atoms[owner][l] \in ToSet(total)
        BY <3>1, <2>7 DEF ToSet
      <3> QED
        BY <3>1, <3>2, <2>6
    <2> QED
      BY <2>6, <2>10, OccurringIsNamed
  <1> QED
    BY <1>3, <1>4, <1>5

\* A regexp that matches passes, in every state of the invariant.
LEMMA MissesNothing == IndInv => OwnerMissesNothing
  <1> SUFFICES ASSUME IndInv, owner # NoObj, TotalApart(owner), NEW t \in Texts,
                      NEW i \in DOMAIN re2_vec_[owner], AtomsNecessary(owner, i),
                      i \in Missed(owner, t)
               PROVE  FALSE
    BY DEF OwnerMissesNothing
  <1>1. PICK named \in Named(owner, t) : MatchesAt(owner, i, t) /\ ~Passes(owner, i, named)
    BY DEF Missed
  <1>2. PICK a \in ToSet(Entry(re2_vec_[owner][i].pattern)) : a \notin named
    BY <1>1 DEF Passes
  <1>3. \A b \in ToSet(Entry(re2_vec_[owner][i].pattern)) : Occurs(b, t)
    BY <1>1 DEF AtomsNecessary
  <1> QED
    BY <1>2, <1>3, OwnerNames

\* Among the regexps of the object that filled map_atoms last, one that matches a text passes
\* the filter, whatever other objects did since (filtered_re2.h:83), for every my_compile
\* whose atoms are necessary and every engine.
THEOREM NothingIsMissed == Spec => []OwnerMissesNothing
  BY MissesNothing, Inductive, PTL

\* On that object FirstMatch finds a regexp exactly when AllMatches does
\* (filtered_re2.h:67-73).
THEOREM FirstIsFound == Spec => []OwnerFindsFirst
  <1>1. IndInv => OwnerFindsFirst
    <2> SUFFICES ASSUME IndInv, owner # NoObj, TotalApart(owner),
                        \A i \in DOMAIN re2_vec_[owner] : AtomsNecessary(owner, i),
                        NEW t \in Texts, NEW named \in Named(owner, t)
                 PROVE  FirstMatchResult(owner, t, named) = -1 <=> AllMatching(owner, t) = {}
      BY DEF OwnerFindsFirst
    <2> DEFINE passed == Regexps(owner, named)
               hits == {i \in passed : MatchesAt(owner, i, t)}
               before == {i \in passed : i < Min(hits)}
    <2>1. \A i \in DOMAIN re2_vec_[owner] : MatchesAt(owner, i, t) => i \in hits
      <3>1. \A i \in DOMAIN re2_vec_[owner] : i \notin Missed(owner, t)
        BY MissesNothing DEF OwnerMissesNothing
      <3> QED
        BY <3>1 DEF Missed, Regexps
    <2>2. hits = {} <=> AllMatching(owner, t) = {}
      BY <2>1 DEF AllMatching, Regexps
    <2>3. Cardinality(before) \in Nat
      <3>1. DOMAIN re2_vec_[owner] = 1..Len(re2_vec_[owner]) /\ Len(re2_vec_[owner]) \in Nat
        BY DEF IndInv, TypeOK
      <3>2. IsFiniteSet(1..Len(re2_vec_[owner]))
        BY <3>1, FS_Interval
      <3>3. before \subseteq 1..Len(re2_vec_[owner])
        BY <3>1 DEF Regexps
      <3> QED
        BY <3>2, <3>3, FS_Subset, FS_CardinalityType
    <2>4. FirstMatchResult(owner, t, named) = IF hits = {} THEN -1 ELSE Cardinality(before)
      BY DEF FirstMatchResult
    <2> HIDE DEF hits, before
    <2> QED
      BY <2>2, <2>3, <2>4
  <1> QED
    BY <1>1, Inductive, PTL

\* The const functions of the object that filled map_atoms, called while all its regexps are
\* filed there under their own patterns, insert nothing.
THEOREM ConstCallsRead == Spec => ConstCallsOnlyRead
  <1> DEFINE Reads == /\ reply'.call \in {"FirstMatch", "AllMatches", "AllPotentials"}
                      /\ reply'.obj = owner /\ AllFiled(owner)
                      => map_atoms' = map_atoms
  <1>1. ASSUME IndInv, NEW o \in Objs, map_atoms' = Looked(o),
               o = owner, AllFiled(owner)
        PROVE  map_atoms' = map_atoms
    <2>1. owner # NoObj
      BY <1>1, FilteredAssumption
    <2>2. /\ Filled(re2_vec_[o], min_atom_len_[o], atoms[o], filed, map_atoms)
          /\ re2_vec_[o] \in Seq(Additions)
          /\ map_atoms = [k \in DOMAIN map_atoms |-> map_atoms[k]]
      BY <1>1, <2>1 DEF IndInv, TypeOK, OwnerFilled
    <2>3. filed # 0 /\ DOMAIN re2_vec_[o] = 1..filed
      BY <1>1, <2>2 DEF Filled, AllFiled
    <2>4. TotalKey \in DOMAIN map_atoms /\ \A i \in 1..filed : re2_vec_[o][i].pattern \in DOMAIN map_atoms
      BY <1>1, <2>2, <2>3 DEF Filled, FiledMap, AllFiled
    <2>5. Looked(o) = [k \in DOMAIN map_atoms |-> map_atoms[k]]
      BY <2>3, <2>4 DEF Looked, Entry
    <2> QED
      BY <1>1, <2>2, <2>5
  <1>2. ASSUME IndInv, [Next]_vars
        PROVE  [Reads]_vars
    <2> SUFFICES ASSUME Next, reply'.call \in {"FirstMatch", "AllMatches", "AllPotentials"},
                        reply'.obj = owner, AllFiled(owner)
                 PROVE  map_atoms' = map_atoms
      BY <1>2
    <2>1. ASSUME NEW o \in Objs, NEW m \in MinAtomLens, Construct(o, m)
          PROVE  map_atoms' = map_atoms
      BY <2>1 DEF Construct
    <2>2. ASSUME NEW o \in Objs, NEW re \in Additions, Add(o, re)
          PROVE  map_atoms' = map_atoms
      BY <2>2 DEF Add
    <2>3. ASSUME NEW o \in Objs, Compile(o)
          PROVE  map_atoms' = map_atoms
      BY <2>3 DEF Compile, Reply
    <2>4. ASSUME NEW o \in Objs, NEW t \in Texts, SlowFirstMatch(o, t)
          PROVE  map_atoms' = map_atoms
      BY <2>4 DEF SlowFirstMatch
    <2>5. ASSUME NEW o \in Objs, NEW t \in Texts,
                 FirstMatch(o, t) \/ AllMatches(o, t) \/ AllPotentials(o, t)
          PROVE  map_atoms' = map_atoms
      <3>1. reply'.obj = o
        BY <2>5 DEF FirstMatch, AllMatches, AllPotentials, Reply
      <3>2. map_atoms' = map_atoms \/ map_atoms' = Looked(o)
        BY <2>5 DEF FirstMatch, AllMatches, AllPotentials, Filter
      <3> QED
        BY <1>1, <1>2, <3>1, <3>2
    <2>6. ASSUME NEW d \in Objs, NEW s \in Objs, MoveConstruct(d, s) \/ MoveAssign(d, s)
          PROVE  map_atoms' = map_atoms
      BY <2>6 DEF MoveConstruct, MoveAssign, Adopt
    <2>7. ASSUME NEW o \in Objs, SelfAssign(o) \/ Destroy(o)
          PROVE  map_atoms' = map_atoms
      BY <2>7 DEF SelfAssign, Destroy
    <2> QED
      BY <2>1, <2>2, <2>3, <2>4, <2>5, <2>6, <2>7 DEF Next
  <1> QED
    BY <1>2, Inductive, PTL DEF Spec, ConstCallsOnlyRead
------------------------------------------------------------------------------
(***************************************************************************)
(* What a move changes.                                                    *)
(***************************************************************************)

\* What the answers are computed from goes from s to d.
LEMMA AdoptTakes ==
  ASSUME IndInv, NEW d \in Objs, NEW s \in live, d # s, Adopt(d, s)
  PROVE  /\ re2_vec_'[d] = re2_vec_[s] /\ compiled_'[d] = compiled_[s]
         /\ atoms'[d] = atoms[s] /\ map_atoms' = map_atoms
  BY DEF IndInv, TypeOK, Adopt, CompiledByMove

\* The object that is moved to answers as the other did.
LEMMA MoveAnswers ==
  ASSUME IndInv, NEW d \in Objs, NEW s \in live, d # s, Adopt(d, s), NEW t
  PROVE  Answers(d, t)' = Answers(s, t)
  <1>1. /\ re2_vec_'[d] = re2_vec_[s] /\ compiled_'[d] = compiled_[s]
        /\ atoms'[d] = atoms[s] /\ map_atoms' = map_atoms
    BY AdoptTakes
  <1>2. AllMatching(d, t)' = AllMatching(s, t)
    BY <1>1 DEF AllMatching, MatchesAt
  <1>3. Named(d, t)' = Named(s, t)
    BY <1>1 DEF Named, Found, OutOfRange, Junk, Entry
  <1>4. ASSUME NEW named
        PROVE  FirstMatchResult(d, t, named)' = FirstMatchResult(s, t, named)
    <2>1. Regexps(d, named)' = Regexps(s, named)
      BY <1>1 DEF Regexps, Passes, Entry
    <2>2. \A i : MatchesAt(d, i, t)' <=> MatchesAt(s, i, t)
      BY <1>1 DEF MatchesAt
    <2>3. {i \in Regexps(d, named)' : MatchesAt(d, i, t)'} = {i \in Regexps(s, named) : MatchesAt(s, i, t)}
      BY <2>1, <2>2
    <2> QED
      BY <2>1, <2>3 DEF FirstMatchResult
  <1>5. {FirstMatchResult(d, t, named)' : named \in Named(d, t)'}
        = {FirstMatchResult(s, t, named) : named \in Named(s, t)}
    BY <1>3, <1>4
  <1> QED
    BY <1>1, <1>2, <1>5 DEF Answers

\* A move changes no answer of FirstMatch or AllMatches (filtered_re2_test.cc:311),
\* whichever object filled map_atoms.
THEOREM MoveKeeps == Spec => MoveKeepsAnswers
  <1> DEFINE Kept == reply'.call = "move"
                     => \A s \in {reply'.from}, d \in {reply'.obj}, t \in Texts :
                          Answers(d, t)' = Answers(s, t)
  <1>1. ASSUME IndInv, Next, reply'.call = "move"
        PROVE  \E d \in Objs, s \in live : d # s /\ Adopt(d, s)
    <2>1. ASSUME NEW o \in Objs, NEW m \in MinAtomLens, Construct(o, m)
          PROVE  FALSE
      BY <1>1, <2>1 DEF Construct, Reply
    <2>2. ASSUME NEW o \in Objs, NEW re \in Additions, Add(o, re)
          PROVE  FALSE
      BY <1>1, <2>2 DEF Add, Reply
    <2>3. ASSUME NEW o \in Objs, Compile(o)
          PROVE  FALSE
      BY <1>1, <2>3 DEF Compile, Reply
    <2>4. ASSUME NEW o \in Objs, NEW t \in Texts,
                 SlowFirstMatch(o, t) \/ FirstMatch(o, t) \/ AllMatches(o, t) \/ AllPotentials(o, t)
          PROVE  FALSE
      <3>1. \E ret : \E c \in {"SlowFirstMatch", "FirstMatch", "AllMatches", "AllPotentials"} :
              reply' = [call |-> c, obj |-> o, ret |-> ret]
        <4>1. CASE SlowFirstMatch(o, t)
          BY <4>1 DEF SlowFirstMatch, Reply
        <4>2. CASE FirstMatch(o, t)
          BY <4>2 DEF FirstMatch, Reply
        <4>3. CASE AllMatches(o, t)
          BY <4>3 DEF AllMatches, Reply
        <4>4. CASE AllPotentials(o, t)
          BY <4>4 DEF AllPotentials, Reply
        <4> QED
          BY <2>4, <4>1, <4>2, <4>3, <4>4
      <3> QED
        BY <1>1, <3>1
    <2>5. ASSUME NEW d \in Objs, NEW s \in Objs, MoveConstruct(d, s) \/ MoveAssign(d, s)
          PROVE  s \in live /\ d # s /\ Adopt(d, s)
      BY <2>5 DEF MoveConstruct, MoveAssign
    <2>6. ASSUME NEW o \in Objs, SelfAssign(o) \/ Destroy(o)
          PROVE  FALSE
      BY <1>1, <2>6 DEF SelfAssign, Destroy, Reply
    <2> QED
      BY <1>1, <2>1, <2>2, <2>3, <2>4, <2>5, <2>6 DEF Next
  <1>2. ASSUME IndInv, [Next]_vars
        PROVE  [Kept]_vars
    <2> SUFFICES ASSUME Next, reply'.call = "move", NEW t \in Texts
                 PROVE  \A s \in {reply'.from}, d \in {reply'.obj} : Answers(d, t)' = Answers(s, t)
      BY <1>2
    <2>1. PICK d \in Objs, s \in live : d # s /\ Adopt(d, s)
      BY <1>1, <1>2
    <2>2. reply'.from = s /\ reply'.obj = d
      BY <2>1 DEF Adopt, Moved
    <2>3. Answers(d, t)' = Answers(s, t)
      BY <1>2, <2>1, MoveAnswers
    <2> QED
      BY <2>2, <2>3
  <1> QED
    BY <1>2, Inductive, PTL DEF Spec, MoveKeepsAnswers
=============================================================================
