--------------------------- MODULE RE2Set_proofs ---------------------------
(***************************************************************************)
(* Proofs about RE2Set, for any storage, programs, patterns, texts and     *)
(* regex crate.  The inductive invariant IndInv adds to the type invariant *)
(* and to OwnedOnce what ties an index to a pattern: that size_, elem_ and *)
(* the owner's own account of its additions never drift apart, and that a  *)
(* program was compiled from a prefix of elem_.  Neither holds of an       *)
(* object that the move constructor made, so both leave those out.         *)
(***************************************************************************)
EXTENDS RE2Set, TLAPS

\* Storage without an object is as Init left it, so that Construct finds it clean.
CleanStorage ==
  /\ adopted \subseteq live
  /\ \A o \in Objs \ live : elem[o] = <<>> /\ given[o] = <<>> /\ size[o] = 0

\* size_, elem_ and the patterns that Add accepted are in step.
InStep ==
  \A o \in Objs \ adopted :
    /\ size[o] = Len(elem[o])
    /\ Len(given[o]) = Len(elem[o])
    /\ \A i \in 1..Len(elem[o]) : elem[o][i] = Decorated(anchor[o], given[o][i])

\* The program was compiled from the first patterns of elem_.
CompiledPrefix ==
  \A o \in Objs \ adopted :
    compiled[o]
    => /\ Len(heap[prog[o]]) <= Len(elem[o])
       /\ \A i \in 1..Len(heap[prog[o]]) : heap[prog[o]][i] = elem[o][i]

IndInv == TypeOK /\ OwnedOnce /\ CleanStorage /\ InStep /\ CompiledPrefix
------------------------------------------------------------------------------
\* In the initial state there are no objects and no programs.
LEMMA InitEstablishes == Init => IndInv
  <1> SUFFICES ASSUME Init PROVE IndInv
    OBVIOUS
  <1> USE DEF Init
  <1>1. TypeOK
    <2>1. NoAnchor \in Anchors
      BY SetAssumption DEF NoAnchor
    <2>2. heap = [id \in {} |-> <<>>] /\ DOMAIN heap = {}
      OBVIOUS
    <2>3. heap \in [DOMAIN heap -> Seq(RurePatterns)]
      BY <2>2
    <2>4. /\ elem \in [Objs -> Seq(RurePatterns)]
          /\ given \in [Objs -> Seq(Patterns)]
      OBVIOUS
    <2>5. anchor \in [Objs -> Anchors]
      BY <2>1
    <2>6. /\ size \in [Objs -> Int]
          /\ compiled \in [Objs -> BOOLEAN]
          /\ prog \in [Objs -> Progs \cup {NULL}]
      OBVIOUS
    <2> QED
      BY <2>2, <2>3, <2>4, <2>5, <2>6 DEF TypeOK
  <1>2. OwnedOnce
    BY DEF OwnedOnce
  <1>3. CleanStorage /\ InStep /\ CompiledPrefix
    BY DEF CleanStorage, InStep, CompiledPrefix
  <1> QED
    BY <1>1, <1>2, <1>3 DEF IndInv

\* Constructing an object in clean storage.
LEMMA ConstructPreserves ==
  ASSUME IndInv, NEW o \in Objs, NEW a \in Anchors, Construct(o, a)
  PROVE  IndInv'
  <1> USE DEF IndInv, Construct
  <1>1. TypeOK'
    BY DEF TypeOK
  <1>2. OwnedOnce'
    BY DEF TypeOK, OwnedOnce
  <1>3. CleanStorage'
    BY DEF TypeOK, CleanStorage
  <1>4. InStep'
    BY DEF TypeOK, CleanStorage, InStep
  <1>5. CompiledPrefix'
    BY DEF CompiledPrefix
  <1> QED
    BY <1>1, <1>2, <1>3, <1>4, <1>5

\* Adding a pattern: elem_, size_ and the owner's account grow together.
LEMMA AddPreserves ==
  ASSUME IndInv, NEW o \in Objs, NEW p \in Patterns, Add(o, p)
  PROVE  IndInv'
  <1> USE DEF IndInv, Add
  <1>1. CASE Reject(o, p)
    BY <1>1 DEF Reject, TypeOK, OwnedOnce, CleanStorage, InStep, CompiledPrefix
  <1>2. CASE Accept(o, p)
    <2> DEFINE rp == Decorated(anchor[o], p)
    <2>1. rp \in RurePatterns
      BY <1>2 DEF Accept, Decorated, RurePatterns, TypeOK
    <2>2. /\ elem' = [elem EXCEPT ![o] = Append(@, rp)]
          /\ size' = [size EXCEPT ![o] = @ + 1]
          /\ given' = [given EXCEPT ![o] = Append(@, p)]
          /\ UNCHANGED <<live, anchor, compiled, prog, heap, adopted, crashed>>
          /\ o \in live
      BY <1>2 DEF Accept
    <2> HIDE DEF rp
    <2>3. TypeOK'
      BY <2>1, <2>2 DEF TypeOK
    <2>4. OwnedOnce'
      BY <2>2 DEF TypeOK, OwnedOnce
    <2>5. CleanStorage'
      BY <2>2 DEF TypeOK, CleanStorage
    <2>6. InStep'
      <3> SUFFICES ASSUME NEW q \in Objs \ adopted
                   PROVE  /\ size'[q] = Len(elem'[q])
                          /\ Len(given'[q]) = Len(elem'[q])
                          /\ \A i \in 1..Len(elem'[q]) :
                               elem'[q][i] = Decorated(anchor'[q], given'[q][i])
        BY <2>2 DEF InStep
      <3>1. CASE q # o
        BY <2>2, <3>1 DEF TypeOK, InStep
      <3>2. CASE q = o
        <4>1. /\ elem'[o] = Append(elem[o], rp)
              /\ given'[o] = Append(given[o], p)
              /\ size'[o] = size[o] + 1
              /\ anchor'[o] = anchor[o]
          BY <2>2 DEF TypeOK
        <4>2. elem[o] \in Seq(RurePatterns) /\ given[o] \in Seq(Patterns)
          BY DEF TypeOK
        <4>3. /\ size[o] = Len(elem[o])
              /\ Len(given[o]) = Len(elem[o])
              /\ \A i \in 1..Len(elem[o]) : elem[o][i] = Decorated(anchor[o], given[o][i])
          BY <3>2 DEF InStep
        <4>4. ASSUME NEW i \in 1..Len(elem'[o])
              PROVE  elem'[o][i] = Decorated(anchor'[o], given'[o][i])
          <5>1. CASE i = Len(elem[o]) + 1
            <6>1. elem'[o][i] = rp
              BY <2>1, <4>1, <4>2, <5>1
            <6>2. given'[o][i] = p
              BY <4>1, <4>2, <4>3, <5>1
            <6> QED
              BY <4>1, <6>1, <6>2 DEF rp
          <5>2. CASE i \in 1..Len(elem[o])
            BY <2>1, <4>1, <4>2, <4>3, <5>2
          <5>3. Len(elem'[o]) = Len(elem[o]) + 1 /\ Len(elem[o]) \in Nat
            BY <2>1, <4>1, <4>2
          <5> QED
            BY <5>1, <5>2, <5>3
        <4> QED
          BY <2>1, <3>2, <4>1, <4>2, <4>3, <4>4
      <3> QED
        BY <3>1, <3>2
    <2>7. CompiledPrefix'
      <3> SUFFICES ASSUME NEW q \in Objs \ adopted, compiled[q]
                   PROVE  /\ Len(heap[prog[q]]) <= Len(elem'[q])
                          /\ \A i \in 1..Len(heap[prog[q]]) : heap[prog[q]][i] = elem'[q][i]
        BY <2>2 DEF CompiledPrefix
      <3>1. /\ Len(heap[prog[q]]) <= Len(elem[q])
            /\ \A i \in 1..Len(heap[prog[q]]) : heap[prog[q]][i] = elem[q][i]
        BY DEF CompiledPrefix
      <3>2. elem[q] \in Seq(RurePatterns) /\ heap[prog[q]] \in Seq(RurePatterns)
        BY DEF TypeOK, OwnedOnce
      <3>3. elem'[q] = IF q = o THEN Append(elem[q], rp) ELSE elem[q]
        BY <2>2 DEF TypeOK
      <3> QED
        BY <2>1, <3>1, <3>2, <3>3
    <2> QED
      BY <2>3, <2>4, <2>5, <2>6, <2>7
  <1> QED
    BY <1>1, <1>2
------------------------------------------------------------------------------
\* Compiling: the new program is not on the heap yet and records all of elem_.
LEMMA CompilePreserves ==
  ASSUME IndInv, NEW o \in Objs, Compile(o)
  PROVE  IndInv'
  <1> USE DEF IndInv, Compile
  <1>1. CASE CompileAgain(o)
    BY <1>1 DEF CompileAgain, TypeOK, OwnedOnce, CleanStorage, InStep, CompiledPrefix
  <1>2. CASE CompileFails(o)
    BY <1>2 DEF CompileFails, TypeOK, OwnedOnce, CleanStorage, InStep, CompiledPrefix
  <1>3. CASE CompileOK(o)
    <2>1. PICK id \in Progs \ DOMAIN heap :
            /\ heap' = [g \in (DOMAIN heap \ {prog[o]}) \cup {id} |->
                          IF g = id THEN elem[o] ELSE heap[g]]
            /\ prog' = [prog EXCEPT ![o] = id]
      BY <1>3 DEF CompileOK
    <2>2. /\ ~compiled[o] /\ prog[o] = NULL
          /\ compiled' = [compiled EXCEPT ![o] = TRUE]
          /\ o \in live
          /\ UNCHANGED <<live, anchor, elem, size, given, adopted, crashed>>
      BY <1>3 DEF CompileOK, OwnedOnce
    <2>3. NULL \notin DOMAIN heap /\ id # NULL
      BY SetAssumption DEF TypeOK
    <2>4. DOMAIN heap' = DOMAIN heap \cup {id}
      BY <2>1, <2>2, <2>3
    <2>5. /\ heap'[id] = elem[o]
          /\ \A g \in DOMAIN heap : heap'[g] = heap[g]
      BY <2>1, <2>2, <2>3
    <2>6. TypeOK'
      <3>1. heap' \in [DOMAIN heap' -> Seq(RurePatterns)]
        BY <2>1, <2>2, <2>4, <2>5 DEF TypeOK
      <3> QED
        BY <2>1, <2>2, <2>4, <3>1 DEF TypeOK
    <2>7. OwnedOnce'
      BY <2>1, <2>2, <2>3, <2>4 DEF TypeOK, OwnedOnce
    <2>8. CleanStorage' /\ InStep'
      BY <2>2 DEF CleanStorage, InStep
    <2>9. CompiledPrefix'
      <3> SUFFICES ASSUME NEW q \in Objs \ adopted, compiled'[q]
                   PROVE  /\ Len(heap'[prog'[q]]) <= Len(elem[q])
                          /\ \A i \in 1..Len(heap'[prog'[q]]) : heap'[prog'[q]][i] = elem[q][i]
        BY <2>2 DEF CompiledPrefix
      <3>1. CASE q = o
        <4>1. heap'[prog'[q]] = elem[q] /\ elem[q] \in Seq(RurePatterns)
          BY <2>1, <2>5, <3>1 DEF TypeOK
        <4> QED
          BY <4>1
      <3>2. CASE q # o
        <4>1. compiled[q] /\ prog'[q] = prog[q] /\ prog[q] \in DOMAIN heap
          BY <2>1, <2>2, <3>2 DEF TypeOK, OwnedOnce
        <4> QED
          BY <2>5, <4>1 DEF CompiledPrefix
      <3> QED
        BY <3>1, <3>2
    <2> QED
      BY <2>6, <2>7, <2>8, <2>9
  <1> QED
    BY <1>1, <1>2, <1>3

\* Matching changes no object.
LEMMA MatchPreserves ==
  ASSUME IndInv, NEW o \in Objs, NEW t \in Texts, Match(o, t)
  PROVE  IndInv'
  <1>1. crashed' \in BOOLEAN
    BY DEF IndInv, TypeOK, Match, MatchUncompiled, MatchAny, MatchIndices
  <1>2. UNCHANGED <<live, anchor, elem, size, compiled, prog, heap, given, adopted>>
    BY DEF Match
  <1> QED
    BY <1>1, <1>2 DEF IndInv, TypeOK, OwnedOnce, CleanStorage, InStep, CompiledPrefix
------------------------------------------------------------------------------
\* Moving out of s into storage d, once the heap holds no program that d owned
\* and still holds those of all others.
LEMMA AdoptPreserves ==
  ASSUME IndInv, NEW d \in Objs, NEW s \in Objs, d # s, s \in live,
         Adopt(d, s), live' = live \cup {d}, crashed' \in BOOLEAN,
         heap' = [g \in DOMAIN heap \ {prog[d]} |-> heap[g]]
  PROVE  IndInv'
  <1> USE DEF IndInv
  <1>1. PICK n \in Garbage : size' = [size EXCEPT ![d] = n, ![s] = 0]
    BY DEF Adopt, TakeSize
  <1>2. /\ anchor' = [anchor EXCEPT ![d] = anchor[s]]
        /\ elem' = [elem EXCEPT ![d] = <<>>, ![s] = <<>>]
        /\ compiled' = [compiled EXCEPT ![d] = compiled[s], ![s] = FALSE]
        /\ prog' = [prog EXCEPT ![d] = prog[s], ![s] = NULL]
        /\ given' = [given EXCEPT ![d] = <<>>, ![s] = <<>>]
        /\ adopted' = (adopted \cup {d}) \ {s}
    BY DEF Adopt, TakeElem, TakeProg
  <1>3. DOMAIN heap' = DOMAIN heap \ {prog[d]} /\ \A g \in DOMAIN heap' : heap'[g] = heap[g]
    OBVIOUS
  <1>4. TypeOK'
    <2>1. n \in Int
      BY SetAssumption
    <2>2. heap' \in [DOMAIN heap' -> Seq(RurePatterns)]
      BY <1>3 DEF TypeOK
    <2>3. /\ elem' \in [Objs -> Seq(RurePatterns)]
          /\ given' \in [Objs -> Seq(Patterns)]
      <3>1. <<>> \in Seq(RurePatterns) /\ <<>> \in Seq(Patterns)
        OBVIOUS
      <3> QED
        BY <1>2, <3>1 DEF TypeOK
    <2>4. /\ size' \in [Objs -> Int]
          /\ anchor' \in [Objs -> Anchors]
          /\ prog' \in [Objs -> Progs \cup {NULL}]
          /\ compiled' \in [Objs -> BOOLEAN]
      <3>1. size' \in [Objs -> Int]
        BY <1>1, <2>1 DEF TypeOK
      <3>2. anchor' \in [Objs -> Anchors]
        BY <1>2 DEF TypeOK
      <3>3. prog' \in [Objs -> Progs \cup {NULL}]
        BY <1>2 DEF TypeOK
      <3>4. compiled' \in [Objs -> BOOLEAN]
        BY <1>2 DEF TypeOK
      <3> QED
        BY <3>1, <3>2, <3>3, <3>4
    <2> QED
      BY <1>2, <1>3, <2>2, <2>3, <2>4 DEF TypeOK
  <1>5. OwnedOnce'
    <2>1. \A o \in Objs :
            /\ o = s => prog'[o] = NULL /\ ~compiled'[o]
            /\ o = d => prog'[o] = prog[s] /\ (compiled'[o] <=> compiled[s])
            /\ o \notin {d, s} => prog'[o] = prog[o] /\ (compiled'[o] <=> compiled[o])
      <3>1. \A o \in Objs : /\ o = s => prog'[o] = NULL
                            /\ o = d => prog'[o] = prog[s]
                            /\ o \notin {d, s} => prog'[o] = prog[o]
        BY <1>2 DEF TypeOK
      <3>2. \A o \in Objs : /\ o = s => ~compiled'[o]
                            /\ o = d => (compiled'[o] <=> compiled[s])
                            /\ o \notin {d, s} => (compiled'[o] <=> compiled[o])
        BY <1>2 DEF TypeOK
      <3> QED
        BY <3>1, <3>2
    <2>2. \A o \in Objs : prog[o] \in DOMAIN heap' => o # d
      BY <1>3
    <2>3. \A o \in Objs : o # d /\ prog[o] # NULL => prog[o] \in DOMAIN heap'
      BY <1>3 DEF OwnedOnce
    <2>4. \A o \in Objs : compiled'[o] <=> prog'[o] # NULL
      BY <2>1 DEF OwnedOnce
    <2>5. \A o \in Objs : compiled'[o] => o \in live' /\ prog'[o] \in DOMAIN heap'
      BY <2>1, <2>3, <2>4 DEF OwnedOnce
    <2>6. \A o1, o2 \in Objs : prog'[o1] = prog'[o2] /\ prog'[o1] # NULL => o1 = o2
      BY <2>1 DEF OwnedOnce
    <2>7. ASSUME NEW id \in DOMAIN heap'
          PROVE  \E o \in Objs : prog'[o] = id
      <3>1. PICK o \in Objs : prog[o] = id /\ o # d
        BY <1>3, <2>2 DEF OwnedOnce
      <3> QED
        BY <2>1, <3>1
    <2> QED
      BY <2>4, <2>5, <2>6, <2>7 DEF OwnedOnce
  <1>6. CleanStorage'
    BY <1>1, <1>2 DEF TypeOK, CleanStorage
  <1>7. InStep'
    <2> SUFFICES ASSUME NEW q \in Objs \ adopted'
                 PROVE  /\ size'[q] = Len(elem'[q])
                        /\ Len(given'[q]) = Len(elem'[q])
                        /\ \A i \in 1..Len(elem'[q]) :
                             elem'[q][i] = Decorated(anchor'[q], given'[q][i])
      BY DEF InStep
    <2>1. CASE q = s
      <3>1. elem'[q] = <<>> /\ given'[q] = <<>> /\ size'[q] = 0
        BY <1>1, <1>2, <2>1 DEF TypeOK
      <3> QED
        BY <3>1
    <2>2. CASE q # s
      BY <1>1, <1>2, <2>2 DEF TypeOK, InStep
    <2> QED
      BY <2>1, <2>2
  <1>8. CompiledPrefix'
    <2> SUFFICES ASSUME NEW q \in Objs \ adopted', compiled'[q]
                 PROVE  /\ Len(heap'[prog'[q]]) <= Len(elem'[q])
                        /\ \A i \in 1..Len(heap'[prog'[q]]) : heap'[prog'[q]][i] = elem'[q][i]
      BY DEF CompiledPrefix
    <2>1. q # s /\ q # d /\ q \notin adopted
      BY <1>2 DEF TypeOK
    <2>2. compiled[q] /\ prog'[q] = prog[q] /\ elem'[q] = elem[q]
      BY <1>2, <2>1 DEF TypeOK
    <2>3. prog[q] \in DOMAIN heap'
      BY <1>3, <2>1, <2>2 DEF OwnedOnce
    <2> QED
      BY <1>3, <2>1, <2>2, <2>3 DEF CompiledPrefix
  <1> QED
    BY <1>4, <1>5, <1>6, <1>7, <1>8

LEMMA MovesPreserve ==
  ASSUME IndInv, NEW d \in Objs, NEW s \in Objs, MoveConstruct(d, s) \/ MoveAssign(d, s)
  PROVE  IndInv'
  <1>1. CASE MoveConstruct(d, s)
    <2>1. prog[d] = NULL /\ NULL \notin DOMAIN heap
      BY <1>1, SetAssumption DEF IndInv, TypeOK, OwnedOnce, MoveConstruct
    <2>2. heap' = [g \in DOMAIN heap \ {prog[d]} |-> heap[g]]
      <3>1. DOMAIN heap \ {prog[d]} = DOMAIN heap
        BY <2>1
      <3>2. heap = [g \in DOMAIN heap |-> heap[g]]
        BY DEF IndInv, TypeOK
      <3> QED
        BY <1>1, <3>1, <3>2 DEF MoveConstruct
    <2>3. crashed' \in BOOLEAN /\ d # s
      BY <1>1 DEF IndInv, TypeOK, MoveConstruct
    <2> QED
      BY <1>1, <2>2, <2>3, AdoptPreserves DEF MoveConstruct
  <1>2. CASE MoveAssign(d, s)
    <2>1. live' = live \cup {d} /\ crashed' \in BOOLEAN
      BY <1>2 DEF IndInv, TypeOK, MoveAssign
    <2> QED
      BY <1>2, <2>1, AdoptPreserves DEF MoveAssign, Freed
  <1> QED
    BY <1>1, <1>2
------------------------------------------------------------------------------
\* Emptying an object: by its destructor, or by a move to itself.
LEMMA ResetPreserves ==
  ASSUME IndInv, NEW o \in Objs, Reset(o), crashed' \in BOOLEAN, live' \subseteq live,
         live \ {o} \subseteq live', anchor' \in [Objs -> Anchors],
         \A q \in Objs \ {o} : anchor'[q] = anchor[q]
  PROVE  IndInv'
  <1> USE DEF IndInv
  <1>1. /\ elem' = [elem EXCEPT ![o] = <<>>]
        /\ size' = [size EXCEPT ![o] = 0]
        /\ compiled' = [compiled EXCEPT ![o] = FALSE]
        /\ prog' = [prog EXCEPT ![o] = NULL]
        /\ given' = [given EXCEPT ![o] = <<>>]
        /\ adopted' = adopted \ {o}
        /\ heap' = [g \in DOMAIN heap \ {prog[o]} |-> heap[g]]
    BY DEF Reset, Freed
  <1>2. DOMAIN heap' = DOMAIN heap \ {prog[o]} /\ \A g \in DOMAIN heap' : heap'[g] = heap[g]
    BY <1>1
  <1>3. TypeOK'
    <2>1. <<>> \in Seq(RurePatterns) /\ <<>> \in Seq(Patterns)
      OBVIOUS
    <2>2. heap' \in [DOMAIN heap' -> Seq(RurePatterns)]
      BY <1>1, <1>2 DEF TypeOK
    <2>3. elem' \in [Objs -> Seq(RurePatterns)] /\ given' \in [Objs -> Seq(Patterns)]
      BY <1>1, <2>1 DEF TypeOK
    <2>4. /\ size' \in [Objs -> Int] /\ compiled' \in [Objs -> BOOLEAN]
          /\ prog' \in [Objs -> Progs \cup {NULL}]
      BY <1>1 DEF TypeOK
    <2> QED
      BY <1>1, <1>2, <2>2, <2>3, <2>4 DEF TypeOK
  <1>4. OwnedOnce'
    <2>1. \A q \in Objs : /\ q = o => prog'[q] = NULL
                          /\ q # o => prog'[q] = prog[q]
      BY <1>1 DEF TypeOK
    <2>2. \A q \in Objs : /\ q = o => ~compiled'[q]
                          /\ q # o => (compiled'[q] <=> compiled[q])
      BY <1>1 DEF TypeOK
    <2>3. \A q \in Objs : q # o /\ prog[q] # NULL => prog[q] \in DOMAIN heap'
      BY <1>2 DEF OwnedOnce
    <2>4. \A q \in Objs : compiled'[q] <=> prog'[q] # NULL
      BY <2>1, <2>2 DEF OwnedOnce
    <2>5. \A q \in Objs : compiled'[q] => q \in live' /\ prog'[q] \in DOMAIN heap'
      BY <2>1, <2>2, <2>3, <2>4 DEF OwnedOnce
    <2>6. \A o1, o2 \in Objs : prog'[o1] = prog'[o2] /\ prog'[o1] # NULL => o1 = o2
      BY <2>1 DEF OwnedOnce
    <2>7. \A id \in DOMAIN heap' : \E q \in Objs : prog'[q] = id
      BY <1>2, <2>1 DEF OwnedOnce
    <2> QED
      BY <2>4, <2>5, <2>6, <2>7 DEF OwnedOnce
  <1>5. CleanStorage'
    BY <1>1 DEF TypeOK, CleanStorage
  <1>6. InStep'
    <2> SUFFICES ASSUME NEW q \in Objs \ adopted'
                 PROVE  /\ size'[q] = Len(elem'[q])
                        /\ Len(given'[q]) = Len(elem'[q])
                        /\ \A i \in 1..Len(elem'[q]) :
                             elem'[q][i] = Decorated(anchor'[q], given'[q][i])
      BY DEF InStep
    <2>1. CASE q = o
      <3>1. elem'[q] = <<>> /\ given'[q] = <<>> /\ size'[q] = 0
        BY <1>1, <2>1 DEF TypeOK
      <3> QED
        BY <3>1
    <2>2. CASE q # o
      BY <1>1, <2>2 DEF TypeOK, InStep
    <2> QED
      BY <2>1, <2>2
  <1>7. CompiledPrefix'
    <2> SUFFICES ASSUME NEW q \in Objs \ adopted', compiled'[q]
                 PROVE  /\ Len(heap'[prog'[q]]) <= Len(elem'[q])
                        /\ \A i \in 1..Len(heap'[prog'[q]]) : heap'[prog'[q]][i] = elem'[q][i]
      BY DEF CompiledPrefix
    <2>1. q # o /\ q \notin adopted
      BY <1>1 DEF TypeOK
    <2>2. compiled[q] /\ prog'[q] = prog[q] /\ elem'[q] = elem[q]
      BY <1>1, <2>1 DEF TypeOK
    <2>3. prog[q] \in DOMAIN heap'
      BY <1>2, <2>1, <2>2 DEF OwnedOnce
    <2> QED
      BY <1>2, <2>1, <2>2, <2>3 DEF CompiledPrefix
  <1> QED
    BY <1>3, <1>4, <1>5, <1>6, <1>7

LEMMA MoveToSelfPreserves ==
  ASSUME IndInv, NEW o \in Objs, MoveToSelf(o)
  PROVE  IndInv'
  <1>1. crashed' \in BOOLEAN
    BY DEF MoveToSelf
  <1> QED
    BY <1>1, ResetPreserves DEF MoveToSelf, IndInv, TypeOK

LEMMA DestroyPreserves ==
  ASSUME IndInv, NEW o \in Objs, Destroy(o)
  PROVE  IndInv'
  <1>1. NoAnchor \in Anchors
    BY SetAssumption DEF NoAnchor
  <1>2. /\ anchor' \in [Objs -> Anchors]
        /\ \A q \in Objs \ {o} : anchor'[q] = anchor[q]
    BY <1>1 DEF Destroy, IndInv, TypeOK
  <1>3. crashed' \in BOOLEAN /\ live' = live \ {o}
    BY DEF Destroy, IndInv, TypeOK
  <1> QED
    BY <1>2, <1>3, ResetPreserves DEF Destroy
------------------------------------------------------------------------------
\* Every reachable state satisfies the inductive invariant.
THEOREM Invariance == Spec => []IndInv
  <1>1. IndInv /\ [Next]_vars => IndInv'
    <2> SUFFICES ASSUME IndInv, [Next]_vars PROVE IndInv'
      OBVIOUS
    <2>1. CASE Next
      <3>1. PICK o \in Objs :
              \/ \E a \in Anchors : Construct(o, a)
              \/ \E p \in Patterns : Add(o, p)
              \/ Compile(o)
              \/ \E t \in Texts : Match(o, t)
              \/ \E s \in Objs : MoveConstruct(o, s) \/ MoveAssign(o, s)
              \/ MoveToSelf(o)
              \/ Destroy(o)
        BY <2>1 DEF Next
      <3> QED
        BY <3>1, ConstructPreserves, AddPreserves, CompilePreserves, MatchPreserves,
           MovesPreserve, MoveToSelfPreserves, DestroyPreserves
    <2>2. CASE UNCHANGED vars
      BY <2>2 DEF vars, IndInv, TypeOK, OwnedOnce, CleanStorage, InStep, CompiledPrefix
    <2> QED
      BY <2>1, <2>2
  <1> QED
    BY <1>1, InitEstablishes, PTL DEF Spec

\* size_, elem_, prog_ and the history stay well-typed, and nothing but patterns
\* that compile is stored or compiled.
THEOREM TypeCorrectness == Spec => []TypeOK
  BY Invariance, PTL DEF IndInv

\* prog_ never dangles, is never shared and never leaks, whatever the objects go
\* through.
THEOREM Ownership == Spec => []OwnedOnce
  BY Invariance, PTL DEF IndInv

\* Whatever happened to a piece of storage before, an index that Match reports for
\* an object constructed there is that of an added pattern that matches.
THEOREM Identification == Spec => []AnswersIdentify
  <1>1. IndInv => AnswersIdentify
    <2> SUFFICES ASSUME IndInv, NEW o \in live \ adopted, NEW t \in Texts, compiled[o],
                        NEW v \in Reported(o, t), NEW i \in 0..Len(heap[prog[o]]) - 1
                 PROVE  i \in v <=> /\ i < Len(given[o])
                                    /\ Hits(Decorated(anchor[o], given[o][i + 1]), CText(t))
      BY DEF AnswersIdentify
    <2> USE DEF IndInv
    <2>1. o \in Objs \ adopted /\ heap[prog[o]] \in Seq(RurePatterns)
          /\ elem[o] \in Seq(RurePatterns)
      BY DEF TypeOK, OwnedOnce
    <2>2. Len(heap[prog[o]]) \in Nat /\ Len(elem[o]) \in Nat
      BY <2>1
    <2>3. Len(heap[prog[o]]) <= Len(elem[o]) /\ Len(given[o]) = Len(elem[o])
      BY <2>1 DEF CompiledPrefix, InStep
    <2>4. i + 1 \in 1..Len(heap[prog[o]]) /\ i + 1 \in 1..Len(elem[o])
          /\ i \in 0..Len(elem[o]) - 1 /\ i \notin Len(heap[prog[o]])..Len(elem[o]) - 1
      BY <2>2, <2>3
    <2>5. heap[prog[o]][i + 1] = Decorated(anchor[o], given[o][i + 1])
      BY <2>1, <2>4, SMTT(30) DEF CompiledPrefix, InStep
    <2>6. i \in v <=> i \in HitIndices(o, t)
      BY <2>4 DEF Reported
    <2>7. i < Len(given[o])
      BY <2>2, <2>3, <2>4
    <2> QED
      BY <2>5, <2>6, <2>7 DEF HitIndices
  <1> QED
    BY <1>1, Invariance, PTL

\* Add hands out the number of patterns accepted before, or -1.
THEOREM Numbering == Spec => AddNumbersInOrder
  <1> DEFINE A == reply'.call = "Add" /\ reply'.obj \notin adopted
                  => reply'.ret \in {-1, Len(given[reply'.obj])}
  <1>1. IndInv /\ [Next]_vars => [A]_vars
    <2> SUFFICES ASSUME IndInv, Next, reply'.call = "Add", reply'.obj \notin adopted
                 PROVE  reply'.ret \in {-1, Len(given[reply'.obj])}
      OBVIOUS
    <2>1. PICK o \in Objs, p \in Patterns : Add(o, p)
      <3>1. \A o \in Objs, a \in Anchors : ~Construct(o, a)
        BY DEF Construct, Reply
      <3>2. \A o \in Objs : ~Compile(o)
        BY DEF Compile, CompileAgain, CompileOK, CompileFails, Reply
      <3>3. \A o \in Objs, t \in Texts : ~Match(o, t)
        <4> SUFFICES ASSUME NEW o \in Objs, NEW t \in Texts, Match(o, t) PROVE FALSE
          OBVIOUS
        <4>1. \E x : reply' = Reply("Match", o, x)
          BY DEF Match, MatchUncompiled, MatchAny, MatchIndices
        <4> QED
          BY <4>1 DEF Reply
      <3>4. \A o \in Objs, s \in Objs : ~MoveConstruct(o, s) /\ ~MoveAssign(o, s)
        BY DEF MoveConstruct, MoveAssign, Adopt, Moved
      <3>5. \A o \in Objs : ~MoveToSelf(o) /\ ~Destroy(o)
        <4>1. \A o \in Objs : /\ MoveToSelf(o) => reply' = Reply("selfmove", o, TRUE)
                              /\ Destroy(o) => reply' = Reply("destroy", o, TRUE)
          BY DEF MoveToSelf, Destroy
        <4> QED
          BY <4>1 DEF Reply
      <3> QED
        BY <3>1, <3>2, <3>3, <3>4, <3>5 DEF Next
    <2>2. CASE Accept(o, p)
      <3>1. reply'.obj = o /\ reply'.ret = size[o]
        BY <2>2 DEF Accept, Reply
      <3> QED
        BY <3>1 DEF IndInv, InStep
    <2>3. CASE Reject(o, p)
      BY <2>3 DEF Reject, Reply
    <2> QED
      BY <2>1, <2>2, <2>3 DEF Add
  <1> QED
    BY <1>1, Invariance, PTL DEF Spec, AddNumbersInOrder

\* A move preserves the answers of Match(text, NULL): the program changes hands, it
\* is neither freed nor replaced.
THEOREM MovePreservation == Spec => MoveKeepsIsMatch
  <1> DEFINE A == \A d, s \in Objs, t \in Texts :
                    reply' = Moved(d, s) => (IsMatch(d, t)' <=> IsMatch(s, t))
  <1>1. IndInv /\ [Next]_vars => [A]_vars
    <2> SUFFICES ASSUME IndInv, Next, NEW d \in Objs, NEW s \in Objs, NEW t \in Texts,
                        reply' = Moved(d, s)
                 PROVE  IsMatch(d, t)' <=> IsMatch(s, t)
      OBVIOUS
    <2>1. MoveConstruct(d, s) \/ MoveAssign(d, s)
      <3>1. PICK o \in Objs, r \in Objs : MoveConstruct(o, r) \/ MoveAssign(o, r)
        BY DEF Next, Construct, Add, Accept, Reject, Compile, CompileAgain, CompileOK,
               CompileFails, Match, MatchUncompiled, MatchAny, MatchIndices, MoveToSelf,
               Destroy, Reply, Moved
      <3>2. reply' = Moved(o, r)
        BY <3>1 DEF MoveConstruct, MoveAssign, Adopt
      <3>3. o = d /\ r = s
        BY <3>2 DEF Moved
      <3> QED
        BY <3>1, <3>3
    <2>2. d # s /\ Adopt(d, s)
      BY <2>1 DEF MoveConstruct, MoveAssign
    <2>3. compiled'[d] <=> compiled[s]
      BY <2>2 DEF Adopt, TakeProg, IndInv, TypeOK
    <2>4. prog'[d] = prog[s]
      BY <2>2 DEF Adopt, TakeProg, IndInv, TypeOK
    <2>5. ASSUME compiled[s]
          PROVE  heap'[prog[s]] = heap[prog[s]]
      <3>1. prog[s] \in DOMAIN heap \ {prog[d]}
        BY <2>2, <2>5 DEF IndInv, OwnedOnce
      <3> QED
        BY <2>1, <3>1 DEF MoveConstruct, MoveAssign, Freed
    <2>6. HitIndices(d, t)' = {i \in 0..Len(heap'[prog'[d]]) - 1 :
                                 Hits(heap'[prog'[d]][i + 1], CText(t))}
      BY DEF HitIndices
    <2>7. compiled[s] => HitIndices(d, t)' = HitIndices(s, t)
      BY <2>4, <2>5, <2>6 DEF HitIndices
    <2> QED
      BY <2>3, <2>7 DEF IsMatch
  <1> QED
    BY <1>1, Invariance, PTL DEF Spec, MoveKeepsIsMatch
=============================================================================
