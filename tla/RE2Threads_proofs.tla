------------------------- MODULE RE2Threads_proofs -------------------------
(***************************************************************************)
(* Proofs about RE2Threads, for any threads, group names and heap.         *)
(***************************************************************************)
EXTENDS RE2Threads, TLAPS

Building == {"construct", "new string", "new tables", "fields", "compile"}
Computing == {"new table", "fill", "store"}
Asking == {"ask", "answer", "answered"} \cup Computing
Holding == {"compile", "publish"} \cup Asking

\* Which RE2 a thread has its hands on, and that it asks for a table.
ControlAt(t) ==
  /\ pc[t] \in {"idle", "get"} => obj[t] = NULL
  /\ pc[t] = "got" => obj[t] \in {NULL, Lazy}
  /\ pc[t] = "publish" => obj[t] = Lazy
  /\ pc[t] \in Building \cup Asking => obj[t] \in {t, Lazy}
  /\ table[t] # NULL <=> pc[t] # "idle"

ControlOK == \A t \in Threads : ControlAt(t)

\* A once_flag names the thread that runs its call exactly while it runs it, and says
\* that the call is over exactly when its effect is there.
BuildsLazy(t) == obj[t] = Lazy /\ pc[t] \in Building \cup {"publish"}
NeedsLazy(t) == pc[t] = "got" \/ (obj[t] = Lazy /\ pc[t] \in Asking)

LazyOnceOK ==
  /\ \A t \in Threads : once[LazyOnce] = t <=> BuildsLazy(t)
  /\ once[LazyOnce] = Done <=> ptr_ = Lazy
  /\ \A t \in Threads : NeedsLazy(t) => ptr_ = Lazy

BuildsGlobals(t) == pc[t] \in {"new string", "new tables"}

EmptyOnceOK ==
  /\ \A t \in Threads : once[EmptyOnce] = t <=> BuildsGlobals(t)
  /\ once[EmptyOnce] = NULL => empty_string = NULL
  /\ empty_string = NULL => \A w \in Tables : empty_tables[w] = NULL
  /\ \A t \in Threads : pc[t] = "new string" => empty_string = NULL
  /\ \A t \in Threads : pc[t] = "new tables" => empty_string # NULL
  /\ once[EmptyOnce] = Done => empty_string # NULL /\ \A w \in Tables : empty_tables[w] # NULL
  /\ \A t \in Threads : pc[t] = "fields" => once[EmptyOnce] = Done
  /\ \A r \in Objs : res[r] # NULL => once[EmptyOnce] = Done

Computes(t, r, w) == obj[t] = r /\ table[t] = w /\ pc[t] \in Computing

TableOnceOK ==
  /\ \A t \in Threads, r \in Objs, w \in Tables : once[TableOnce(r, w)] = t <=> Computes(t, r, w)
  /\ \A r \in Objs, w \in Tables :
       once[TableOnce(r, w)] = Done <=> res[r] # NULL /\ res[r].tables[w] # NULL

\* An RE2 is there for as long as somebody has it, the LazyRE2's for ever.
Holds(t, r) == obj[t] = r /\ pc[t] \in Holding

FieldsAt(t) ==
  /\ pc[t] = "compile" =>
       res[obj[t]] = [kind |-> NULL, error_ |-> empty_string, tables |-> [w \in Tables |-> NULL]]
  /\ pc[t] \in Holding \ {"compile"} => res[obj[t]].kind # NULL

ObjectsOK ==
  /\ \A r \in Objs :
       res[r] # NULL <=> (r = Lazy /\ ptr_ = Lazy) \/ \E t \in Threads : Holds(t, r)
  /\ \A t \in Threads : FieldsAt(t)
  /\ ptr_ = Lazy => res[Lazy].kind # NULL

\* A table that is being filled holds the names that its iterator has given, and is
\* nobody else's.
FillingAt(t) ==
  /\ temp[t] # NULL <=> pc[t] = "fill" \/ (pc[t] = "store" /\ res[obj[t]].kind = "ok")
  /\ pc[t] \in {"new table", "fill"} => res[obj[t]].kind = "ok"
  /\ pc[t] = "store" /\ res[obj[t]].kind = "ok" => i[t] = Len(GroupNames)
  /\ temp[t] # NULL => /\ temp[t] \in DOMAIN heap \ Globals
                       /\ heap[temp[t]] = Entries(i[t])

FillingOK ==
  /\ \A t \in Threads : FillingAt(t)
  /\ \A t, u \in Threads : temp[t] # NULL /\ temp[u] = temp[t] => u = t

\* A table that is stored is the one that its RE2 gives, finished.
StoredIn(r) ==
  \A w \in Tables :
    res[r] # NULL /\ res[r].tables[w] # NULL
    => res[r].tables[w] \in DOMAIN heap /\ heap[res[r].tables[w]] = TableOf(res[r].kind)

AnswerAt(t) ==
  /\ pc[t] = "answer" => res[obj[t]].tables[table[t]] # NULL
  /\ pc[t] = "answered" => ret[t] # NULL /\ ret[t] = res[obj[t]].tables[table[t]]
  /\ pc[t] # "answered" => ret[t] = NULL

StoredOK ==
  /\ \A w \in Tables : empty_tables[w] # NULL => heap[empty_tables[w]] = {}
  /\ \A r \in Objs : StoredIn(r)
  /\ \A t \in Threads : AnswerAt(t)

IndInv ==
  /\ TypeOK /\ HeapOwned
  /\ ControlOK /\ LazyOnceOK /\ EmptyOnceOK /\ TableOnceOK
  /\ ObjectsOK /\ FillingOK /\ StoredOK
------------------------------------------------------------------------------
\* Pointers, threads, flags and tables are different things.
LEMMA Apart ==
  /\ NULL \notin Threads /\ Done \notin Threads /\ Lazy \notin Threads
  /\ NULL # Done /\ NULL # Lazy /\ NULL \notin Objs
  /\ NULL \notin Ids /\ NULL \notin Tables /\ NULL \notin Kinds /\ NULL \notin RE2s
  BY ThreadsAssumption DEF Objs

\* The groups are counted.
LEMMA GroupsCounted == Len(GroupNames) \in Nat
  <1>1. GroupNames \in Seq(STRING)
    BY ThreadsAssumption
  <1> QED
    BY <1>1

\* The once_flags are different from each other.
LEMMA FlagsApart ==
  /\ LazyOnce \in Flags /\ EmptyOnce \in Flags /\ LazyOnce # EmptyOnce
  /\ \A r \in Objs, w \in Tables :
       /\ TableOnce(r, w) \in Flags /\ TableOnce(r, w) \notin {LazyOnce, EmptyOnce}
       /\ \A r2 \in Objs, w2 \in Tables : TableOnce(r, w) = TableOnce(r2, w2) => r = r2 /\ w = w2
  BY ThreadsAssumption DEF Flags, LazyOnce, EmptyOnce, TableOnce

\* At the start nothing is allocated and nobody has anything.
LEMMA InitEstablishes == Init => IndInv
  <1> SUFFICES ASSUME Init PROVE IndInv
    OBVIOUS
  <1> USE Apart DEF Init
  <1>1. TypeOK
    <2>1. DOMAIN heap = {}
      OBVIOUS
    <2>3. 0 \in 0..Len(GroupNames)
      BY GroupsCounted
    <2>4. heap \in [DOMAIN heap -> SUBSET Entries(Len(GroupNames))]
      BY <2>1
    <2> QED
      BY <2>1, <2>3, <2>4 DEF TypeOK
  <1>2. HeapOwned
    <2>1. Globals = {} /\ Built = {} /\ {temp[t] : t \in Threads} \ {NULL} = {}
      BY DEF Globals, Built
    <2> QED
      BY <2>1 DEF HeapOwned
  <1>3. ControlOK /\ LazyOnceOK
    BY FlagsApart DEF ControlOK, ControlAt, LazyOnceOK, BuildsLazy, NeedsLazy, Building, Asking,
       Computing
  <1>4. EmptyOnceOK /\ TableOnceOK
    BY FlagsApart DEF EmptyOnceOK, BuildsGlobals, TableOnceOK, Computes, Computing
  <1>5. ObjectsOK
    BY DEF ObjectsOK, Holds, FieldsAt, Holding, Asking, Computing
  <1>6. FillingOK /\ StoredOK
    BY DEF FillingOK, FillingAt, StoredOK, StoredIn, AnswerAt
  <1> QED
    BY <1>1, <1>2, <1>3, <1>4, <1>5, <1>6 DEF IndInv
------------------------------------------------------------------------------
(***************************************************************************)
(* Frames: what a step of thread t leaves alone.                           *)
(***************************************************************************)
\* The other threads stay where they are.
Alone(t) ==
  \A u \in Threads \ {t} :
    /\ pc'[u] = pc[u] /\ obj'[u] = obj[u] /\ table'[u] = table[u]
    /\ temp'[u] = temp[u] /\ i'[u] = i[u] /\ ret'[u] = ret[u]

\* The heap of a step that moves nothing on it.
LEMMA HeapKept ==
  ASSUME HeapOwned, UNCHANGED <<temp, empty_string, empty_tables, res, heap>>
  PROVE  HeapOwned'
  <1>1. /\ Globals' = Globals /\ Built' = Built
        /\ {temp'[t] : t \in Threads} = {temp[t] : t \in Threads}
        /\ \A r \in Built : OwnedBy(r)' = OwnedBy(r)
    BY DEF Globals, Built, OwnedBy
  <1>2. DOMAIN heap' = DOMAIN heap
    OBVIOUS
  <1> QED
    BY <1>1, <1>2 DEF HeapOwned

\* Control is in order if it is for the thread that moves.
LEMMA ControlKept ==
  ASSUME ControlOK, NEW t \in Threads, Alone(t), ControlAt(t)'
  PROVE  ControlOK'
  BY DEF ControlOK, ControlAt, Alone

\* The LazyRE2's flag, for a step that does not begin or end its call.
LEMMA LazyOnceKept ==
  ASSUME LazyOnceOK, NEW t \in Threads, Alone(t), UNCHANGED ptr_,
         once'[LazyOnce] = once[LazyOnce], BuildsLazy(t)' <=> BuildsLazy(t),
         NeedsLazy(t)' => ptr_ = Lazy
  PROVE  LazyOnceOK'
  <1>1. \A u \in Threads \ {t} : /\ BuildsLazy(u)' <=> BuildsLazy(u)
                                 /\ NeedsLazy(u)' <=> NeedsLazy(u)
    BY DEF Alone, BuildsLazy, NeedsLazy
  <1> QED
    BY <1>1 DEF LazyOnceOK

\* The flag of the globals, for a step that does not build them.
LEMMA EmptyOnceKept ==
  ASSUME EmptyOnceOK, NEW t \in Threads, Alone(t), UNCHANGED <<empty_string, empty_tables>>,
         once'[EmptyOnce] = once[EmptyOnce], ~BuildsGlobals(t), ~BuildsGlobals(t)',
         pc'[t] = "fields" => once[EmptyOnce] = Done,
         \A r \in Objs : res'[r] # NULL => once[EmptyOnce] = Done
  PROVE  EmptyOnceOK'
  BY ZenonT(30) DEF EmptyOnceOK, BuildsGlobals, Alone

\* The flags of the tables, for a step that computes none.
LEMMA TableOnceKept ==
  ASSUME TableOnceOK, NEW t \in Threads, Alone(t),
         \A r \in Objs, w \in Tables : once'[TableOnce(r, w)] = once[TableOnce(r, w)],
         \A r \in Objs, w \in Tables :
           res'[r] # NULL /\ res'[r].tables[w] # NULL <=> res[r] # NULL /\ res[r].tables[w] # NULL,
         \A r \in Objs, w \in Tables : Computes(t, r, w)' <=> Computes(t, r, w)
  PROVE  TableOnceOK'
  <1>1. \A u \in Threads, r \in Objs, w \in Tables : Computes(u, r, w)' <=> Computes(u, r, w)
    BY DEF Alone, Computes
  <1> QED
    BY <1>1 DEF TableOnceOK

\* The RE2s, for a step that does not touch them.
LEMMA ObjectsKept ==
  ASSUME ObjectsOK, NEW t \in Threads, Alone(t), UNCHANGED <<ptr_, res, empty_string>>,
         \A r \in Objs : Holds(t, r)' <=> Holds(t, r), FieldsAt(t)'
  PROVE  ObjectsOK'
  <1>1. \A u \in Threads, r \in Objs : Holds(u, r)' <=> Holds(u, r)
    BY DEF Alone, Holds
  <1>2. \A u \in Threads : FieldsAt(u)'
    BY DEF Alone, FieldsAt, ObjectsOK
  <1> QED
    BY <1>1, <1>2 DEF ObjectsOK

\* The tables being filled, for a step that may fill that of its thread.
LEMMA FillingFrame ==
  ASSUME FillingOK, NEW t \in Threads, Alone(t), FillingAt(t)',
         \A u \in Threads \ {t} : pc[u] \in Computing => res'[obj[u]].kind = res[obj[u]].kind,
         \A u \in Threads \ {t} :
           temp[u] # NULL => /\ temp[u] \in DOMAIN heap' \ Globals'
                             /\ heap'[temp[u]] = heap[temp[u]] /\ temp[u] # temp'[t]
  PROVE  FillingOK'
  <1>1. ASSUME NEW u \in Threads \ {t}
        PROVE  FillingAt(u)'
    <2>1. FillingAt(u) /\ Entries(i[u])' = Entries(i'[u])
      BY DEF FillingOK, Entries
    <2> QED
      BY <2>1 DEF Alone, FillingAt, Computing
  <1>2. ASSUME NEW u \in Threads, NEW v \in Threads, temp'[u] # NULL, temp'[v] = temp'[u]
        PROVE  v = u
    BY <1>2 DEF Alone, FillingOK
  <1> QED
    BY <1>1, <1>2 DEF FillingOK

\* The tables being filled, for a step that fills none.
LEMMA FillingKept ==
  ASSUME FillingOK, NEW t \in Threads, Alone(t),
         UNCHANGED <<temp, i, res, heap, empty_string, empty_tables>>, FillingAt(t)'
  PROVE  FillingOK'
  <1>1. ASSUME NEW u \in Threads \ {t}
        PROVE  FillingAt(u)'
    <2>1. FillingAt(u) /\ Globals' = Globals /\ Entries(i[u])' = Entries(i[u])
      BY DEF FillingOK, Globals, Entries
    <2> QED
      BY <2>1 DEF Alone, FillingAt
  <1> QED
    BY <1>1 DEF FillingOK

\* What a thread is to be given, for a step that takes no table out of an RE2.
LEMMA AnswersKept ==
  ASSUME StoredOK, NEW t \in Threads, Alone(t), AnswerAt(t)',
         \A u \in Threads \ {t} : pc[u] \in {"answer", "answered"} =>
           res'[obj[u]].tables[table[u]] = res[obj[u]].tables[table[u]]
  PROVE  \A u \in Threads : AnswerAt(u)'
  BY DEF Alone, StoredOK, AnswerAt

\* A step that allocates.
LEMMA AllocateGrows ==
  ASSUME TypeOK, NEW id, Allocate(id)
  PROVE  /\ id \in Ids /\ id # NULL /\ id \notin DOMAIN heap /\ DOMAIN heap' = DOMAIN heap \cup {id}
         /\ heap'[id] = {} /\ \A a \in DOMAIN heap : heap'[a] = heap[a]
         /\ DOMAIN heap' \subseteq Ids /\ heap' \in [DOMAIN heap' -> SUBSET Entries(Len(GroupNames))]
  BY Apart DEF TypeOK, Allocate

\* What is stored, for a step that stores nothing.
LEMMA StoredKept ==
  ASSUME StoredOK, NEW t \in Threads, Alone(t), UNCHANGED <<res, heap, empty_tables>>, AnswerAt(t)'
  PROVE  StoredOK'
  <1>1. \A u \in Threads : AnswerAt(u)'
    BY DEF Alone, StoredOK, AnswerAt
  <1>2. \A r \in Objs : StoredIn(r)'
    BY DEF StoredOK, StoredIn
  <1> QED
    BY <1>1, <1>2 DEF StoredOK
------------------------------------------------------------------------------
\* A call on the LazyRE2 begins.
LEMMA UseLazyPreserves ==
  ASSUME IndInv, NEW t \in Threads, NEW w \in Tables, UseLazy(t, w)
  PROVE  IndInv'
  <1>0. /\ TypeOK /\ HeapOwned
        /\ ControlOK /\ LazyOnceOK /\ EmptyOnceOK /\ TableOnceOK
        /\ ObjectsOK /\ FillingOK /\ StoredOK
    BY DEF IndInv
  <1>a. /\ pc[t] = "idle" /\ w # NULL
        /\ pc' = [pc EXCEPT ![t] = "get"] /\ table' = [table EXCEPT ![t] = w]
        /\ UNCHANGED <<obj, temp, i, ret, once, empty_string, empty_tables, ptr_, res, heap>>
    BY Apart DEF UseLazy, Goto
  <1>1. TypeOK'
    BY <1>0, <1>a DEF TypeOK
  <1>b. pc'[t] = "get" /\ table'[t] = w /\ Alone(t)
    BY <1>0, <1>a DEF TypeOK, Alone
  <1> USE DEF Building, Asking, Computing, Holding
  <1>2. HeapOwned'
    BY <1>0, <1>a, HeapKept
  <1>3. ControlOK'
    BY <1>0, <1>a, <1>b, ControlKept DEF ControlOK, ControlAt
  <1>4. LazyOnceOK'
    BY <1>0, <1>a, <1>b, LazyOnceKept DEF BuildsLazy, NeedsLazy
  <1>5. EmptyOnceOK'
    BY <1>0, <1>a, <1>b, EmptyOnceKept DEF BuildsGlobals, EmptyOnceOK
  <1>6. TableOnceOK'
    BY <1>0, <1>a, <1>b, TableOnceKept DEF Computes
  <1>7. ObjectsOK'
    BY <1>0, <1>a, <1>b, ObjectsKept DEF Holds, FieldsAt
  <1>8. FillingOK'
    BY <1>0, <1>a, <1>b, FillingKept DEF FillingOK, FillingAt
  <1>9. StoredOK'
    BY <1>0, <1>a, <1>b, StoredKept DEF StoredOK, AnswerAt
  <1> QED
    BY <1>1, <1>2, <1>3, <1>4, <1>5, <1>6, <1>7, <1>8, <1>9 DEF IndInv

\* A thread will construct an RE2 of its own.
LEMMA UseOwnPreserves ==
  ASSUME IndInv, NEW t \in Threads, NEW w \in Tables, UseOwn(t, w)
  PROVE  IndInv'
  <1>0. /\ TypeOK /\ HeapOwned
        /\ ControlOK /\ LazyOnceOK /\ EmptyOnceOK /\ TableOnceOK
        /\ ObjectsOK /\ FillingOK /\ StoredOK
    BY DEF IndInv
  <1>a. /\ pc[t] = "idle" /\ w # NULL
        /\ pc' = [pc EXCEPT ![t] = "construct"] /\ table' = [table EXCEPT ![t] = w]
        /\ obj' = [obj EXCEPT ![t] = t]
        /\ UNCHANGED <<temp, i, ret, once, empty_string, empty_tables, ptr_, res, heap>>
    BY Apart DEF UseOwn, Goto
  <1>1. TypeOK'
    BY <1>0, <1>a DEF TypeOK, Objs
  <1>b. pc'[t] = "construct" /\ table'[t] = w /\ obj'[t] = t /\ t # Lazy /\ Alone(t)
    BY <1>0, <1>a, Apart DEF TypeOK, Alone
  <1> USE DEF Building, Asking, Computing, Holding
  <1>2. HeapOwned'
    BY <1>0, <1>a, HeapKept
  <1>3. ControlOK'
    BY <1>0, <1>a, <1>b, ControlKept DEF ControlOK, ControlAt
  <1>4. LazyOnceOK'
    <2>1. ~BuildsLazy(t) /\ ~BuildsLazy(t)' /\ ~NeedsLazy(t)'
      BY <1>a, <1>b DEF BuildsLazy, NeedsLazy
    <2> QED
      BY <1>0, <1>a, <1>b, <2>1, LazyOnceKept
  <1>5. EmptyOnceOK'
    BY <1>0, <1>a, <1>b, EmptyOnceKept DEF BuildsGlobals, EmptyOnceOK
  <1>6. TableOnceOK'
    BY <1>0, <1>a, <1>b, TableOnceKept DEF Computes
  <1>7. ObjectsOK'
    BY <1>0, <1>a, <1>b, ObjectsKept DEF Holds, FieldsAt
  <1>8. FillingOK'
    BY <1>0, <1>a, <1>b, FillingKept DEF FillingOK, FillingAt
  <1>9. StoredOK'
    BY <1>0, <1>a, <1>b, StoredKept DEF StoredOK, AnswerAt
  <1> QED
    BY <1>1, <1>2, <1>3, <1>4, <1>5, <1>6, <1>7, <1>8, <1>9 DEF IndInv

\* The LazyRE2 is there, or this thread is the one that constructs it.
LEMMA GetPreserves ==
  ASSUME IndInv, NEW t \in Threads, Get(t)
  PROVE  IndInv'
  <1>0. /\ TypeOK /\ HeapOwned
        /\ ControlOK /\ LazyOnceOK /\ EmptyOnceOK /\ TableOnceOK
        /\ ObjectsOK /\ FillingOK /\ StoredOK
    BY DEF IndInv
  <1>a. /\ pc[t] = "get"
        /\ UNCHANGED <<table, temp, i, ret, empty_string, empty_tables, ptr_, res, heap>>
    BY DEF Get
  <1>b. \/ /\ once[LazyOnce] = Done /\ once' = once
           /\ pc' = [pc EXCEPT ![t] = "got"] /\ obj' = obj
        \/ /\ once[LazyOnce] = NULL /\ once' = [once EXCEPT ![LazyOnce] = t]
           /\ pc' = [pc EXCEPT ![t] = "construct"] /\ obj' = [obj EXCEPT ![t] = Lazy]
    <2>1. \/ once[LazyOnce] = Done /\ once' = once /\ pc' = [pc EXCEPT ![t] = "got"]
          \/ /\ once[LazyOnce] = NULL /\ once' = [once EXCEPT ![LazyOnce] = t]
             /\ pc' = [pc EXCEPT ![t] = "construct"]
      BY DEF Get, CallOnce, Goto
    <2>2. obj' = [obj EXCEPT ![t] = IF once[LazyOnce] = NULL THEN Lazy ELSE obj[t]]
      BY DEF Get
    <2>3. CASE once[LazyOnce] = Done
      <3>1. obj' = [obj EXCEPT ![t] = obj[t]]
        BY <2>2, <2>3, Apart
      <3>2. obj' = obj
        BY <1>0, <3>1 DEF TypeOK
      <3> QED
        BY <2>1, <2>3, <3>2, Apart
    <2>4. CASE once[LazyOnce] = NULL
      <3>1. obj' = [obj EXCEPT ![t] = Lazy]
        BY <2>2, <2>4
      <3> QED
        BY <2>1, <2>4, <3>1, Apart
    <2> QED
      BY <2>1, <2>3, <2>4
  <1>1. TypeOK'
    <2>1. obj' \in [Threads -> Objs \cup {NULL}] /\ once' \in [Flags -> Threads \cup {NULL, Done}]
      <3>1. obj \in [Threads -> Objs \cup {NULL}] /\ once \in [Flags -> Threads \cup {NULL, Done}]
        BY <1>0 DEF TypeOK
      <3>2. Lazy \in Objs /\ LazyOnce \in Flags
        BY FlagsApart DEF Objs
      <3>3. [obj EXCEPT ![t] = Lazy] \in [Threads -> Objs \cup {NULL}]
        BY <3>1, <3>2
      <3>4. [once EXCEPT ![LazyOnce] = t] \in [Flags -> Threads \cup {NULL, Done}]
        BY <3>1
      <3> QED
        BY <1>b, <3>1, <3>3, <3>4, Zenon
    <2>2. pc' = [pc EXCEPT ![t] = "got"] \/ pc' = [pc EXCEPT ![t] = "construct"]
      BY <1>b
    <2> QED
      BY <1>0, <1>a, <2>1, <2>2 DEF TypeOK
  <1>c. /\ Alone(t) /\ pc'[t] \in {"got", "construct"} /\ obj[t] = NULL
        /\ \/ pc'[t] = "got" /\ obj'[t] = NULL /\ once[LazyOnce] = Done /\ once'[LazyOnce] = Done
           \/ pc'[t] = "construct" /\ obj'[t] = Lazy /\ once[LazyOnce] = NULL /\ once'[LazyOnce] = t
    BY <1>0, <1>a, <1>b, FlagsApart DEF TypeOK, Alone, ControlOK, ControlAt
  <1>d. \A f \in Flags : f # LazyOnce => once'[f] = once[f]
    BY <1>0, <1>b DEF TypeOK
  <1> USE DEF Building, Asking, Computing, Holding
  <1>2. HeapOwned'
    BY <1>0, <1>a, HeapKept
  <1>3. ControlOK'
    <2>1. ControlAt(t)'
      BY <1>0, <1>a, <1>c DEF ControlOK, ControlAt
    <2> QED
      BY <1>0, <1>c, <2>1, ControlKept
  <1>4. LazyOnceOK'
    <2>1. CASE pc'[t] = "got"
      BY <1>0, <1>a, <1>c, <2>1, Apart, LazyOnceKept DEF BuildsLazy, NeedsLazy, LazyOnceOK
    <2>2. CASE pc'[t] = "construct"
      <3>1. once[LazyOnce] = NULL /\ once'[LazyOnce] = t /\ obj'[t] = Lazy
        BY <1>c, <2>2
      <3>2. \A u \in Threads \ {t} : ~BuildsLazy(u)' /\ (NeedsLazy(u)' => NeedsLazy(u))
        <4>1. \A u \in Threads : ~BuildsLazy(u)
          BY <1>0, <3>1, Apart DEF LazyOnceOK
        <4>2. \A u \in Threads \ {t} : /\ BuildsLazy(u)' <=> BuildsLazy(u)
                                       /\ NeedsLazy(u)' <=> NeedsLazy(u)
          BY <1>c DEF Alone, BuildsLazy, NeedsLazy
        <4> QED
          BY <4>1, <4>2
      <3>3. BuildsLazy(t)' /\ ~NeedsLazy(t)'
        BY <2>2, <3>1 DEF BuildsLazy, NeedsLazy
      <3> QED
        BY <1>0, <1>a, <3>1, <3>2, <3>3, Apart DEF LazyOnceOK
    <2> QED
      BY <1>c, <2>1, <2>2
  <1>5. EmptyOnceOK'
    BY <1>0, <1>a, <1>c, <1>d, FlagsApart, EmptyOnceKept DEF BuildsGlobals, EmptyOnceOK
  <1>6. TableOnceOK'
    BY <1>0, <1>a, <1>c, <1>d, FlagsApart, TableOnceKept DEF Computes
  <1>7. ObjectsOK'
    BY <1>0, <1>a, <1>c, ObjectsKept DEF Holds, FieldsAt
  <1>8. FillingOK'
    BY <1>0, <1>a, <1>c, FillingKept DEF FillingOK, FillingAt
  <1>9. StoredOK'
    BY <1>0, <1>a, <1>c, StoredKept DEF StoredOK, AnswerAt
  <1> QED
    BY <1>1, <1>2, <1>3, <1>4, <1>5, <1>6, <1>7, <1>8, <1>9 DEF IndInv

\* The LazyRE2 is complete, and its flag set.
LEMMA PublishPreserves ==
  ASSUME IndInv, NEW t \in Threads, Publish(t)
  PROVE  IndInv'
  <1>0. /\ TypeOK /\ HeapOwned
        /\ ControlOK /\ LazyOnceOK /\ EmptyOnceOK /\ TableOnceOK
        /\ ObjectsOK /\ FillingOK /\ StoredOK
    BY DEF IndInv
  <1>a. /\ pc[t] = "publish" /\ ptr_' = Lazy /\ obj[t] = Lazy
        /\ pc' = [pc EXCEPT ![t] = "got"] /\ once' = [once EXCEPT ![LazyOnce] = Done]
        /\ UNCHANGED <<obj, table, temp, i, ret, empty_string, empty_tables, res, heap>>
    BY <1>0 DEF Publish, EndOnce, Goto, ControlOK, ControlAt
  <1>1. TypeOK'
    BY <1>0, <1>a, FlagsApart DEF TypeOK
  <1>b. pc'[t] = "got" /\ obj'[t] = Lazy /\ once'[LazyOnce] = Done /\ Alone(t)
    BY <1>0, <1>a, FlagsApart DEF TypeOK, Alone
  <1>c. \A f \in Flags : f # LazyOnce => once'[f] = once[f]
    BY <1>0, <1>a DEF TypeOK
  <1>d. once[LazyOnce] = t /\ res[Lazy] # NULL /\ res[Lazy].kind # NULL
    BY <1>0, <1>a, Apart DEF LazyOnceOK, BuildsLazy, ObjectsOK, Holds, FieldsAt, Holding, Objs
  <1> USE DEF Building, Asking, Computing, Holding
  <1>2. HeapOwned'
    BY <1>0, <1>a, HeapKept
  <1>3. ControlOK'
    BY <1>0, <1>a, <1>b, ControlKept DEF ControlOK, ControlAt
  <1>4. LazyOnceOK'
    <2>1. \A u \in Threads \ {t} : ~BuildsLazy(u)'
      <3>1. \A u \in Threads \ {t} : ~BuildsLazy(u)
        BY <1>0, <1>d DEF LazyOnceOK
      <3>2. \A u \in Threads \ {t} : BuildsLazy(u)' <=> BuildsLazy(u)
        BY <1>b DEF Alone, BuildsLazy
      <3> QED
        BY <3>1, <3>2
    <2>2. ~BuildsLazy(t)'
      BY <1>b DEF BuildsLazy
    <2> QED
      BY <1>0, <1>a, <1>b, <2>1, <2>2, Apart DEF LazyOnceOK
  <1>5. EmptyOnceOK'
    BY <1>0, <1>a, <1>b, <1>c, FlagsApart, EmptyOnceKept DEF BuildsGlobals, EmptyOnceOK
  <1>6. TableOnceOK'
    BY <1>0, <1>a, <1>b, <1>c, FlagsApart, TableOnceKept DEF Computes
  <1>7. ObjectsOK'
    <2>1. \A u \in Threads, r \in Objs : r # Lazy => (Holds(u, r)' <=> Holds(u, r))
      BY <1>a, <1>b DEF Holds, Alone
    <2>2. \A u \in Threads : FieldsAt(u)'
      BY <1>0, <1>a, <1>b DEF FieldsAt, ObjectsOK, Alone
    <2> QED
      BY <1>0, <1>a, <1>d, <2>1, <2>2 DEF ObjectsOK
  <1>8. FillingOK'
    BY <1>0, <1>a, <1>b, FillingKept DEF FillingOK, FillingAt
  <1>9. StoredOK'
    BY <1>0, <1>a, <1>b, StoredKept DEF StoredOK, AnswerAt
  <1> QED
    BY <1>1, <1>2, <1>3, <1>4, <1>5, <1>6, <1>7, <1>8, <1>9 DEF IndInv

\* The thread takes the pointer to the LazyRE2.
LEMMA GotPreserves ==
  ASSUME IndInv, NEW t \in Threads, Got(t)
  PROVE  IndInv'
  <1>0. /\ TypeOK /\ HeapOwned
        /\ ControlOK /\ LazyOnceOK /\ EmptyOnceOK /\ TableOnceOK
        /\ ObjectsOK /\ FillingOK /\ StoredOK
    BY DEF IndInv
  <1>a. /\ pc[t] = "got" /\ ptr_ = Lazy /\ obj[t] \in {NULL, Lazy}
        /\ pc' = [pc EXCEPT ![t] = "ask"] /\ obj' = [obj EXCEPT ![t] = Lazy]
        /\ UNCHANGED <<table, temp, i, ret, once, empty_string, empty_tables, ptr_, res, heap>>
    BY <1>0 DEF Got, Goto, ControlOK, ControlAt, LazyOnceOK, NeedsLazy
  <1>1. TypeOK'
    BY <1>0, <1>a DEF TypeOK, Objs
  <1>b. pc'[t] = "ask" /\ obj'[t] = Lazy /\ Alone(t)
    BY <1>0, <1>a DEF TypeOK, Alone
  <1> USE DEF Building, Asking, Computing, Holding
  <1>2. HeapOwned'
    BY <1>0, <1>a, HeapKept
  <1>3. ControlOK'
    BY <1>0, <1>a, <1>b, ControlKept DEF ControlOK, ControlAt
  <1>4. LazyOnceOK'
    BY <1>0, <1>a, <1>b, LazyOnceKept DEF BuildsLazy
  <1>5. EmptyOnceOK'
    BY <1>0, <1>a, <1>b, EmptyOnceKept DEF BuildsGlobals, EmptyOnceOK
  <1>6. TableOnceOK'
    BY <1>0, <1>a, <1>b, TableOnceKept DEF Computes
  <1>7. ObjectsOK'
    <2>1. \A u \in Threads, r \in Objs : r # Lazy => (Holds(u, r)' <=> Holds(u, r))
      BY <1>a, <1>b DEF Holds, Alone
    <2>2. \A u \in Threads : FieldsAt(u)'
      BY <1>0, <1>a, <1>b, ZenonT(30) DEF FieldsAt, ObjectsOK, Alone
    <2> QED
      BY <1>0, <1>a, <2>1, <2>2 DEF ObjectsOK
  <1>8. FillingOK'
    BY <1>0, <1>a, <1>b, FillingKept DEF FillingOK, FillingAt
  <1>9. StoredOK'
    BY <1>0, <1>a, <1>b, StoredKept DEF StoredOK, AnswerAt
  <1> QED
    BY <1>1, <1>2, <1>3, <1>4, <1>5, <1>6, <1>7, <1>8, <1>9 DEF IndInv

\* The globals are there, or this thread is the one that makes them.
LEMMA ConstructPreserves ==
  ASSUME IndInv, NEW t \in Threads, Construct(t)
  PROVE  IndInv'
  <1>0. /\ TypeOK /\ HeapOwned
        /\ ControlOK /\ LazyOnceOK /\ EmptyOnceOK /\ TableOnceOK
        /\ ObjectsOK /\ FillingOK /\ StoredOK
    BY DEF IndInv
  <1>a. /\ pc[t] = "construct"
        /\ UNCHANGED <<obj, table, temp, i, ret, empty_string, empty_tables, ptr_, res, heap>>
    BY DEF Construct
  <1>b. \/ /\ once[EmptyOnce] = Done /\ once' = once /\ pc' = [pc EXCEPT ![t] = "fields"]
        \/ /\ once[EmptyOnce] = NULL /\ once' = [once EXCEPT ![EmptyOnce] = t]
           /\ pc' = [pc EXCEPT ![t] = "new string"]
    BY Apart DEF Construct, CallOnce, Goto
  <1>1. TypeOK'
    <2>1. once' \in [Flags -> Threads \cup {NULL, Done}]
      BY <1>0, <1>b, FlagsApart DEF TypeOK
    <2>2. pc' = [pc EXCEPT ![t] = "fields"] \/ pc' = [pc EXCEPT ![t] = "new string"]
      BY <1>b
    <2> QED
      BY <1>0, <1>a, <2>1, <2>2 DEF TypeOK
  <1>c. /\ Alone(t)
        /\ \/ pc'[t] = "fields" /\ once[EmptyOnce] = Done /\ once'[EmptyOnce] = Done
           \/ pc'[t] = "new string" /\ once[EmptyOnce] = NULL /\ once'[EmptyOnce] = t
    BY <1>0, <1>a, <1>b, FlagsApart DEF TypeOK, Alone
  <1>d. \A f \in Flags : f # EmptyOnce => once'[f] = once[f]
    BY <1>0, <1>b DEF TypeOK
  <1> USE DEF Building, Asking, Computing, Holding
  <1>2. HeapOwned'
    BY <1>0, <1>a, HeapKept
  <1>3. ControlOK'
    <2>1. ControlAt(t)'
      BY <1>0, <1>a, <1>c DEF ControlOK, ControlAt
    <2> QED
      BY <1>0, <1>c, <2>1, ControlKept
  <1>4. LazyOnceOK'
    BY <1>0, <1>a, <1>c, <1>d, FlagsApart, LazyOnceKept DEF BuildsLazy, NeedsLazy
  <1>5. EmptyOnceOK'
    <2>1. CASE pc'[t] = "fields"
      BY <1>0, <1>a, <1>c, <2>1, Apart, EmptyOnceKept DEF BuildsGlobals, EmptyOnceOK
    <2>2. CASE pc'[t] = "new string"
      <3>1. once[EmptyOnce] = NULL /\ once'[EmptyOnce] = t /\ t # NULL /\ t # Done
        BY <1>c, <2>2, Apart
      <3>2. /\ empty_string = NULL /\ \A r \in Objs : res[r] = NULL
            /\ \A u \in Threads : ~BuildsGlobals(u) /\ pc[u] # "fields"
        BY <1>0, <3>1, Apart DEF EmptyOnceOK
      <3>3. \A u \in Threads \ {t} : ~BuildsGlobals(u)' /\ pc'[u] # "fields"
        BY <1>c, <3>2 DEF Alone, BuildsGlobals
      <3> QED
        BY <1>0, <1>a, <2>2, <3>1, <3>2, <3>3 DEF EmptyOnceOK, BuildsGlobals
    <2> QED
      BY <1>c, <2>1, <2>2
  <1>6. TableOnceOK'
    BY <1>0, <1>a, <1>c, <1>d, FlagsApart, TableOnceKept DEF Computes
  <1>7. ObjectsOK'
    BY <1>0, <1>a, <1>c, ObjectsKept DEF Holds, FieldsAt
  <1>8. FillingOK'
    BY <1>0, <1>a, <1>c, FillingKept DEF FillingOK, FillingAt
  <1>9. StoredOK'
    BY <1>0, <1>a, <1>c, StoredKept DEF StoredOK, AnswerAt
  <1> QED
    BY <1>1, <1>2, <1>3, <1>4, <1>5, <1>6, <1>7, <1>8, <1>9 DEF IndInv

\* The global string is allocated.
LEMMA NewStringPreserves ==
  ASSUME IndInv, NEW t \in Threads, NewString(t)
  PROVE  IndInv'
  <1>0. /\ TypeOK /\ HeapOwned
        /\ ControlOK /\ LazyOnceOK /\ EmptyOnceOK /\ TableOnceOK
        /\ ObjectsOK /\ FillingOK /\ StoredOK
    BY DEF IndInv
  <1> DEFINE id == Fresh
  <1>a. /\ pc[t] = "new string" /\ pc' = [pc EXCEPT ![t] = "new tables"]
        /\ Allocate(id) /\ empty_string' = id
        /\ UNCHANGED <<obj, table, temp, i, ret, once, empty_tables, ptr_, res>>
    BY DEF NewString, Goto
  <1> HIDE DEF id
  <1>b. /\ id \in Ids /\ id # NULL /\ id \notin DOMAIN heap /\ DOMAIN heap' = DOMAIN heap \cup {id}
        /\ heap'[id] = {} /\ \A a \in DOMAIN heap : heap'[a] = heap[a]
        /\ DOMAIN heap' \subseteq Ids /\ heap' \in [DOMAIN heap' -> SUBSET Entries(Len(GroupNames))]
    BY <1>0, <1>a, AllocateGrows
  <1>c. pc'[t] = "new tables" /\ Alone(t)
    BY <1>0, <1>a DEF TypeOK, Alone
  <1>d. /\ once[EmptyOnce] = t /\ t # Done /\ t # NULL /\ empty_string = NULL
        /\ \A w \in Tables : empty_tables[w] = NULL
        /\ \A r \in Objs : res[r] = NULL
    BY <1>0, <1>a, Apart DEF EmptyOnceOK, BuildsGlobals
  <1>e. Globals = {} /\ Globals' = {id} /\ Built = {} /\ Built' = {}
    BY <1>a, <1>b, <1>d DEF Globals, Built
  <1>f. \A u \in Threads : temp[u] # NULL => temp[u] \in DOMAIN heap
    BY <1>0 DEF FillingOK, FillingAt
  <1> USE DEF Building, Asking, Computing, Holding
  <1>1. TypeOK'
    BY <1>0, <1>a, <1>b DEF TypeOK
  <1>2. HeapOwned'
    <2>1. DOMAIN heap = {temp[u] : u \in Threads} \ {NULL}
      BY <1>0, <1>e DEF HeapOwned
    <2>2. DOMAIN heap' = {id} \cup ({temp'[u] : u \in Threads} \ {NULL})
      BY <1>a, <1>b, <2>1
    <2> QED
      BY <1>e, <2>2 DEF HeapOwned
  <1>3. ControlOK'
    BY <1>0, <1>a, <1>c, ControlKept DEF ControlOK, ControlAt
  <1>4. LazyOnceOK'
    BY <1>0, <1>a, <1>c, LazyOnceKept DEF BuildsLazy, NeedsLazy
  <1>5. EmptyOnceOK'
    <2>1. \A u \in Threads \ {t} : ~BuildsGlobals(u)
      BY <1>0, <1>d DEF EmptyOnceOK
    <2>2. \A u \in Threads \ {t} : ~BuildsGlobals(u)' /\ (pc'[u] = "fields" => pc[u] = "fields")
      BY <1>c, <2>1 DEF Alone, BuildsGlobals
    <2> QED
      BY <1>0, <1>a, <1>b, <1>c, <1>d, <2>2 DEF EmptyOnceOK, BuildsGlobals
  <1>6. TableOnceOK'
    BY <1>0, <1>a, <1>c, TableOnceKept DEF Computes
  <1>7. ObjectsOK'
    <2>1. \A u \in Threads, r \in Objs : Holds(u, r)' <=> Holds(u, r)
      BY <1>a, <1>c DEF Holds, Alone
    <2>2. \A u \in Threads : pc[u] \notin Holding
      <3>1. \A u \in Threads : pc[u] \in Holding => obj[u] \in Objs
        BY <1>0, <1>d DEF ControlOK, ControlAt, Objs
      <3> QED
        BY <1>0, <1>d, <3>1 DEF ObjectsOK, Holds
    <2>3. \A u \in Threads : FieldsAt(u)'
      BY <1>c, <2>2 DEF FieldsAt, Alone
    <2> QED
      BY <1>0, <1>a, <2>1, <2>3 DEF ObjectsOK
  <1>8. FillingOK'
    <2>1. FillingAt(t)' /\ temp'[t] = NULL
      BY <1>0, <1>a, <1>c DEF FillingOK, FillingAt
    <2> QED
      BY <1>0, <1>a, <1>b, <1>c, <1>e, <1>f, <2>1, FillingFrame
  <1>9. StoredOK'
    <2>1. AnswerAt(t)'
      BY <1>0, <1>a, <1>c DEF StoredOK, AnswerAt
    <2>2. \A u \in Threads : AnswerAt(u)'
      BY <1>0, <1>a, <1>c, <2>1, AnswersKept
    <2>3. \A r \in Objs : StoredIn(r)'
      BY <1>a, <1>d DEF StoredIn
    <2> QED
      BY <1>a, <1>d, <2>2, <2>3 DEF StoredOK
  <1> QED
    BY <1>1, <1>2, <1>3, <1>4, <1>5, <1>6, <1>7, <1>8, <1>9 DEF IndInv

\* A global table is allocated, and after the last the flag is set.
LEMMA NewTablesPreserves ==
  ASSUME IndInv, NEW t \in Threads, NewTables(t)
  PROVE  IndInv'
  <1>0. /\ TypeOK /\ HeapOwned
        /\ ControlOK /\ LazyOnceOK /\ EmptyOnceOK /\ TableOnceOK
        /\ ObjectsOK /\ FillingOK /\ StoredOK
    BY DEF IndInv
  <1> DEFINE id == Fresh
  <1>a. PICK w \in Tables :
          /\ pc[t] = "new tables" /\ empty_tables[w] = NULL
          /\ Allocate(id) /\ empty_tables' = [empty_tables EXCEPT ![w] = id]
          /\ \/ /\ \A v \in Tables : empty_tables'[v] # NULL
                /\ once' = [once EXCEPT ![EmptyOnce] = Done] /\ pc' = [pc EXCEPT ![t] = "fields"]
             \/ pc' = pc /\ once' = once
          /\ UNCHANGED <<obj, table, temp, i, ret, empty_string, ptr_, res>>
    BY DEF NewTables, EndOnce, Goto
  <1> HIDE DEF id
  <1>b. /\ id \in Ids /\ id # NULL /\ id \notin DOMAIN heap /\ DOMAIN heap' = DOMAIN heap \cup {id}
        /\ heap'[id] = {} /\ \A a \in DOMAIN heap : heap'[a] = heap[a]
        /\ DOMAIN heap' \subseteq Ids /\ heap' \in [DOMAIN heap' -> SUBSET Entries(Len(GroupNames))]
    BY <1>0, <1>a, AllocateGrows
  <1>1. TypeOK'
    <2>1. pc' = pc \/ pc' = [pc EXCEPT ![t] = "fields"]
      BY <1>a
    <2>2. once' \in [Flags -> Threads \cup {NULL, Done}]
      BY <1>0, <1>a, FlagsApart DEF TypeOK
    <2>3. empty_tables' \in [Tables -> Ids \cup {NULL}]
      BY <1>0, <1>a, <1>b DEF TypeOK
    <2> QED
      BY <1>0, <1>a, <1>b, <2>1, <2>2, <2>3 DEF TypeOK
  <1>c. /\ Alone(t)
        /\ \/ pc'[t] = "fields" /\ once'[EmptyOnce] = Done /\ \A v \in Tables : empty_tables'[v] # NULL
           \/ pc'[t] = "new tables" /\ once'[EmptyOnce] = once[EmptyOnce]
    BY <1>0, <1>a, FlagsApart DEF TypeOK, Alone
  <1>d. \A f \in Flags : f # EmptyOnce => once'[f] = once[f]
    BY <1>0, <1>a DEF TypeOK
  <1>e. /\ once[EmptyOnce] = t /\ t # Done /\ t # NULL /\ empty_string # NULL
        /\ \A r \in Objs : res[r] = NULL
    BY <1>0, <1>a, Apart DEF EmptyOnceOK, BuildsGlobals
  <1>f. /\ empty_tables'[w] = id
        /\ \A v \in Tables : v # w => empty_tables'[v] = empty_tables[v]
    BY <1>0, <1>a DEF TypeOK
  <1>g. /\ Globals' = Globals \cup {id} /\ Built = {} /\ Built' = {}
    <2>1. ASSUME NEW x \in Globals' PROVE x \in Globals \cup {id}
      BY <1>a, <1>f DEF Globals
    <2>2. Globals \subseteq Globals'
      BY <1>a, <1>f DEF Globals
    <2>3. id \in Globals'
      BY <1>b, <1>f DEF Globals
    <2> QED
      BY <1>a, <1>e, <2>1, <2>2, <2>3 DEF Built
  <1> USE DEF Building, Asking, Computing, Holding
  <1>2. HeapOwned'
    <2>1. DOMAIN heap = Globals \cup ({temp[u] : u \in Threads} \ {NULL})
      BY <1>0, <1>g DEF HeapOwned
    <2>2. DOMAIN heap' = Globals' \cup ({temp'[u] : u \in Threads} \ {NULL})
      BY <1>a, <1>b, <1>g, <2>1, ZenonT(30)
    <2> QED
      BY <1>g, <2>2 DEF HeapOwned
  <1>3. ControlOK'
    <2>1. ControlAt(t)'
      BY <1>0, <1>a, <1>c DEF ControlOK, ControlAt
    <2> QED
      BY <1>0, <1>c, <2>1, ControlKept
  <1>4. LazyOnceOK'
    BY <1>0, <1>a, <1>c, <1>d, FlagsApart, LazyOnceKept DEF BuildsLazy, NeedsLazy
  <1>5. EmptyOnceOK'
    <2>1. \A u \in Threads \ {t} : ~BuildsGlobals(u)
      BY <1>0, <1>e DEF EmptyOnceOK
    <2>2. \A u \in Threads \ {t} : ~BuildsGlobals(u)' /\ (pc'[u] = "fields" => pc[u] = "fields")
      BY <1>c, <2>1 DEF Alone, BuildsGlobals
    <2>3. \A u \in Threads : pc[u] # "fields"
      BY <1>0, <1>e DEF EmptyOnceOK
    <2>4. \A u \in Threads : once'[EmptyOnce] = u <=> BuildsGlobals(u)'
      BY <1>c, <1>e, <2>2, Apart DEF BuildsGlobals
    <2>5. empty_string' # NULL /\ once'[EmptyOnce] # NULL
      BY <1>a, <1>c, <1>e, Apart
    <2>6. \A u \in Threads : /\ pc'[u] # "new string"
                             /\ pc'[u] = "fields" => u = t /\ once'[EmptyOnce] = Done
      BY <1>c, <2>2, <2>3 DEF BuildsGlobals
    <2>7. once'[EmptyOnce] = Done => \A v \in Tables : empty_tables'[v] # NULL
      BY <1>c, <1>e
    <2>8. \A r \in Objs : res'[r] = NULL
      BY <1>a, <1>e
    <2> QED
      BY <2>4, <2>5, <2>6, <2>7, <2>8 DEF EmptyOnceOK
  <1>6. TableOnceOK'
    BY <1>0, <1>a, <1>c, <1>d, FlagsApart, TableOnceKept DEF Computes
  <1>7. ObjectsOK'
    BY <1>0, <1>a, <1>c, ObjectsKept DEF Holds, FieldsAt
  <1>8. FillingOK'
    <2>1. FillingAt(t)' /\ temp'[t] = NULL
      BY <1>0, <1>a, <1>c DEF FillingOK, FillingAt
    <2>2. \A u \in Threads : temp[u] # NULL => temp[u] \in DOMAIN heap \ Globals
      BY <1>0 DEF FillingOK, FillingAt
    <2> QED
      BY <1>0, <1>a, <1>b, <1>c, <1>g, <2>1, <2>2, FillingFrame
  <1>9. StoredOK'
    <2>1. AnswerAt(t)'
      BY <1>0, <1>a, <1>c DEF StoredOK, AnswerAt
    <2>2. \A u \in Threads : AnswerAt(u)'
      BY <1>0, <1>a, <1>c, <2>1, AnswersKept
    <2>3. \A r \in Objs : StoredIn(r)'
      BY <1>a, <1>e DEF StoredIn
    <2>4. \A v \in Tables : empty_tables[v] # NULL => empty_tables[v] \in DOMAIN heap
      BY <1>0 DEF HeapOwned, Globals
    <2> QED
      BY <1>0, <1>b, <1>f, <2>2, <2>3, <2>4 DEF StoredOK
  <1> QED
    BY <1>1, <1>2, <1>3, <1>4, <1>5, <1>6, <1>7, <1>8, <1>9 DEF IndInv

\* A thread that constructs an RE2, or has just constructed the LazyRE2's, is alone
\* with it.
LEMMA SoleBuilder ==
  ASSUME ControlOK, LazyOnceOK, NEW t \in Threads, pc[t] \in Building \cup {"publish"}
  PROVE  /\ obj[t] \in {t, Lazy} /\ ~(obj[t] = Lazy /\ ptr_ = Lazy)
         /\ \A u \in Threads \ {t} : ~Holds(u, obj[t])
  <1>1. obj[t] \in {t, Lazy}
    BY DEF ControlOK, ControlAt
  <1>2. ASSUME obj[t] = Lazy
        PROVE  once[LazyOnce] = t /\ ptr_ # Lazy
    BY <1>2, Apart DEF LazyOnceOK, BuildsLazy
  <1>3. ASSUME NEW u \in Threads \ {t}, Holds(u, obj[t])
        PROVE  FALSE
    <2>1. obj[u] = obj[t] /\ pc[u] \in Holding
      BY <1>3 DEF Holds
    <2>2. obj[u] \in {u, Lazy}
      BY <2>1 DEF ControlOK, ControlAt, Holding, Building, Asking
    <2>3. CASE obj[t] = t
      BY <1>3, <2>1, <2>2, <2>3, Apart
    <2>4. CASE obj[t] = Lazy
      <3>1. BuildsLazy(u) \/ NeedsLazy(u)
        BY <2>1, <2>4 DEF BuildsLazy, NeedsLazy, Holding, Building
      <3> QED
        BY <1>2, <1>3, <2>4, <3>1 DEF LazyOnceOK
    <2> QED
      BY <1>1, <2>3, <2>4
  <1> QED
    BY <1>1, <1>2, <1>3

\* The RE2 has its fields.
LEMMA FieldsPreserves ==
  ASSUME IndInv, NEW t \in Threads, Fields(t)
  PROVE  IndInv'
  <1>0. /\ TypeOK /\ HeapOwned
        /\ ControlOK /\ LazyOnceOK /\ EmptyOnceOK /\ TableOnceOK
        /\ ObjectsOK /\ FillingOK /\ StoredOK
    BY DEF IndInv
  <1> DEFINE re == [kind |-> NULL, error_ |-> empty_string, tables |-> [w \in Tables |-> NULL]]
  <1>a. PICK o :
        /\ o = obj[t] /\ pc[t] = "fields" /\ pc' = [pc EXCEPT ![t] = "compile"]
        /\ res' = [res EXCEPT ![o] = re]
        /\ UNCHANGED <<obj, table, temp, i, ret, once, empty_string, empty_tables, ptr_, heap>>
    BY DEF Fields, Goto
  <1>b. /\ o \in {t, Lazy} /\ o \in Objs /\ ~(o = Lazy /\ ptr_ = Lazy)
        /\ \A u \in Threads \ {t} : ~Holds(u, o)
    BY <1>0, <1>a, SoleBuilder DEF Building, Objs
  <1>c. once[EmptyOnce] = Done /\ empty_string # NULL /\ empty_string \in Ids
    BY <1>0, <1>a DEF EmptyOnceOK, TypeOK
  <1>d. re \in RE2s /\ re # NULL /\ re.kind = NULL /\ re.error_ = empty_string
        /\ \A w \in Tables : re.tables[w] = NULL
    BY <1>c, Apart DEF RE2s
  <1>e. pc'[t] = "compile" /\ obj'[t] = o /\ obj[t] = o /\ Alone(t)
    BY <1>0, <1>a DEF TypeOK, Alone
  <1>f. /\ res[o] = NULL /\ res'[o] = re
        /\ \A r \in Objs : r # o => res'[r] = res[r]
    <2>1. \A u \in Threads : ~Holds(u, o)
      BY <1>a, <1>b DEF Holds, Holding, Asking, Computing
    <2> QED
      BY <1>0, <1>a, <1>b, <2>1 DEF ObjectsOK, TypeOK
  <1>g. \A u \in Threads \ {t} : pc[u] \in Holding => obj[u] # o /\ obj[u] \in Objs
    <2>1. \A u \in Threads : pc[u] \in Holding => obj[u] \in {u, Lazy}
      BY <1>0 DEF ControlOK, ControlAt, Holding, Building, Asking
    <2> QED
      BY <1>b, <2>1 DEF Holds, Objs
  <1> HIDE DEF re
  <1>1. TypeOK'
    <2>1. res' \in [Objs -> RE2s \cup {NULL}]
      BY <1>0, <1>a, <1>d DEF TypeOK
    <2> QED
      BY <1>0, <1>a, <2>1 DEF TypeOK
  <1>2. HeapOwned'
    <2>1. Globals' = Globals /\ {temp'[u] : u \in Threads} = {temp[u] : u \in Threads}
      BY <1>a DEF Globals
    <2>2. Built' = Built \cup {o}
      BY <1>b, <1>d, <1>f DEF Built
    <2>3. OwnedBy(o)' = {}
      BY <1>a, <1>d, <1>f DEF OwnedBy
    <2>4. \A r \in Built : r # o /\ OwnedBy(r)' = OwnedBy(r)
      BY <1>a, <1>f DEF OwnedBy, Built
    <2>5. DOMAIN heap' = DOMAIN heap /\ UNION {OwnedBy(r)' : r \in Built'} = UNION {OwnedBy(r) : r \in Built}
      BY <1>a, <2>2, <2>3, <2>4
    <2> QED
      BY <1>0, <2>1, <2>2, <2>3, <2>4, <2>5 DEF HeapOwned
  <1> USE DEF Building, Asking, Computing, Holding
  <1>3. ControlOK'
    BY <1>0, <1>a, <1>e, ControlKept DEF ControlOK, ControlAt
  <1>4. LazyOnceOK'
    BY <1>0, <1>a, <1>e, LazyOnceKept DEF BuildsLazy, NeedsLazy
  <1>5. EmptyOnceOK'
    BY <1>0, <1>a, <1>c, <1>e, EmptyOnceKept DEF BuildsGlobals
  <1>6. TableOnceOK'
    <2>1. \A r \in Objs, w \in Tables : Computes(t, r, w)' <=> Computes(t, r, w)
      BY <1>a, <1>e DEF Computes
    <2>2. \A r \in Objs, w \in Tables :
            res'[r] # NULL /\ res'[r].tables[w] # NULL <=> res[r] # NULL /\ res[r].tables[w] # NULL
      BY <1>d, <1>f
    <2> QED
      BY <1>0, <1>a, <1>e, <2>1, <2>2, TableOnceKept
  <1>7. ObjectsOK'
    <2>1. \A u \in Threads, r \in Objs : Holds(u, r)' <=> Holds(u, r) \/ (u = t /\ r = o)
      BY <1>a, <1>e DEF Holds, Alone
    <2>2. \A u \in Threads \ {t} : FieldsAt(u)'
      <3> SUFFICES ASSUME NEW u \in Threads \ {t} PROVE FieldsAt(u)'
        OBVIOUS
      <3>1. FieldsAt(u) /\ pc'[u] = pc[u] /\ obj'[u] = obj[u] /\ empty_string' = empty_string
        BY <1>0, <1>a, <1>e DEF ObjectsOK, Alone
      <3>2. pc[u] \in Holding => res'[obj[u]] = res[obj[u]]
        BY <1>f, <1>g
      <3> QED
        BY <3>1, <3>2 DEF FieldsAt
    <2>3. FieldsAt(t)'
      BY <1>a, <1>e, <1>f DEF FieldsAt, re
    <2> QED
      BY <1>0, <1>a, <1>b, <1>d, <1>f, <2>1, <2>2, <2>3 DEF ObjectsOK, Objs
  <1>8. FillingOK'
    <2>1. FillingAt(t)' /\ temp'[t] = NULL
      BY <1>0, <1>a, <1>e DEF FillingOK, FillingAt
    <2>2. \A u \in Threads : temp[u] # NULL => temp[u] \in DOMAIN heap \ Globals
      BY <1>0 DEF FillingOK, FillingAt
    <2>3. Globals' = Globals /\ heap' = heap
      BY <1>a DEF Globals
    <2> QED
      BY <1>0, <1>e, <1>f, <1>g, <2>1, <2>2, <2>3, FillingFrame
  <1>9. StoredOK'
    <2>1. AnswerAt(t)'
      BY <1>0, <1>a, <1>e DEF StoredOK, AnswerAt
    <2>2. \A u \in Threads : AnswerAt(u)'
      BY <1>0, <1>a, <1>e, <1>f, <1>g, <2>1, AnswersKept
    <2>3. \A r \in Objs : StoredIn(r)'
      BY <1>0, <1>a, <1>d, <1>f DEF StoredOK, StoredIn
    <2> QED
      BY <1>0, <1>a, <2>2, <2>3 DEF StoredOK
  <1> QED
    BY <1>1, <1>2, <1>3, <1>4, <1>5, <1>6, <1>7, <1>8, <1>9 DEF IndInv

\* The RE2 is compiled: it gets its kind and, if it failed, an error string.
LEMMA CompilePatternPreserves ==
  ASSUME IndInv, NEW t \in Threads, CompilePattern(t)
  PROVE  IndInv'
  <1>0. /\ TypeOK /\ HeapOwned
        /\ ControlOK /\ LazyOnceOK /\ EmptyOnceOK /\ TableOnceOK
        /\ ObjectsOK /\ FillingOK /\ StoredOK
    BY DEF IndInv
  <1> DEFINE id == Fresh
  <1>a. PICK o :
          /\ o = obj[t] /\ pc[t] = "compile"
          /\ pc' = [pc EXCEPT ![t] = IF o = Lazy THEN "publish" ELSE "ask"]
          /\ \/ \E k \in Kinds : res' = [res EXCEPT ![o].kind = k] /\ heap' = heap
             \/ Allocate(id) /\ res' = [res EXCEPT ![o].kind = "failed", ![o].error_ = id]
          /\ UNCHANGED <<obj, table, temp, i, ret, once, empty_string, empty_tables, ptr_>>
    BY DEF CompilePattern, Goto
  <1> HIDE DEF id
  <1>b. /\ o \in {t, Lazy} /\ o \in Objs /\ ~(o = Lazy /\ ptr_ = Lazy)
        /\ \A u \in Threads \ {t} : ~Holds(u, o)
    BY <1>0, <1>a, SoleBuilder DEF Building, Objs
  <1>c. /\ res[o] = [kind |-> NULL, error_ |-> empty_string, tables |-> [w \in Tables |-> NULL]]
        /\ res[o] # NULL
    BY <1>0, <1>a, <1>b DEF ObjectsOK, FieldsAt, Holds, Holding
  <1>d. once[EmptyOnce] = Done /\ empty_string # NULL /\ empty_string \in Ids \cap DOMAIN heap
    BY <1>0, <1>b, <1>c DEF EmptyOnceOK, TypeOK, HeapOwned, Globals
  <1>e. /\ \A r \in Objs : r # o => res'[r] = res[r]
        /\ \E k \in Kinds, e \in Ids :
             /\ res'[o] = [kind |-> k, error_ |-> e, tables |-> [w \in Tables |-> NULL]]
             /\ DOMAIN heap' = DOMAIN heap \cup ({e} \ {empty_string})
             /\ e # empty_string => e \notin DOMAIN heap
             /\ DOMAIN heap' \subseteq Ids /\ heap' \in [DOMAIN heap' -> SUBSET Entries(Len(GroupNames))]
             /\ \A a \in DOMAIN heap : heap'[a] = heap[a]
    <2>1. CASE \E k \in Kinds : res' = [res EXCEPT ![o].kind = k] /\ heap' = heap
      <3>1. PICK k \in Kinds : res' = [res EXCEPT ![o].kind = k] /\ heap' = heap
        BY <2>1
      <3>2. /\ res'[o] = [kind |-> k, error_ |-> empty_string, tables |-> [w \in Tables |-> NULL]]
            /\ \A r \in Objs : r # o => res'[r] = res[r]
        <4>1. /\ res'[o] = [res[o] EXCEPT !.kind = k]
              /\ \A r \in Objs : r # o => res'[r] = res[r]
          BY <1>0, <1>b, <3>1 DEF TypeOK
        <4> QED
          BY <1>c, <4>1
      <3>3. DOMAIN heap \subseteq Ids /\ heap \in [DOMAIN heap -> SUBSET Entries(Len(GroupNames))]
        BY <1>0 DEF TypeOK
      <3> QED
        BY <1>d, <3>1, <3>2, <3>3
    <2>2. CASE Allocate(id) /\ res' = [res EXCEPT ![o].kind = "failed", ![o].error_ = id]
      <3>1. /\ id \in Ids /\ id \notin DOMAIN heap /\ DOMAIN heap' = DOMAIN heap \cup {id}
            /\ \A a \in DOMAIN heap : heap'[a] = heap[a]
            /\ DOMAIN heap' \subseteq Ids /\ heap' \in [DOMAIN heap' -> SUBSET Entries(Len(GroupNames))]
        BY <1>0, <2>2, AllocateGrows
      <3>2. /\ res'[o] = [kind |-> "failed", error_ |-> id, tables |-> [w \in Tables |-> NULL]]
            /\ \A r \in Objs : r # o => res'[r] = res[r]
        <4>1. /\ res'[o] = [res[o] EXCEPT !.kind = "failed", !.error_ = id]
              /\ \A r \in Objs : r # o => res'[r] = res[r]
          BY <1>0, <1>b, <2>2 DEF TypeOK
        <4>2. [res[o] EXCEPT !.kind = "failed"]
                = [kind |-> "failed", error_ |-> empty_string, tables |-> [w \in Tables |-> NULL]]
          BY <1>c
        <4>3. ASSUME NEW tables
              PROVE  [[kind |-> "failed", error_ |-> empty_string, tables |-> tables] EXCEPT !.error_ = id]
                       = [kind |-> "failed", error_ |-> id, tables |-> tables]
          OBVIOUS
        <4>4. [[res[o] EXCEPT !.kind = "failed"] EXCEPT !.error_ = id]
                = [kind |-> "failed", error_ |-> id, tables |-> [w \in Tables |-> NULL]]
          BY <4>2, <4>3
        <4> QED
          BY <4>1, <4>4
      <3>3. "failed" \in Kinds /\ id # empty_string
        BY <1>d, <3>1 DEF Kinds
      <3> QED
        BY <3>1, <3>2, <3>3
    <2> QED
      BY <1>a, <2>1, <2>2
  <1>f. PICK k \in Kinds, e \in Ids :
             /\ res'[o] = [kind |-> k, error_ |-> e, tables |-> [w \in Tables |-> NULL]]
             /\ DOMAIN heap' = DOMAIN heap \cup ({e} \ {empty_string})
             /\ e # empty_string => e \notin DOMAIN heap
             /\ DOMAIN heap' \subseteq Ids /\ heap' \in [DOMAIN heap' -> SUBSET Entries(Len(GroupNames))]
             /\ \A a \in DOMAIN heap : heap'[a] = heap[a]
    BY <1>e
  <1>g. /\ res'[o] \in RE2s /\ res'[o] # NULL /\ res'[o].kind = k /\ k # NULL /\ res'[o].error_ = e
        /\ \A w \in Tables : res'[o].tables[w] = NULL /\ res[o].tables[w] = NULL
        /\ res[o].error_ = empty_string
    BY <1>c, <1>f, Apart DEF RE2s
  <1>h. /\ pc'[t] \in {"publish", "ask"} /\ (pc'[t] = "publish" <=> o = Lazy)
        /\ obj'[t] = o /\ obj[t] = o /\ Alone(t)
    BY <1>0, <1>a DEF TypeOK, Alone
  <1>i. \A u \in Threads \ {t} : pc[u] \in Holding => obj[u] # o /\ obj[u] \in Objs
    <2>1. \A u \in Threads : pc[u] \in Holding => obj[u] \in {u, Lazy}
      BY <1>0 DEF ControlOK, ControlAt, Holding, Building, Asking
    <2> QED
      BY <1>b, <2>1 DEF Holds, Objs
  <1>1. TypeOK'
    <2>1. DOMAIN res' = Objs
      BY <1>0, <1>a DEF TypeOK
    <2>2. res' \in [Objs -> RE2s \cup {NULL}]
      <3>1. \A r \in Objs : res'[r] \in RE2s \cup {NULL}
        BY <1>0, <1>e, <1>g DEF TypeOK
      <3>2. res' = [r \in Objs |-> res'[r]]
        BY <1>0, <1>a DEF TypeOK
      <3> QED
        BY <3>1, <3>2
    <2>3. pc' = [pc EXCEPT ![t] = "publish"] \/ pc' = [pc EXCEPT ![t] = "ask"]
      BY <1>a
    <2> QED
      BY <1>0, <1>a, <1>f, <2>2, <2>3 DEF TypeOK
  <1>2. HeapOwned'
    <2>1. Globals' = Globals /\ {temp'[u] : u \in Threads} = {temp[u] : u \in Threads}
      BY <1>a DEF Globals
    <2>2. Built' = Built /\ o \in Built
      BY <1>b, <1>c, <1>e, <1>g DEF Built
    <2>3. OwnedBy(o) = {} /\ OwnedBy(o)' = {e} \ {empty_string}
      BY <1>a, <1>g DEF OwnedBy
    <2>4. \A r \in Built : r # o => OwnedBy(r)' = OwnedBy(r)
      BY <1>a, <1>e DEF OwnedBy, Built
    <2>5. \A r \in Built : OwnedBy(r) \subseteq DOMAIN heap
      BY <1>0 DEF HeapOwned
    <2>6. UNION {OwnedBy(r)' : r \in Built'} = (UNION {OwnedBy(r) : r \in Built}) \cup ({e} \ {empty_string})
      <3>1. ASSUME NEW x \in {e} \ {empty_string}
            PROVE  x \in UNION {OwnedBy(r)' : r \in Built'}
        BY <2>2, <2>3
      <3>2. ASSUME NEW r \in Built
            PROVE  /\ OwnedBy(r) \subseteq OwnedBy(r)'
                   /\ OwnedBy(r)' \subseteq OwnedBy(r) \cup ({e} \ {empty_string})
        BY <2>3, <2>4
      <3>3. UNION {OwnedBy(r)' : r \in Built} \subseteq (UNION {OwnedBy(r) : r \in Built}) \cup ({e} \ {empty_string})
        BY <3>2
      <3>4. UNION {OwnedBy(r) : r \in Built} \subseteq UNION {OwnedBy(r)' : r \in Built}
        BY <3>2
      <3> QED
        BY <2>2, <3>1, <3>3, <3>4
    <2>7. Globals \cup ({temp[u] : u \in Threads} \ {NULL}) \subseteq DOMAIN heap
      BY <1>0 DEF HeapOwned
    <2>8. ({e} \ {empty_string}) \cap DOMAIN heap = {}
      BY <1>f
    <2>9. ASSUME NEW r1 \in Built, NEW r2 \in Built, r1 # r2
          PROVE  OwnedBy(r1)' \cap OwnedBy(r2)' = {}
      BY <1>0, <2>3, <2>4, <2>5, <2>8, <2>9 DEF HeapOwned
    <2>10. ASSUME NEW r \in Built
           PROVE  OwnedBy(r)' \cap (Globals \cup ({temp[u] : u \in Threads} \ {NULL})) = {}
      BY <1>0, <2>3, <2>4, <2>7, <2>8 DEF HeapOwned
    <2>11. DOMAIN heap = Globals \cup ({temp[u] : u \in Threads} \ {NULL}) \cup UNION {OwnedBy(r) : r \in Built}
      BY <1>0 DEF HeapOwned
    <2>12. DOMAIN heap' = Globals \cup ({temp[u] : u \in Threads} \ {NULL}) \cup UNION {OwnedBy(r)' : r \in Built'}
      BY <1>f, <2>6, <2>11
    <2> QED
      BY <2>1, <2>2, <2>9, <2>10, <2>12 DEF HeapOwned
  <1> USE DEF Building, Asking, Computing, Holding
  <1>3. ControlOK'
    <2>1. ControlAt(t)'
      BY <1>0, <1>a, <1>b, <1>h DEF ControlOK, ControlAt
    <2> QED
      BY <1>0, <1>h, <2>1, ControlKept
  <1>4. LazyOnceOK'
    BY <1>0, <1>a, <1>h, LazyOnceKept DEF BuildsLazy, NeedsLazy
  <1>5. EmptyOnceOK'
    BY <1>0, <1>a, <1>d, <1>h, EmptyOnceKept DEF BuildsGlobals
  <1>6. TableOnceOK'
    <2>1. \A r \in Objs, w \in Tables : Computes(t, r, w)' <=> Computes(t, r, w)
      BY <1>a, <1>h DEF Computes
    <2>2. \A r \in Objs, w \in Tables :
            res'[r] # NULL /\ res'[r].tables[w] # NULL <=> res[r] # NULL /\ res[r].tables[w] # NULL
      BY <1>e, <1>g
    <2> QED
      BY <1>0, <1>a, <1>h, <2>1, <2>2, TableOnceKept
  <1>7. ObjectsOK'
    <2>1. \A u \in Threads, r \in Objs : Holds(u, r)' <=> Holds(u, r)
      BY <1>a, <1>h DEF Holds, Alone
    <2>2. \A u \in Threads \ {t} : FieldsAt(u)'
      <3> SUFFICES ASSUME NEW u \in Threads \ {t} PROVE FieldsAt(u)'
        OBVIOUS
      <3>1. FieldsAt(u) /\ pc'[u] = pc[u] /\ obj'[u] = obj[u] /\ empty_string' = empty_string
        BY <1>0, <1>a, <1>h DEF ObjectsOK, Alone
      <3>2. pc[u] \in Holding => res'[obj[u]] = res[obj[u]]
        BY <1>e, <1>i
      <3> QED
        BY <3>1, <3>2 DEF FieldsAt
    <2>3. FieldsAt(t)'
      BY <1>g, <1>h DEF FieldsAt
    <2>4. \A r \in Objs : res'[r] # NULL <=> res[r] # NULL
      BY <1>c, <1>e, <1>g
    <2>5. ptr_ = Lazy => res'[Lazy].kind # NULL
      BY <1>0, <1>b, <1>e DEF ObjectsOK, Objs
    <2> QED
      BY <1>0, <1>a, <2>1, <2>2, <2>3, <2>4, <2>5 DEF ObjectsOK
  <1>8. FillingOK'
    <2>1. FillingAt(t)' /\ temp'[t] = NULL
      BY <1>0, <1>a, <1>h DEF FillingOK, FillingAt
    <2>2. \A u \in Threads : temp[u] # NULL => temp[u] \in DOMAIN heap \ Globals
      BY <1>0 DEF FillingOK, FillingAt
    <2>3. Globals' = Globals
      BY <1>a DEF Globals
    <2> QED
      BY <1>0, <1>e, <1>f, <1>h, <1>i, <2>1, <2>2, <2>3, FillingFrame
  <1>9. StoredOK'
    <2>1. AnswerAt(t)'
      BY <1>0, <1>a, <1>h DEF StoredOK, AnswerAt
    <2>2. \A u \in Threads : AnswerAt(u)'
      BY <1>0, <1>a, <1>h, <1>e, <1>i, <2>1, AnswersKept
    <2>3. \A r \in Objs : StoredIn(r)'
      <3>1. StoredIn(o)'
        BY <1>g DEF StoredIn
      <3>2. ASSUME NEW r \in Objs, r # o
            PROVE  StoredIn(r)'
        <4>1. res'[r] = res[r] /\ StoredIn(r)
          BY <1>0, <1>e, <3>2 DEF StoredOK
        <4>2. TableOf(res[r].kind)' = TableOf(res[r].kind)
          BY <4>1 DEF TableOf, NamesOf, Entries
        <4> QED
          BY <1>f, <4>1, <4>2 DEF StoredIn
      <3> QED
        BY <3>1, <3>2
    <2>4. \A v \in Tables : empty_tables[v] # NULL => empty_tables[v] \in DOMAIN heap
      BY <1>0 DEF HeapOwned, Globals
    <2> QED
      BY <1>0, <1>a, <1>f, <2>2, <2>3, <2>4 DEF StoredOK
  <1> QED
    BY <1>1, <1>2, <1>3, <1>4, <1>5, <1>6, <1>7, <1>8, <1>9 DEF IndInv

\* The table is there, or this thread is the one that computes it.
LEMMA AskPreserves ==
  ASSUME IndInv, NEW t \in Threads, Ask(t)
  PROVE  IndInv'
  <1>0. /\ TypeOK /\ HeapOwned
        /\ ControlOK /\ LazyOnceOK /\ EmptyOnceOK /\ TableOnceOK
        /\ ObjectsOK /\ FillingOK /\ StoredOK
    BY DEF IndInv
  <1>a. PICK o, w :
        /\ pc[t] = "ask" /\ o = obj[t] /\ w = table[t]
        /\ UNCHANGED <<obj, table, temp, i, ret, empty_string, empty_tables, ptr_, res, heap>>
    BY DEF Ask
  <1>b. o \in {t, Lazy} /\ o \in Objs /\ w \in Tables
    BY <1>0, <1>a DEF ControlOK, ControlAt, TypeOK, Asking, Objs
  <1> DEFINE flag == TableOnce(o, w)
             next == IF res[o].kind = "ok" THEN "new table" ELSE "store"
  <1>c. \/ /\ once[flag] = Done /\ once' = once /\ pc' = [pc EXCEPT ![t] = "answer"]
        \/ /\ once[flag] = NULL /\ once' = [once EXCEPT ![flag] = t]
           /\ pc' = [pc EXCEPT ![t] = next]
    BY <1>a, Apart DEF Ask, CallOnce, Goto
  <1>d. flag \in Flags /\ flag \notin {LazyOnce, EmptyOnce}
    BY <1>b, FlagsApart
  <1> HIDE DEF flag
  <1>1. TypeOK'
    <2>1. once' \in [Flags -> Threads \cup {NULL, Done}]
      BY <1>0, <1>c, <1>d DEF TypeOK
    <2>2. \/ pc' = [pc EXCEPT ![t] = "answer"]
          \/ pc' = [pc EXCEPT ![t] = "new table"] \/ pc' = [pc EXCEPT ![t] = "store"]
      BY <1>c
    <2> QED
      BY <1>0, <1>a, <2>1, <2>2 DEF TypeOK
  <1>e. /\ Alone(t) /\ pc'[t] \in {"answer", "new table", "store"} /\ obj'[t] = o /\ table'[t] = w
        /\ \/ pc'[t] = "answer" /\ once[flag] = Done /\ once'[flag] = Done
           \/ pc'[t] = next /\ once[flag] = NULL /\ once'[flag] = t
        /\ \A f \in Flags : f # flag => once'[f] = once[f]
    <2>1. \/ pc'[t] = "answer" /\ once[flag] = Done /\ once'[flag] = Done
          \/ pc'[t] = next /\ once[flag] = NULL /\ once'[flag] = t
      BY <1>0, <1>c, <1>d DEF TypeOK
    <2>2. (\A f \in Flags : f # flag => once'[f] = once[f]) /\ Alone(t)
      BY <1>0, <1>a, <1>c DEF TypeOK, Alone
    <2> QED
      BY <1>a, <2>1, <2>2
  <1> USE DEF Building, Asking, Computing, Holding
  <1>2. HeapOwned'
    BY <1>0, <1>a, HeapKept
  <1>3. ControlOK'
    <2>1. ControlAt(t)'
      BY <1>0, <1>a, <1>b, <1>e, Apart DEF ControlAt
    <2> QED
      BY <1>0, <1>e, <2>1, ControlKept
  <1>4. LazyOnceOK'
    <2>1. ~BuildsLazy(t) /\ ~BuildsLazy(t)' /\ (NeedsLazy(t)' => NeedsLazy(t))
      BY <1>a, <1>e DEF BuildsLazy, NeedsLazy
    <2>2. NeedsLazy(t) => ptr_ = Lazy
      BY <1>0 DEF LazyOnceOK
    <2>3. once'[LazyOnce] = once[LazyOnce]
      BY <1>d, <1>e, FlagsApart
    <2> QED
      BY <1>0, <1>a, <1>e, <2>1, <2>2, <2>3, LazyOnceKept
  <1>5. EmptyOnceOK'
    <2>1. once'[EmptyOnce] = once[EmptyOnce]
      BY <1>d, <1>e, FlagsApart
    <2> QED
      BY <1>0, <1>a, <1>e, <2>1, EmptyOnceKept DEF BuildsGlobals, EmptyOnceOK
  <1>6. TableOnceOK'
    <2>1. CASE pc'[t] = "answer"
      BY <1>0, <1>a, <1>c, <1>e, <2>1, Apart, TableOnceKept DEF Computes
    <2>2. CASE pc'[t] # "answer"
      <3>1. once[flag] = NULL /\ once'[flag] = t /\ pc'[t] \in Computing
        BY <1>e, <2>2
      <3>2. \A r \in Objs, v \in Tables : (r = o /\ v = w) \/ once'[TableOnce(r, v)] = once[TableOnce(r, v)]
        <4>1. ASSUME NEW r \in Objs, NEW v \in Tables, ~(r = o /\ v = w)
              PROVE  TableOnce(r, v) \in Flags /\ TableOnce(r, v) # TableOnce(o, w)
          BY <1>b, <4>1, FlagsApart
        <4> QED
          BY <1>e, <4>1 DEF flag
      <3>3. ASSUME NEW u \in Threads, NEW r \in Objs, NEW v \in Tables
            PROVE  once'[TableOnce(r, v)] = u <=> Computes(u, r, v)'
        <4>1. CASE u # t
          <5>1. once[TableOnce(r, v)] = u <=> Computes(u, r, v)
            BY <1>0 DEF TableOnceOK
          <5>2. Computes(u, r, v)' <=> Computes(u, r, v)
            BY <1>e, <4>1 DEF Computes, Alone
          <5>3. (r = o /\ v = w) => once[TableOnce(r, v)] = NULL /\ once'[TableOnce(r, v)] = t
            BY <3>1 DEF flag
          <5> QED
            BY <3>2, <4>1, <5>1, <5>2, <5>3, Apart
        <4>2. CASE u = t
          <5>1. Computes(t, r, v)' <=> r = o /\ v = w
            BY <1>e, <3>1 DEF Computes
          <5>2. once[TableOnce(r, v)] # t
            <6>1. ~Computes(t, r, v)
              BY <1>a DEF Computes
            <6> QED
              BY <1>0, <6>1 DEF TableOnceOK
          <5>3. (r = o /\ v = w) => once'[TableOnce(r, v)] = t
            BY <3>1 DEF flag
          <5> QED
            BY <3>2, <4>2, <5>1, <5>2, <5>3
        <4> QED
          BY <4>1, <4>2
      <3>4. \A r \in Objs, v \in Tables : once'[TableOnce(r, v)] = Done <=> once[TableOnce(r, v)] = Done
        BY <1>b, <3>1, <3>2, Apart DEF flag
      <3> QED
        BY <1>0, <1>a, <3>3, <3>4 DEF TableOnceOK
    <2> QED
      BY <2>1, <2>2
  <1>7. ObjectsOK'
    <2>1. \A r \in Objs : Holds(t, r)' <=> Holds(t, r)
      BY <1>a, <1>e DEF Holds
    <2>2. FieldsAt(t)'
      BY <1>0, <1>a, <1>e DEF FieldsAt, ObjectsOK
    <2> QED
      BY <1>0, <1>a, <1>e, <2>1, <2>2, ObjectsKept
  <1>8. FillingOK'
    <2>1. FillingAt(t)'
      BY <1>0, <1>a, <1>e DEF FillingOK, FillingAt
    <2> QED
      BY <1>0, <1>a, <1>e, <2>1, FillingKept
  <1>9. StoredOK'
    <2>1. pc'[t] = "answer" => res[o].tables[w] # NULL
      BY <1>0, <1>b, <1>e DEF TableOnceOK, flag
    <2>2. AnswerAt(t)'
      BY <1>0, <1>a, <1>e, <2>1 DEF StoredOK, AnswerAt
    <2> QED
      BY <1>0, <1>a, <1>e, <2>2, StoredKept
  <1> QED
    BY <1>1, <1>2, <1>3, <1>4, <1>5, <1>6, <1>7, <1>8, <1>9 DEF IndInv

\* A table that an RE2 holds is its own or a global one.
LEMMA StoredIsOwned ==
  ASSUME NEW r \in Objs, NEW w \in Tables, res[r] # NULL, res[r].tables[w] # NULL
  PROVE  res[r].tables[w] \in Globals \cup OwnedBy(r)
  BY DEF Globals, OwnedBy

\* The table to fill is allocated.
LEMMA NewTablePreserves ==
  ASSUME IndInv, NEW t \in Threads, NewTable(t)
  PROVE  IndInv'
  <1>0. /\ TypeOK /\ HeapOwned
        /\ ControlOK /\ LazyOnceOK /\ EmptyOnceOK /\ TableOnceOK
        /\ ObjectsOK /\ FillingOK /\ StoredOK
    BY DEF IndInv
  <1> DEFINE fresh == Fresh
  <1>a. PICK id :
        /\ pc[t] = "new table" /\ pc' = [pc EXCEPT ![t] = "fill"]
        /\ Allocate(id) /\ temp' = [temp EXCEPT ![t] = id] /\ i' = [i EXCEPT ![t] = 0]
        /\ UNCHANGED <<obj, table, ret, once, empty_string, empty_tables, ptr_, res>>
    BY DEF NewTable, Goto
  <1>b. /\ id \in Ids /\ id # NULL /\ id \notin DOMAIN heap /\ DOMAIN heap' = DOMAIN heap \cup {id}
        /\ heap'[id] = {} /\ \A a \in DOMAIN heap : heap'[a] = heap[a]
        /\ DOMAIN heap' \subseteq Ids /\ heap' \in [DOMAIN heap' -> SUBSET Entries(Len(GroupNames))]
    BY <1>0, <1>a, AllocateGrows
  <1>1. TypeOK'
    <2>2. 0 \in 0..Len(GroupNames)
      BY GroupsCounted
    <2>3. temp' \in [Threads -> Ids \cup {NULL}] /\ i' \in [Threads -> 0..Len(GroupNames)]
      BY <1>0, <1>a, <1>b, <2>2 DEF TypeOK
    <2> QED
      BY <1>0, <1>a, <1>b, <2>3 DEF TypeOK
  <1>c. pc'[t] = "fill" /\ temp'[t] = id /\ i'[t] = 0 /\ Alone(t)
    BY <1>0, <1>a DEF TypeOK, Alone
  <1>d. temp[t] = NULL /\ \A u \in Threads : temp[u] # NULL => temp[u] \in DOMAIN heap \ Globals
    BY <1>0, <1>a DEF FillingOK, FillingAt
  <1>e. Globals' = Globals /\ Globals \subseteq DOMAIN heap /\ Built' = Built
    BY <1>0, <1>a DEF HeapOwned, Globals, Built
  <1> USE DEF Building, Asking, Computing, Holding
  <1>2. HeapOwned'
    <2>1. ASSUME NEW x
          PROVE  x \in {temp'[u] : u \in Threads} \ {NULL}
                   <=> x \in ({temp[u] : u \in Threads} \ {NULL}) \cup {id}
      BY <1>b, <1>c, <1>d DEF Alone
    <2>2. {temp'[u] : u \in Threads} \ {NULL} = ({temp[u] : u \in Threads} \ {NULL}) \cup {id}
      BY <2>1
    <2>3. \A r \in Built : OwnedBy(r)' = OwnedBy(r)
      BY <1>a DEF OwnedBy
    <2>4. \A r \in Built : OwnedBy(r) \subseteq DOMAIN heap
      BY <1>0 DEF HeapOwned
    <2>5. UNION {OwnedBy(r)' : r \in Built'} = UNION {OwnedBy(r) : r \in Built}
      BY <1>e, <2>3
    <2>6. /\ DOMAIN heap = Globals \cup ({temp[u] : u \in Threads} \ {NULL}) \cup UNION {OwnedBy(r) : r \in Built}
          /\ \A r1, r2 \in Built : r1 # r2 => OwnedBy(r1) \cap OwnedBy(r2) = {}
          /\ \A r \in Built : OwnedBy(r) \cap (Globals \cup ({temp[u] : u \in Threads} \ {NULL})) = {}
      BY <1>0 DEF HeapOwned
    <2>7. DOMAIN heap' = Globals' \cup ({temp'[u] : u \in Threads} \ {NULL}) \cup UNION {OwnedBy(r)' : r \in Built'}
      BY <1>b, <1>e, <2>2, <2>5, <2>6
    <2>8. \A r1, r2 \in Built' : r1 # r2 => OwnedBy(r1)' \cap OwnedBy(r2)' = {}
      BY <1>e, <2>3, <2>6
    <2>9. \A r \in Built' : OwnedBy(r)' \cap (Globals' \cup ({temp'[u] : u \in Threads} \ {NULL})) = {}
      BY <1>b, <1>e, <2>2, <2>3, <2>4, <2>6
    <2> QED
      BY <2>7, <2>8, <2>9 DEF HeapOwned
  <1>3. ControlOK'
    BY <1>0, <1>a, <1>c, ControlKept DEF ControlOK, ControlAt
  <1>4. LazyOnceOK'
    BY <1>0, <1>a, <1>c, LazyOnceKept DEF BuildsLazy, NeedsLazy, LazyOnceOK
  <1>5. EmptyOnceOK'
    BY <1>0, <1>a, <1>c, EmptyOnceKept DEF BuildsGlobals, EmptyOnceOK
  <1>6. TableOnceOK'
    BY <1>0, <1>a, <1>c, TableOnceKept DEF Computes
  <1>7. ObjectsOK'
    BY <1>0, <1>a, <1>c, ObjectsKept DEF ObjectsOK, Holds, FieldsAt
  <1>8. FillingOK'
    <2>1. res[obj[t]].kind = "ok"
      BY <1>0, <1>a DEF FillingOK, FillingAt
    <2>2. Entries(i'[t]) = {} /\ Entries(i[t])' = Entries(i'[t])
      BY <1>c DEF Entries
    <2>3. FillingAt(t)'
      BY <1>a, <1>b, <1>c, <1>e, <2>1, <2>2 DEF FillingAt
    <2> QED
      <3>1. \A u \in Threads \ {t} :
              temp[u] # NULL => /\ temp[u] \in DOMAIN heap' \ Globals'
                                /\ heap'[temp[u]] = heap[temp[u]] /\ temp[u] # temp'[t]
        BY <1>b, <1>c, <1>d, <1>e
      <3> QED
        BY <1>0, <1>a, <1>c, <2>3, <3>1, FillingFrame
  <1>9. StoredOK'
    <2>1. AnswerAt(t)'
      BY <1>0, <1>a, <1>c DEF StoredOK, AnswerAt
    <2>2. \A u \in Threads : AnswerAt(u)'
      BY <1>0, <1>a, <1>c, <2>1, AnswersKept
    <2>3. ASSUME NEW r \in Objs
          PROVE  StoredIn(r)'
      <3>1. StoredIn(r) /\ TableOf(res[r].kind)' = TableOf(res[r].kind)
        BY <1>0, <1>a DEF StoredOK, TableOf, NamesOf, Entries
      <3> QED
        BY <1>a, <1>b, <3>1 DEF StoredIn
    <2>4. \A v \in Tables : empty_tables[v] # NULL => empty_tables[v] \in DOMAIN heap
      BY <1>0 DEF HeapOwned, Globals
    <2> QED
      BY <1>0, <1>a, <1>b, <2>2, <2>3, <2>4 DEF StoredOK
  <1> QED
    BY <1>1, <1>2, <1>3, <1>4, <1>5, <1>6, <1>7, <1>8, <1>9 DEF IndInv

\* One more name from the iterator: the entries so far.
LEMMA EntriesGrow ==
  ASSUME NEW k \in 0..Len(GroupNames)
  PROVE  /\ Entries(k) \subseteq Entries(Len(GroupNames))
         /\ k < Len(GroupNames) =>
              Entries(k + 1) = IF GroupNames[k + 1] = Unnamed THEN Entries(k)
                               ELSE Entries(k) \cup {<<k, GroupNames[k + 1]>>}
  <1>1. Len(GroupNames) \in Nat
    BY GroupsCounted
  <1>2. Entries(k) \subseteq Entries(Len(GroupNames))
    BY <1>1 DEF Entries
  <1>3. ASSUME k < Len(GroupNames)
        PROVE  Entries(k + 1) = IF GroupNames[k + 1] = Unnamed THEN Entries(k)
                                ELSE Entries(k) \cup {<<k, GroupNames[k + 1]>>}
    <2>1. 0..(k + 1) - 1 = (0..k - 1) \cup {k}
      BY <1>1
    <2> QED
      BY <2>1 DEF Entries
  <1> QED
    BY <1>2, <1>3

\* The iterator's loop.
LEMMA FillPreserves ==
  ASSUME IndInv, NEW t \in Threads, Fill(t)
  PROVE  IndInv'
  <1>0. /\ TypeOK /\ HeapOwned
        /\ ControlOK /\ LazyOnceOK /\ EmptyOnceOK /\ TableOnceOK
        /\ ObjectsOK /\ FillingOK /\ StoredOK
    BY DEF IndInv
  <1> DEFINE n == Len(GroupNames)
  <1>a. /\ pc[t] = "fill"
        /\ UNCHANGED <<obj, table, temp, ret, once, empty_string, empty_tables, ptr_, res>>
    BY DEF Fill
  <1>b. PICK id : id = temp[t]
    OBVIOUS
  <1>c. /\ id # NULL /\ id \in DOMAIN heap \ Globals /\ heap[id] = Entries(i[t])
        /\ i[t] \in 0..n /\ n \in Nat /\ res[obj[t]].kind = "ok"
    BY <1>0, <1>a, <1>b, GroupsCounted DEF FillingOK, FillingAt, TypeOK
  <1>d. \/ /\ i[t] < n /\ i' = [i EXCEPT ![t] = @ + 1] /\ pc' = pc
           /\ heap' = [heap EXCEPT ![id] = Entries(i[t] + 1)]
        \/ i[t] = n /\ pc' = [pc EXCEPT ![t] = "store"] /\ i' = i /\ heap' = heap
    <2>1. CASE i[t] = n
      BY <1>c, <2>1 DEF Fill, Goto
    <2>2. CASE i[t] # n
      <3>1. /\ i[t] < n /\ i' = [i EXCEPT ![t] = @ + 1] /\ pc' = pc
            /\ heap' = [heap EXCEPT ![id] = IF GroupNames[i[t] + 1] = Unnamed THEN heap[id]
                                              ELSE heap[id] \cup {<<i[t], GroupNames[i[t] + 1]>>}]
        BY <1>b, <2>2 DEF Fill
      <3>2. Entries(i[t] + 1) = IF GroupNames[i[t] + 1] = Unnamed THEN heap[id]
                                ELSE heap[id] \cup {<<i[t], GroupNames[i[t] + 1]>>}
        BY <1>c, <3>1, EntriesGrow
      <3> QED
        BY <3>1, <3>2
    <2> QED
      BY <2>1, <2>2
  <1>e. /\ i' \in [Threads -> 0..n] /\ heap'[id] = Entries(i'[t])
        /\ \/ pc'[t] = "fill"
           \/ pc'[t] = "store" /\ i'[t] = n
        /\ DOMAIN heap' = DOMAIN heap /\ \A a \in DOMAIN heap : a # id => heap'[a] = heap[a]
        /\ Alone(t)
    <2>1. CASE i[t] < n /\ i' = [i EXCEPT ![t] = @ + 1] /\ pc' = pc
               /\ heap' = [heap EXCEPT ![id] = Entries(i[t] + 1)]
      <3>1. i' \in [Threads -> 0..n] /\ i'[t] = i[t] + 1
        <4>1. i \in [Threads -> 0..n]
          BY <1>0 DEF TypeOK
        <4> HIDE DEF n
        <4>2. i[t] + 1 \in 0..n
          BY <1>c, <2>1
        <4> QED
          BY <2>1, <4>1, <4>2
      <3>2. heap'[id] = Entries(i'[t]) /\ DOMAIN heap' = DOMAIN heap
            /\ \A a \in DOMAIN heap : a # id => heap'[a] = heap[a]
        BY <1>0, <1>c, <2>1, <3>1 DEF TypeOK
      <3> QED
        BY <1>0, <1>a, <2>1, <3>1, <3>2 DEF Alone, TypeOK
    <2>2. CASE i[t] = n /\ pc' = [pc EXCEPT ![t] = "store"] /\ i' = i /\ heap' = heap
      BY <1>0, <1>a, <1>c, <2>2 DEF Alone, TypeOK
    <2> QED
      BY <1>d, <2>1, <2>2
  <1> HIDE DEF n
  <1>1. TypeOK'
    <2>1. i'[t] \in 0..n
      BY <1>e
    <2>2. Entries(i'[t]) \in SUBSET Entries(Len(GroupNames))
      BY <2>1, EntriesGrow DEF n
    <2>3. heap' \in [DOMAIN heap' -> SUBSET Entries(Len(GroupNames))]
      <3>1. \A a \in DOMAIN heap : heap'[a] \in SUBSET Entries(Len(GroupNames))
        BY <1>0, <1>e, <2>2 DEF TypeOK
      <3>2. heap' = [a \in DOMAIN heap |-> heap'[a]]
        BY <1>0, <1>d DEF TypeOK
      <3> QED
        BY <1>e, <3>1, <3>2
    <2>4. pc' = pc \/ pc' = [pc EXCEPT ![t] = "store"]
      BY <1>d
    <2> QED
      BY <1>0, <1>a, <1>e, <2>3, <2>4 DEF TypeOK, n
  <1>f. Globals' = Globals /\ Built' = Built
    BY <1>a DEF Globals, Built
  <1> USE DEF Building, Asking, Computing, Holding
  <1>2. HeapOwned'
    <2>1. \A r \in Built : OwnedBy(r)' = OwnedBy(r)
      BY <1>a DEF OwnedBy
    <2>2. UNION {OwnedBy(r)' : r \in Built'} = UNION {OwnedBy(r) : r \in Built}
      BY <1>f, <2>1
    <2> QED
      BY <1>0, <1>a, <1>e, <1>f, <2>1, <2>2 DEF HeapOwned
  <1>3. ControlOK'
    <2>1. ControlAt(t)'
      BY <1>0, <1>a, <1>e DEF ControlOK, ControlAt
    <2> QED
      BY <1>0, <1>e, <2>1, ControlKept
  <1>4. LazyOnceOK'
    BY <1>0, <1>a, <1>e, LazyOnceKept DEF BuildsLazy, NeedsLazy, LazyOnceOK
  <1>5. EmptyOnceOK'
    BY <1>0, <1>a, <1>e, EmptyOnceKept DEF BuildsGlobals, EmptyOnceOK
  <1>6. TableOnceOK'
    <2>1. \A r \in Objs, w \in Tables : Computes(t, r, w)' <=> Computes(t, r, w)
      BY <1>a, <1>e DEF Computes
    <2> QED
      BY <1>0, <1>a, <1>e, <2>1, TableOnceKept
  <1>7. ObjectsOK'
    <2>1. \A r \in Objs : Holds(t, r)' <=> Holds(t, r)
      BY <1>a, <1>e DEF Holds
    <2>2. FieldsAt(t)'
      BY <1>0, <1>a, <1>e DEF ObjectsOK, FieldsAt
    <2> QED
      BY <1>0, <1>a, <1>e, <2>1, <2>2, ObjectsKept
  <1>g. \A u \in Threads \ {t} : temp[u] # NULL => temp[u] # id /\ temp[u] \in DOMAIN heap \ Globals
    BY <1>0, <1>b DEF FillingOK, FillingAt
  <1>8. FillingOK'
    <2>1. Entries(i[t])' = Entries(i'[t])
      BY DEF Entries
    <2>2. FillingAt(t)'
      BY <1>a, <1>b, <1>c, <1>e, <1>f, <2>1 DEF FillingAt, n
    <2> QED
      BY <1>0, <1>a, <1>b, <1>e, <1>f, <1>g, <2>2, FillingFrame
  <1>9. StoredOK'
    <2>1. AnswerAt(t)'
      BY <1>0, <1>a, <1>e DEF StoredOK, AnswerAt
    <2>2. \A u \in Threads : AnswerAt(u)'
      BY <1>0, <1>a, <1>e, <2>1, AnswersKept
    <2>3. ASSUME NEW r \in Objs
          PROVE  StoredIn(r)'
      <3>1. StoredIn(r) /\ TableOf(res[r].kind)' = TableOf(res[r].kind)
        BY <1>0, <1>a DEF StoredOK, TableOf, NamesOf, Entries
      <3>2. ASSUME NEW w \in Tables, res[r] # NULL, res[r].tables[w] # NULL
            PROVE  res[r].tables[w] # id
        <4>1. res[r].tables[w] \in Globals \cup OwnedBy(r) /\ r \in Built
          BY <3>2, StoredIsOwned DEF Built
        <4>2. OwnedBy(r) \cap ({temp[u] : u \in Threads} \ {NULL}) = {}
          BY <1>0, <4>1 DEF HeapOwned
        <4> QED
          BY <1>b, <1>c, <4>1, <4>2
      <3> QED
        BY <1>a, <1>e, <3>1, <3>2 DEF StoredIn
    <2>4. \A v \in Tables : empty_tables[v] # NULL => empty_tables[v] \in DOMAIN heap \cap Globals
      BY <1>0 DEF HeapOwned, Globals
    <2> QED
      BY <1>0, <1>a, <1>c, <1>e, <2>2, <2>3, <2>4 DEF StoredOK
  <1> QED
    BY <1>1, <1>2, <1>3, <1>4, <1>5, <1>6, <1>7, <1>8, <1>9 DEF IndInv

\* The table is stored in the RE2 and its flag set.
LEMMA StorePreserves ==
  ASSUME IndInv, NEW t \in Threads, Store(t)
  PROVE  IndInv'
  <1>0. /\ TypeOK /\ HeapOwned
        /\ ControlOK /\ LazyOnceOK /\ EmptyOnceOK /\ TableOnceOK
        /\ ObjectsOK /\ FillingOK /\ StoredOK
    BY DEF IndInv
  <1>a. PICK o, w, val :
        /\ o = obj[t] /\ w = table[t] /\ val = IF temp[t] # NULL THEN temp[t] ELSE empty_tables[w]
        /\ pc[t] = "store" /\ pc' = [pc EXCEPT ![t] = "answer"]
        /\ res' = [res EXCEPT ![o].tables[w] = val]
        /\ temp' = [temp EXCEPT ![t] = NULL] /\ i' = [i EXCEPT ![t] = 0]
        /\ once' = [once EXCEPT ![TableOnce(o, w)] = Done]
        /\ UNCHANGED <<obj, table, ret, empty_string, empty_tables, ptr_, heap>>
    BY DEF Store, EndOnce, Goto
  <1>b. o \in {t, Lazy} /\ o \in Objs /\ w \in Tables
    BY <1>0, <1>a DEF ControlOK, ControlAt, TypeOK, Asking, Computing, Objs
  <1>c. /\ once[TableOnce(o, w)] = t /\ t # Done /\ t # NULL
        /\ res[o] # NULL /\ res[o] \in RE2s /\ res[o].tables[w] = NULL
    <2>1. Computes(t, o, w) /\ Holds(t, o)
      BY <1>a DEF Computes, Holds, Holding, Asking, Computing
    <2>2. once[TableOnce(o, w)] = t
      BY <1>0, <1>b, <2>1 DEF TableOnceOK
    <2>3. res[o] # NULL
      BY <1>0, <1>b, <2>1 DEF ObjectsOK
    <2>4. res[o] \in RE2s
      BY <1>0, <1>b, <2>3 DEF TypeOK
    <2> QED
      BY <1>0, <1>b, <2>2, <2>3, <2>4, Apart DEF TableOnceOK
  <1>d. /\ \A v \in Tables : empty_tables[v] # NULL /\ empty_tables[v] \in DOMAIN heap \cap Globals
                          /\ heap[empty_tables[v]] = {}
        /\ Globals' = Globals
    <2>1. \A v \in Tables : empty_tables[v] # NULL
      BY <1>0, <1>b, <1>c DEF EmptyOnceOK
    <2>2. \A v \in Tables : empty_tables[v] \in DOMAIN heap \cap Globals
      BY <1>0, <2>1 DEF HeapOwned, Globals
    <2> QED
      BY <1>0, <1>a, <2>1, <2>2 DEF StoredOK, Globals
  <1>e. /\ temp[t] # NULL <=> res[o].kind = "ok"
        /\ temp[t] # NULL => val = temp[t] /\ val \in DOMAIN heap \ Globals
                            /\ heap[val] = Entries(Len(GroupNames))
        /\ temp[t] = NULL => val = empty_tables[w]
        /\ val \in DOMAIN heap /\ val \in Ids /\ val # NULL
        /\ heap[val] = TableOf(res[o].kind)
    <2>1. /\ temp[t] # NULL <=> res[o].kind = "ok"
          /\ temp[t] # NULL => val = temp[t] /\ val \in DOMAIN heap \ Globals
                              /\ heap[val] = Entries(Len(GroupNames))
      BY <1>0, <1>a DEF FillingOK, FillingAt
    <2>2. temp[t] = NULL => val = empty_tables[w] /\ val \in DOMAIN heap /\ heap[val] = {}
      BY <1>a, <1>b, <1>d
    <2>3. val \in Ids /\ val # NULL
      BY <1>0, <2>1, <2>2, Apart DEF TypeOK
    <2> QED
      BY <2>1, <2>2, <2>3 DEF TableOf, NamesOf
  <1>f. /\ \A r \in Objs : r # o => res'[r] = res[r]
        /\ res'[o] \in RE2s /\ res'[o] # NULL
        /\ res'[o].kind = res[o].kind /\ res'[o].error_ = res[o].error_
        /\ res'[o].tables[w] = val
        /\ \A v \in Tables : v # w => res'[o].tables[v] = res[o].tables[v]
    <2>1. /\ res'[o] = [res[o] EXCEPT !.tables = [res[o].tables EXCEPT ![w] = val]]
          /\ \A r \in Objs : r # o => res'[r] = res[r]
      BY <1>0, <1>a, <1>b DEF TypeOK
    <2>2. /\ res[o].tables \in [Tables -> Ids \cup {NULL}] /\ res[o].kind \in Kinds \cup {NULL}
          /\ res[o].error_ \in Ids /\ DOMAIN res[o] = {"kind", "error_", "tables"}
      BY <1>c DEF RE2s
    <2> DEFINE tab == [res[o].tables EXCEPT ![w] = val]
    <2>3. /\ tab \in [Tables -> Ids \cup {NULL}] /\ tab[w] = val
          /\ \A v \in Tables : v # w => tab[v] = res[o].tables[v]
      BY <1>b, <1>e, <2>2
    <2> HIDE DEF tab
    <2>4. /\ res'[o].kind = res[o].kind /\ res'[o].error_ = res[o].error_ /\ res'[o].tables = tab
      BY <2>1, <2>2 DEF tab
    <2>5. res'[o] \in RE2s
      BY <1>c, <2>1, <2>3 DEF RE2s, tab
    <2> QED
      BY <2>1, <2>3, <2>4, <2>5, Apart
  <1>1. TypeOK'
    <2>1. res' \in [Objs -> RE2s \cup {NULL}]
      <3>1. \A r \in Objs : res'[r] \in RE2s \cup {NULL}
        BY <1>0, <1>f DEF TypeOK
      <3>2. res' = [r \in Objs |-> res'[r]]
        BY <1>0, <1>a DEF TypeOK
      <3> QED
        BY <3>1, <3>2
    <2>2. temp' \in [Threads -> Ids \cup {NULL}] /\ i' \in [Threads -> 0..Len(GroupNames)]
      <3>1. 0 \in 0..Len(GroupNames)
        BY GroupsCounted
      <3> QED
        BY <1>0, <1>a, <3>1 DEF TypeOK
    <2>3. once' \in [Flags -> Threads \cup {NULL, Done}]
      BY <1>0, <1>a, <1>b, FlagsApart DEF TypeOK
    <2> QED
      BY <1>0, <1>a, <2>1, <2>2, <2>3 DEF TypeOK
  <1>g. /\ pc'[t] = "answer" /\ obj'[t] = o /\ obj[t] = o /\ table'[t] = w /\ table[t] = w
        /\ temp'[t] = NULL /\ Alone(t)
    BY <1>0, <1>a DEF TypeOK, Alone
  <1>h. /\ once'[TableOnce(o, w)] = Done
        /\ \A f \in Flags : f # TableOnce(o, w) => once'[f] = once[f]
        /\ \A r \in Objs, v \in Tables : (r = o /\ v = w) \/ once'[TableOnce(r, v)] = once[TableOnce(r, v)]
    <2>1. once'[TableOnce(o, w)] = Done /\ \A f \in Flags : f # TableOnce(o, w) => once'[f] = once[f]
      BY <1>0, <1>a, <1>b, FlagsApart DEF TypeOK
    <2>2. ASSUME NEW r \in Objs, NEW v \in Tables, ~(r = o /\ v = w)
          PROVE  TableOnce(r, v) \in Flags /\ TableOnce(r, v) # TableOnce(o, w)
      BY <1>b, <2>2, FlagsApart
    <2> QED
      BY <2>1, <2>2
  <1>i. \A r \in Objs : res'[r].kind = res[r].kind /\ (res'[r] # NULL <=> res[r] # NULL)
    BY <1>c, <1>f
  <1>2. HeapOwned'
    <2> DEFINE filling == {temp[u] : u \in Threads} \ {NULL}
               mine == {temp[t]} \ {NULL}
    <2>1. /\ DOMAIN heap = Globals \cup filling \cup UNION {OwnedBy(r) : r \in Built}
          /\ \A r1, r2 \in Built : r1 # r2 => OwnedBy(r1) \cap OwnedBy(r2) = {}
          /\ \A r \in Built : OwnedBy(r) \cap (Globals \cup filling) = {}
      BY <1>0 DEF HeapOwned
    <2>e. /\ empty_tables' = empty_tables /\ empty_string' = empty_string
          /\ res'[o].error_ = res[o].error_
      BY <1>a, <1>f
    <2>2. Built' = Built /\ o \in Built
      BY <1>b, <1>c, <1>i DEF Built
    <2>3. filling' = filling \ mine /\ mine \subseteq filling
      <3>1. \A u \in Threads \ {t} : temp'[u] = temp[u] /\ (temp[u] # NULL => temp[u] # temp[t])
        BY <1>0, <1>g DEF FillingOK, Alone
      <3> QED
        BY <1>g, <3>1
    <2>4. \A r \in Built : r # o => OwnedBy(r)' = OwnedBy(r)
      BY <1>a, <1>f DEF OwnedBy, Built
    <2>5. OwnedBy(o)' = OwnedBy(o) \cup mine
      <3>1. \A v \in Tables : v # w => res'[o].tables[v] = res[o].tables[v]
        BY <1>f
      <3>2. CASE temp[t] = NULL
        <4>1. mine = {} /\ val = empty_tables[w] /\ res[o].tables[w] = NULL /\ res'[o].tables[w] = val
          BY <1>c, <1>e, <1>f, <3>2
        <4>2. \A v \in Tables : v # w => res'[o].tables[v] = res[o].tables[v]
          BY <3>1
        <4> HIDE DEF mine
        <4> QED
          BY <2>e, <4>1, <4>2 DEF OwnedBy
      <3>3. CASE temp[t] # NULL
        <4>1. val # empty_tables[w] /\ val # NULL /\ mine = {val}
          BY <1>b, <1>d, <1>e, <3>3
        <4> QED
          <5>1. res[o].tables[w] = NULL /\ res'[o].tables[w] = val /\ w \in Tables
            BY <1>b, <1>c, <1>f
          <5> HIDE DEF mine
          <5> QED
            BY <2>e, <3>1, <4>1, <5>1 DEF OwnedBy
      <3> QED
        BY <3>2, <3>3
    <2> HIDE DEF filling, mine
    <2>6. DOMAIN heap' = Globals' \cup filling' \cup UNION {OwnedBy(r)' : r \in Built'}
      <3>1. UNION {OwnedBy(r)' : r \in Built'} = (UNION {OwnedBy(r) : r \in Built}) \cup mine
        <4>1. ASSUME NEW r \in Built
              PROVE  OwnedBy(r) \subseteq OwnedBy(r)' /\ OwnedBy(r)' \subseteq OwnedBy(r) \cup mine
          BY <2>4, <2>5
        <4>2. mine \subseteq UNION {OwnedBy(r)' : r \in Built'}
          BY <2>2, <2>5
        <4> QED
          BY <2>2, <4>1, <4>2
      <3> QED
        BY <1>a, <1>d, <2>1, <2>3, <3>1
    <2>7. \A r1, r2 \in Built' : r1 # r2 => OwnedBy(r1)' \cap OwnedBy(r2)' = {}
      BY <2>1, <2>2, <2>3, <2>4, <2>5
    <2>8. mine \cap Globals = {}
      BY <1>e DEF mine
    <2>9. \A r \in Built' : OwnedBy(r)' \cap (Globals' \cup filling') = {}
      BY <1>d, <2>1, <2>2, <2>3, <2>4, <2>5, <2>8
    <2> QED
      BY <2>6, <2>7, <2>9 DEF HeapOwned, filling
  <1> USE DEF Building, Asking, Computing, Holding
  <1>3. ControlOK'
    <2>1. ControlAt(t)'
      BY <1>0, <1>a, <1>g DEF ControlOK, ControlAt
    <2> QED
      BY <1>0, <1>g, <2>1, ControlKept
  <1>j. TableOnce(o, w) \notin {LazyOnce, EmptyOnce} /\ LazyOnce \in Flags /\ EmptyOnce \in Flags
    BY <1>b, FlagsApart
  <1>4. LazyOnceOK'
    <2>1. ~BuildsLazy(t) /\ ~BuildsLazy(t)' /\ (NeedsLazy(t)' => NeedsLazy(t))
      BY <1>a, <1>g DEF BuildsLazy, NeedsLazy
    <2>2. NeedsLazy(t) => ptr_ = Lazy
      BY <1>0 DEF LazyOnceOK
    <2>3. once'[LazyOnce] = once[LazyOnce]
      BY <1>h, <1>j
    <2> QED
      BY <1>0, <1>a, <1>g, <2>1, <2>2, <2>3, LazyOnceKept
  <1>5. EmptyOnceOK'
    <2>1. once'[EmptyOnce] = once[EmptyOnce]
      BY <1>h, <1>j
    <2>2. \A r \in Objs : res'[r] # NULL => once[EmptyOnce] = Done
      BY <1>0, <1>i DEF EmptyOnceOK
    <2> QED
      BY <1>0, <1>a, <1>g, <2>1, <2>2, EmptyOnceKept DEF BuildsGlobals
  <1>6. TableOnceOK'
    <2>1. ASSUME NEW u \in Threads, NEW r \in Objs, NEW v \in Tables
          PROVE  once'[TableOnce(r, v)] = u <=> Computes(u, r, v)'
      <3>1. once[TableOnce(r, v)] = u <=> Computes(u, r, v)
        BY <1>0 DEF TableOnceOK
      <3>2. CASE u # t
        <4>1. Computes(u, r, v)' <=> Computes(u, r, v)
          BY <1>g, <3>2 DEF Computes, Alone
        <4> QED
          BY <1>c, <1>h, <3>1, <3>2, <4>1, Apart
      <3>3. CASE u = t
        <4>1. ~Computes(t, r, v)'
          BY <1>g DEF Computes
        <4>2. Computes(t, r, v) => r = o /\ v = w
          BY <1>g DEF Computes
        <4> QED
          BY <1>c, <1>h, <3>1, <3>3, <4>1, <4>2
      <3> QED
        BY <3>2, <3>3
    <2>2. ASSUME NEW r \in Objs, NEW v \in Tables
          PROVE  once'[TableOnce(r, v)] = Done <=> res'[r] # NULL /\ res'[r].tables[v] # NULL
      <3>1. once[TableOnce(r, v)] = Done <=> res[r] # NULL /\ res[r].tables[v] # NULL
        BY <1>0 DEF TableOnceOK
      <3>2. CASE r = o /\ v = w
        BY <1>e, <1>f, <1>h, <3>2
      <3>3. CASE ~(r = o /\ v = w)
        BY <1>f, <1>h, <1>i, <3>1, <3>3
      <3> QED
        BY <3>2, <3>3
    <2> QED
      BY <2>1, <2>2 DEF TableOnceOK
  <1>7. ObjectsOK'
    <2>1. \A u \in Threads, r \in Objs : Holds(u, r)' <=> Holds(u, r)
      BY <1>a, <1>g DEF Holds, Alone
    <2>2. ASSUME NEW u \in Threads
          PROVE  FieldsAt(u)'
      <3>1. FieldsAt(u) /\ obj'[u] = obj[u] /\ (pc[u] \in Holding => obj[u] \in Objs)
        BY <1>0, <1>a DEF ObjectsOK, ControlOK, ControlAt, Objs
      <3>2. CASE u = t
        BY <1>g, <1>a, <1>i, <1>b, <3>1, <3>2, ZenonT(30) DEF FieldsAt
      <3>3. CASE u # t
        <4>1. pc'[u] = pc[u] /\ empty_string' = empty_string
          BY <1>a, <1>g, <3>3 DEF Alone
        <4>2. pc[u] = "compile" => obj[u] # o
          <5>1. pc[u] = "compile" => ~Holds(t, obj[u])
            BY <1>0, <3>3, SoleBuilder
          <5> QED
            BY <1>a, <5>1 DEF Holds
        <4>3. pc[u] = "compile" => res'[obj[u]] = res[obj[u]]
          BY <1>f, <3>1, <4>2
        <4> QED
          BY <1>i, <3>1, <4>1, <4>3 DEF FieldsAt
      <3> QED
        BY <3>2, <3>3
    <2>3. ptr_ = Lazy => res'[Lazy].kind # NULL
      BY <1>0, <1>i DEF ObjectsOK, Objs
    <2> QED
      BY <1>0, <1>a, <1>i, <2>1, <2>2, <2>3 DEF ObjectsOK
  <1>8. FillingOK'
    <2>1. FillingAt(t)'
      BY <1>g DEF FillingAt
    <2>2. \A u \in Threads : temp[u] # NULL => temp[u] \in DOMAIN heap \ Globals
      BY <1>0 DEF FillingOK, FillingAt
    <2>3. \A u \in Threads : pc[u] \in Computing => obj[u] \in Objs
      BY <1>0 DEF ControlOK, ControlAt, Objs
    <2> QED
      BY <1>0, <1>a, <1>d, <1>g, <1>i, <2>1, <2>2, <2>3, FillingFrame
  <1>9. StoredOK'
    <2>1. AnswerAt(t)'
      BY <1>0, <1>a, <1>e, <1>f, <1>g DEF StoredOK, AnswerAt
    <2>2. ASSUME NEW u \in Threads \ {t}, pc[u] \in {"answer", "answered"}
          PROVE  res'[obj[u]].tables[table[u]] = res[obj[u]].tables[table[u]]
      <3>1. obj[u] \in Objs /\ table[u] \in Tables
        BY <1>0, <2>2 DEF ControlOK, ControlAt, TypeOK, Objs
      <3>2. res[obj[u]].tables[table[u]] # NULL
        BY <1>0, <2>2 DEF StoredOK, AnswerAt
      <3> QED
        BY <1>c, <1>f, <3>1, <3>2
    <2>3. \A u \in Threads : AnswerAt(u)'
      BY <1>0, <1>g, <2>1, <2>2, AnswersKept
    <2>4. ASSUME NEW r \in Objs
          PROVE  StoredIn(r)'
      <3>1. StoredIn(r) /\ TableOf(res[r].kind)' = TableOf(res[r].kind)
        BY <1>0, <1>i DEF StoredOK, TableOf, NamesOf, Entries
      <3> QED
        <4>1. heap' = heap /\ val \in DOMAIN heap /\ heap[val] = TableOf(res[o].kind)
          BY <1>a, <1>e
        <4>2. res'[r].kind = res[r].kind /\ (res'[r] # NULL <=> res[r] # NULL)
          BY <1>i
        <4>3. ASSUME NEW v \in Tables
              PROVE  res'[r].tables[v] = res[r].tables[v] \/ (r = o /\ res'[r].tables[v] = val)
          BY <1>f
        <4> QED
          BY <3>1, <4>1, <4>2, <4>3 DEF StoredIn
    <2> QED
      BY <1>0, <1>a, <2>3, <2>4 DEF StoredOK
  <1> QED
    BY <1>1, <1>2, <1>3, <1>4, <1>5, <1>6, <1>7, <1>8, <1>9 DEF IndInv

\* The thread is given the table.
LEMMA AnswerPreserves ==
  ASSUME IndInv, NEW t \in Threads, Answer(t)
  PROVE  IndInv'
  <1>0. /\ TypeOK /\ HeapOwned
        /\ ControlOK /\ LazyOnceOK /\ EmptyOnceOK /\ TableOnceOK
        /\ ObjectsOK /\ FillingOK /\ StoredOK
    BY DEF IndInv
  <1>a. PICK o, w :
        /\ o = obj[t] /\ w = table[t]
        /\ pc[t] = "answer" /\ pc' = [pc EXCEPT ![t] = "answered"]
        /\ ret' = [ret EXCEPT ![t] = res[o].tables[w]]
        /\ UNCHANGED <<obj, table, temp, i, once, empty_string, empty_tables, ptr_, res, heap>>
    BY DEF Answer, Goto
  <1>b. /\ o \in Objs /\ w \in Tables /\ res[o] # NULL /\ res[o] \in RE2s
        /\ res[o].tables[w] # NULL /\ res[o].tables[w] \in Ids
    <2>1. o \in Objs /\ w \in Tables /\ Holds(t, o)
      BY <1>0, <1>a DEF ControlOK, ControlAt, TypeOK, Asking, Holding, Holds, Objs
    <2>2. res[o] # NULL
      BY <1>0, <2>1 DEF ObjectsOK
    <2>3. res[o] \in RE2s
      BY <1>0, <2>1, <2>2 DEF TypeOK
    <2>4. res[o].tables \in [Tables -> Ids \cup {NULL}]
      BY <2>3 DEF RE2s
    <2>5. res[o].tables[w] # NULL
      BY <1>0, <1>a DEF StoredOK, AnswerAt
    <2> QED
      BY <2>1, <2>2, <2>3, <2>4, <2>5
  <1>1. TypeOK'
    BY <1>0, <1>a, <1>b DEF TypeOK
  <1>c. /\ pc'[t] = "answered" /\ obj'[t] = o /\ obj[t] = o /\ table'[t] = w /\ table[t] = w
        /\ ret'[t] = res[o].tables[w] /\ Alone(t)
    BY <1>0, <1>a DEF TypeOK, Alone
  <1> USE DEF Building, Asking, Computing, Holding
  <1>2. HeapOwned'
    BY <1>0, <1>a, HeapKept
  <1>3. ControlOK'
    <2>1. ControlAt(t)'
      BY <1>0, <1>a, <1>c DEF ControlOK, ControlAt
    <2> QED
      BY <1>0, <1>c, <2>1, ControlKept
  <1>4. LazyOnceOK'
    BY <1>0, <1>a, <1>c, LazyOnceKept DEF BuildsLazy, NeedsLazy, LazyOnceOK
  <1>5. EmptyOnceOK'
    BY <1>0, <1>a, <1>c, EmptyOnceKept DEF BuildsGlobals, EmptyOnceOK
  <1>6. TableOnceOK'
    BY <1>0, <1>a, <1>c, TableOnceKept DEF Computes
  <1>7. ObjectsOK'
    BY <1>0, <1>a, <1>c, ObjectsKept DEF ObjectsOK, Holds, FieldsAt
  <1>8. FillingOK'
    BY <1>0, <1>a, <1>c, FillingKept DEF FillingOK, FillingAt
  <1>9. StoredOK'
    <2>1. AnswerAt(t)'
      BY <1>a, <1>b, <1>c DEF AnswerAt
    <2> QED
      BY <1>0, <1>a, <1>c, <2>1, StoredKept
  <1> QED
    BY <1>1, <1>2, <1>3, <1>4, <1>5, <1>6, <1>7, <1>8, <1>9 DEF IndInv

\* The caller leaves the LazyRE2's table where it is.
LEMMA LeaveLazyPreserves ==
  ASSUME IndInv, NEW t \in Threads, LeaveLazy(t)
  PROVE  IndInv'
  <1>0. /\ TypeOK /\ HeapOwned
        /\ ControlOK /\ LazyOnceOK /\ EmptyOnceOK /\ TableOnceOK
        /\ ObjectsOK /\ FillingOK /\ StoredOK
    BY DEF IndInv
  <1>a. /\ pc[t] = "answered" /\ pc' = [pc EXCEPT ![t] = "idle"]
        /\ obj[t] = Lazy /\ obj' = [obj EXCEPT ![t] = NULL]
        /\ ret' = [ret EXCEPT ![t] = NULL] /\ table' = [table EXCEPT ![t] = NULL]
        /\ UNCHANGED <<temp, i, once, empty_string, empty_tables, ptr_, res, heap>>
    BY DEF LeaveLazy, Release, Goto
  <1>1. TypeOK'
    BY <1>0, <1>a DEF TypeOK
  <1>b. /\ pc'[t] = "idle" /\ obj'[t] = NULL /\ ret'[t] = NULL /\ table'[t] = NULL /\ Alone(t)
    BY <1>0, <1>a DEF TypeOK, Alone
  <1> USE DEF Building, Asking, Computing, Holding
  <1>2. HeapOwned'
    BY <1>0, <1>a, HeapKept
  <1>3. ControlOK'
    BY <1>0, <1>a, <1>b, ControlKept DEF ControlAt
  <1>4. LazyOnceOK'
    BY <1>0, <1>a, <1>b, LazyOnceKept DEF BuildsLazy, NeedsLazy
  <1>5. EmptyOnceOK'
    BY <1>0, <1>a, <1>b, EmptyOnceKept DEF BuildsGlobals, EmptyOnceOK
  <1>6. TableOnceOK'
    BY <1>0, <1>a, <1>b, TableOnceKept DEF Computes
  <1>7. ObjectsOK'
    <2>1. ptr_ = Lazy
      BY <1>0, <1>a DEF LazyOnceOK, NeedsLazy
    <2>2. \A u \in Threads, r \in Objs : r # Lazy => (Holds(u, r)' <=> Holds(u, r))
      BY <1>a, <1>b, Apart DEF Holds, Alone
    <2>3. \A u \in Threads : FieldsAt(u)'
      BY <1>0, <1>a, <1>b, ZenonT(30) DEF FieldsAt, ObjectsOK, Alone
    <2> QED
      BY <1>0, <1>a, <2>1, <2>2, <2>3 DEF ObjectsOK
  <1>8. FillingOK'
    BY <1>0, <1>a, <1>b, FillingKept DEF FillingOK, FillingAt
  <1>9. StoredOK'
    BY <1>0, <1>a, <1>b, StoredKept DEF AnswerAt
  <1> QED
    BY <1>1, <1>2, <1>3, <1>4, <1>5, <1>6, <1>7, <1>8, <1>9 DEF IndInv

\* The thread's own RE2 is destroyed, with what is its own on the heap.
LEMMA DestroyOwnPreserves ==
  ASSUME IndInv, NEW t \in Threads, DestroyOwn(t)
  PROVE  IndInv'
  <1>0. /\ TypeOK /\ HeapOwned
        /\ ControlOK /\ LazyOnceOK /\ EmptyOnceOK /\ TableOnceOK
        /\ ObjectsOK /\ FillingOK /\ StoredOK
    BY DEF IndInv
  <1>a. /\ pc[t] = "answered" /\ pc' = [pc EXCEPT ![t] = "idle"]
        /\ obj[t] = t /\ obj' = [obj EXCEPT ![t] = NULL]
        /\ ret' = [ret EXCEPT ![t] = NULL] /\ table' = [table EXCEPT ![t] = NULL]
        /\ heap' = [a \in DOMAIN heap \ OwnedBy(t) |-> heap[a]]
        /\ res' = [res EXCEPT ![t] = NULL]
        /\ once' = [f \in Flags |-> IF f \in Tables \X {t} THEN NULL ELSE once[f]]
        /\ UNCHANGED <<temp, i, empty_string, empty_tables, ptr_>>
    BY DEF DestroyOwn, Release, Goto, Delete
  <1>b. /\ pc'[t] = "idle" /\ obj'[t] = NULL /\ ret'[t] = NULL /\ table'[t] = NULL /\ Alone(t)
    BY <1>0, <1>a DEF TypeOK, Alone
  <1>c. /\ t \in Objs /\ t # Lazy /\ t # NULL /\ t # Done /\ NULL # Done
        /\ res[t] # NULL /\ res'[t] = NULL /\ \A r \in Objs : r # t => res'[r] = res[r]
    <2>1. t \in Objs /\ t # Lazy /\ t # NULL /\ t # Done /\ NULL # Done
      BY Apart DEF Objs
    <2>2. Holds(t, t)
      BY <1>a DEF Holds, Holding, Asking
    <2>3. res[t] # NULL
      BY <1>0, <2>1, <2>2 DEF ObjectsOK
    <2> QED
      BY <1>0, <1>a, <2>1, <2>3 DEF TypeOK
  <1>d. /\ \A r \in Objs, w \in Tables :
             once'[TableOnce(r, w)] = IF r = t THEN NULL ELSE once[TableOnce(r, w)]
        /\ once'[LazyOnce] = once[LazyOnce] /\ once'[EmptyOnce] = once[EmptyOnce]
    <2>1. \A r \in Objs, w \in Tables :
            /\ TableOnce(r, w) \in Flags
            /\ TableOnce(r, w) \in Tables \X {t} <=> r = t
      BY DEF TableOnce, Flags
    <2>2. LazyOnce \in Flags \ (Tables \X {t}) /\ EmptyOnce \in Flags \ (Tables \X {t})
      BY <1>c DEF LazyOnce, EmptyOnce, Flags
    <2> QED
      BY <1>a, <2>1, <2>2
  <1> DEFINE filling == {temp[u] : u \in Threads} \ {NULL}
  <1>e. /\ DOMAIN heap = Globals \cup filling \cup UNION {OwnedBy(r) : r \in Built}
        /\ \A r1, r2 \in Built : r1 # r2 => OwnedBy(r1) \cap OwnedBy(r2) = {}
        /\ \A r \in Built : OwnedBy(r) \cap (Globals \cup filling) = {}
    BY <1>0 DEF HeapOwned
  <1>f. t \in Built /\ Built' = Built \ {t} /\ Globals' = Globals /\ filling' = filling
    BY <1>a, <1>c DEF Built, Globals
  <1>g. /\ DOMAIN heap' = DOMAIN heap \ OwnedBy(t) /\ DOMAIN heap' \subseteq DOMAIN heap
        /\ \A a \in DOMAIN heap \ OwnedBy(t) : heap'[a] = heap[a]
    BY <1>a
  <1>1. TypeOK'
    <2>1. res' \in [Objs -> RE2s \cup {NULL}]
      BY <1>0, <1>a DEF TypeOK
    <2>2. once' \in [Flags -> Threads \cup {NULL, Done}]
      BY <1>0, <1>a DEF TypeOK
    <2>3. DOMAIN heap' \subseteq Ids /\ heap' \in [DOMAIN heap' -> SUBSET Entries(Len(GroupNames))]
      BY <1>0, <1>a, <1>g DEF TypeOK
    <2>4. /\ pc' = [pc EXCEPT ![t] = "idle"] /\ obj' = [obj EXCEPT ![t] = NULL]
          /\ ret' = [ret EXCEPT ![t] = NULL] /\ table' = [table EXCEPT ![t] = NULL]
          /\ UNCHANGED <<temp, i, empty_string, empty_tables, ptr_>>
      BY <1>a
    <2> QED
      BY <1>0, <2>1, <2>2, <2>3, <2>4 DEF TypeOK
  <1>2. HeapOwned'
    <2>1. \A r \in Built' : r # t /\ r \in Built /\ OwnedBy(r)' = OwnedBy(r)
      BY <1>a, <1>c, <1>f DEF OwnedBy, Built
    <2> HIDE DEF filling
    <2>2. UNION {OwnedBy(r)' : r \in Built'} = (UNION {OwnedBy(r) : r \in Built}) \ OwnedBy(t)
      <3>1. UNION {OwnedBy(r)' : r \in Built'} = UNION {OwnedBy(r) : r \in Built \ {t}}
        BY <1>f, <2>1
      <3>2. \A r \in Built \ {t} : OwnedBy(r) \cap OwnedBy(t) = {}
        BY <1>e, <1>f
      <3> QED
        BY <1>f, <3>1, <3>2
    <2>3. DOMAIN heap' = Globals' \cup filling' \cup UNION {OwnedBy(r)' : r \in Built'}
      BY <1>e, <1>f, <1>g, <2>2
    <2>4. \A r1, r2 \in Built' : r1 # r2 => OwnedBy(r1)' \cap OwnedBy(r2)' = {}
      BY <1>e, <1>f, <2>1
    <2>5. \A r \in Built' : OwnedBy(r)' \cap (Globals' \cup filling') = {}
      BY <1>e, <1>f, <2>1
    <2> QED
      BY <2>3, <2>4, <2>5 DEF HeapOwned, filling
  <1> USE DEF Building, Asking, Computing, Holding
  <1>3. ControlOK'
    BY <1>0, <1>a, <1>b, ControlKept DEF ControlAt
  <1>4. LazyOnceOK'
    BY <1>0, <1>a, <1>b, <1>c, <1>d, LazyOnceKept DEF BuildsLazy, NeedsLazy
  <1>5. EmptyOnceOK'
    <2>1. \A r \in Objs : res'[r] # NULL => once[EmptyOnce] = Done
      BY <1>0, <1>c DEF EmptyOnceOK
    <2> QED
      BY <1>0, <1>a, <1>b, <1>d, <2>1, EmptyOnceKept DEF BuildsGlobals
  <1>h. \A u \in Threads \ {t} : obj[u] # t
    BY <1>0, <1>c DEF ControlOK, ControlAt, TypeOK
  <1>6. TableOnceOK'
    <2>1. ASSUME NEW u \in Threads, NEW r \in Objs, NEW w \in Tables
          PROVE  once'[TableOnce(r, w)] = u <=> Computes(u, r, w)'
      <3>1. once[TableOnce(r, w)] = u <=> Computes(u, r, w)
        BY <1>0 DEF TableOnceOK
      <3>2. Computes(u, r, w)' <=> Computes(u, r, w)
        BY <1>a, <1>b DEF Computes, Alone
      <3>3. ~Computes(u, t, w)
        BY <1>a, <1>h DEF Computes
      <3> QED
        BY <1>d, <3>1, <3>2, <3>3, Apart
    <2>2. \A r \in Objs, w \in Tables :
            once[TableOnce(r, w)] = Done <=> res[r] # NULL /\ res[r].tables[w] # NULL
      BY <1>0 DEF TableOnceOK
    <2>3. \A r \in Objs, w \in Tables :
            once'[TableOnce(r, w)] = Done <=> res'[r] # NULL /\ res'[r].tables[w] # NULL
      BY <1>c, <1>d, <2>2
    <2> QED
      BY <2>1, <2>3 DEF TableOnceOK
  <1>7. ObjectsOK'
    <2>1. \A u \in Threads, r \in Objs : r # t => (Holds(u, r)' <=> Holds(u, r))
      BY <1>a, <1>b DEF Holds, Alone
    <2>2. \A u \in Threads : ~Holds(u, t)'
      BY <1>b, <1>c, <1>h DEF Holds, Alone
    <2>3. ASSUME NEW u \in Threads \ {t}
          PROVE  FieldsAt(u)'
      <3>1. FieldsAt(u) /\ (pc[u] \in Holding => obj[u] \in Objs)
        BY <1>0 DEF ObjectsOK, ControlOK, ControlAt, Objs
      <3>2. pc'[u] = pc[u] /\ obj'[u] = obj[u] /\ empty_string' = empty_string
        BY <1>a, <1>b DEF Alone
      <3> QED
        BY <1>c, <1>h, <3>1, <3>2 DEF FieldsAt
    <2>4. FieldsAt(t)'
      BY <1>b DEF FieldsAt
    <2>5. \A r \in Objs : r # t => (res'[r] # NULL <=> (r = Lazy /\ ptr_' = Lazy) \/ \E u \in Threads : Holds(u, r)')
      BY <1>0, <1>a, <1>c, <2>1 DEF ObjectsOK
    <2>6. ptr_' = Lazy => res'[Lazy].kind # NULL
      BY <1>0, <1>a, <1>c DEF ObjectsOK, Objs
    <2> QED
      BY <1>c, <2>2, <2>3, <2>4, <2>5, <2>6 DEF ObjectsOK
  <1>8. FillingOK'
    <2>1. FillingAt(t)'
      BY <1>0, <1>a, <1>b DEF FillingOK, FillingAt
    <2>2. \A u \in Threads : pc[u] \in Computing => obj[u] \in Objs
      BY <1>0 DEF ControlOK, ControlAt, Objs
    <2>3. ASSUME NEW u \in Threads \ {t}, temp[u] # NULL
          PROVE  /\ temp[u] \in DOMAIN heap' \ Globals'
                 /\ heap'[temp[u]] = heap[temp[u]] /\ temp[u] # temp'[t]
      <3>1. temp[u] \in DOMAIN heap \ Globals /\ temp[u] # temp[t] /\ temp'[t] = temp[t]
        BY <1>0, <1>a, <2>3 DEF FillingOK, FillingAt
      <3>2. temp[u] \notin OwnedBy(t)
        BY <1>e, <1>f, <2>3
      <3> QED
        BY <1>f, <1>g, <3>1, <3>2
    <2> QED
      BY <1>0, <1>b, <1>c, <1>h, <2>1, <2>2, <2>3, FillingFrame
  <1>9. StoredOK'
    <2>1. AnswerAt(t)'
      BY <1>b DEF AnswerAt
    <2>2. ASSUME NEW u \in Threads \ {t}, pc[u] \in {"answer", "answered"}
          PROVE  res'[obj[u]].tables[table[u]] = res[obj[u]].tables[table[u]]
      BY <1>0, <1>c, <1>h, <2>2 DEF ControlOK, ControlAt, Objs
    <2>3. \A u \in Threads : AnswerAt(u)'
      BY <1>0, <1>b, <2>1, <2>2, AnswersKept
    <2>4. ASSUME NEW r \in Objs
          PROVE  StoredIn(r)'
      <3>1. StoredIn(r) /\ TableOf(res[r].kind)' = TableOf(res'[r].kind)
        BY <1>0 DEF StoredOK, TableOf, NamesOf, Entries
      <3>2. CASE r = t
        BY <1>c, <3>2 DEF StoredIn
      <3>3. ASSUME r # t, NEW w \in Tables, res[r] # NULL, res[r].tables[w] # NULL
            PROVE  res[r].tables[w] \notin OwnedBy(t)
        <4>1. res[r].tables[w] \in Globals \cup OwnedBy(r) /\ r \in Built
          BY <3>3, StoredIsOwned DEF Built
        <4> QED
          BY <1>e, <1>f, <3>3, <4>1
      <3> QED
        BY <1>c, <1>g, <3>1, <3>2, <3>3 DEF StoredIn
    <2>5. \A v \in Tables : empty_tables[v] # NULL => empty_tables[v] \in DOMAIN heap \ OwnedBy(t)
      <3>1. \A v \in Tables : empty_tables[v] # NULL => empty_tables[v] \in Globals
        BY DEF Globals
      <3> QED
        BY <1>e, <1>f, <3>1
    <2> QED
      BY <1>0, <1>a, <1>g, <2>3, <2>4, <2>5 DEF StoredOK
  <1> QED
    BY <1>1, <1>2, <1>3, <1>4, <1>5, <1>6, <1>7, <1>8, <1>9 DEF IndInv
------------------------------------------------------------------------------
\* Every step preserves the invariant.
LEMMA NextPreserves == IndInv /\ [Next]_vars => IndInv'
  <1> SUFFICES ASSUME IndInv, [Next]_vars PROVE IndInv'
    OBVIOUS
  <1>1. ASSUME NEW t \in Threads, Step(t)
        PROVE  IndInv'
    BY <1>1, GetPreserves, PublishPreserves, GotPreserves, ConstructPreserves, NewStringPreserves,
       NewTablesPreserves, FieldsPreserves, CompilePatternPreserves, AskPreserves, NewTablePreserves,
       FillPreserves, StorePreserves, AnswerPreserves, LeaveLazyPreserves, DestroyOwnPreserves
       DEF Step
  <1>2. ASSUME NEW t \in Threads, NEW w \in Tables, UseLazy(t, w) \/ UseOwn(t, w)
        PROVE  IndInv'
    BY <1>2, UseLazyPreserves, UseOwnPreserves
  <1>3. CASE UNCHANGED vars
    <2>1. /\ UNCHANGED <<pc, obj, table, temp, i, ret, once, empty_string, empty_tables, ptr_, res, heap>>
          /\ \A t \in Threads : Alone(t)
      BY <1>3 DEF vars, Alone
    <2>2. TypeOK' /\ HeapOwned'
      BY <2>1, HeapKept DEF IndInv, TypeOK
    <2>3. ControlOK' /\ LazyOnceOK'
      BY <2>1 DEF IndInv, ControlOK, ControlAt, LazyOnceOK, BuildsLazy, NeedsLazy
    <2>4. EmptyOnceOK'
      BY <2>1 DEF IndInv, EmptyOnceOK, BuildsGlobals
    <2>8. TableOnceOK'
      <3>1. \A t \in Threads, r \in Objs, w \in Tables : Computes(t, r, w)' <=> Computes(t, r, w)
        BY <2>1 DEF Computes
      <3> QED
        BY <2>1, <3>1 DEF IndInv, TableOnceOK
    <2>5. ObjectsOK'
      BY <2>1 DEF IndInv, ObjectsOK, Holds, FieldsAt
    <2>6. FillingOK'
      <3>1. \A t \in Threads : Entries(i[t])' = Entries(i[t])
        BY <2>1 DEF Entries
      <3>2. Globals' = Globals
        BY <2>1 DEF Globals
      <3>3. \A t \in Threads : FillingAt(t)'
        BY <2>1, <3>1, <3>2 DEF IndInv, FillingOK, FillingAt
      <3> QED
        BY <2>1, <3>3 DEF IndInv, FillingOK
    <2>7. StoredOK'
      <3>1. \A r \in Objs : TableOf(res[r].kind)' = TableOf(res[r].kind)
        BY <2>1 DEF TableOf, NamesOf, Entries
      <3> QED
        BY <2>1, <3>1 DEF IndInv, StoredOK, StoredIn, AnswerAt
    <2> QED
      BY <2>2, <2>3, <2>4, <2>5, <2>6, <2>7, <2>8 DEF IndInv
  <1> QED
    BY <1>1, <1>2, <1>3 DEF Next

\* The invariant holds in every reachable state.
LEMMA Inductive == Spec => []IndInv
  BY InitEstablishes, NextPreserves, PTL DEF Spec

\* The types of the variables, and that no pointer dangles into an address that is not
\* one.
THEOREM TypeCorrect == Spec => []TypeOK
  <1>1. IndInv => TypeOK
    BY DEF IndInv
  <1> QED
    BY <1>1, Inductive, PTL

\* No string or table on the heap is freed or lost while somebody holds it, no two RE2s
\* own the same one, and no destructor touches a global one, for any number of threads.
THEOREM HeapIsOwned == Spec => []HeapOwned
  <1>1. IndInv => HeapOwned
    BY DEF IndInv
  <1> QED
    BY <1>1, Inductive, PTL

\* An answer is in the RE2 that was asked, and is the table that this one gives.
LEMMA Answered ==
  IndInv => \A t \in Threads : pc[t] = "answered" =>
              ret[t] \in DOMAIN heap /\ heap[ret[t]] = TableOf(res[obj[t]].kind)
  <1> SUFFICES ASSUME IndInv, NEW t \in Threads, pc[t] = "answered"
               PROVE  ret[t] \in DOMAIN heap /\ heap[ret[t]] = TableOf(res[obj[t]].kind)
    OBVIOUS
  <1>1. obj[t] \in Objs /\ table[t] \in Tables /\ Holds(t, obj[t])
    BY DEF IndInv, ControlOK, ControlAt, TypeOK, Asking, Holding, Holds, Objs
  <1>2. res[obj[t]] # NULL
    BY <1>1 DEF IndInv, ObjectsOK
  <1>3. ret[t] # NULL /\ ret[t] = res[obj[t]].tables[table[t]] /\ StoredIn(obj[t])
    BY <1>1 DEF IndInv, StoredOK, AnswerAt
  <1> QED
    BY <1>1, <1>2, <1>3 DEF StoredIn

\* Whoever computed it, a thread is only ever given the complete table of names of the
\* RE2 it asked, and holds it while it is allocated, for any number of threads and
\* groups.  The names of an RE2 whose suffix_regexp_ did not compile are excepted
\* (re2.cc:372, 388): what is given of them is allocated, but empty.
THEOREM AnswersAreComplete == Spec => []AnswersComplete
  <1>1. IndInv => AnswersComplete
    <2>1. ASSUME NEW kind, kind # "nosuffix"
          PROVE  TableOf(kind) = NamesOf(kind)
      BY <2>1 DEF TableOf, NamesOf
    <2> QED
      BY <2>1, Answered, Zenon DEF AnswersComplete
  <1> QED
    BY <1>1, Inductive, PTL
------------------------------------------------------------------------------
(***************************************************************************)
(* LazyRE2 implements StaticRE2.  Publish is Make, the answer of a thread  *)
(* that asked the LazyRE2 is Answer, its return is Forget, and every other *)
(* step leaves both variables as they are.                                 *)
(***************************************************************************)
Made == IF ptr_ = NULL THEN NULL ELSE res[ptr_].kind
Sees(t) == pc[t] = "answered" /\ obj[t] = Lazy
Answers == [t \in Threads |-> IF Sees(t) THEN heap[ret[t]] ELSE NULL]

\* Once it is made, the RE2 has one of the kinds, and who sees an answer sees its table.
MadeOK ==
  /\ ptr_ \in {NULL, Lazy} /\ (ptr_ = Lazy => Made \in Kinds /\ Made = res[Lazy].kind)
  /\ \A t \in Threads : Sees(t) => ptr_ = Lazy
  /\ Answers = [t \in Threads |-> IF Sees(t) THEN TableOf(Made) ELSE NULL]
  /\ TableOf(Made) # NULL

\* It follows from the invariant.
LEMMA AnswersOfMade == IndInv => MadeOK
  <1> SUFFICES ASSUME IndInv PROVE MadeOK
    OBVIOUS
  <1>1. ptr_ \in {NULL, Lazy} /\ NULL # Lazy
    BY Apart DEF IndInv, TypeOK
  <1>2. ASSUME ptr_ = Lazy
        PROVE  Made \in Kinds /\ Made = res[Lazy].kind
    <2>1. Made = res[Lazy].kind
      BY <1>1, <1>2 DEF Made
    <2>2. res[Lazy] # NULL /\ res[Lazy].kind # NULL
      BY <1>2 DEF IndInv, ObjectsOK, Objs
    <2>3. res[Lazy] \in RE2s
      BY <2>2 DEF IndInv, TypeOK, Objs
    <2> QED
      BY <2>1, <2>2, <2>3 DEF RE2s
  <1>3. \A t \in Threads : Sees(t) => ptr_ = Lazy
    BY DEF IndInv, LazyOnceOK, NeedsLazy, Sees, Asking
  <1>4. \A t \in Threads : Sees(t) => heap[ret[t]] = TableOf(Made)
    BY <1>2, <1>3, Answered DEF Sees
  <1>5. TableOf(Made) \in SUBSET Entries(Len(GroupNames))
    BY DEF TableOf, NamesOf
  <1> QED
    BY <1>1, <1>2, <1>3, <1>4, <1>5, ThreadsAssumption DEF Answers, MadeOK

\* A step that neither publishes the RE2 nor changes who sees an answer.
LEMMA NothingSeen ==
  ASSUME MadeOK, MadeOK', UNCHANGED ptr_,
         ptr_ = Lazy => res'[Lazy].kind = res[Lazy].kind,
         \A u \in Threads : Sees(u)' <=> Sees(u)
  PROVE  UNCHANGED <<Made, Answers>>
  <1>1. UNCHANGED Made
    BY Apart DEF Made, MadeOK
  <1>2. TableOf(Made)' = TableOf(Made)
    BY <1>1 DEF TableOf, NamesOf, Entries
  <1> QED
    BY <1>1, <1>2 DEF MadeOK

\* Each step is one of StaticRE2, or none.
LEMMA StaticStep == IndInv /\ IndInv' /\ [Next]_vars => [Static!Next]_(Static!vars)
  <1> SUFFICES ASSUME IndInv, IndInv', [Next]_vars PROVE [Static!Next]_(Static!vars)
    OBVIOUS
  <1>0. MadeOK /\ MadeOK'
    BY AnswersOfMade, PTL
  <1>a. ASSUME UNCHANGED <<Made, Answers>>
        PROVE  UNCHANGED Static!vars
    BY <1>a DEF Static!vars, Made, Answers, Sees
  <1>t. TypeOK /\ ControlOK /\ LazyOnceOK
    BY DEF IndInv
  <1>1. ASSUME NEW t \in Threads, Publish(t)
        PROVE  Static!Next
    <2>1. obj[t] = Lazy /\ ptr_ # Lazy /\ ptr_' = Lazy /\ res' = res
      BY <1>t, <1>1, SoleBuilder DEF Publish, ControlOK, ControlAt, Building
    <2>2. \A u \in Threads : ~Sees(u) /\ ~Sees(u)'
      <3>1. pc'[t] = "got" /\ \A u \in Threads \ {t} : pc'[u] = pc[u] /\ obj'[u] = obj[u]
        BY <1>t, <1>1 DEF Publish, EndOnce, Goto, TypeOK
      <3> QED
        BY <1>0, <2>1, <3>1 DEF MadeOK, Sees
    <2>3. Made = NULL /\ Made' \in Kinds /\ UNCHANGED Answers
      BY <1>0, <2>1, <2>2 DEF MadeOK, Made
    <2> QED
      BY <2>3 DEF Static!Next, Static!Make, Made, Answers, Sees
  <1>2. ASSUME NEW t \in Threads, Answer(t), obj[t] = Lazy
        PROVE  Static!Next
    <2>1. /\ ptr_ = Lazy /\ ptr_' = ptr_ /\ res' = res /\ ~Sees(t) /\ Sees(t)'
          /\ \A u \in Threads \ {t} : Sees(u)' <=> Sees(u)
      BY <1>t, <1>2 DEF Answer, Goto, TypeOK, LazyOnceOK, NeedsLazy, Asking, Sees
    <2>2. UNCHANGED Made
      BY <2>1 DEF Made
    <2>3. TableOf(Made)' = TableOf(Made)
      BY <2>2 DEF TableOf, NamesOf, Entries
    <2>4. Made # NULL /\ Answers[t] = NULL /\ Answers' = [Answers EXCEPT ![t] = TableOf(Made)]
      BY <1>0, <2>1, <2>3, Apart DEF MadeOK
    <2> QED
      BY <2>2, <2>4 DEF Static!Next, Static!Answer, Made, Answers, Sees
  <1>3. ASSUME NEW t \in Threads, LeaveLazy(t)
        PROVE  Static!Next
    <2>1. /\ ptr_' = ptr_ /\ res' = res /\ Sees(t) /\ ~Sees(t)'
          /\ \A u \in Threads \ {t} : Sees(u)' <=> Sees(u)
      BY <1>t, <1>3 DEF LeaveLazy, Release, Goto, TypeOK, Sees
    <2>2. UNCHANGED Made
      BY <2>1 DEF Made
    <2>3. TableOf(Made)' = TableOf(Made)
      BY <2>2 DEF TableOf, NamesOf, Entries
    <2>4. Answers[t] # NULL /\ Answers' = [Answers EXCEPT ![t] = NULL]
      BY <1>0, <2>1, <2>3 DEF MadeOK
    <2> QED
      BY <2>2, <2>4 DEF Static!Next, Static!Forget, Made, Answers, Sees
  <1>4. ASSUME NEW t \in Threads, Fields(t) \/ CompilePattern(t)
        PROVE  UNCHANGED <<Made, Answers>>
    <2>1. ptr_' = ptr_ /\ (ptr_ = Lazy => obj[t] # Lazy)
      BY <1>t, <1>4, SoleBuilder DEF Fields, CompilePattern, Building
    <2>2. obj[t] # Lazy => res'[Lazy] = res[Lazy]
      BY <1>t, <1>4 DEF Fields, CompilePattern, TypeOK, Objs
    <2>3. \A u \in Threads : Sees(u)' <=> Sees(u)
      BY <1>t, <1>4 DEF Fields, CompilePattern, Goto, TypeOK, Sees
    <2> QED
      BY <1>0, <2>1, <2>2, <2>3, NothingSeen
  <1>5. ASSUME NEW t \in Threads, Store(t)
        PROVE  UNCHANGED <<Made, Answers>>
    <2>1. ptr_' = ptr_ /\ (ptr_ = Lazy => res'[Lazy].kind = res[Lazy].kind)
      <3>1. PICK o, w, val : res' = [res EXCEPT ![o].tables[w] = val]
        BY <1>5 DEF Store
      <3>2. ptr_' = ptr_
        BY <1>5 DEF Store
      <3>3. ASSUME ptr_ = Lazy
            PROVE  res[Lazy] \in RE2s
        BY <1>t, <3>3 DEF IndInv, ObjectsOK, TypeOK, Objs
      <3>4. ptr_ = Lazy => res'[Lazy].kind = res[Lazy].kind
        BY <1>t, <3>1, <3>3 DEF TypeOK, RE2s, Objs
      <3> QED
        BY <3>2, <3>4
    <2>2. \A u \in Threads : Sees(u)' <=> Sees(u)
      BY <1>t, <1>5 DEF Store, EndOnce, Goto, TypeOK, Sees
    <2> QED
      BY <1>0, <2>1, <2>2, NothingSeen
  <1>6. ASSUME NEW t \in Threads, DestroyOwn(t)
        PROVE  UNCHANGED <<Made, Answers>>
    <2>1. ptr_' = ptr_ /\ res'[Lazy] = res[Lazy]
      BY <1>t, <1>6, Apart DEF DestroyOwn, TypeOK, Objs
    <2>2. \A u \in Threads : Sees(u)' <=> Sees(u)
      BY <1>t, <1>6, Apart DEF DestroyOwn, Release, Goto, TypeOK, Sees
    <2> QED
      BY <1>0, <2>1, <2>2, NothingSeen
  <1>7. ASSUME NEW t \in Threads, Answer(t), obj[t] # Lazy
        PROVE  UNCHANGED <<Made, Answers>>
    <2>1. ptr_' = ptr_ /\ res' = res
      BY <1>7 DEF Answer
    <2>2. \A u \in Threads : Sees(u)' <=> Sees(u)
      BY <1>t, <1>7 DEF Answer, Goto, TypeOK, Sees
    <2> QED
      BY <1>0, <2>1, <2>2, NothingSeen
  <1>8. ASSUME NEW t \in Threads, Get(t) \/ Got(t) \/ Construct(t) \/ Ask(t)
        PROVE  UNCHANGED <<Made, Answers>>
    <2>1. ptr_' = ptr_ /\ res' = res
      BY <1>8 DEF Get, Got, Construct, Ask
    <2>2. \A u \in Threads : Sees(u)' <=> Sees(u)
      <3>1. /\ pc[t] # "answered" /\ pc'[t] # "answered"
            /\ \A u \in Threads \ {t} : pc'[u] = pc[u] /\ obj'[u] = obj[u]
        BY <1>t, <1>8 DEF Get, Got, Construct, Ask, CallOnce, Goto, TypeOK
      <3> QED
        BY <3>1 DEF Sees
    <2> QED
      BY <1>0, <2>1, <2>2, NothingSeen
  <1>9. ASSUME NEW t \in Threads, NewString(t) \/ NewTables(t) \/ NewTable(t) \/ Fill(t)
        PROVE  UNCHANGED <<Made, Answers>>
    <2>1. ptr_' = ptr_ /\ res' = res
      BY <1>9 DEF NewString, NewTables, NewTable, Fill
    <2>2. \A u \in Threads : Sees(u)' <=> Sees(u)
      <3>1. /\ pc[t] # "answered" /\ pc'[t] # "answered" /\ obj' = obj
            /\ \A u \in Threads \ {t} : pc'[u] = pc[u]
        BY <1>t, <1>9 DEF NewString, NewTables, NewTable, Fill, EndOnce, Goto, TypeOK
      <3> QED
        BY <3>1 DEF Sees
    <2> QED
      BY <1>0, <2>1, <2>2, NothingSeen
  <1>10. ASSUME NEW t \in Threads, NEW w \in Tables, UseLazy(t, w) \/ UseOwn(t, w)
         PROVE  UNCHANGED <<Made, Answers>>
    <2>1. ptr_' = ptr_ /\ res' = res
      BY <1>10 DEF UseLazy, UseOwn
    <2>2. \A u \in Threads : Sees(u)' <=> Sees(u)
      BY <1>t, <1>10 DEF UseLazy, UseOwn, Goto, TypeOK, Sees
    <2> QED
      BY <1>0, <2>1, <2>2, NothingSeen
  <1>11. CASE UNCHANGED vars
    BY <1>11 DEF vars, Static!vars
  <1> QED
    BY <1>a, <1>1, <1>2, <1>3, <1>4, <1>5, <1>6, <1>7, <1>8, <1>9, <1>10, <1>11 DEF Next, Step

\* To the threads that use it, a LazyRE2 is one RE2 that was there before any of them,
\* whoever constructs it and however they race (re2.h:914-926).
THEOREM LazyIsStatic == Spec => ImplementsStatic
  <1>1. Init => Static!Init
    BY Apart DEF Init, Static!Init
  <1> QED
    BY <1>1, StaticStep, Inductive, PTL DEF Spec, ImplementsStatic, Static!Spec
=============================================================================
