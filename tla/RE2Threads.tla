----------------------------- MODULE RE2Threads -----------------------------
(***************************************************************************)
(* What threads share in re2/re2.cc and re2/re2.h: the global empty_string *)
(* and empty group tables of RE2::Init, a LazyRE2, and the tables of group *)
(* names that an RE2 computes when it is first asked.  All of them are     *)
(* guarded by std::call_once (external code), one nested in another.       *)
(*                                                                         *)
(* A thread asks an RE2 for one of its tables: that of the LazyRE2, or one *)
(* of its own that it constructs for this and destroys.                    *)
(***************************************************************************)
EXTENDS Integers, Sequences, FiniteSets

CONSTANTS
  Threads,
  Lazy,       \* the storage of the LazyRE2's RE2; a thread's own is the thread
  NULL,
  Done,       \* a once_flag whose call is over
  Tables,     \* {"named_groups_", "group_names_"}
  GroupNames, \* the name of each group of the pattern, the whole match first
  Unnamed,    \* the name "" that a group without one gets
  Ids         \* addresses on the heap

VARIABLES
  pc,            \* where each thread is
  obj,           \* the RE2 it uses
  table,         \* the table it asks for
  temp,          \* the table it is filling
  i,             \* how many names the iterator has given it
  ret,           \* the table it was given
  once,          \* the once_flags: NULL, the thread that runs the call, or Done
  empty_string,  \* global
  empty_tables,  \* global: empty_named_groups and empty_group_names
  ptr_,          \* of the LazyRE2
  res,           \* the RE2s, or NULL
  heap           \* from the allocated Ids to the entries of a table, {} for a string

vars == <<pc, obj, table, temp, i, ret, once, empty_string, empty_tables, ptr_, res, heap>>

Objs == Threads \cup {Lazy}
LazyOnce == <<"lazy", Lazy>>
EmptyOnce == <<"empty", Lazy>>
TableOnce(r, w) == <<w, r>>
Flags == {LazyOnce, EmptyOnce} \cup (Tables \X Objs)

\* How RE2::Init ends: the pattern compiles; it compiles but its raw bytes do not
\* (suffix_regexp_ is NULL, as for a Latin-1 letter); it does not compile.
Kinds == {"ok", "nosuffix", "failed"}

\* An entry of either table: a group and its name.
Entries(k) == {<<g, GroupNames[g + 1]>> : g \in {h \in 0..k - 1 : GroupNames[h + 1] # Unnamed}}

\* What NamedCaptures and CaptureNames make of prog_: the map that re2.h:529-538 promises.
NamesOf(kind) == IF kind \in {"ok", "nosuffix"} THEN Entries(Len(GroupNames)) ELSE {}

\* What the calls give.  They test suffix_regexp_ before they read prog_ (re2.cc:372, 388),
\* and give the empty table of a pattern of which only prog_ compiled.
TableOf(kind) == IF kind = "ok" THEN NamesOf(kind) ELSE {}

\* An RE2: its kind is NULL while it is compiled, a table while it is not computed.
RE2s == [kind : Kinds \cup {NULL}, error_ : Ids, tables : [Tables -> Ids \cup {NULL}]]

\* Names are strings, and no two groups have the same one; the other values differ
\* from each other as pointers, flags, strings, tables and objects do.
ASSUME ThreadsAssumption ==
  /\ GroupNames \in Seq(STRING) /\ Unnamed = ""
  /\ \A g, h \in DOMAIN GroupNames :
       GroupNames[g] = GroupNames[h] /\ GroupNames[g] # Unnamed => g = h
  /\ {NULL, Done, Lazy} \cap Threads = {} /\ {"lazy", "empty"} \cap Tables = {}
  /\ NULL \notin {Done, Lazy} /\ NULL \notin Ids /\ NULL \notin Tables /\ NULL \notin Kinds
  /\ NULL \notin RE2s /\ \A S \in SUBSET Entries(Len(GroupNames)) : S # NULL

\* Which free address operator new returns makes no difference; it is taken to find one.
Fresh == CHOOSE id \in Ids : id \notin DOMAIN heap
Allocate(id) ==
  /\ id \in Ids \ DOMAIN heap
  /\ heap' = [a \in DOMAIN heap \cup {id} |-> IF a = id THEN {} ELSE heap[a]]
Delete(S) == heap' = [a \in DOMAIN heap \ S |-> heap[a]]

Init ==
  /\ pc = [t \in Threads |-> "idle"]
  /\ obj = [t \in Threads |-> NULL]
  /\ table = [t \in Threads |-> NULL]
  /\ temp = [t \in Threads |-> NULL]
  /\ i = [t \in Threads |-> 0]
  /\ ret = [t \in Threads |-> NULL]
  /\ once = [f \in Flags |-> NULL]
  /\ empty_string = NULL
  /\ empty_tables = [w \in Tables |-> NULL]
  /\ ptr_ = NULL
  /\ res = [r \in Objs |-> NULL]
  /\ heap = [a \in {} |-> {}]

Goto(t, there) == pc' = [pc EXCEPT ![t] = there]

\* std::call_once: the first thread runs body, the others wait for it to end.
CallOnce(t, flag, body, after) ==
  \/ /\ once[flag] = Done
     /\ Goto(t, after)
     /\ UNCHANGED once
  \/ /\ once[flag] = NULL
     /\ once' = [once EXCEPT ![flag] = t]
     /\ Goto(t, body)

EndOnce(t, flag, after) == once' = [once EXCEPT ![flag] = Done] /\ Goto(t, after)
------------------------------------------------------------------------------
\* The client: a call on the LazyRE2, or on an RE2 of its own.
UseLazy(t, w) ==
  /\ pc[t] = "idle"
  /\ table' = [table EXCEPT ![t] = w]
  /\ Goto(t, "get")
  /\ UNCHANGED <<obj, temp, i, ret, once, empty_string, empty_tables, ptr_, res, heap>>

UseOwn(t, w) ==
  /\ pc[t] = "idle"
  /\ table' = [table EXCEPT ![t] = w]
  /\ obj' = [obj EXCEPT ![t] = t]
  /\ Goto(t, "construct")
  /\ UNCHANGED <<temp, i, ret, once, empty_string, empty_tables, ptr_, res, heap>>

\* Bug: the pointer tested instead of a once_flag.
GetUnguarded(t) ==
  /\ pc[t] = "get"
  /\ Goto(t, IF ptr_ = NULL THEN "construct" ELSE "got")
  /\ obj' = [obj EXCEPT ![t] = IF ptr_ = NULL THEN Lazy ELSE @]
  /\ UNCHANGED <<table, temp, i, ret, once, empty_string, empty_tables, ptr_, res, heap>>

\* LazyRE2::get, and the RE2 constructor that its call runs.
Get(t) ==
  /\ pc[t] = "get"
  /\ CallOnce(t, LazyOnce, "construct", "got")
  /\ obj' = [obj EXCEPT ![t] = IF once[LazyOnce] = NULL THEN Lazy ELSE @]
  /\ UNCHANGED <<table, temp, i, ret, empty_string, empty_tables, ptr_, res, heap>>

Publish(t) ==
  /\ pc[t] = "publish"
  /\ ptr_' = obj[t]
  /\ EndOnce(t, LazyOnce, "got")
  /\ UNCHANGED <<obj, table, temp, i, ret, empty_string, empty_tables, res, heap>>

Got(t) ==
  /\ pc[t] = "got"
  /\ obj' = [obj EXCEPT ![t] = ptr_]
  /\ Goto(t, "ask")
  /\ UNCHANGED <<table, temp, i, ret, once, empty_string, empty_tables, ptr_, res, heap>>
------------------------------------------------------------------------------
\* RE2::Init: the globals first.
Construct(t) ==
  /\ pc[t] = "construct"
  /\ CallOnce(t, EmptyOnce, "new string", "fields")
  /\ UNCHANGED <<obj, table, temp, i, ret, empty_string, empty_tables, ptr_, res, heap>>

NewString(t) ==
  /\ pc[t] = "new string"
  /\ Allocate(Fresh)
  /\ empty_string' = Fresh
  /\ Goto(t, "new tables")
  /\ UNCHANGED <<obj, table, temp, i, ret, once, empty_tables, ptr_, res>>

NewTables(t) ==
  /\ pc[t] = "new tables"
  /\ \E w \in Tables :
       /\ empty_tables[w] = NULL
       /\ Allocate(Fresh)
       /\ empty_tables' = [empty_tables EXCEPT ![w] = Fresh]
  /\ IF \A w \in Tables : empty_tables'[w] # NULL THEN EndOnce(t, EmptyOnce, "fields")
     ELSE UNCHANGED <<pc, once>>
  /\ UNCHANGED <<obj, table, temp, i, ret, empty_string, ptr_, res>>

\* Fields, with the empty error; its kind is known once it has been compiled.
Fields(t) ==
  /\ pc[t] = "fields"
  /\ res' = [res EXCEPT ![obj[t]] =
               [kind |-> NULL, error_ |-> empty_string, tables |-> [w \in Tables |-> NULL]]]
  /\ Goto(t, "compile")
  /\ UNCHANGED <<obj, table, temp, i, ret, once, empty_string, empty_tables, ptr_, heap>>

CompilePattern(t) ==
  /\ pc[t] = "compile"
  /\ \/ /\ \E k \in Kinds \ {"failed"} : res' = [res EXCEPT ![obj[t]].kind = k]
        /\ UNCHANGED heap
     \/ /\ Allocate(Fresh)
        /\ res' = [res EXCEPT ![obj[t]].kind = "failed", ![obj[t]].error_ = Fresh]
  /\ Goto(t, IF obj[t] = Lazy THEN "publish" ELSE "ask")
  /\ UNCHANGED <<obj, table, temp, i, ret, once, empty_string, empty_tables, ptr_>>
------------------------------------------------------------------------------
\* Bug: a flag that is set before the table is computed, for which nobody waits.
AskNoWait(t) ==
  /\ pc[t] = "ask"
  /\ LET flag == TableOnce(obj[t], table[t])
     IN IF once[flag] = NULL
        THEN /\ once' = [once EXCEPT ![flag] = t]
             /\ Goto(t, IF res[obj[t]].kind = "ok" THEN "new table" ELSE "store")
        ELSE Goto(t, "answer") /\ UNCHANGED once
  /\ UNCHANGED <<obj, table, temp, i, ret, empty_string, empty_tables, ptr_, res, heap>>

\* NamedCapturingGroups and CapturingGroupNames: suffix_regexp_ is there, or is not.
Ask(t) ==
  /\ pc[t] = "ask"
  /\ CallOnce(t, TableOnce(obj[t], table[t]),
              IF res[obj[t]].kind = "ok" THEN "new table" ELSE "store", "answer")
  /\ UNCHANGED <<obj, table, temp, i, ret, empty_string, empty_tables, ptr_, res, heap>>

NewTable(t) ==
  /\ pc[t] = "new table"
  /\ Allocate(Fresh)
  /\ temp' = [temp EXCEPT ![t] = Fresh]
  /\ i' = [i EXCEPT ![t] = 0]
  /\ Goto(t, "fill")
  /\ UNCHANGED <<obj, table, ret, once, empty_string, empty_tables, ptr_, res>>

\* Bugs: groups without a name not counted; an iterator that stands still.
FillNamedOnly(t) ==
  /\ pc[t] = "fill"
  /\ \/ /\ i[t] < Len(GroupNames)
        /\ i' = [i EXCEPT ![t] = @ + 1]
        /\ heap' = [heap EXCEPT ![temp[t]] =
                      IF GroupNames[i[t] + 1] = Unnamed THEN @
                      ELSE @ \cup {<<Cardinality(@), GroupNames[i[t] + 1]>>}]
        /\ UNCHANGED pc
     \/ i[t] = Len(GroupNames) /\ Goto(t, "store") /\ UNCHANGED <<i, heap>>
  /\ UNCHANGED <<obj, table, temp, ret, once, empty_string, empty_tables, ptr_, res>>

FillStuck(t) ==
  /\ pc[t] = "fill"
  /\ IF i[t] = Len(GroupNames) THEN Goto(t, "store") ELSE UNCHANGED pc
  /\ UNCHANGED <<obj, table, temp, i, ret, once, empty_string, empty_tables, ptr_, res, heap>>

\* The loop over the iterator of the crate's names: every group counts, those with a
\* name are inserted.
Fill(t) ==
  /\ pc[t] = "fill"
  /\ \/ /\ i[t] < Len(GroupNames)
        /\ i' = [i EXCEPT ![t] = @ + 1]
        /\ heap' = [heap EXCEPT ![temp[t]] =
                      IF GroupNames[i[t] + 1] = Unnamed THEN @
                      ELSE @ \cup {<<i[t], GroupNames[i[t] + 1]>>}]
        /\ UNCHANGED pc
     \/ i[t] = Len(GroupNames) /\ Goto(t, "store") /\ UNCHANGED <<i, heap>>
  /\ UNCHANGED <<obj, table, temp, ret, once, empty_string, empty_tables, ptr_, res>>

\* The table that was filled, or else the global empty one; its locals end.
Store(t) ==
  /\ pc[t] = "store"
  /\ res' = [res EXCEPT ![obj[t]].tables[table[t]] =
               IF temp[t] # NULL THEN temp[t] ELSE empty_tables[table[t]]]
  /\ temp' = [temp EXCEPT ![t] = NULL]
  /\ i' = [i EXCEPT ![t] = 0]
  /\ EndOnce(t, TableOnce(obj[t], table[t]), "answer")
  /\ UNCHANGED <<obj, table, ret, empty_string, empty_tables, ptr_, heap>>

Answer(t) ==
  /\ pc[t] = "answer"
  /\ ret' = [ret EXCEPT ![t] = res[obj[t]].tables[table[t]]]
  /\ Goto(t, "answered")
  /\ UNCHANGED <<obj, table, temp, i, once, empty_string, empty_tables, ptr_, res, heap>>
------------------------------------------------------------------------------
Release(t) ==
  /\ pc[t] = "answered"
  /\ ret' = [ret EXCEPT ![t] = NULL]
  /\ table' = [table EXCEPT ![t] = NULL]

\* The caller is done with the LazyRE2's table.
LeaveLazy(t) ==
  /\ obj[t] = Lazy
  /\ Release(t)
  /\ obj' = [obj EXCEPT ![t] = NULL]
  /\ Goto(t, "idle")
  /\ UNCHANGED <<temp, i, once, empty_string, empty_tables, ptr_, res, heap>>

\* Bug: a table is not compared with the global one.
OwnedByAll(r) ==
  ({res[r].error_} \ {empty_string}) \cup ({res[r].tables[w] : w \in Tables} \ {NULL})

\* RE2::~RE2 deletes the strings and tables that are not the global ones.
OwnedBy(r) ==
  ({res[r].error_} \ {empty_string})
    \cup {res[r].tables[w] : w \in {v \in Tables : res[r].tables[v] \notin {NULL, empty_tables[v]}}}

DestroyOwn(t) ==
  /\ obj[t] = t
  /\ Release(t)
  /\ Delete(OwnedBy(t))
  /\ res' = [res EXCEPT ![t] = NULL]
  /\ once' = [f \in Flags |-> IF f \in Tables \X {t} THEN NULL ELSE once[f]]
  /\ obj' = [obj EXCEPT ![t] = NULL]
  /\ Goto(t, "idle")
  /\ UNCHANGED <<temp, i, empty_string, empty_tables, ptr_>>
------------------------------------------------------------------------------
\* A thread within a call.
Step(t) ==
  \/ Get(t) \/ Publish(t) \/ Got(t)
  \/ Construct(t) \/ NewString(t) \/ NewTables(t) \/ Fields(t) \/ CompilePattern(t)
  \/ Ask(t) \/ NewTable(t) \/ Fill(t) \/ Store(t) \/ Answer(t)
  \/ LeaveLazy(t) \/ DestroyOwn(t)

Next == \E t \in Threads : Step(t) \/ \E w \in Tables : UseLazy(t, w) \/ UseOwn(t, w)

\* The scheduler runs every thread that is within a call and not blocked.
Spec == Init /\ [][Next]_vars /\ \A t \in Threads : WF_vars(Step(t))
------------------------------------------------------------------------------
(***************************************************************************)
(* Properties.                                                             *)
(***************************************************************************)
TypeOK ==
  /\ pc \in [Threads -> {"idle", "get", "publish", "got", "construct", "new string", "new tables",
                         "fields", "compile", "ask", "new table", "fill", "store", "answer",
                         "answered"}]
  /\ obj \in [Threads -> Objs \cup {NULL}]
  /\ table \in [Threads -> Tables \cup {NULL}]
  /\ temp \in [Threads -> Ids \cup {NULL}] /\ ret \in [Threads -> Ids \cup {NULL}]
  /\ once \in [Flags -> Threads \cup {NULL, Done}]
  /\ empty_string \in Ids \cup {NULL} /\ empty_tables \in [Tables -> Ids \cup {NULL}]
  /\ ptr_ \in {NULL, Lazy} /\ res \in [Objs -> RE2s \cup {NULL}]
  /\ i \in [Threads -> 0..Len(GroupNames)]
  /\ DOMAIN heap \subseteq Ids /\ heap \in [DOMAIN heap -> SUBSET Entries(Len(GroupNames))]

\* "An RE2 object is safe for concurrent use by multiple threads" (re2.h:227-228):
\* whoever computed it, a thread is only ever given the complete table of names of
\* the RE2 it asked, each name with the number of its group, and holds it while it is
\* allocated.  Excepted is an RE2 whose suffix_regexp_ did not compile: its names are
\* promised too (re2.h:529-538), but the code gives an empty table (re2.cc:372, 388).
AnswersComplete ==
  \A t \in Threads : pc[t] = "answered" =>
    /\ ret[t] \in DOMAIN heap
    /\ res[obj[t]].kind # "nosuffix" => heap[ret[t]] = NamesOf(res[obj[t]].kind)

\* The strings and tables on the heap: none is freed or lost while somebody holds
\* it, no two RE2s own the same one, and the destructors spare the global ones.
Globals == ({empty_string} \cup {empty_tables[w] : w \in Tables}) \ {NULL}
Built == {r \in Objs : res[r] # NULL}

HeapOwned ==
  LET filling == {temp[t] : t \in Threads} \ {NULL}
  IN /\ DOMAIN heap = Globals \cup filling \cup UNION {OwnedBy(r) : r \in Built}
     /\ \A r1, r2 \in Built : r1 # r2 => OwnedBy(r1) \cap OwnedBy(r2) = {}
     /\ \A r \in Built : OwnedBy(r) \cap (Globals \cup filling) = {}

\* LazyRE2 implements an RE2 that is there before any thread uses it: all threads are
\* given the same table, that of the RE2 (TableOf, with the exception above).
Static == INSTANCE StaticRE2
  WITH made <- IF ptr_ = NULL THEN NULL ELSE res[ptr_].kind,
       answer <- [t \in Threads |->
                    IF pc[t] = "answered" /\ obj[t] = Lazy THEN heap[ret[t]] ELSE NULL]
ImplementsStatic == Static!Spec

\* No thread waits for ever: every call returns, however the calls of std::call_once
\* nest and whoever runs them.
CallsReturn == \A t \in Threads : pc[t] # "idle" ~> pc[t] = "idle"
=============================================================================
