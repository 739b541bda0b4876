# A verification project for re2-rust

re2-rust keeps the C++ interface of RE2 and replaces its engine by the `regex`
crate of Rust, called through a C interface (`rure_*`). The hard part of the
program is therefore not matching. It is the glue: pointers and lengths that cross
the interface, several compilations of the same pattern that must agree, scanners
of the same string in two languages, objects that are moved and destroyed, and
state that threads or objects share. This project models that glue in TLA+,
checks it with TLC, and proves with TLAPS what is proved most usefully for every
size of it: who owns what, what an index means, and which bytes a view shows.

Paths below are relative to `src/`.

## 1. The system

| Component | State | Operations | Hard behaviour |
|---|---|---|---|
| `RE2` and its match engine (`re2/re2.cc`, `re2.h`) | `pattern_`, `options_`, `prog_`, `suffix_regexp_`, `entire_regexp_`, `num_captures_`, `error_` | `Init`, `Match`, `DoMatch`, `FullMatchN`, `PartialMatchN`, `ConsumeN`, `FindAndConsumeN` | three compilations answer different calls; `*consumed` is pointer arithmetic; a client loops over `FindAndConsume`; pointees are stored one by one |
| Rewriting (`re2.cc`, `regex-capi/src/lib_internal.rs`) | the client's strings | `Replace`, `GlobalReplace`, `Extract`, `CheckRewriteString` | five scanners of a rewrite string; the pattern is compiled again; panics cross the C interface |
| `RE2::Arg` parsers (`re2.cc:877-1195`) | the number buffer, the pointee | `Parse` for every type | limits, leading zeros, termination, narrowing |
| `RE2::Set` (`re2/set.cc`) | `elem_`, `size_`, `compiled_`, `prog_`, `anchor_` | `Add`, `Compile`, `Match`, move, destroy | numbering across calls and moves; who owns `prog_`; `elem_` and the program drift apart |
| `FilteredRE2` (`re2/filtered_re2.cc`) | `re2_vec_`, `compiled_`, the `PrefilterTree`, the global `map_atoms` | `Add`, `Compile`, `SlowFirstMatch`, `FirstMatch`, `AllMatches`, `AllPotentials`, move, destroy | one global map for all objects; it is stale when used |
| Prefilter atoms (`lib_internal.rs:278-528`) | those of its loop: position, held run, strings of classes, atoms | `my_compile`, `group_multiple_selection`, `connection`, `char_class_expansion` | atoms must occur in every match; brackets are counted in characters and sliced in bytes; indexing may panic |
| `LazyRE2` and the tables of names (`re2.h:914-960`, `re2.cc:214-219`, `366-395`) | once flags, `ptr_`, global empty objects, `named_groups_`, `group_names_` | `get`, the constructor, `NamedCapturingGroups`, `CapturingGroupNames`, the destructor | nested `std::call_once` in several threads; the destructor spares globals |
| `StringPiece` (`re2/stringpiece.h`, `.cc`) | an address and a size | `remove_prefix`, `remove_suffix`, `substr`, `copy`, comparison, `find`, `rfind` | `size_t` arithmetic that wraps around; ends of searched ranges |
| Latin-1 conversion (`re2.cc:557-600`), `QuoteMeta` (`re2.cc:511-553`) | none | `ConvertLatin1ToUTF8`, `QuoteMeta` | offsets of one text used in another; an escape that swallows what follows |
| `rure` C interface (`regex-capi/src/lib.rs`) | handles on the heap | `rure_*` | null results, panics, lengths |
| `regex` crate | external | compile, find, captures, replace | - |

How they interact: `RE2::Init` compiles through `rure_compile` and `rure_new`;
`Match` and `DoMatch` call `rure_find_captures`, `rure_is_match` and
`rure_consume`; `Replace` and `Extract` call `Match`, then the Rust scanners;
`RE2::Set` calls `rure_compile_set` on patterns that `rure_compile` accepted
before; `FilteredRE2` owns `RE2`s, asks Rust for atoms, and matches with
`PartialMatch`; `LazyRE2` constructs an `RE2` inside a `call_once`. Nothing is
persisted and there is no messaging, so crashes and lost messages play no role;
a panic or a null pointer ends the process, which the models show as `crashed`.

What makes each component correct:

- match engine: the shortcuts answer as the general path does; views and
  submatches stay inside the text; pointees are stored only on a match; the
  scanning loop ends;
- rewriting: `Replace` does what its documentation says although it goes through
  a template and a second program; the calls agree with each other; a rewrite string that was
  checked does not panic;
- parsers: exactly the numerals of the type are accepted, with their value;
- `RE2::Set`: an index names the regexp for which `Add` returned it; programs are
  owned once; a moved object answers as before;
- `FilteredRE2`: a regexp that matches passes the filter; a moved object answers as before;
  its const functions only read;
- prefilter atoms: an atom occurs in what the regexp matches, the loop ends, valid patterns do not panic;
- `StringPiece`: narrowing stays in the view, comparisons are one order, searches agree;
- `QuoteMeta`: the quoted text matches itself;
- `LazyRE2`: threads see one complete object, nothing is freed twice, nobody waits for ever.

`PROJECT.json` lists the components, the hazards with their lines, and the map
from definitions to source lines.

## 2. The modules

| Module | Models | Instance |
|---|---|---|
| `StringPiece` | views of a buffer: narrowing, comparison, searches; lemmas in `RE2Match_proofs` | through `RE2Match` |
| `RE2Match` | `RE2::Init`, `Match`, `DoMatch`, the four families of calls, the scanning loop; proofs in `RE2Match_proofs` | `MCRE2Match` |
| `RE2Rewrite` | rewriting, on top of an instance of `RE2Match`; proofs in `RE2Rewrite_proofs` | `MCRE2Rewrite` |
| `RE2Arg` | the parsers; proofs in `RE2Arg_proofs` | `MCRE2Arg` |
| `RE2Set` | `RE2::Set`; proofs in `RE2Set_proofs` | `MCRE2Set` |
| `FilteredRE2` | `FilteredRE2` with `map_atoms`; proofs in `FilteredRE2_proofs` | `MCFilteredRE2` |
| `Prefilter` | `my_compile` and its helpers, one action per branch of the loop; proofs in `Prefilter_proofs` | `MCPrefilter` |
| `QuoteMeta` | `RE2::QuoteMeta`, with how the crate reads escapes (external) | through `Prefilter` |
| `Syntax` | what patterns the crate reads and which words they match (external) | through `Prefilter` |
| `RE2Threads` | `call_once`, `LazyRE2`, the tables of names, the destructor; proofs in `RE2Threads_proofs` | `MCRE2Threads` |
| `StaticRE2` | what `LazyRE2` promises; refined by `RE2Threads` | - |
| `Regex` | the `regex` crate (external), for instances only | - |
| `SequenceLemmas` | lemmas on minima, maxima, counting, pieces of sequences and `FlattenSeq` for the proof modules | - |

**The crate is a parameter.** The specifications know compilation, captures, and
so on as CONSTANT operators, and the proofs hold for every such operator. The
instances of `RE2Match` and `RE2Rewrite` fill them from `Regex`, a backtracking
matcher with leftmost-first semantics over programs of a few instructions; those of `RE2Set` and
`FilteredRE2` use small tables.

**StringPiece.** A view is a record of an address and a size, both modulo
`AddrSpace` (2^64 in the program, 32 in the instances), so that `remove_prefix`, `xpos + s.size_` and `pos + 1` wrap around as
in the code. `std::search` and its kin give the end of the range they search when they
find nothing, which is what the code tests for. The module ends with what users of a view rely on
(`SubstrWithin`, `OrderAgrees`, `SearchAgrees`, `CharSearchAgrees`); `RE2Match` holds them of every pair of
views its client can make. A text takes less than half of the addresses, as every object of the C++ library does
(`ValuesAssumption`): the `xpos + s.size_` of `find` would wrap around on a longer one.

**RE2Match** extends `StringPiece`; `EndPtr(vec[0]) - BeginPtr(text)` wraps around too. `BuiltRE2` gives the object its three programs with the flags each
one really gets: `Compile` is `rure_compile`, which refuses what is not UTF-8 before the crate (`Build`) sees it, and
`CPattern` is what `strlen` leaves of a pattern with a NUL. `Haystack` is the text that the crate is shown: converted from Latin-1,
cut into lines under `never_nl`, cut at the first NUL by `strlen`. `AnchorAccepts`
and `SubmatchView` are the tests and the view arithmetic of `Match`; `DoMatch` has
the two shortcuts in front of the general path. One action is one call; the loop is
`StartScan` and then `ScanStep`. Reading outside the text is undefined: `Defined`
leaves calls on such views out, and those that hand a null program to the crate; and a number parsed from such bytes is a
nondeterministic choice. `CrateAssumption` is what the code takes for granted of the crate: spans lie in the haystack and the first
one is there when anything matched; the empty pattern has no groups and matches the empty text; `^(p)$`, which
is how `entire_regexp_` is made of `p`, matches where `p` matches all of the haystack. `Haystacks` are the texts it is
ever shown. TLC evaluates it on the patterns of the instances.

**RE2Rewrite.** `MaxSubmatch`, `CheckRewrite`, `Convert` and `Rewrite` are the
Rust functions; the fifth scanner is the crate, which expands a template. `Again` is the second
compilation, with default flags, null on a Latin-1 pattern that is not UTF-8.
A submatch of size 0 is the empty text, wherever it points. The calls in which a
Latin-1 submatch lies outside its string are left out (`Defined`). Its `CrateAssumption` says what the code takes for
granted of the crate where it replaces: the match of `captures` is the first of `captures_iter` (`SearchesIn`), spans lie in
the haystack, and a template expands item by item, a byte to itself and `${N}` to group N (`MatchIn`).

**RE2Arg.** One behaviour is one call. `TerminateNumber`, `Strtol` (external) and
the comparison of `end` are separate, as in the code. The buffer is reused stack
memory, hence `stale`. Of `strtod` the model has what numerals of digits, signs and spaces are worth: it gives the nearest float
(`Rounded`) or, beyond `MaxFloat`, sets `errno`; what it makes of a text with a point, an exponent, or the letters of infinities
and NaNs is a parameter (`Fraction`). The integer ranges are powers of two,
`Cast` is modulo `2^bits`. `ArgAssumption` has what the code's constants provide: bytes, radixes of 0, 8, 10 and 16, no type
wider than a long, and a number buffer that holds the widest octal numeral of a long behind a sign and two zeros.

**RE2Set.** Variables are those of the class for every piece of storage, plus the
heap of programs. `given` and `adopted` are history: what the owner was told, and
which objects came from the move constructor, whose `size_` is any value of
`Garbage`. `crashed` may become TRUE where the code's behaviour is undefined.

**FilteredRE2.** `atoms[o]` is what the client keeps of `Compile`, `Found` the
indices it then passes, as the header asks. `owner` is history: the object whose
`Compile` filled `map_atoms` last. An index past the end of `map_atoms["total"]`
reads any string that lies there (`Junk`), or ends the process.
`FirstMatch` takes the index of the first hit by counting what passed before it.
`filed` is history too: how many of the owner's regexps got an entry of their own. `SelfAssign` is
`operator=` on the object itself, which moves from what the destructor left: an empty
object or the end of the process. Pattern atoms are a parameter; the properties ask for `AtomsNecessary`
where they depend on it, and for `TotalApart`, since the pattern `total` collides with the key of
the list of all atoms. `KeyOf` is the pattern up to its first NUL: `Compile` takes `c_str()`, finds atoms in that and files them
under it, while the filter looks under the whole pattern, so that a pattern with a NUL that was filed so passes, and is inserted at
its first lookup (`AllFiled`). `Panics` is the panic of `rure_filter_compile`: of `from_utf8`, or of `my_compile`, which
`Prefilter` models; it ends the process (`CompilePanics`).

**Prefilter** is one call of `my_compile`: `str`, `i`, `held` (`atoms_tmp_string`), `vec_chars_con`
and `my_atoms` are its locals, and a turn of its loop is an action. A pattern is a
sequence of characters that `Syntax` writes from pieces, so that the words it
matches are known; or it is the result of `QuoteMeta`. A bracket is found by position, the
slice is taken by byte offset (`Boundaries`, `Slice`), and what would index out of bounds or slice
inside of a character goes to `pc = "panic"`. `source` is history. The atoms are wrong
for many patterns (section 5); `Faithfully` names, neighbour by neighbour, the patterns for which each branch
does what the regexp demands, and `BatchesCover` says that they are right there.
`PlainRuns` and `GroupKeepsShortest` are stated for a `min_atoms_len` above 0: with 0, empty atoms are
pushed. `CharsAssumption` and `CaseAssumption` say which characters there are, that lowercase of a character is one character,
ASCII for ASCII, with the syntax left alone, and that ASCII takes one byte; `InputsAssumption` that
patterns are made of the pieces of `Syntax`, of which a repeated one is not itself a repetition. (Of the characters whose
lower case is several, like the dotted capital I, the model has none.)

**QuoteMeta.** A character outside ASCII stands for its bytes, which are copied. `Escapable` is a
parameter: which punctuation may follow a backslash depends on the version of the crate.

**RE2Threads.** Every access to something shared is a step of its own. `Step(t)` is the code of a thread
inside a call. An `RE2` of its own is constructed, asked for a table and destroyed
by one thread, so that the destructor meets the global empty objects that other threads
are being given. The table it asks for is filled name by name: `i` is the position of the crate's
iterator, and the heap holds the entries, a group with its name, whichever of the two is the key. `NamesOf` is what `NamedCaptures` makes of `prog_`, the map that `re2.h:529-538` promises;
`TableOf` is what the calls give, which test `suffix_regexp_` first. `CallOnce` is `std::call_once`, for calls that do not throw. The refinement maps
`ptr_` and the answers to `StaticRE2`.

## 3. What the runs check

Checked with `tlc -workers 2 -config X.cfg M`; times are for two workers.

| Run | States | Time | Shows |
|---|---|---|---|
| `match` | 307,653 | 80 s | shortcuts and general path agree, views stay in the text and show what matched, searches agree, the loop ends |
| `match_consume` | - | 1 s | violated: `Consume` matches a prefix |
| `set` | 298,020 | 80 s | programs owned once, indices identify, moves keep `Match(text, NULL)` |
| `set_move` | - | 1 s | violated: moves keep `Match(text, v)` |
| `filtered` | 312,392 | 100 s | the owner of `map_atoms` misses no match and only reads it; moves keep answers |
| `filtered_shared` | - | 2 s | violated: every compiled object misses no match |
| `filtered_first` | - | 1 s | violated: `FirstMatch` returns an index |
| `rewrite` | 278,645 | 80 s | `Replace` as documented, agreement of the three calls, no panic after a check |
| `rewrite_check` | - | 5 s | violated: a checked rewrite string works |
| `prefilter` | 90,384 | 75 s | atoms cover the matches of faithful patterns, groups keep the shortest, quoted texts read back, no panic, the loop ends |
| `arg` | 218,288 | 60 s | integers accepted exactly, floats with spaces |
| `threads` | 215,805 | 75 s | tables complete (but where `suffix_regexp_` is null), heap owned, refinement of `StaticRE2`, every call returns |

The five violations are disagreements between the code and a sentence of its own
headers or tests; `findings` in `PROJECT.json` quotes both. Where such a defect would drown a
property, the passing property names the exception instead: `ConsumesWithinText`
excepts `Consume` on a text without a match, `AnswersIdentify` excepts objects
made by a move, `OwnerMissesNothing` speaks of the owner of the map, `BatchesCover` of faithful patterns,
and `AnswersComplete` excepts an RE2 whose `suffix_regexp_` did not compile. That one is a sixth disagreement, without a run
of its own: `re2.h:529-538` promises the map of names, but for a Latin-1 pattern with a letter outside ASCII `suffix_regexp_`
is compiled from the raw bytes and is null (`re2.cc:290`), and `NamedCapturingGroups` and `CapturingGroupNames` test it instead of `prog_`
(`re2.cc:372`, `388`), so that they give the empty table of an RE2 that is `ok()` and has named groups. Without the exception
TLC finds it in ten steps of one thread.

**Bounds, and why they are enough.**

- `match`: 10 patterns, for the cases of `Init` and `Match`: empty, refused, refused with the
  empty-class error, one group, possibly empty match, an alternation whose
  preferred branch is the shorter one (where leftmost-first and whole-text matching
  differ), two groups with `.`, and a repeated Latin-1 letter (a submatch of two letters is the
  shortest whose length is seen to be halved), and two with a NUL, of which the three programs see different parts:
  `(a)|`, a NUL and `b` matches the empty text in front of `ba` for `prog_`, which sees `(a)|`, and the `a` behind it for
  `suffix_regexp_`, so that `FindFormsAgree` asks for patterns without a NUL. 5 option sets, 12 texts with
  a NUL, a newline, Latin-1 letters. Views of the client are the text, the null view, and what calls and `substr` leave of it. 32 addresses with the text at 8: every
  difference that wraps around is seen. Up to 2 arguments, so that one may be
  stored and the next refused; `kVecSize` is not reached.
- `set`, `filtered`: two objects, since every interaction (a move, the shared
  map) is between two; two programs, since each object owns at most one and
  `Compile` allocates only when it had none; 2 patterns per set (`MaxAdds`), 2 regexps in all of
  `FilteredRE2` (`MaxRegexps`; 3 in `filtered_shared`). Storage is symmetric. Among the patterns of `filtered` is one that a NUL cuts
to `total`: it is filed under the key of the list of all atoms, and looked up elsewhere.
- `prefilter`: all patterns of up to 3 of 14 pieces (letters, one upper case, one of two bytes, `.`, `\d`, classes and ranges,
  two groups, repetitions, and classes that panic), up to 5 over `a`, `.`, `[bc]`, and 5 over `a`, `b`, `\d`, `.`; all quoted texts of up to 3 of 7
  characters. `min_atoms_len` is 0, 1 or 2, so that runs of either side of the limit
  fit, and the empty run, which a dot pushes when there is no limit. A branch looks one character ahead and behind at the held run and the strings,
  so that three pieces show every neighbour, and five a class after a class after a run. The safety properties
  were also checked once on 4 pieces with a limit of 3 (1,000,178 states).
- `rewrite`: all strings of up to 3 characters over backslash, `0`, `1`, `2`, `$`,
  `a`, and six longer ones; regexps with up to two groups. Every scanner has at
  most two states and looks one character ahead. 9 texts, with a NUL, a newline, a character of two bytes and bytes that are no
  character; 5 option sets, one for each option that the second compilation ignores: with `dot_nl` a text matches for
  `Match` that does not for `Again`.
- `arg`: types of 4, 6 and 8 bits with `LongBits = 8` and a buffer of 7: every limit of
  every type is within reach, and longer inputs exercise the removal of zeros. Numerals of all radixes, with `x` and `X`, spaces of
  both kinds, and what does not end a number; floats have four binary digits and end at 480, so that numerals are exact,
  rounded, or out of range.
- `threads`: two threads, because every race here is one of two; a pattern whose groups are
  named, unnamed and named, so that a group that is not counted shifts a number; 9 heap
  addresses, as many as two threads and three RE2s can hold at a time.

**Fairness.** `RE2Match` assumes weak fairness of `ScanStep` only: the client's thread keeps running its
own loop. `RE2Threads` assumes weak fairness of `Step(t)`: a thread
that is inside a call and not blocked is scheduled. No client is ever
required to make a call. `Prefilter` assumes weak fairness of its loop, which is sequential code. The other specifications state no fairness.

**Deadlock** is checked in `threads`, where it would be a real one. The other
specifications may stop: a process that crashed takes no step, `RE2Arg` and `Prefilter` are a single call, and a
client with bounded additions may have nothing left to do.

**Mutants.** Every property of a passing run is broken by one named mutant of a
mapped definition (the operators commented "Bug:", just before the definition they
mutate), with a defect that could plausibly have been written.

## 4. What is proved

The proof modules state their theorems for every value of the constants under the named
assumptions of the modules they are about, which TLC evaluates on the instances. Each states a
property of a run, word for word, so that the run shows on a small instance what the theorem says of every one.

| Theorem | States |
|---|---|
| **`RE2Set_proofs`** | under `SetAssumption`: null is no address, an uninitialised int is an int, anchors are the three of the class |
| `TypeCorrectness` | `Spec => []TypeOK` |
| `Ownership` | `Spec => []OwnedOnce`: a Set is compiled exactly when it holds an allocated program, no two hold the same, none is lost |
| `Identification` | `Spec => []AnswersIdentify`: indices reported by `Match` are those that `Add` returned for patterns that match |
| `Numbering` | `AddNumbersInOrder`, as an action property |
| `MovePreservation` | `MoveKeepsIsMatch`, as an action property |
| **`RE2Threads_proofs`** | under `ThreadsAssumption`: group names are distinct, as the crate demands, and null, flags, threads and tables are different things |
| `TypeCorrect` | `Spec => []TypeOK` |
| `HeapIsOwned` | `Spec => []HeapOwned`: the heap holds what RE2s, globals and calls in progress own, each once |
| `AnswersAreComplete` | `Spec => []AnswersComplete`: a thread is given allocated tables only, and complete ones, unless `suffix_regexp_` is null where `prog_` is not |
| `LazyIsStatic` | `Spec => ImplementsStatic`: the refinement of `StaticRE2`, whose one table is `TableOf` |
| **`FilteredRE2_proofs`** | under `FilteredAssumption`: atoms come as sequences; a pattern that the client finds in a text it finds in lower case too, since it looks for strings in lower case (`filtered_re2.h:18`) |
| `TypesHold` | `Spec => []TypeOK` |
| `NothingIsMissed` | `Spec => []OwnerMissesNothing`: on the owner of `map_atoms`, what matches passes the filter |
| `FirstIsFound` | `Spec => []OwnerFindsFirst` |
| `ConstCallsRead` | `ConstCallsOnlyRead`, as an action property |
| `MoveKeeps` | `MoveKeepsAnswers`, as an action property |
| **`RE2Match_proofs`** | under `WidthAssumption`, `ValuesAssumption`, `CrateAssumption` (section 2) |
| `TypesHold` | `Spec => []TypeOK` |
| `CapturesStayInText` | `Spec => []CapturesInText`: under UTF-8 submatches and pointees lie in the text or are null |
| `SearchesAgreeAlways` | `Spec => []SearchesAgree`: what `StringPiece` compares and finds is what the bytes say |
| `CallsConsumeWithinText` | `ConsumesWithinText`, as an action property |
| `CallsStoreOnlyAfterMatch` | `StoresOnlyAfterMatch`, as an action property |
| `FullMatchFormsAlwaysAgree` | `Spec => []FullMatchFormsAgree` |
| `FindFormsAlwaysAgree` | `Spec => []FindFormsAgree` |
| `CapturesAlwaysShowMatch` | `Spec => []CapturesShowMatch`, if `LetterSpans` |
| **`RE2Rewrite_proofs`** | under `ValuesAssumption` and `CrateAssumption` (section 2) |
| `TypesStay` | `Spec => []TypeOK` |
| `CheckedCallsNeverPanic` | `Spec => []CheckedNeverPanics`, if `CharacterSpans` |
| `CallsReplaceAsDocumented` | `ReplaceAsDocumented`, as an action property |
| `GlobalReplaceAlwaysExtends` | `GlobalReplaceExtendsReplace`, as an action property |
| `ExtractAlwaysAgrees` | `ExtractAgreesWithReplace`, as an action property |
| **`Prefilter_proofs`** | under `CharsAssumption`, `CaseAssumption`, `InputsAssumption` (section 2) |
| `TypeCorrect` | `Spec => []TypeOK` |
| `PatternsCompile` | `Spec => []NeverPanics`: a supported pattern does not index out of bounds or slice inside of a character |
| `QuotedTextsReadBack` | `Spec => []QuotedReadsBack`: the crate reads what `QuoteMeta` makes of a text as that text |
| `RunsAreAtoms` | `Spec => []PlainRuns`: of literals and dots, the atoms are the long runs, in order |
| `GroupsKeepShortest` | `GroupKeepsShortest`, as an action property |
| `TurnsMoveOn` | a turn of the loop moves on, returns or panics: `pc' = "scan" => i' > i`, as an action property |
| **`RE2Arg_proofs`** | under `ArgAssumption` (section 2) |
| `TypesAreKept` | `Spec => []TypeOK` |
| `IntegersAreExact` | `Spec => []IntegersExact`: of the strings, an integer parser accepts exactly the numerals in the range of its type, with their value |
| `FloatsAreTaken` | `Spec => []FloatsSkipSpaces`: a float parser takes the numerals that are in range, also behind spaces |

**`RE2Set`.** None of the properties but `OwnedOnce` is close to inductive. `AnswersIdentify`
speaks of the program, while `Add` and the moves change `elem_` and `size_`. The
inductive invariant `IndInv` adds: storage without an object is clean
(`CleanStorage`; otherwise `Construct` would inherit patterns); `size_`, `elem_`
and the owner's account are in step (`InStep`); the program was compiled from a
prefix of `elem_` (`CompiledPrefix`; a prefix, because `Add` after `Compile` is possible). The last two
fail for objects made by the move constructor, hence `adopted`.

**`RE2Threads`.** What the threads see is right because each once flag names a thread exactly
while that thread is inside the call, and is `Done` exactly when the effect of the call is there. `LazyOnceOK`,
`EmptyOnceOK` and `TableOnceOK` say this of the three kinds of flag, in terms of the program
counters. `ObjectsOK` says who may have an RE2 in hands (so that the destructor frees
nobody else's), `FillingOK` that a table being filled holds the names its iterator has given and belongs to one
thread, `StoredOK` that a stored table is the one its RE2 gives (`TableOf`), finished. Two threads cannot both be inside a call, because the flag
names one of them: this is what each step of the proof comes down to. For the refinement,
publishing `ptr_` is `Make` of `StaticRE2`, giving an answer `Answer`, leaving `Forget`, and
every other step a stutter.

**`FilteredRE2`.** `OwnerMissesNothing` speaks of a global map while every object changes it and
its own regexps, so that the invariant has to say what became of it: `OwnerFilled`, that `map_atoms` is, but for empty entries that
const calls inserted, what the owner's `Compile` made of its first `filed` regexps. (Regexps that were added since are
not filed; they pass, having no entry.) The rest is one
argument: an atom that occurs in the text is named by the client, so that all atoms of the matching regexp are.
The hypotheses `TotalApart` and `AtomsNecessary` are in the property.

**`RE2Match`.** `IndInv` is `TypeOK`, `CapturesInText` and that the RE2 object is one that `Init` leaves. What
the calls do is in lemmas: `HaystackSays` (the haystack is one of `Haystacks`, and under UTF-8 a prefix of the text
up to a NUL or a line end), `SubmatchSays` (a span of it becomes a view of the text), `MatchSays`, and
`DoMatchWays`: `DoMatch` refuses, or answers through `suffix_regexp_`, `entire_regexp_` or `Match`. `EndConsumed` shows that
`EndPtr(vec[0]) - BeginPtr(text)` does not wrap. The module begins with
lemmas about views: narrowing stays within, the order is that of the bytes, and `find` and `rfind` in
both forms return the least and the greatest place.

`LetterSpans` says that a crate's pattern which matches a text of Latin-1 letters from its start ends between two letters. A
pattern can be written that does not, since `(?-u:\xC3)` is a single byte: `Match` then
halves an odd length. TLC evaluates `LetterSpans` on the instance.

**`RE2Rewrite`.** `RewriteInv` is little more than types: each call computes its answer from the object and the two strings,
so that the work is in what the five scanners compute, for rewrite strings of every length. `EscapesSay` says which backslashes
escape (each one that is not escaped itself), `MaxSubmatchSays` and `CheckedSays` that a plain string which
`CheckRewrite` accepts asks for existing groups only. `MatchSays` and `FoundSays` lead from the views that `Match` returns back to the groups that
the crate found, and to the program that `Again` is. `RewriteCases` and `PlainRewritten` say what Rust inserts for an escape,
`ConvertedExpands` that the crate, given the converted template, inserts the same; `OneReplacedSays` puts it in the place of the
match. `PlainOutcomes` has the results of `Replace` and `GlobalReplace`, from which the three action properties follow.

`CheckedNeverPanics` was first meant for all options. The proof failed where a group of the match has to be UTF-8, and rightly so:
with `dot_nl` the flags of the pattern lose `unicode` (`re2.cc:249`), so that `(.)(1)` on an `é` and a `1` captures a byte of the
letter, on which `rure_rewrite` panics, whatever `CheckRewriteString` said; and with `never_nl` `Match` takes offsets in a line for
offsets in the text, which may lie inside a character. (TLC finds both on the instance.) The property now asks for the
default options, and the theorem for `CharacterSpans`: that a UTF-8 text is captured in whole characters, which a pattern with
`(?-u:...)` can avoid. TLC evaluates `CharacterSpans` on the instance.

**`RE2Arg`.** A call happens once, so that the invariant (`ArgInv`) says of the result of a call what it is. The argument has
two sides. A numeral that fits the buffer when its leading zeros are cut to two is read exactly: `StripZerosStrips` and
`SameWithoutZeros` say that the cut keeps the value and the prefix that tells the base, `StrtolExact` what `strtol` reads,
`CastKeeps` that what passes the range test survives the narrowing. A numeral that does not fit is out of range: a digit
other than the first is worth at least three bits in every radix (`DigitsCount`), and the buffer has room for as many as a
long has (`LongNumbers`).

**`Prefilter`.** The compiler reads characters, while what is known of a pattern is how it was put together from pieces, so that
each theorem needs the way from the one to the other.
- `NeverPanics`: `Parted(quoted)` are the texts that fall into parts, a part being one character, an escape, a brace, a group or a class
  that closes where it should, none of the last three in a quoted text. Every pattern of pieces is one (`TextSays`), so is
  every result of `QuoteMeta` (`QuoteSays`), and lowercase keeps the parts (`PartedLower`). The inductive invariant
  `ReadsParts` says that the loop stands at the beginning of a part. From there each branch goes to the beginning of another
  (`TurnReads`), and no branch panics (`NoPanic`). `SliceSays` is why the count of characters may serve as an offset of bytes:
  a supported pattern has groups and classes only if it is not quoted, and then all its characters take one byte.
- `QuotedReadsBack` holds of a text, not of a run of the program. `ReadsAs` reads ahead, and is defined by a recursive function;
  `ReadExists` and `ReadSays` give it at every position, and `QuotedTextReads` goes from the end of the text to its beginning. A
  backslash can be misread as the `\x00` of a NUL only if what follows is an `x`, which `QuoteMeta` does not escape.
- `PlainRuns` is far from inductive. `RunsRead` says of every position what is held (the run before it) and what was pushed (the
  long runs before it, `Pushed`); `RunSays` and `PushedSays` how these grow by one piece.
- `GroupKeepsShortest`: `ByLengthSays` shows that the stable sort is a permutation (`Ranked`, with the cardinality of those in front of an atom
  as its place), `SortedSays` that it puts nothing behind what is longer, and `ShortestKept` that then the removal loop leaves none that contains
  another, and of each one that it removes something that occurs in it. `AlternativeFound` and `AlternativeOfGroup` lead from an
  alternative in the pattern to one that the code splits off.

`SequenceLemmas` supports all but the first two. The library's induction theorems take an operator as
a parameter, which no installed prover can instantiate; `SetInduction` states induction for a set of naturals
instead, which is enough for `FlattenSeq` (and so for templates, for the conversion from
Latin-1 and for the atoms of several regexps) and for the value of a numeral.

**What stays with TLC.**

- Liveness: `ScanTerminates`, `CallsReturn`, `CompileReturns`. Fairness and `ENABLED` are out
  of the prover's reach. Of `CompileReturns` the variant is proved (`TurnsMoveOn`, with the bound in `TypeOK`).
- `BatchesCover`: it compares the atoms with the words that a pattern matches, of which `Syntax` has a few per piece (two repetitions
  for any number). A proof would be about those few, with an invariant for each of the neighbours that `Faithful` tells apart.
- `Regex` and `Syntax`, which stand for external code: the proofs are for every crate.

## 5. What is not modelled, and what the atoms do not promise

Not modelled:

- `ProgramSize`, `ProgramFanout`, `PossibleMatchRange` and their likes, which are stubs;
  iterators and conversions of `StringPiece`.
- Memory that the code never frees: programs of an `RE2`, captures, strings of the
  C interface. `~RE2` releases none of them, so there is no lifetime to get wrong.
- What a race on `map_atoms` does: the const functions insert into it without a
  lock, which is undefined on a `std::map`. `ConstCallsOnlyRead` says when they do not insert:
  on the object that filled the map, with regexps that are all filed and no NUL in a pattern.
- Out-of-memory, `max_mem`, and options that the code ignores (`longest_match`,
  `case_sensitive`, `literal`, `posix_syntax`).
- More submatches than `kVecSize`, and `Match` on a proper part of the text.
- Logging, messages, build files, benchmarks.

`filtered_re2.h:83` guarantees that a regexp which does not pass the filter does not match. For
a single object this needs atoms that each occur in every match, since `AtomsToRegexps`
lets a regexp pass only when all its atoms were found (`AtomsNecessary` in `FilteredRE2`). What
`my_compile` pushes is not that, and the following is outside of `Faithfully` or of what
`BatchesCover` claims:

- alternatives of a group, and the strings of a class, are pushed as if all of them were demanded;
  `BatchesCover` claims only one of them. Alternatives shorter than the limit are dropped, so that
  not even one need occur.
- a held run survives an escape it is too short for (`a\.bcd` gives `abcd`), a group that is
  not the last piece (`a(b|c)d` gives `ad`), and `*`, `+`, `{}`, whose operand it keeps;
  `?` is a literal, also in `(?:` and `(?P<n>`.
- `vec_chars_con` survives a dot when no run is held, and continues with the next class;
  atoms of classes that a dot ends are pushed whatever their length.
- `[^ab]` is read as `[ab]`, of several ranges only the first is used, and of a class with punctuation only
  the letters and digits.
- `[-a]` and a brace behind a bracket that is a member of its class (`[]{]`) index out of bounds, and a wide
  character before a bracket slices elsewhere or inside of a character: a panic (`GroupPanics`,
  `ClassPanics`, `BracesPanic`).
- `\x00`, as `QuoteMeta` writes a NUL, gives an atom with `00` in it.
- `filtered_re2.h:55` speaks of distinct strings: duplicates stay.

Two more remarks on interfaces: `AllPotentials` does not clear its vector, which
`filtered_re2.h:80` says it does; and `StringPiece::rfind(c)` from its default position never finds anything,
since `pos + 1` is 0 (`stringpiece.cc:53`).

## 6. Plan

Done, in this order: `Regex`, `RE2Match`, `RE2Set` with its proofs,
`FilteredRE2`, `RE2Rewrite`, `RE2Arg`, `RE2Threads` with `StaticRE2`, `Prefilter` with `Syntax` and `QuoteMeta`,
`StringPiece`; then the proofs about `RE2Threads`, `FilteredRE2`, `StringPiece`, `RE2Match`, `RE2Arg`, `RE2Rewrite`, and `Prefilter`
with `QuoteMeta`.

Every safety property of the passing runs is now proved but `BatchesCover`. What could follow is a proof of it on
a `Syntax` whose words have any number of repetitions, and the defects listed above: when the code is repaired, the five runs that
expect a violation become passing ones, and their properties take the place of those that name an exception.
