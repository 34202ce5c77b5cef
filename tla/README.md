# A TLA+ verification project for the Navajo verb parser

The program (`src/`) takes a Navajo verb as the user spells it, undoes the
phonological changes that Navajo morphology causes, and matches each underlying
form so found against templates of verb morphology and a lexicon of stems. It
is a CGI script in Perl, rules in Prolog, and a copy of the XSB engine that
runs them. These modules say what its parts do, check them with TLC on small
instances and prove the main facts with TLAPS for all of them.

## 1. The system

| component | state it keeps | operations | talks to | what is hard |
|---|---|---|---|---|
| Input field, `charHandle.js` | the text of the field | type, delete, add hook / accent / barred l | the page, by submission | any sequence of edits comes before a mark |
| Parse page, `parse.s`, `perl/Util.pm` | one request | decode entities, segment, call the engine, print | Segmentizer; the engine through a shell pipe | the browser chooses the encoding |
| Segmentizer, `perl/Segmentizer.pm`, `xml/Segments.xml` | segment list, rest of the text, segments found | `parseSegments`, `segmentize` | used by the page and by `compile_bases.pl` | greedy choice in list order, never taken back |
| Rule pipeline, `prolog/rules.P` 117-193 | lists of elements, a form with the rules that led to it | `p_verb`, `rule`, `pairtag` | phonology rules | optional rules, each run twice, results merged |
| Phonology rules, `rules.P` 200-1000 | none | 28 rewrite rules on segment lists | segments | overlap and order of patterns |
| Morphology, `rules.P` from `verb//1` | bindings of a template | slot grammars | stems | agreement across slots |
| Results, `prolog/run.P` | lists of parses | unique forms, all parses, unique parses | morphology | comparison by unification |
| Output, `presentation.P`, `do_parse.P` | none | print HTML | the page | |
| Deployment, `perl/compile*`, `xsb_compile`, `Makefile` | generated `.P` files, object files, times | compile XML, compile Prolog | read by every request | updates in place, by hand |
| Tabling engine, `XSB/emu` | subgoal frames, choice points, completion stack; heap, local stack, trail, freeze registers | call, consume, answer, schedule, complete, bind, untrail, switch | runs `consonants/3`, `vowels/3`, `prefixes/3`, `any/3` | suspended computations on one stack; knowing when a table is final; bindings undone and done again |
| Interned tries, `XSB/emu/tries.c`, `tr_utils.c`, `XSB/lib/intern.P` | a trie of terms, compiled to instructions; a list of leaves to reclaim | intern, look up by backtracking, dispose, take back, reclaim | the engine's choice points | the trie changes while a look-up is suspended in it |
| The rest of XSB | | | | a vendored language implementation |

A request goes: field -> `param('input')` -> `deescapify` -> `segmentize` ->
`[y,i,sh,b,e,zh].` on the engine's input -> `getUnderlying` (pipeline) ->
`getParses` (morphology) -> HTML back, where `Util.pm` turns segments into
Unicode. Between the parts there are only values. Concurrency is found in two
places: inside the engine, where suspended consumers and generators interleave
on one stack, and in deployment, where requests read files that are being
replaced.

What makes each part right, in short. Field: marks stand where the segment list
can take them. Segmentizer: the segments spell the text, nothing spelled
plainly is refused, the loop ends. Pipeline: the answer is every form an
in-order subsequence of rules derives, each tagged with such a subsequence.
Engine: a completed table is exactly what its clauses lead to, no matter the
order, every call gets every answer once, and left recursion ends. Morphology
and results: a parse's slots spell its form and agree with its stem; of parses
taken for one, none differs in what it means. Deployment: what a request reads comes from one state of the sources.
Tries: a look-up gives the terms that are there while it lasts, once each.

`PROJECT.json` lists the hazards line by line, with the properties that guard
against each and a note where none does yet.

## 2. Modules

| module | what it is |
|---|---|
| `Derivations` | forms, rules, elements; `Derivations(n)`, what the first n rules derive, said without an algorithm |
| `RuleClosure` | abstract: one step applies the next rule to everything known |
| `RulePipeline` | the evaluation of `p_verb/2`, one resolution at a time |
| `Segmentizer` | segment list, conversion to ASCII, first match |
| `InputField` | the field and its keys |
| `ParsePage` | field, submission and `segmentize` composed |
| `ParsePageProofs` | theorems |
| `TabledProgram` | what a program with tabled predicates is: clauses, calls, answers, as constants |
| `SLGForest` | abstract: tabled evaluation as growing sets, no stacks, any order |
| `SLGEngine` | the SLG-WAM with local scheduling; refines `SLGForest` |
| `SLGForestProofs` | theorems about `SLGForest` |
| `SLGEngineInvariant` | what the engine's stacks hold at every step, as one inductive invariant |
| `SLGEngineProofs` | the stacks stay in order: a push and a pop, then each action |
| `SLGEngineAnswerProofs` | no goal is forgotten; the refinement of `SLGForest`; every answer once |
| `SLGMemory` | `SLGEngine` with the heap, the local stack and the trail its goals are kept in |
| `Deployment` | the XML, `.P` and object files, the programs that make one of another, and requests, at work at once |
| `DeploymentProofs` | theorems about sources and object files, then about requests |
| `SLGMemoryInvariant` | what the freeze registers keep, as one inductive invariant on the engine's |
| `SLGMemoryProofs` | theorems about `SLGMemory` |
| `Forms` | segments, slots and what the nonterminals of the rules take |
| `PhonologyRules` | the 28 rules, each the set of forms it makes of a form |
| `Morphology` | `verb//1` and the slot grammars below it |
| `VerbFormation` | the language: how a verb comes to sound as it does (not part of the program) |
| `Templates`, `UniqueParses` | templates and their unification; `getUniqueParses/2`, which compares them |
| `VerbAnalysis` | a verb formed, analysed by all rules, parsed, its parses compared |
| `AnalysisProofs` | theorems about `Derivations` and `RulePipeline`, and about `UniqueParses` |
| `TrieTerms`, `Tries` | terms as paths of symbols; the trie as a data structure |
| `TrieCode` | the instructions of a trie, run with choice points |
| `InternTrie` | the trie of interned terms and its garbage list, under the operations of `tr_utils.c` |
| `InternTrieProofs` | theorems about `InternTrie` |
| `TermStore` | abstract: a set of terms that changes, and a query of it |
| `InternedTerms` | one trie, used by a program in the middle of a look-up; refines `TermStore` |
| `MC*` | instances for TLC; `MCTabledProgram` holds the small programs of both tabling runs |

Definitions whose names begin with `Mut` are plausible mistakes. No
specification uses them; each replaces one definition to see that a property
notices.

### RulePipeline

`p_verb([X|T],In,Out)` runs `rule(X,In,L1)`, `rule(X,L1,L2)`, merges, recurses
and merges again. The variables are the arguments of the call in progress:
`head` is the position of X, `input` is In, `once` is L1, `made` what the pass
in progress has built, `todo` what it has still to visit, `pending` the L3 of
each call that waits, `answer` the Out of the one that returned last. `Rewrite`
is rule/3's first clause with the second, `Skip` its third, `SecondPass`,
`NextRule`, `NoRuleLeft` and `Return` the steps of p_verb/3. Lists are sets
(absmerge/3 keeps one of equal elements), so the elements of a pass are visited in
any order. A rule is a function from forms to sets of forms, what setof/3
collects.

### ParsePage, InputField, Segmentizer

`Submit` is `param` and `deescapify`: a non-ASCII character arrives as a
character reference or as UTF-8 bytes, chosen per character, and only the
former becomes what `convertFromUnicode` knows. `Take`, `Croak` and `Finish`
are the ways through the while loop of `segmentize`. `Shown` is the four
substitutions of `convertToUnicode`, which `prologListToHTML` applies to each segment of the
list, so a cut within lB or xG would show. `AddMark` and `AddBarredL`
are `addChar`; `Type` and `Delete`, at any place, are the browser's. The paper in
`src/a/navajoverbparser/docs` has the segments tried longest first, and a comment in
`segmentize` has an unmatched character taken off; the code takes the order of
`Segments.xml` and croaks, and so does the model.

### TabledProgram, SLGForest, SLGEngine

A goal is what is left of a clause after some calls: it selects its next tabled
call or is done and gives an answer. In `SLGForest` a called subgoal has a set
of goals that grows by resolution; a set of subgoals may be completed when
nothing is left to do for any of them, given that the rest of what they call is
complete.

`SLGEngine` has one action per way through an instruction: `NewProducer`,
`CallCompleted` and `Consume` are the three branches of `tabletry`; `NewAnswer`
is `new_answer_dealloc` with early completion; `NextClause` is
`tableretry`/`tabletrust`; `AnswerReturn` is `answer_return`; `ScheduleOwn`,
`ScheduleFollowers`, `makeConsumerFromGenerator` and `Complete` are the branches
of `check_complete`, with `sched_answers` and `find_fixpoint` as operators.
Registers keep their names (`breg`, `bfreg`, `openreg`, `level_num`,
`root_address`, `ptcpreg`). Choice points sit in one sequence, pushed above the
newest and the frozen, and a push overwrites what lies above: memory is reused
as in the code. Frames popped from the completion stack stay readable, which is
what `subgoal_space_has_been_reclaimed` depends on. `tree` is a history
variable, the goals run for each table; the refinement needs it.

The build modelled is `LOCAL_EVAL` with `SLG_GC`. Answers of completed tables
come back in any order and through the program's own choice points, which the
choice point `trie` stands for.

`SLGMemory` extends `SLGEngine` and says of each of its actions what it does to
memory: where a call's variable and an answer's term are built, which bindings
`conditional` has trailed, how `switch_envs` goes from one branch of the trail
tree to another, what the four freeze registers are after a suspension and a
completion. `SLGEngine` carries the goal of a computation by value; here
`MemoryHoldsGoal` reads it back from the cells and compares. The stacks are not cleared
when they shrink, as in the code. Left out: the cells of the answer template, the
pre-image trail, and the fields of a choice point that
`makeConsumerFromGenerator` lays over those of another; the inversion of
links by which `switch_envs` finds its way back up is abstracted, and its two walks are
taken together (`Cell`): a cell is as the newest frame done again leaves it, else
unbound if a frame undone bound it, else as it was.

### Deployment

A file is a record: what it was made from, its time in whole seconds, how much
of it is written. `Gen*` are the steps of `compile_bases.pl`: open, flush,
close of each output file, `die` at a parse error or a base that segmentize
refuses. `StartCompile` to `CloseObject` are the XSB compiler, run by make
(`MakeCompile`) or by the engine of a request. `load/1` of `consult.P` reads the object
file (`LoadObject`); when there is none, or it does not load, it calls `reconsult`
(`LoadUnwritten`), which compiles if it must (`LoadCompiles`) or not (`LoadAgain`) and
then loads by `load_exec`, once: a file gone by then fails the request (`LoadFails`).
`NeedsCompile` is the test of `xsb_compile`, and of `reconsult`. The actions `GenKilled` and
`CompilerKilled` stop a process at any point. `remade`, `finished` and the field
`calm` of a request are history variables; they say when an update is complete
and undisturbed.

### Forms, PhonologyRules, Templates, Morphology, UniqueParses, VerbFormation, VerbAnalysis

A form is a list of items, a segment or a slot with a list of segments. Each rule
`p_rule...` is an operator from a form to the set of results of its DCG
predicate, built from rewrite tables and the nonterminals (`any//1`,
`prefixes//1`, ...) as the source builds it. `verb//1` gives the set of templates
of a form; an unbound variable of a template is a value of its own, and
`var/1` tests look at it. `VerbAnalysis` first forms a verb (`Form`, by the
changes of `VerbFormation`, which are written from the comments above the rules), then
applies `p_verb/2`'s rules in its order, then `findAllParses` and
`getUniqueParses` step by step, the actions of `UniqueParses`. The rules and the grammar were compared with
the program itself, run on about 200 inputs with some 9000 forms.

What the analysis does not find. Rules are undone in the order of one list, and
some pairs, when both have changed a verb, hide what the other looks for:
`Competing` lists them with the reason. The runs also stay away from verbs that
the comments' changes form but the rules do not cover: subject prefixes that begin
with a consonant under Subj-2 (the violation run) to Subj-4; clusters such as ts
xG under Subj-1; the outer prefix n,i,ts,iH, which `pref//1` does not read; the
d classifier, which no rule restores; oo, which the vowel break-up lacks. In a
sample of 3800 verbs of the imperfective, perfective and future of `stems.P`,
424 were lost for one of these reasons.

### TrieTerms, Tries, TrieCode, InternTrie, InternedTerms, TermStore

A node is named by its path. `Tries` has the insertion with its chains, hash
tables and expansion, the deletion of a branch and the soft deletion
(`safe_delete_branch`) that only disables a leaf. A node's instruction has a
choice point part, the two bits that the code adds to and subtracts from, kept
as such. `InternTrie` has one action for each operation on a trie of interned
terms, and the list of leaves to reclaim. `TrieCode` runs the instructions: a walk
is the registers, bindings and choice points of the engine. `InternedTerms` is a program that interns,
looks up, backtracks, cuts, disposes at once and later, takes back and
reclaims, in any order. One thing the library leaves to the program is in the
guards: within a look-up no branch is freed, at once or by reclaiming (`intern.P` and the
manual say so). Terms are unified without an occurs check; queries have
variables of their own.

Two calls have consequences the model follows to the point where the code is undefined.

- The garbage list holds addresses. `trie_unintern` frees a leaf without looking at the list,
  whose entry is then `Gone`: a freed node, until `Reused` gives its address to a new one.
  Reclaiming that meets such an entry reads what the allocator has put there: it passes it
  over, or deletes from it, and the engine is `corrupt`. `stale` notes that a leaf was
  freed while it was listed.
- A table made or expanded within a look-up moves nodes that its choice points name
  (`MovesNodes`; the look-up is then `moved`). Where it fails into a node that restores nothing,
  or a table in a state it does not expect, it is `Lost`.

What a corrupt or lost engine does afterwards is not modelled. Until then the trie
itself stays as it must, which the run checks and `InternTrieProofs` proves.

Disposing again of a leaf already disposed of writes the disabling instruction
over the one kept to restore. A comment (tr_utils.c, `insertLeaf`) says this
should have no effect; in the code the term, interned again, is told to be new
and is not found. The run `removed_again` shows it. The history variable `spoilt` keeps
such leaves apart: `TermStore` allows them to be missed, and of look-ups those that were
moved, and nothing else.

## 3. Runs

| run | instance | distinct states | shows |
|---|---|---|---|
| `pipeline` | 5 forms, 4 rules | 574 | the answer is exactly the derivations; tags in order and truthful; refinement of `RuleClosure`; termination |
| `page` | texts up to 4 characters, 11 keys, all encodings | 285,853 | segments spell the text and show as it does; plainly spelled texts are listed; marks stay in order; each round shortens |
| `tabling` | 3 predicates, all of 4096 programs | 155,168 | stack, leaders, calls and answers sound; the inductive invariant `EngineInv`; termination; refinement of `SLGForest` |
| `forest` | 64 of these programs, every order | 20,022 | completed tables lack nothing and never change |
| `memory` | the same 4096 programs | 164,548 | goals and bindings are in memory where they are looked for; what is frozen is what is suspended; the inductive invariant `MemoryInv` |
| `deployment` | 3 modules, 1 request, 2 times, 3 commands, 1 kill | 3,626,318 | finished updates pair, make overlooks only overlaps, make clean mends, an updated site answers as one |
| `verbs` | 195 verbs of 11 stems | 10,781 | each rule undoes its change; each verb is parsed as meant; of parses taken for one none means something else |
| `interned` | 2 programs, 3 queries, small tables | 211,504 | chains, choice points, garbage and suspended look-ups stay right; refinement of `TermStore` |
| `refused_spelling` | 4 keys | violation | a, a, hook is refused though the list spells it |
| `lost_classifier` | 1 verb | violation | a classifier lost after n,i,sh is not restored |
| `reads_freed` | as `interned` | violation | a leaf removed, then freed, is read when the list is reclaimed |
| `removed_again` | as `interned` | violation | a term removed twice and interned again is there and not found |

Bounds. *pipeline*: rule 1 undoes itself, so the second pass matters; rule 2 has two
outputs; two forms meet in one; rule 4 needs rules 1 and 3; rule 3 never
applies to the surface form. *page*: `MaxText` 4 is the least that holds
a long vowel marked twice, `aHaH`, whose shorter readings compete with it, or an
ejective after a marked vowel; the keys have the letters of both ASCII spellings that
`convertToUnicode` rewrites, lB and xG, and a capital. *tabling*: three predicates give every shape of
dependency there is between two others: left recursion, mutual recursion, a
chain through a third, a call of whatever an answer names, a test without
variables that is completed early while others depend on it. Both orders of the
clauses are tried. Larger sets, with four predicates and random clauses, were
also explored while writing the module, without a violation. *memory*: the same
programs, since the shapes of dependency decide what is suspended below what; two
of the predicates have a variable, so bindings of calls within calls occur.
*deployment*: the races are within one second or across one boundary, so two
times; edit, generate and make are three commands; one kill spoils one file, and
one request and make are two compilers of one module, also while the request reconsults. *verbs*: the stems take all
modes, both transitivities, inner and outer prefixes and every classifier that
can be restored; the objects of the transitive ones are three and the plain one.
*interned*: `MaxSibling` 2 for 8 and `InitSize` 4 for 64, so that five terms reach
a chain hashed, a bucket of three, and a table expanded; one program has that at
the first level and removes two of the five, which share a bucket; the other has
a table below a functor, a garbage list of two and two changes within a retrieval.

The violation runs record where a document or a comment says something the
code does not do. `refused_spelling` is no failure of the parser as used: texts that the
language spells are not affected (`PlainTextIsListed`), except for a vowel followed by the
same vowel with a mark, and a d followed by a barred l: dl is taken and half a letter is
left, which is refused. `lost_classifier` is a verb the parser does not find. The last two
are of the trie library, in call sequences its documents permit; the parser makes none of
them. In `reads_freed` the leaf may also have been interned again between the
two removals; TLC finds the shorter way.

Deadlock is checked except in runs whose system really ends: the
pipeline when it has answered, the engine when the program is done, the forest
when all is complete, the analysis when its parses are shown, the site when the bounds
on edits and time are used up, the trie when its user asks for nothing more.

### Fairness

Only weak fairness of the whole next-state relation, in `RulePipeline` and
`SLGEngine`: one process that runs until it is done. Nothing is assumed about the
order of its steps. The other modules have no liveness property: nothing makes a
maintainer or a program go on.

## 4. Proofs

All proofs are checked by tlapm down to the last leaf; no theorem assumes more
than the named ASSUMEs.

`AnalysisProofs`, from `PipelineAssumption` (there
is a rule, rules map forms to sets of forms, the surface form is one). The
invariants checked are not inductive: that the answer is exact says nothing of
the state in mid-pass. `IInv` says what each list holds while rule `head` is
running: In is exactly `Derivations(head - 1)`; what the first pass has made,
with the image of what it has still to visit, is the image of In; every element
of L1 ends in the rule's own tag, so the second pass makes nothing; each waiting
call's L3 is below In. From it follow `TypeCorrect`, `RulesAlwaysInOrderOnce`,
`TagsAlwaysExplainForm`, `AnswerExact` and `ImplementsClosure` (the refinement).
The lemma underneath is `DerivationsStep`: what n+1 rules derive is what n
derive and its image.

The same module proves of `ChoiceSpec`, for every lexicon and every set of templates,
however many, that what `getUniqueParses/2` leaves is unique (`ShownAreUnique`). `Says` is
the order behind it: one template tells all that another tells. Unification of two gives one
that says what both say (`UnifiedSaysBoth`), and what cannot unify with a template
cannot unify with it once more of it is bound (`InstanceUnifiesWithLess`), so a
template kept early is not repeated by one bound later. That no reading is lost is not
a theorem, and in general not true: an unbound slot says that the part is absent, and
unification takes it for any value. `NoMeaningIsLost` checks for the verbs of the run
that readings taken for one differ in nothing but the inner prefix. `VerbAnalysis` takes `UniqueParses`'s actions as
they are; its `TypeOK` checks that what verb//1 finds are templates, the one thing `ChoiceSpec` asks.
`VerbAnalysis` itself is out of the prover's reach, since its rules are recursive.

`SLGForestProofs`, from `ProgramAssumption` (clauses are nonempty lists of
goals, answers lead goals to goals). For every program, finite or not, and every
order: `ForestTypeCorrect`; `ForestSound`, tables stay within every model of the
clauses; `ForestComplete`, a completed table is saturated;
`CompletedNeverChanges`. Completeness is inductive with the type invariant
alone, because it speaks of all completed tables at once: a table may be
completed only with, or after, all it calls, so nothing it depends on can
change, and nothing changes it. The early completion of ground subgoals needs
the guard that a subgoal without variables has one answer.

`SLGEngineProofs` and `SLGEngineAnswerProofs`, from
`ProgramAssumption` and `EngineAssumption` (the program is not one of its
subgoals), for every program, query list and number of predicates. The properties
checked say what must not happen to a stack whose order they take for granted.
`EngineInv` says what that order is. It has three layers.

- `OrderInv`, the stacks (`StacksStayInOrder`). A choice point *waits* when only
  backtracking to it will do what is left: a generator's clauses and its
  completion, or an answer of a completed table not yet returned. Nothing waits above
  breg; from no choice point does backtracking skip what waits below; a push
  lands above all that waits; what runs, or will be resumed, is for a table newer than
  what waits. `LeadersLeaveRest`: what a leader saved as bfreg covers the consumers
  of older tables, so reclaiming frees no more than its own. `ConsumersDepend`:
  a table that consumes an older one has no leader between. From this layer
  alone follow `EngineTypeCorrect`, `OpenTablesStayOnStack` and `NoFalseLeader`.
  It needs the skip condition, since a consumer resumed by
  `sched_answers` has its `prev` pointed at another consumer, up or down the stack.
- `WorkInv`, the goals (`GoalsAreServed`). Every goal of an open table but the one that
  runs has given its answer, or has made its call and been returned what the
  callee has, or a choice point is there that will return the rest. So a
  leader with nothing to schedule has a saturated set of tables:
  `EngineImplementsForest` maps each action to a resolution, a completion of all
  tables from the leader on, or a stutter. The theorems of
  `SLGForestProofs` then hold of the engine (`CompleteTablesAreExact`,
  `TablesAreWithinModels`, `CompleteTablesAreFinal`).
- `CallInv`, the program's own calls. While tables are open the oldest is the
  one called; then each answer has been returned, is at hand, or is left in the
  one trie choice point, exactly one of the three (`EveryAnswerOnce`).

TLC checks `EngineInv` in the run `tabling`.

`SLGMemoryProofs`, from the same two assumptions, for every program. `MemoryImplementsEngine`:
each step of `NextInMemory` is one of the engine's `Next`, so what the engine's steps
preserve is preserved here, `EngineInv` among it. `MemoryFrozen`: at every step
the freeze registers are exactly the highest that a suspended call needs. That speaks
of three registers, and completion sets them to what the leader saved long before, so
it is not inductive. `MemoryInvariant` proves `MemoryInv`, which is
`EngineInv`, the types of stacks and registers, and four more things:

- `TrailAboveGenerators`: the trail frame a generator saved is on the path of
  what runs now, of every suspended call above it, and of every newer generator.
  So `switch_envs`, from one of these to another, undoes nothing that was bound when an
  open table was called.
- `StacksAboveGenerators`: what runs, and every newer choice point, has its heap
  and local stack above what the generator saved. So a frozen part is a part
  below, and freezing a call freezes the generators it depends on with it.
- `DependentIsFrozen`: the generator of a table that does not lead is frozen, also by
  what any newer leader will leave frozen. It will be made a consumer, and must
  then be in memory. The first form, without the newer leaders, held in
  every state TLC reached and was not inductive: completion puts the registers back.
- `FreezeRegisters`: the registers now are what all suspended calls need, and those a
  generator saved what the calls below it need. A completing leader's calls
  are all above its choice point (`EngineInv`), so what it restores is right.

An action either goes on from the memory it finds and leaves all below the registers
alone (`Onward`), or goes back to a choice point and changes only what the trail
undoes and does again (`Back`); each is shown once to keep the four, then each
action is shown to be one of the two and what it pushes to be above. `Path`
is a recursive function on frames; that a newer path contains the older goes by
the least frame for which it fails (`OldestFirst`), as parents are older.
TLC checks `MemoryInv` in the run `memory`.

`ParsePageProofs`, from `InputAssumption` (the bound on the text is a natural number),
for any keys and any length of text. `PageInv` says that between two rounds of
`segmentize` the segments found, put one after the other, and the rest spell
the converted text. `PageTypeCorrect`,
`ListedAlwaysEntered` (a listed text arrived whole: what comes in two encodings holds
bytes that no segment has; and shown segment by segment it reads as the field does, since
no segment ends in the l of lB or the x of xG before the other half, `ShownConcatenation`), `LoopAlwaysShortensText` and `MarksAlwaysStayInOrder` follow.
`PlainTextAlwaysListed`: a text in plain spelling is never refused. The conversion of
such a text is `Spelled`: every place of it holds a letter, or a mark or tail behind a
letter that takes it, and a vowel is not doubled (`PlainIsSpelled`, by induction on the
text, with `Ends` for what the last symbols of the conversion say of the text). Whatever
segment the list makes `segmentize` take first, by its place in the list
(`SegmentsAt`), the rest does not begin with a mark or a tail (`TakesWholeLetters`),
because the segment that has it stands before it in the list; so the rest
is spelled again (`RestSpelled`), and the list has a segment for its first letter.
`PlainInv` carries this along the loop.
FlattenSeq and the segment list are taken by their definitions. The induction on the
number of segments goes through the least element of the set of counterexamples,
`NatSetInduction`, since induction theorems with an operator parameter are out of reach.

`DeploymentProofs`, from `DeploymentAssumption` (the Makefile lists every module
once, the generated ones are not edited by hand, make is no request, the bounds are natural numbers), for any number of modules and
requests, of edits, kills and seconds:

- `FinishedRunAlwaysPairs`. The property speaks of the end of a run only.
  `PairInv` adds that between the two files the first is whole and cut by the list
  parsed, and that a finished run is followed by no write until the next begins.
- `MakeAlwaysOverlooksOnlyOverlaps`. `OverlookInv` says of each compilation and
  each object file that its text is its source's, or that the source is not older than
  the reading; a write sets the source's time to the clock, which no reading
  exceeds.
- `CleanMakeAlwaysRepairs`. `RepairInv` says that from a make clean which no
  compiler outlives until a source is written or a compiler killed, all that is
  compiled is of the source as it stands (`Fits`), an object file open to several
  compilers gets the same from each (`Sound`), and what make has been through is there
  (`Covered`). `WaitInv`, that a request compiles only while it waits,
  keeps a compilation from being replaced by another.
- `DeploymentTypeCorrect`. A version stays within its bound because each edit
  takes a command; `TypeInv` counts them.
- `UpdatedSiteAlwaysAnswersAsOne`. `CalmInv` says that when an update is complete
  every object file is of its source, and that a request which nothing has
  disturbed since has loaded nothing else, so what it answers from is of one
  segment list. It rests on `PairInv`, `RepairInv` and `WaitInv`.

`InternTrieProofs`, from `SizesAssumption` (a chain may hold a node, and a new table is
larger than a chain that is hashed) and `LeavesAssumption` (no term's path is a beginning
of another's, which arities see to, and the hash function gives natural numbers), for any
terms, any hash function, any `MaxSibling` and `InitSize`, and operations in any order. `TrieInvariant` proves
`TrieInv`, from which `TrieTyped`, `ChoicesAreOfPlaces`, `NothingEverLeaks` and `RemovedIsListed`
follow. The properties checked need each other. A removal reads the choice point
parts and the counts to know whether a node has siblings; insertion reads the paths; so
neither is inductive without the rest. `Well` puts them together: the nodes are those on
the paths of the leaves, and for each inner node (`Local`) every child is in its chain or
bucket once, with the choice point part of its place, a chain is no longer than
`MaxSibling`, and a table's count is the number of children. The argument:

- `AtHeadKeeps`: linking one node at the head of its chain. `RehashKeeps` carries it along
  the nodes that a new or larger table takes over, and `LinkKeeps` and `InsertKeeps` make
  it an insertion.
- `UnlinkKeeps`: what a chain loses, at its head, at its end or between, its choice point
  parts follow by adding and subtracting as the code does (`DueWithout`).
- `HasSiblingIs`: choice point part and count tell rightly whether the parent has another
  child. So the branch removed goes up to the first node of which it is not
  the only use (`TopIs`, `BranchAlone`), and the rest is well again (`DeleteKeeps`).
- `Listed` is the list: its entries are nodes, once each, or gone; whatever is removed is a
  leaf on it, so `ReclaimsAll`: reclaiming frees each removed leaf. This holds also when leaves
  were freed while listed and their addresses given to other nodes (`ReusedListed`). Until
  then every entry is an allocated leaf and stays so down the list, so that reclaiming
  reads no freed node.

Every action of `InternedTerms` either takes a step of `InternTrie`'s `TrieNext` or leaves the trie
and the list alone, so these hold of it too; the run `interned` checks them there.
The loops of the code are recursive functions, which exist by induction on
their length (`MovesSome`, `ReclaimsSome`).

Only model-checked. Termination, of the pipeline and of the engine: liveness
is outside what the prover does here. `PhonologyRules`, `Morphology`,
`VerbAnalysis` (but for its `UniqueParses`), `TrieTerms`, `TrieCode` and with them the look-ups
of `InternedTerms` (`SuspendedWalkCanResume`, `KeepsTheTerms`), which declare or
use RECURSIVE operators over lists and terms. `MemoryHoldsGoal` and
`ChoicePointsKeepGoals`: they read a goal back through the calls of a clause, a
fold over its bindings, and so need an induction on the clause for each of the ways
a binding is undone.

## 5. Not modelled, and the plan

Of the parser itself nothing that keeps state or decides a result is left out but the
order in which parses are listed. Not modelled: the HTML (`presentation.P`,
`do_parse.P`, the page's markup), the debugging driver, the shell command that
starts the engine, the static pages, the older copy of the program under `src/a`,
which is not run. The lexicon is a constant; the run uses twelve of its clauses.

Of XSB, a language implementation kept in the repository as distributed and most
of its lines of code, what decides the parser's tabled calls and one further
component, the tries, are modelled. The rest is not: the WAM's untabled
instructions and built-ins, the byte-code loader, the compiler and preprocessor, the
libraries and packages, input and output. They are not this program's, a model of
an instruction set or a compiler would be a transliteration, and TLC would check it
on instances too small to tell anything. The share of the repository's lines that the
modules stand for is therefore small, and cannot become large. In particular:

- Negation, delayed answers, completion suspensions, call subsumption and
  exceptions in tabling: rules.P uses none of them over tables.
- Call and answer tries beyond what `TrieCode` has in common with them: their
  own entry points and the substitution factor. `SLGEngine` takes their results as
  sets.
- Attributed variables, `delete_trie`, several tries at once, and the reading of a
  leaf from below (`bottom_up_unify`).
- The garbage collector. Reading it for this purpose showed three places that only
  attributed variables reach: the pre-image trail's values are left out when the heap is
  copied or when collection is given up, and growing the local stack walks the
  trail by three cells though such a frame has four.
- Asserted clauses and their index (`biassert.c`).
- Running out of memory. `expand_trie_ht` returns with the table as it was when `realloc`
  fails, and a block that cannot be allocated aborts the engine.

What is left to do, in order:

1. `SLGMemory`: that going back to a choice point finds its goal
   (`MemoryHoldsGoal`, `ChoicePointsKeepGoals`), on `MemoryInv`.
2. `SLGMemory` with answer templates of several variables.
