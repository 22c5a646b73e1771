# TLA+ models of the LFCPA plugin and the specRTL compiler

`src/project/Project Data/modified_lipta/pointsto-callstrings.cpp` (with
`pointsto-callstrings.h`) is a GCC 4.7 plugin: an interprocedural, flow- and
context-sensitive points-to analysis that keeps points-to information only for
pointers that are live (liveness-based flow- and context-sensitive points-to
analysis, LFCPA). It is the repository's own program; this directory holds the
TLA+ modules that model it, the TLC configurations that check them, and TLAPS
proofs. `src/specrtl` holds a second program, the compiler of a language for
machine descriptions (specRTL); it has a module of its own.

Paths below are relative to `src/project/Project Data/modified_lipta/`; `.cpp`
and `.h` stand for the two files named above. Of the compiler, file names are
relative to `src/specrtl/asgn4-srtl-arm-md/SRTL-2.0/source/`.

## 1. Inventory

| part | code | state | operations | what makes it correct |
|---|---|---|---|---|
| points-to values | `.h` 885-1789, `.cpp` 655-734 | pools `maypool`, `tmppool`; an index stands for a value, a negative one for the empty value | get/add/remove pointees, indirect pointees, merge, normalise | values are in normal form, so that "exactly one bit set" means "must-pointee"; merging loses nothing and does not depend on the order |
| transfer functions | `.cpp` 3602-4500 | the value in the temporary pool | `pta_lhs_*`, `compute_stmt_out`, `compute_phi_gen`, `compute_pointsto_out` | what a variable holds at run time is among its pointees |
| liveness of a block | `.cpp` 6742-6984, `.h` 1791-2123 | live sets in a pool, GEN and KILL | `find_live_vars`, `compute_liveness_from_constraint` | everything a later use needs is live |
| intraprocedural analysis | `.cpp` 3483-3600, 4781-5004, 5298-5412, 6646-7073, 7363-7422 | per block: IN and OUT lists of contexts with `linfo`, `pinfo`, `new_lvdf`, `new_ptadf`; per function an array of blocks with flags `process_lv`, `process_pta` | handlers of start, end and intra blocks, propagation to successors and predecessors, the two passes that restart each other | the passes stop, at a common fixpoint, and the result is sound where pointers are used |
| function worklist | `.cpp` 386-549, 1988-2071 | list of functions with two flags; `lv_node`, `pta_node` | first, previous, next node; insertion | no flagged block is left when a pass returns |
| liveness of calls: callstrings, `lcsmap` | `.cpp` 5588-5978, 6553-6645, 7075-7422 | `lcsmap` per function: a representative callstring and those with the same value | propagation to callees and callers, modification of map rows, regeneration at the start block | each callstring gets the value of its representative, and the result is a solution across calls |
| points-to of calls: `pcsmap` | `.cpp` 5006-5296, 5415-5586, 6142-6551 | `pcsmap` per function | the same in the other direction; live sets for contexts that liveness represents by another one; mapping of returned values | each callstring gets the value of its representative, and uses are sound across calls |
| `preprocess_cfg` | `.cpp` 2640-2792 | the blocks, their constraint lists and flags; a global `deref_stmt` | splits blocks | a dereference, a call and a return start a block |
| constraint generation | `.cpp` 797-1835, 2073-2640 | constraints, variables | `cs_get_constraint_for`, parameters, returned values | constraints mean what the statements do |
| function pointers | `.cpp` 5980-6140 | | calls resolved from points-to values | |
| export to SSA names | `.cpp` 171-277, 7430-8220 | GCC's pointer info of SSA names | `insert_lipta_on_use`, `reset_ssa_names` | a use gets the pointees of its own block |
| dump output | throughout | | | |
| specRTL compiler | `srtl-parser.yy`, `pattern.cc`, `node.cc`, `concrete_pattern.cc`, `list.cc`, `srtl-driver.cc` | pattern objects, the tables of names and operators, the string printed last | declaration of abstract, concrete and list patterns; building, changing and printing of trees | an abstract pattern means the composition of what it names; an override is what it overrides, with its changes |

The other programs of the repository are listed in `PROJECT.json` and not
modelled: the C version and three earlier versions of the same plugin, small
plugins written to learn the API, and the sample and spim machine descriptions.

The parts of the plugin interact by shared state only; it is one thread. The
interleaving that matters is that of the two passes: `compute_pointsto` stops
after any block handler that brought new information to a block that
dereferences, calls `compute_liveness (true)`, and goes on with a worklist that
the liveness pass has changed meanwhile. Points-to information depends on
liveness (it is restricted to what is live), and liveness depends on points-to
information (the pointees of a loaded pointer are live).

Hard behaviours: order of arrival at joins; state shared by both passes (flags
of IN and OUT, blocks whose IN and OUT are one list, blocks that only one pass
bypasses); termination; the number of pointees deciding what is overwritten;
the order of nested calls and returns in the function worklist. In the compiler it
is chains of declarations: names declared again while the old object is in use,
and statements that act when they are parsed, when the tree is built, or when
it is printed. `PROJECT.json` lists them as hazards at their lines.

## 2. Modules

    PointsTo ── Transfer ─┬─ Execution ── StraightLine ── MCStraightLine
                          ├─ Liveness ─┬─ Preprocess
                          │            ├─ Lfcpa (+ Execution) ── LfcpaProofs
                          │            └─ InterLiveness (+ FnWorklist, CallstringMap)
                          └─ ContextLists ── PointsToMap

    InterLiveness, PointsToMap, Execution ── InterPointsTo ── SsaExport ── InterRecompute
    FnWorklist ── Scheduler
    InterLiveness ... implements ... Scheduler

    Liveness, Execution ── TransferProofs
    TransferProofs ─┬─ (+ StraightLine) SoundnessProofs
                    ├─ (+ Lfcpa, Preprocess) LfcpaProofs
                    └─ (+ InterLiveness, FnWorklistProofs) InterLivenessProofs
    FnWorklist ── FnWorklistProofs ── (+ Scheduler) SchedulerProofs
    InterLivenessProofs ... takes the theorems of ... SchedulerProofs
    SpecRtl ── SpecRtlProofs ... takes the theorems of ... FoldingProofs (five instances)
    LfcpaProofs ... takes the theorems of ... FoldingProofs (three instances)

    Lfcpa, Preprocess ── MCLfcpa
    InterLiveness ── MCInterLiveness ── (+ SsaExport, Preprocess) MCInterPointsTo
    MCInterPointsTo, InterRecompute ── MCInterRecompute
    SpecRtl ── MCSpecRtl

Values and blocks:

* **PointsTo**: points-to values as functions from pointers to sets of
  identifiers, with the operations of the `.h` API. `undef` (maybe
  uninitialised), `nothing` (null) and `integer` are the identifiers 0, 1, 2 as
  in the code. A pool index is a value here: `compute_maypool` and
  `compute_index_in_maypool` hash-cons, so equal indices are equal values.
* **Transfer**: the GEN and KILL of a constraint, the table above
  `compute_stmt_out`, and PHI chains. `rhs.off` says that an offset is left
  after reducing to a field variable; the structure of fields is not modelled,
  and the offset of the left side is zero.
* **Execution**: what the constraints mean when the analysed program runs. This
  is the reference, not code of the plugin.
* **StraightLine**: the state machine of a transfer-function user: two branches
  that fork, are extended statement by statement in any order, and meet, and a
  concrete execution of one of them. The PHI loop is one action per argument, as
  the loop of `find_pointsto_pair`.
* **Liveness**: what a block does to a live set, bottom-up, given the points-to
  value at its IN.
* **Preprocess**: `preprocess_cfg` as a fold over the statements of each block.
  The variables of the C loop (`cbb`, `prev_stmt`, `has_phi`, the global
  `deref_stmt`) are the fields of what the fold carries. Programs are given as
  the blocks GCC has before; the other modules get what comes out.

One function:

* **Lfcpa**: the two passes over one procedure. `df[<<b, "in">>]` and
  `df[<<b, "out">>]` are the context entries of `in_ipdfa` and `out_ipdfa`;
  for a block between start and end without constraints both names denote one
  list, as `perform_lvipdfa_on_intrablock` makes them. One disjunct per handler,
  chosen by the lowest (points-to) or highest (liveness) flagged reverse
  postorder index. `seen` keeps apart the initial `pinfo` of -2 and the empty
  value, because the code compares indices. When both passes are over,
  `RunItem` and `RunEdge` execute the analysed program against the result.
  `\E x \in {e}` is used for the intermediate data flow states of a handler so
  that each is computed once.

Several functions:

* **FnWorklist**: the list of functions. It is a sequence, pointers into it are
  positions, and a function may have several nodes in it. Both passes' flags
  and operations are there.
* **Scheduler**: the abstract specification of the two-level scheduling:
  functions on the list, blocks that are flagged, a handler that clears one
  block and flags others together with their functions, and the steps to a next
  and a previous function. It says nothing of data flow. `InterLiveness`
  implements it (`Worklists == INSTANCE Scheduler WITH ...`).
* **CallstringMap**: the rows of `lcsmap` and `modify_lcsmap_at_endblock`. Rows
  and right-hand sides are functions: the order of the code's lists is
  immaterial for them as long as the rows have distinct values, which
  `MapPartitionsContexts` checks. A row has the number of its insertion, for
  the one reader that depends on the order (`regenerate_linfo_for_pcsmap_lhs`).
  `modify_lcsmap_2` has no counterpart: the caller has always set `new_lvdf`
  when it is tested (section 3).
* **InterLiveness**: the first call of `compute_liveness`, with all functions,
  composed of `Liveness`, `FnWorklist` and `CallstringMap`. `lv_node` is the
  position of `cnode`; `process_lv` is the set of blocks with that flag;
  `callstrings` is the pool, a context is an index into it, and 0 is main's -1.
  One action per handler (`LvIntraBlock`, `LvEndBlock`, `LvStartBlock`,
  `LvCallBlock`, `LvStartCallBlock`, `LvReturnBlock`), chosen by
  `get_bb_for_lv_processing`, and `NextFunction` and `PreviousFunction` for
  `compute_liveness` going to another one. In this first call nothing is known
  of points-to (so `recompute` is false and loads make nothing else live).
* **ContextLists**: the lists of contexts at IN and OUT as the points-to pass,
  and the liveness pass after it, walk them: sequences, searched up to the first context that is not above the
  one looked for, with insertion at that place. Here the order matters, and so
  does the assignment in the place of a comparison at return blocks. The `id` of
  a member is what a pointer to it is in the code.
* **PointsToMap**: the rows of `pcsmap` and `modify_pcsmap_at_startblock`, with
  `modify_pcsmap_1`, `modify_pcsmap_2` and the exchange of a row's lhs. Rows and
  right-hand sides are sequences: the code takes the first that fits.
* **InterPointsTo**: `compute_pointsto` after that call of `compute_liveness`,
  over the same worklists. `PtaIntraBlock`, `PtaStartBlock`, `PtaCallBlock`,
  `PtaReturnBlock`, `PtaEndBlock` are the handlers of `perform_csipdfa`;
  `PtaNextFunction`, `PtaPreviousFunction`, `PtaFirstFunction` the steps of
  `compute_pointsto`. A context that is new to a callee gets live sets from a
  representative, there and at the end block, and those of the contexts in
  between are filled in when the start block is processed. A handler that sees
  a changed successor with a dereference hands over to `compute_liveness (true)`
  (phase "again"). Afterwards
  `RunItem`, `RunEdge`, `RunCall`, `RunReturn` and `RunEnd` execute the program,
  with a stack of frames.
* **InterRecompute**: `compute_liveness (true)`, over the lists and maps that the
  points-to pass has built: `AgainIntraBlock`, `AgainEndBlock`,
  `AgainStartBlock`, `AgainCallBlock`, `AgainStartCallBlock`,
  `AgainReturnBlock`, with the pointees of loaded pointers live, what was
  merged into a row's other contexts regenerated at end blocks
  (`RegeneratePinfo`), `ChangeFunctionAgain` between functions and `AgainDone`
  back to points-to. `AFairSpec` is the complete analysis.
* **SsaExport**: `reset_ssa_names` and `insert_lipta_on_use`, as one step between
  the end of `compute_pointsto` and the execution.

The compiler:

* **SpecRtl**: one step per declaration of the input, from the parser's
  productions to what is written. A pattern object is an element of `patterns`
  and a pointer to one is its index; `symTab` leads from names to objects, so an
  abstract pattern that is declared again leaves the old one to those that
  point to it. A tree is a function from positions to nodes. `AbstractPattern`
  inlines what its statements name (`Abstract_Extends_Body`); `ConcretePattern`
  makes the tree of the IN part (`createPattern`) and of the OUT part
  (`createPatternOut`), prints them (`TraverseTree`, which uses up an operand per
  leaf) and enters the name; `ListPattern` is for iterators and enumerations.
  The printed text is kept as the tree with an operand at each leaf.

**MCStraightLine**, **MCLfcpa**, **MCInterLiveness**, **MCInterPointsTo**,
**MCInterRecompute** and **MCSpecRtl** have small variables and families of programs. The lemmas and
theorems (section 4) are in **TransferProofs** (values, constraints, PHIs, the liveness of a
block), **SoundnessProofs** (straight-line code), **LfcpaProofs** (one procedure),
**FnWorklistProofs** (the list of functions), **SchedulerProofs** (the abstract scheduler),
**InterLivenessProofs** (the liveness pass over all functions), **FoldingProofs** (folds over
sequences) and **SpecRtlProofs** (the compiler).

Definitions whose names end in `Fault`, `Lossy` or `Endless`, and those of
`SpecRtl` whose comments begin with "Fault", are deliberately wrong variants used
to test the properties, and nothing else refers to them.

## 3. Runs

| run | question | bounds |
|---|---|---|
| `straight_line` | are the values well-typed, normal, sound, are joins lossless and symmetric, and is a must-pointee what the variable holds on every path? | two families. With loads and stores: 5 variables on two levels (two objects, two pointers, a pointer to the pointers), 17 chains, 5 statements: a pointer to a pointer, both pointers, a store and a load fit. Without: null, pointer arithmetic and a PHI, 7 statements, an entry value that is not empty |
| `lfcpa` | are dereferences where liveness needs them, is the result of both passes sound at every use, is OUT the transfer of IN, do the passes stop at a common fixpoint, is only live information kept, is the recorded dump reproduced? | 1049 programs, all through `PreprocessCfg`: chain, diamond and loop with every combination of copies, addresses, loads and stores of addresses; blocks of several statements with dereferences among them; a PHI and then a dereference, after a label or of another pointer; the program of the dump |
| `inter_liveness` | is no flagged block left behind, does the pass implement the abstract scheduler, do the callstring maps partition the contexts, and is the result a solution within and between functions? | 1184 programs of two and three functions: two calls in sequence, in a choice, the first or both in a loop; callees that call (also in their first block) and that have one block |
| `inter_termination` | does the liveness pass end, and is nothing flagged again unless a live set has grown? | recursion of one and of two functions, and calls in a loop |
| `inter_pointsto` | are uses sound across calls, and are the solutions given to GCC; do the lists of contexts keep their order and the maps partition the contexts; is no flagged block left behind, does the pass end, is the recorded dump reproduced, and is all that a dereference makes live propagated before points-to goes on? | 1609 programs of two and three functions that pass pointers to one of two objects by parameters, globals and returned values; two calls of one function, in sequence or in a loop, calls that diverge from one loop round to the next, callees that call, a choice between callees; loads and stores through a parameter or a global, in a callee, in what it calls, and in the caller of what sets the pointer |
| `spec_rtl` | does an abstract pattern mean the composition of what it names, does an override follow what it overrides, do operand numbers stay distinct? | 6082 inputs: two abstract patterns that extend or name each other in five ways, one of them (or an operator's name) declared again, an iterator as an operator; chains of an instantiation and two overrides (of the same name among them) with operands with and without numbers, registers and scratches; composite patterns; undeclared names |

Each run of the analysis is deterministic; the state space is the programs
times the executions. In `lfcpa` five blocks are enough for every kind of edge
(branch, join, back edge, bypass), and two pointers to two objects are what a
wrong kill or a lost arrival needs to show. Deadlock is checked in
`inter_pointsto` and `spec_rtl`, which end in a stuttering step; in the other runs the
analysis or the statement budget comes to an end, so `CHECK_DEADLOCK` is off.

The programs with calls are the least ones for which the hard cases occur; with
fewer, steps of the model would not be taken. Two calls of one function give a
callstring map two contexts, a loop makes their values change after they were
processed. A function called by main and by another callee (`MainCallsBoth...`)
is put on the worklist twice, and when it stands before its caller
(`MainChoosesLoop`) its start block flags a function further down the list. In
`Diverging` two calls of a function come with the same value, share a row of
`pcsmap`, and then one of them leaves the row.

`BlocksSolved` and `CallsSolved` state that the result is a solution for every
context, whether it was processed itself or through the lhs of its row; they do
not hold with recursion (run `recursion`), and so these programs are left to
`inter_termination`. Recursion is left out of `inter_pointsto` for the same
reason: what the liveness pass leaves behind is missing there too.

The inputs of `spec_rtl` are chains of three concrete patterns because what goes
wrong with one override that is stored and read again shows at the second. They
have exactly as many operands as leaves; no brackets and no operators with a
variable number of children; statements for single operands only directly below
the root, and only for numbered operands; no mode replaced a second time after a
statement has brought it. Section "Disagreements" says what happens otherwise; without
them the properties would fail for those reasons only.

### Recorded runs of the plugin

Two properties compare the model with what the plugin itself printed; both
start from the source of the program and go through `PreprocessCfg`.

* `MatchesDump`: `test_cases/test_ssa_name_var.c` and the dump
  `test_ssa_name_var.c.233i.lipta`. All `livein`, `liveout`, `mayin`, `mayout` of
  its eight processed blocks agree.
* `MatchesRecordedRun`: the four functions of
  `src/project/liveness/flow-insensitive-1.lipta`. What it prints last of `mayin`
  and `mayout` agrees block by block and context by context, in the order of the
  lists. Two of the effects described below are to be seen in it: the second
  member of the first context at a return block (`FirstContexts`, below), and a
  context put at the head of the start block's list in the place of another
  block's (`.cpp` 5035).

### The compiler's output

The model was compared with the compiler, built from its sources: for each of the
6082 inputs, written out as specRTL, the text the compiler writes has the
operators, modes and operands of `outFile` in their order. The same holds for
755 more inputs with nested statements, several mode replacements and composite
patterns, for which the properties do not hold.

### Refinement

`Scheduled` is the specification of `Scheduler` with the worklist variables of
`InterLiveness`. The mapping is the identity on `fn_worklist`, `lv_node` and
`process_lv`: a handler maps to a handler that flags what it flags, a step to
another function to that step. A function that calls itself breaks it: its start
block flags the function that is about to be left. `inter_liveness` checks the
refinement; `Implements` (section 4) proves it for every program in which no function
calls itself.

### Fairness

`Terminates` and `Ends` assume weak fairness of the analysis step:
`execute_ipacs`, `compute_liveness` and `compute_pointsto` are calls that run
until they return, and nothing else runs meanwhile. `PtaEnds` assumes the same.
`AFairSpec` (and `XFairSpec`, for programs that never hand over) writes it as "the execution phase is always reached again, or there
are infinitely many steps of `AnalyseAgain`" (`Analyse`), which is weak fairness of an action
that is enabled exactly in the other phases: TLC would otherwise evaluate every
handler once more to decide whether it is enabled.

### Disagreements between code and comments

Each of these has a run that TLC ends with a counterexample:

* `twice`: when liveness is recomputed, a block of several statements may be
  applied to its own OUT. The blocks of `lfcpa` are such that doing them twice
  changes nothing.
* `recursion`: the start block of a recursive function flags a call block of the
  function itself; leaving the function clears its flag, and the block stays
  behind, flagged. What is live in the recursive call's context is then
  missing at the call.
* `handover`: at the end of a function, a context that shares a row is passed
  over when its member is new, which is taken to mean that it has been served.
  Members have been new since the liveness pass.
* `return_block`: what a callee leaves is merged into IN of the return block, but
  the block is not flagged, though the comment says it is. The uses after a call
  in a loop miss what the callee did the second time round.
* `bypass`: points-to looks through blocks with one predecessor, liveness through
  blocks with one successor, so an empty condition is looked through by
  points-to alone and an empty join by liveness alone. What a load below makes
  live is then sent to a block that is not the other end of the edge that
  points-to takes, or a value is cut down by the liveness of a join that is never
  told of more. In both programs a pointer is used whose pointee has been
  dropped. In `lfcpa` both passes look through the same blocks wherever a
  program dereferences (`BypassAgree`); the programs without dereferences, for which
  liveness is never recomputed, have every combination.

* `stale_output`: when an operator of a pattern is not known, `createPattern`
  returns before the string is cleared that the parser writes next
  (`concrete_pattern.cc` 240, 352), and the pattern before is written once more,
  though the string is said to be emptied after printing (`srtl-driver.hh`
  79-83).

For these TLC finds a property violated with the definition named for
`Programs` in the configuration of the run with that property:

* An empty first value at a join is replaced by the second without the undef that
  the comment of `compute_in_confluence` promises (`.cpp` 4225), so a variable
  set on one branch only has a must-pointee: `MustIsDefinite` without its
  condition `ScalarProgram`, with `EntryEmpty` for `Families`. This is why the
  scalar family of `straight_line` starts from an entry value that is not empty,
  and why `JoinOrderIrrelevant` excludes empty values.
* At the return block `ai->cs_index = cpinfo->cs_index` is an assignment (6364).
  It renames the member the search has stopped at; for the first callstring of
  all, whose index is 0, it is false, and a second member of that context is
  inserted without a live set of its own: `UsesSound` with `FirstContexts`.
* Of several mode replacements only the last counts for modes in the tree
  (`concrete_pattern.cc` 266), though each counts for operands and the comment
  (321-324) speaks of all modes of the construct: `OverrideFollowsParent` with
  `TwoModes`.
* A statement for an operand below a child of the root loses the front of its
  path when it is first used; an overriding pattern applies it to another
  operand: `OverrideFollowsParent` with `NestedStatement`. The author of the
  sample `mips.specmd` restates such predicates in each override (81-102).
* A constraint that came by a statement outlasts `allConstraints` of an override,
  because it is applied at printing, though "all" constraints are to be replaced
  (305-308): `OverrideFollowsParent` with `ConstraintKept`. For the same reason
  a mode in the tree wins over the mode of a later pmc statement.

More observations:

* An enumeration is printed with its first element throughout (`list.cc` 341), as
  the samples' are (`ListElements`). Mode iterators have the same loop (288),
  which is not reached: the parser makes code iterators of them (1411).
* A predicate statement at a scratch makes it a `match_operand` with the number it
  does not have (`node.cc` 189), and a scratch without number loses its mode.
* `*a = *b` dereferences `b` once too often (`.cpp` 4009), the value stored
  through a pointer is not made live (6843, 6861), and neither are the second
  and later arguments of a PHI (6797). The families store addresses, and their
  PHIs have addresses as arguments.
* `preprocess_cfg` does not split between a PHI and a dereference that follows
  directly (2748): IN of the block does not keep the pointees of the loaded
  pointer, because the PHI gets them only afterwards. In `PhiFamily` a label is
  between them, or the PHI is of another pointer; `IsSource` demands it. Nor does it split before a dereference that is a component
  reference, since it looks for `MEM_REF` alone.
* `deref_stmt` is a global that is only set by a constraint, so a block may be
  taken for one that dereferences because of a statement long before. That
  costs a recomputation and nothing else (`PrepareAssign` keeps it).
* `modify_lcsmap_at_endblock` tests `new_lvdf` (5766) after its caller has set it
  (5947), so a changed lhs keeps its rhs and `modify_lcsmap_2` is never called.
  The result is less precise for the contexts of the rhs, not wrong:
  `LhsCoversRhs` is what holds. The same happens in `pcsmap` (5872 sets
  `new_ptadf` before it is tested, against the comment at 5576), where
  `PcsmapLhsCovers` is what holds.
* `map_return_value` looks at the first statement of the end block (6323); a label
  before the return statement hides the returned value. `Preprocess` keeps this
  (`ret`), and the checked programs have no such label.
* Two members of one list may have the same context, from the insertion at the
  return block; `ContextsDescend` is therefore not strict.
* The export joins the contexts of a block with `&=` for null (249): null that is
  known in one of several contexts only is lost. Every name takes the value at
  the end of its block (248), so two versions of a symbol in one block get the
  same one, and a pointer whose only use is a copy to a dead variable gets the
  emptied set. `ExportSound` is stated of uses by statements that are no copies.
* The recomputation of liveness with calls misses some of what a dereference
  makes live. The families of `inter_pointsto` are such that it does not matter;
  with the programs named here TLC finds `UsesSound` violated:
  - `regenerate_lv_at_in` and `regenerate_lv_at_out` insert a context that would
    be the first of a block's list into the list of the start block (5035,
    5115), though they are to "Regenerate the LHS at each node of the cfg"
    (5199). Of two calls that share a row of `lcsmap`, come with pointers to
    different targets and load in the callee, the second is then at no OUT in
    between. `Loaded` uses one pointer for both calls.
  - `propagate_liveness_to_callblock` marks OUT of the call block as new, but
    flags the block only if its own live set has grown (6477); it sets
    `set_bb_for_processing_pta`, which nothing reads. What is live after a call
    for another reason, and becomes live in the callee later, is not sent
    there. In `Deep` and `DeepAfter` it is not live after the call before.
  - `propagate_pointsto_to_calledblock` (5846-5894) does not ask whether the
    start block of the callee dereferences, as the handlers ask of successors
    within a function, so liveness is not computed again for a dereference in
    a function's first block. The families dereference in later ones.
* A load into a variable that is not live is no use; `UsesSound` demands nothing
  of it, and the loads of the families are followed by a use.
* A function without a return statement never gets its end block flag (2781).

## 4. Proofs

`TransferProofs` proves lemmas about the operators for all values: what
`Normalize`, `PrependUndef` and `MergePointsTo` keep, that a merge of two
tidy values is tidy, is at least both of them, and commutes. It
builds on them what one constraint, a chain and a whole block do: a block leaves a
normal value normal (`BlockOutValue`); the liveness at IN of a block grows with the
liveness at OUT and with the value at IN (`LiveInGrows`), and does not depend on
the value where nothing is dereferenced (`LiveInSame`). Against `Execution`, the
reference, it shows that a chain keeps a value right for a store, in straight-line code where
all variables count (`ChainSound`) and in a block where the live ones do (`ItemSound`). The loops over constraints
are recursive functions in `Transfer` and `Liveness`; the induction over them, which
the induction theorems of the library cannot be used for, is one lemma (`Loop`):
what holds of the first value and is kept by each round holds at the end. It is
proved from the least round at which it would fail (`WFMin` of
`WellFoundedInduction`).

### Straight-line code

`SoundnessProofs` proves, for every `Var` and `Families` satisfying the
named assumptions (`VarAssumption`, `FamiliesAssumption`):

* `TypeCorrect`: `Spec => []TypeOK`
* `AlwaysNormal`: `Spec => []Normal`
* `JoinsCommute`: `Spec => []JoinOrderIrrelevant`
* `JoinsGrow`: `Spec => JoinLosesNothing`

The invariant is `IInv == TypeOK /\ Normal /\ TidyVal(gen)`. Normality alone is
not inductive: within a PHI the aggregated GEN may hold a pointer whose only
pointee is undef, which is not normal. `TidyVal` is the weaker shape that GEN
has (no empty set; undef beside at most one other pointee), and
`compute_pointsto_out` turns a tidy GEN and a normal IN into a normal OUT,
because it drops the pointers that are only undef. The proof has one step per
action.

It adds the two properties a user of the result relies on:

* `Soundness`: `TypedPrograms(may)` implies `Spec => []Sound`, for every `may`. A
  program is typed when some `may`, from variables to what they may point to,
  is closed under its assignments and has no variable point to itself: levels
  of types, as programs without pointer casts have. The code needs it, since it
  drops a pointer's own address from its pointees. It also excludes `*a = *b`,
  which GIMPLE does not have (and which the code gets wrong, section 3), and
  wants the arguments of a PHI to have one result. (The definitions are in
  `Execution`, the one procedure needs them too.)
* `MustPointees`: `TypedPrograms(may)` implies `Spec => []MustIsDefinite`, which is about
  the families without loads and stores (`ScalarProgram(k)`). No value may
  be empty, because the confluence copies the other one then, without undef
  (section 3); hence a pointer `k` that is initialised before the entry and
  never assigned. Scalars, null, pointer arithmetic and PHIs are left.

`Sound` is not inductive: in the middle of a PHI the execution has done the
assignment and the value of the branch has not. `SoundInv` says where it is
meanwhile, in the aggregated GEN or in the GEN of an argument that is still to
come (`GenInv`), that everything is typed, and that all other variables are sound.
`MustInv` has the same shape for must-pointees. TLC evaluates `TypedPrograms`
for the families of the run (an ASSUME of `MCStraightLine`).

### One procedure

`LfcpaProofs` proves of the two passes, for every set `Programs` of what
`preprocess_cfg` can leave (`ProgramsAssumption`), any number of blocks, and any
variables:

* `Types`: `Spec => []TypeOK`
* `KeepsLive`: `Spec /\ EndReached => []LiveOnly`
* `UpToDate`: `Spec /\ EndReached /\ NoEntryLoop /\ DerefsMarked => []LivenessUpToDate`
* `Covered`: `Spec /\ EndReached /\ NoEntryLoop /\ BypassAgree => []EdgesCovered`
* `SeesIn`: if every program is `PreprocessCfg(fn)` of a function with `IsSource(fn, functions)`,
  then `Spec => []DerefsAtIn`
* `TransfersApplied`: `Spec /\ EndReached /\ TypedCode(may) /\ Repeatable(may) =>
  []TransferApplied`, for every `may`
* `UsesAreSound`: `Spec /\ Supported(may) => [](LoadsLive => UsesSound)`, for every `may`: on
  any path of such a program the analysis knows what a used pointer points to.
  `Supported(may)` is the conjunction of `EndReached`, `NoEntryLoop`, `BypassAgree`,
  `DerefsMarked`, `DerefsUndisturbed`, `TypedCode(may)`, `OthersAreAddresses` and
  `Repeatable(may)`. The code analyses other programs as well, and the theorem says nothing
  of them: with a block that only one pass looks through the result is unsound (run
  `bypass`), and what is assigned from the second argument of a PHI or stored may be lost
  (section 3).

The hypotheses are about the analysed program (`Lfcpa` defines them before its
specification), each one for a place of the code:

* `EndReached`: going backwards from the end block as `propagate_liveness_to_all_preds`
  does, every block that is not looked through is reached; no infinite loops. The
  first liveness pass then makes a context everywhere, and from there on a
  handler finds both of its lists filled.
* `NoEntryLoop`: the start block has no predecessor. Its liveness handler does
  not propagate (6987), and that is all right only then.
* `DerefsMarked`: a block that dereferences has its flag. `preprocess_cfg` sees to
  it where the last constraint of an assignment tells; new values would otherwise leave the liveness as it was.
* `BypassAgree`: both passes look through the same blocks. This is what the code
  does not ensure (run `bypass`), and without it the edges points-to takes are not
  those liveness takes.

* `TypedCode(may)`: the constraints are well typed, as for `Soundness` above; the code drops a
  pointer's own address from its pointees.
* `OthersAreAddresses`: only the first constraint of a chain, when it is no store, assigns
  anything but an address: what the others read is not made live (6797, 6843, 6861).
* `DerefsUndisturbed`: before a block dereferences a pointer it has not assigned it and has
  stored nothing, which is what `preprocess_cfg` splits blocks for (2748). That it does is
  proved (`PreparedUndisturbed`).
* `IsSource(fn, functions)`, of a function before it is split: only assignments with a
  `MEM_REF` dereference, and the constraints of one statement, and the PHIs with the first statement
  behind them, leave alone what the statement dereferences (no block is split between these,
  section 3).
* `Repeatable(may)`: a block that is done twice does what it does when it is done once. When
  a liveness pass has changed what is kept, a block may start from its own OUT (run `twice`).
* `LoadsLive`: the loaded pointer of every load is live at the load, when the analysis is
  over. A load whose result is never used does not make its pointer live, and `UsesSound`
  counts the load as a use. (It speaks of the result, because what is live after a load
  depends on the values; the compiler has removed loads of no use.)

All sources of `lfcpa` are such (`SourcesAssumption` of `MCLfcpa`, which TLC evaluates), and all
programs made from them satisfy the others, but `BypassAgree` only those that dereference:
`MeetsHypotheses` is their conjunction, with types for the families (`MCMay`) and
for the program of the dump (`DumpMay`). It is a state predicate, so TLC decides it when it
is put among the INVARIANTS of `MCLfcpa.cfg`. `Repeatable` ranges over too many values for that;
`RepeatableAssumption` evaluates it on every run, for every block that these programs have
and all typed values of the three pointers whose pointees are undefined or variables; the block of
`TwiceProgram` is not among those it is true of.

The invariants are layers, each of which TLC checked on the programs of `lfcpa`
before it was proved:

* `BaseInv`: while the first liveness pass runs (`First`), no list holds a value, a
  flagged block has liveness to propagate, and what has come to IN has come to
  OUT of the predecessors (`FirstPass`); afterwards there are contexts
  wherever a pass may come (`AllReached`), by `EndReached` with the set of blocks that
  were reached; and a pass returns with no block flagged (`Idle`).
* `LiveInv` adds `LiveOnly` and that IN holds no more liveness than `find_live_vars`
  would make of OUT now (`Grown`). Without that a recomputation might take liveness
  away from a pointer whose value is kept. It is inductive because OUT
  only grows and `LiveInGrows`.
* `FreshInv` says that a block that is not flagged has at IN exactly what
  `find_live_vars` makes of OUT (`Fresh`), and that what is live at IN is live at the
  predecessors (`Passed`). The exception is the list that is IN and OUT
  at once: what comes to it is at IN before the block has been processed.
* `EdgeInv` says of each edge that the value has arrived, or OUT is new and its
  block flagged, or the other end is such a list with liveness still to be passed
  on (`Edge`); and that nothing comes to blocks that are looked through
  (`Skipped`). When liveness at the far end of an edge grows, the near end is among
  the blocks it is propagated to (`BothWays`, where `BypassAgree` is needed), and
  its OUT is made new. A block that is its own successor gains nothing from
  itself because of `LiveOnly` (`SelfLoop`).

* `ValuesInv(may)` says that all values keep to the types and that a value which has not
  arrived is empty.
* `AppliedInv(may)` says that OUT is the transfer of IN, or the block is flagged and
  its IN new (`Applied`). In the first liveness pass everything is new (`NewFirst`). A
  later one flags blocks whose OUT is new and whose IN is not: those start from OUT, and that
  OUT is the transfer of IN afterwards is `Repeatable` (`DoneAgain`).
* `RunInv(may)` puts all layers together with the execution. `Placed` says of an execution
  inside a block that the transfer of IN up to that place is right for the store, of
  everything `LiveIn` says is live there (`SoundFor`). An execution may also be in a block that
  the passes look through, for which nothing is known: there it says that whatever lies
  ahead (`Closed`) is right for the store (`Ahead`), and a recursive search is shown to reach all of
  it (`Saturates`, by the number of blocks it has found; `LiesAhead`). A step inside a
  block is `ItemSound` (`Does`); leaving one is `EdgesCovered` together with `LivenessUpToDate`
  (`Arrives`, `Leaves`); at a use, what is used is live (`UsesLive`). At its first step the store is
  undefined everywhere, and nothing can be wrong (`Begins`).

`SeesIn` needs no layer but the types: it is a fact about `preprocess_cfg`. `GoodCode` is the
code in which nothing disturbs a dereference. `append_to_bb_constraints` keeps it when what is there
leaves alone what comes (`AppendAll`), `SplitState` says that all blocks made so far are such
code, and each kind of statement keeps that (`PrepareStmtIn`): a dereference comes to an empty
block, or to the PHIs alone. The folds are those of instances of `FoldingProofs`, as for the
compiler. `BlockLeaves` then says that the pointees of what is left alone are those at IN.

The handlers are described once, list by list (`LvIntraStep`, `PtaIntraStep`) and block
by block (`LvIntraAt`, `PtaIntraAt`, ...); each layer has a lemma per handler.
The reachability through looked-through blocks (`Through`) is a recursive
function over rounds, and what is needed of it is proved round by round
(`ReachRun`, `ReachShift`).

### The function worklist

`SchedulerProofs` proves of the abstract scheduler, for every set of functions
and every set of blocks, whatever the handlers flag:

* `NothingStranded`: `Spec => []NoStrandedBlock`, a flagged block is in a
  function that is flagged;
* `EndsWithNothingFlagged`: `Spec => []DoneMeansDone`.

`NoStrandedBlock` is not inductive: leaving a function clears its flag, and
nothing said that it is the function whose blocks were looked at, or that others
of the list are flagged. `IInv` adds the type of the list, that the current
position is a flagged node, and that no node is flagged once there is no
current position. Its lemmas say what each operation on the list keeps: flagging
a node, inserting one after the current one, flagging callers, leaving a node.
A function on the list twice is the reason that the proof is about functions
and not about nodes. What each operation keeps is in `FnWorklistProofs`, of any list
over any set of functions, because the liveness pass needs the same lemmas.

### Liveness of calls

`InterLivenessProofs` is about the liveness pass itself, for every set `Programs` of
programs (`ProgramsAssumption`: main has a body, successors and callees exist), any
number of functions, blocks, contexts and variables:

* `Types`: `Spec => []TypeOK`, whatever calls what;
* `Implements`: `Spec /\ NoSelfCalls => Scheduled`, the pass is a `Scheduler`;
* `NotStranded`: `Spec /\ NoSelfCalls => []NoStrandedBlock`;
* `EndsWhenDone`: `Spec /\ NoSelfCalls => []DoneMeansDone`;
* `MapsPartition`: `Spec => []MapPartitionsContexts`, whatever calls what: every context
  of a function is in one row of its callstring map, once, and no two rows have one value;
* `RowsCover`: `Spec => []LhsCoversRhs`: a row's context, the one that is analysed, has
  everything live that the contexts it stands for have.

`NoSelfCalls` says that no function has a call block that calls the function itself;
two functions may well call each other. The boundary is exact: with one function that
calls itself TLC finds a block left behind (run `recursion`), and
of mutual recursion the theorem says that it does not happen.

`TypeOK` is not inductive. A context is an index into the pool of call strings, and
what `propagate_liveness_to_callblock` does to the caller of a context it does to the
block its string begins with. So the invariant (`IInv`) has to say that no string is
empty, that each begins with a call block, that the function of that block
is on the function worklist (`IsPool`), and that the contexts in the lists and in the
map of a function are those of calls to it (`ListsOf`, `IsMap`). The second of
these is why a caller is always found in the list, which `Listed` of the scheduler
demands, and the last is why the functions that are flagged on the way back are
callers of the one that is left, which with `NoSelfCalls` are others.

The proof has one lemma for each operation on lists, maps and contexts, saying that it
keeps their types, and one for each handler (`IntraBlockInv`, ..., `ReturnBlockInv`) that
also says which blocks the handler flags. The refinement then follows handler by handler
(`ScheduledBlock`); a start block is handled only when it is the last flagged one of its
function (`StartIsLast`), because `get_bb_for_lv_processing` takes the last in
reverse postorder. `AddCallers` and `EnterCallees`, the loops over contexts, are
recursive functions, followed round by round (`AddCallersRun`,
`EnterCalleesRun`). That flagging callers one after the other flags the first node of
each (`AddCallersFlags`), in whatever order, is what lets the scheduler do it at once.
`NotStranded` and `EndsWhenDone` are those of `SchedulerProofs` under the mapping.

The maps have an invariant of their own, `MapInv`: rows and list of a function fit each
other (`Fits`). It is about the map after `modify_lcsmap_at_endblock` as a whole, and does not
hold inside: while rows are taken apart and put together again, a context is in no row
or two rows have one value. So there is a lemma for each of its parts that says what it
leaves (`ChangeLhsPartition`, `ChangeRhsPartition`, `PutIntoMapPartition`), and one for the
operation (`ModifyFits`). The other half is that nobody changes what is live at the end of a
function without going through the map: every handler but that of a return block keeps the
values there (`BackEnds`, `IntraBlockMaps`, ...), because the end block is in nobody's list of
predecessors. `ProgramsAssumption` says that with two facts about the graph (`IsBody`): the
end block has no successor, and a call block has one, since `preprocess_cfg` splits a
block behind its call.

### The compiler

`SpecRtlProofs` is about every input (`Programs`), any names, and any operators with a
positive number of children (`BasisAssumption`). `ProgramsAssumption` says what the grammar lets
through: statements of an abstract pattern are for positions and name something, a part instantiates
or overrides, an OUT part instantiates.

* `ExpansionIsComposition`: `Spec => ExpansionComposes`, without further hypotheses: the
  parser puts the statements of what a pattern names below a position, in one list, and
  the tree that `createPattern` makes of that list is the composition of the trees.
* `TreesHaveTheirOperands`: `Spec /\ []KnownOperators /\ []OverridesConcrete /\
  []OperandsGiven /\ AritiesKept => []SrtlTypeOK`
* `TypedTables`: `Spec => []IInv`, the invariant the first one needs.

The hypotheses are about the input, and each is for something the compiler does not check:

* `KnownOperators`: what abstract patterns name is an operator. The parser looks every name up
  and does not look at the answer (`srtl-parser.yy` 877); `createPattern` then returns early, without
  a tree, and what was printed before is written once more.
* `OverridesConcrete`: what is overridden is a concrete pattern. The parser takes whatever the
  name leads to (`srtl-parser.yy` 589, 669), and the cast in `createPattern` goes wrong.
* `OperandsGiven`: an accepted declaration gives as many operands as there are leaves in what it
  instantiates, and none where it overrides. `traverseTree` uses them up one by one and does
  not look whether there are any left.
* `AritiesKept`: no operator is declared again, as an iterator, with another number of children. An
  overriding pattern builds its tree anew, of the operators as they are then, for the operands as
  they were.

All inputs of `spec_rtl` satisfy them: TLC finds the first three to be invariants and
the last one an action property of that run, when they are put into its configuration.

Trees, mode statements and overriding statements are `FoldLeft`s. The provers cannot instantiate a
theorem that has an operator as a parameter, but a module's theorems hold of its instances.
So `FoldingProofs` has the operator as a CONSTANT, and `SpecRtlProofs` an instance for each
of its folds; its lemmas are what a loop needs: an invariant is kept (`FoldKeeps`), a fold over two
sequences is one after the other (`FoldBoth`), two folds in step stay related (`FoldsRelated`). `FoldLeftRun`
reduces the library's definition, over sets of positions, to the results of the beginnings of a
sequence; the induction is over a set (`InductionOnSet`).

`BuildBelow` is the core of the first theorem: to build below a position is to build and put
the result there, whatever the statements replace meanwhile (`ReplaceNodeWithin`); the two folds are
related by the set of pairs of a tree and the bigger tree with it in that place. `InlineMeans` follows the
statements of a declaration (`FlattenRun`). The invariant `IInv` says that names
lead to objects and that an abstract pattern's first statement is for its root. `TreesHaveTheirOperands`
needs besides that every part has been made over an abstract pattern that is an older object
(`Parents`), which also holds for the abstract patterns the parser makes for operators
(`HeapIs`); `SameShape` says that mode and operand statements leave the nodes where they are,
and `Sizes` that a tree has as many leaves as operands. Overriding is where that might fail: the
tree is built anew, so `TreeOfKept` says on which entries of the table of operators a tree depends.

### Model-checked only

* `MatchesDump` of `Lfcpa`, which is about one program, and that `Preprocess` makes programs
  that meet the hypothesis `DerefsMarked`.
* Of `InterLiveness` that the result is a solution (`BlocksSolved`, `CallsSolved`), and that
  live sets only grow (`FlaggedByGrowth`). When a context leaves a row, what was merged into
  its representative is regenerated for it, and that overwrites what the context had at IN of the start
  block; that it overwrites it with more follows from what a least solution is, not from the step.
* `InterPointsTo`, `InterRecompute` and `SsaExport`. Their invariants are not inductive for
  programs outside the families, and for reasons that are in the code: `regenerate_lv_at_in` (5035)
  puts a context at the head of the list of another block, and the assignment in the place of
  a comparison at return blocks renames a context, so that one may be missing in
  a list. The string of a context that is missing is read all the same. What would have to be
  assumed is that this does not happen, which is what the invariants say.
* `NumbersDistinct` and `OverrideFollowsParent` of `SpecRtl`: both count the leaves to the left
  of a position, and the second compares folds over trees with folds over what they are printed as.
* `Terminates`, `Ends` and `PtaEnds`: liveness under fairness, which the prover does
  not handle.

The folds over sets are evaluated by TLC only; the other loops the proofs are
about are the loop of `StraightLine`, one action per argument, and recursive functions
(`PhiGen`, `LiveTop`, `BlockOut`).

## 5. Not modelled, and the plan

Not modelled, with the reason:

* function pointers (`.cpp` 5980-6140): they add call edges while the points-to
  pass runs, so the set of callees of a call block, and with it every callstring
  map, grows during the analysis, which none of the modules allow yet;
* recursion in the points-to pass and in the recomputation: the liveness pass leaves a flagged block
  behind (run `recursion`), and what it misses is missing there;
* constraint generation from GIMPLE expressions, fields of structures and heap
  variables: the cases of one large syntax tree walk without state to check;
  statements come with their constraints;
* `mark_live_at_endblock` (3736-3820), stores through a pointer to a local
  variable of another function: the analysed programs' uses after the end of a
  function are those of its return statement, and pointers to pointers point to
  globals;
* several SSA names of one symbol, and `restore_cfg`, which leaves the merging of
  the split blocks to GCC's `cleanup_tree_cfg`;
* dumps, and the memory management of the pools;
* the C version and the earlier versions of the plugin, which are copies of the
  same functions with small differences (eight of them make up most of the
  lines of the repository); the spim machine descriptions, which are data. The
  modules cover the analysis itself in the one version that is current, so the
  share of the repository's lines they stand for is small;
* of the specRTL compiler: the scanner and the generated parser; operators with a
  variable number of children, and the brackets they need among the operands;
  constraints, predicates, attributes and reservations, whose text is passed on;
  statistics and dot files; overrides of an OUT part, at which the compiler
  aborts (`srtl-parser.yy` 783), and whose statements would be looked up among
  those of the IN part (`concrete_pattern.cc` 147, 160, 178); composite patterns that instantiate a concrete
  name, which is undefined behaviour (654).

In `InterLiveness`, `InterPointsTo` and `InterRecompute` main is not called, a call block contains
nothing but the call and the assignments of its arguments, a return block has
one predecessor, as `preprocess_cfg` leaves them, and the start block has no
predecessor (in the code its liveness handler does not propagate to any, `.cpp`
6987).

Next, in order:

1. Function pointers: callees that a call block gets while the points-to pass runs.
2. An abstract specification of flow-sensitive points-to analysis (the
   largest-information fixpoint without liveness) that the result of `Lfcpa`,
   restricted to live pointers, is below.
3. Proofs: `EndReached` from paths in the graph, `BlocksSolved` from the fact that what is kept
   is never more than the least solution, and the points-to pass for programs in which
   no context is renamed and none is put into another block's list.
4. The secondary pattern kinds of specRTL, and operators with brackets.
