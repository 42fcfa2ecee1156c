# Verification of ext-folding in TLA+

ext-folding is an extension of ABC. It *folds* a combinational circuit with
`nTimeFrame * nPi` inputs into a sequential circuit (or an FSM) with `nPi`
inputs: the inputs of frame `t` are read in clock cycle `t`, every output of the
original circuit is shown in one frame on one output pin (its *slot*), and after
`nTimeFrame` cycles the next batch of inputs may follow. This directory holds
TLA+ models of the folding algorithms, of the FSM minimiser and the encoders around them,
the TLC runs that check the models and the TLAPS proofs about them.

## 1. Inventory

The program is a set of single-threaded ABC commands. There are no threads,
messages or persistent state; a command runs to its end, or an assertion fails.
What is hard is therefore not scheduling but *long sequences of small, dependent
steps over shared mutable tables*: copies that are overwritten, latches that
change hands, slots and permutations filled by index arithmetic, hash tables
whose order of iteration nobody controls, and the sequential circuit that is
built, which runs for ever and must not be disturbed by what a batch leaves
behind.

| component (directory) | state it keeps | operations | what makes it correct | hard parts |
|---|---|---|---|---|
| `stru_fold` (`timeMux4/aigMux4.cpp`) | `que`, `vMap` (AND node -> the fanin reached first), `pCopy` of every object, the latches and their inputs, `poInfos`, `oPerm` | `initQue`, `processQue`, `storeInLats`, `storeInLats2`/`storeInIthLat`, `buildPoFuncs`, `checkEqv` | every output in the earliest frame that knows its support, in a slot of its own; the folded circuit computes the original outputs in every batch; no more latches than needed with `-m` | a latch is reused for another object while its old inputs stay in the OR; "already stored" is read off the copy; entries of `vMap` outlive a frame |
| `stru_fold -p`, `-i` (`timeMux4/perm.cpp`) | `iPerm`, `invPerm` | `permPi`, `parseInfo`, `readInfo` | both are permutations, inverse to each other | partial permutations are completed by a moving position |
| `time_mux3` (`timeMux3`) | ring latches, storage latches | `buildLatchTransWithTime`, `buildPiStorage`, `buildPoFuncs`, `checkEqv` | the last frame sees the whole batch | box numbers computed in two places |
| `func_fold` scheduling (`timeMux2/reord.cpp`) | `sIdx`, `slots`, `oPerm`, `iPerm`, `nPo` | `schedulePO`, `schedulePI`, `reordPO` | an output is shown no earlier than its inputs are read; fewest pins; permutations legal | unsigned arithmetic on slots, retry with one more pin, reordering by CUDD |
| `func_fold` folding (`timeMux2/bddMux2.cpp`, `checkEqv2.cpp`, `reord2.cpp`) | BDD of the hyper-function, state tables per frame, STG | `bddMux2`, `extendPerm`, `checkEqv` | one state per residual function; the FSM is deterministic and complete | states are identified by cutting one BDD that encodes many functions |
| `time_fold` (`timeFold/bddFold.cpp`) | as above | `bddFold`, `buildTrans` | as above | as above |
| `time_mux` (`timeMux`) | as above, cut from the first frame on | `bddMux`, `buildTrans`, `checkEqv` | as above | don't-care transitions |
| `time_cas` (`timeFold/timeCas.cpp`) | `yVec`, copies | `timeCas` | a reset between frames cuts the history | triangular index arithmetic |
| `utils` | `STG::transs`, permutations of circuits | `addOneTrans`, `write`, `bddComputeSign`, `bddDot`, `aigToComb`, `aigPermCi/Co`, `aigCone` | see above | in-place permutation |
| `memin` (`memin/`) | transition lists, incompatibility matrix, CNF, classes | `parseKISSFile`, `removeUnreachableStates`, `computeIncompMatrix`, `splitTransitions`, `buildCNF`, `buildMachine` | the result is a smallest closed cover of the machine | recursive closure while the matrix changes, compaction of the state vector under the loop, input splitting with a growing queue |
| `kiss_to_blif` (`misc/kissToBlif.cpp`, `natEnc.cpp`, `oneHotEnc.cpp`) | `state_list`, one cover per net | `natEnc`, `oneHotEnc` | the circuit answers every word the machine has a transition for | two passes over the file with different views of it; a state named late |
| other commands (`misc/`) | the current network | `rand_perm_io`, `cmerge`, `rcone`, `icone`, `to_comb`, `build_voter`, `build_parity`, `construct_dummy`, `sys` | a command replaces the network as it says or leaves it alone | index arithmetic, circuits whose latches a command forgets |
| minisat, ABC, CUDD | - | external | - | not part of this project |

Interactions. The structural commands share the ring counter
(`timeMux3::buildLatchTransWithTime`) and hand an AIG and `oPerm` to `checkEqv`,
which unrolls the folded circuit over `nTimeFrame` frames and compares it with
the original. `func_fold` calls `reordIO`, then folds with `timeFold::buildTrans`
along `iPerm` and `oPerm`; its FSM goes through a KISS file to `memin`, from
there to `kiss_to_blif`, and `checkEqv` compares the result. The commands share nothing but
the current network of ABC and the files.

## 2. Modules

| module | models | kind |
|---|---|---|
| `FoldedCircuit` | what any folded circuit promises: a slot per output, and in every cycle the right value on the pin of every output of that frame, for every way the batch may still continue | abstract specification |
| `GivenMachine` | what a machine promises that may replace an incompletely specified one | abstract specification |
| `Aig` | strashed AIGs of ABC as the code reads them | operators (external) |
| `AigUtils` | `utils/aigUtils.cpp`: expansion, permutations, cones, merges of circuits as functions | operators |
| `FrameRing` | `buildLatchTransWithTime` | operators |
| `StructuralFold` | what both structural folds share: the netlist, the ring, the inputs of the batch, the pins | state |
| `StruFold` | `timeMux4/aigMux4.cpp` | state machine, implements `FoldedCircuit` |
| `NaiveFold` | `timeMux3/aigMux3.cpp` | state machine, implements `FoldedCircuit` |
| `PinSchedule` | `timeMux2/reord.cpp` | state machine |
| `STG` | `utils/stg.cpp`, the BDD helpers, the machine a KISS file of a fold describes, its expansion | state and actions of both functional folds |
| `BddFold` | `timeFold/bddFold.cpp`, `timeMux2/bddMux2.cpp`, `timeMux2/checkEqv2.cpp` | state machine over `STG`, implements `FoldedCircuit` |
| `BddMux` | `timeMux/bddMux.cpp`, `timeMux/checkEqv.cpp` | state machine over `STG`, implements `FoldedCircuit` |
| `TimeCas` | `timeFold/timeCas.cpp` | operators |
| `InputPerm` | `timeMux4/perm.cpp` | operators |
| `Commands` | sessions of the commands in `misc/`, of `time_cas` and of `stru_fold -p`/`-i` | state machine |
| `IncSpecSeq`, `Machine` | `memin/IncSpecSeq.h`; incompletely specified Mealy machines and the theory of their minimisation | operators |
| `MeMinState` | what the steps of `memin` share | state |
| `RemoveUnreachable`, `Incompat`, `SplitTransitions` | the steps of `memin/minimizer.cpp` before the search | actions |
| `Preparation` | the three steps one after the other | composition |
| `Memin` | `Preparation`, then the search, `DIMACSWriter.cpp`, `MachineBuilder.cpp` | composition, implements `GivenMachine` |
| `KissFile` | `memin/KISSParser.cpp`, `writeKISSFile` | state and actions |
| `KissToBlif` | `KissFile`, then `misc/natEnc.cpp` or `misc/oneHotEnc.cpp` | composition, implements `GivenMachine` |
| `MC*` | instances for TLC | |
| `NumberLemmas` | numbers `frame * n + item`, growing sets, recursion over numbers | proofs |
| `STG_proofs` | words, state tables, cubes, signatures | proofs |
| `StructuralFold_proofs` (both structural folds), `PinSchedule_proofs`, `BddFold_proofs`, `BddMux_proofs`, `Memin_proofs`, `Misc_proofs` (`KissToBlif` and `Commands`) | invariants and refinements of these modules | proofs |

`FoldedCircuit` is implemented four times, by circuits that have nothing in common: two netlists
with a ring counter and two machines given as transition tables. `GivenMachine` is implemented
by the minimised machine of `Memin` and by the encoded circuit of `KissToBlif`.

### StruFold

One action per step of `buildTM`: `InitQue` (`initQue`), `Visit(o)` (one round of
the loop of `processQue`), `Store` (`storeInLats`, or `storeInLats2` with
`storeInIthLat` when `mff` is set), `BuildPoFuncs`; then `Clock`, one cycle of the
circuit that was built, as `checkEqv` unrolls it.

* An object of the folded circuit is its structure (`[op |-> "and", args |-> ...]`);
  structural hashing thus is equality, and `AigAnd` applies the trivial rules of
  `Abc_AigAnd`. Functions of latch inputs and output pins are not hashed but kept as
  the list of what was ORed to them (`lats`, `poInfos`); `LatFunc` and `PoFunc` are
  the formulas the code builds from them.
* The traversal stack is a set: the code pops the object pushed last, but the order
  in which fanouts were pushed follows the order of the input file, so any object
  may be next. The model allows all orders.
* `storeInLats*` iterate over an `unordered_set` of pointers, so which object gets
  which latch is left open (a bijection onto the latches the code would use).

### NaiveFold

`aigStrMux` has no intermediate states worth telling apart, so it is one action;
`Clock` evaluates the latch and output functions that `buildPiStorage` and
`buildPoFuncs` build.

### PinSchedule

`Grow` is the head of the `do` loop of `schedulePO`; `PlaceNext`, `SkipToFrame` and
`GiveUp` are the three ways an iteration of its `for` loop ends; `SchedulePI`,
`ReordPI` and `ReordPO` follow in the order `reordIO` calls them for the
configurations 0 to 3. `std::sort` may order outputs with equally large supports in
any way, so `Init` takes any sorted order. CUDD's reordering of a group is any
permutation of the group; the scores of `reordPO` decide only which of the
permutations within a frame is taken, so any is allowed. `-1` in `slots` is `None`.
The float division in line 84 is exact for all sizes at issue (fewer than 2^24
inputs) and is modelled as an integer ceiling.

### STG, BddFold, BddMux

`bddFold` and `bddMux2` are the same loop, from the last frame to the first; they differ in
where the slot of an output comes from, which is part of the circuit here (`oPerm`; the identity
for `bddFold`). `bddMux` goes from the first frame to the last and shows outputs in the last one
only. The actions of both: `Cut` enumerates the states of a frame, `FindPath` is the head of
the outer loop of `buildTrans`, `AddTrans` one iteration of its inner loop with the
whole loop of `STG::addOneTrans`, `NextState` and `NextFrame` the ends of the loops, `CheckEqv`
the comparison of option `-c` with the expansion of the machine.

* A BDD is canonical, so it is the function it stands for: a state is the set of words that
  lead to it, and the nodes under a cut are the different values of `Hyper`. Signature
  codes stay numbers: `Sign` is what makes a cube of `G` fix every output.
* The path CUDD picks for a state is any word in it, and the cubes it picks are any way to
  take `G` apart into cubes with constant codes, which a path of a BDD with the code
  variables below the inputs always is.
* The order of a hash table is one fixed order (`Listed`); the numbers in the state names come
  from it.
* With `-r` of `time_mux` CUDD may reorder the inputs while the BDD is built; the model chooses
  the order that is left in the end at the start. A don't-care output (a frame before the last)
  takes one value for all in the equivalence check, as in the code.
* `Clock` and `ResetMachine` run the machine that the KISS file describes, from `.r` to `*`. A
  bit `-` is any value. `*` is no state one may rely on, so a batch ends with a reset; no
  property is claimed of a machine that goes on without one.

### Commands

A state is the current network, what the latest command was called with (`done`) and whether
the session goes on. Every command either replaces the network (`Replace`), prints its usage and
leaves it alone (`Refuse`), or fails an assertion (`Abort`), with the conditions in the order in
which the code has them; `stru_fold` ends a session because its fold has a module of its own. A
circuit is what it computes, so the copies along `pCopy` are functions. `cmerge` merges
one file into the current network, `Reads` gives the functional support where the code takes the
structural one of a circuit it has just swept, and `std::sort` orders equal keys in any way.

### Memin

`RemoveUnreachable`: `Visit` is one round of the worklist loop; `Keep` and `Fill` are the rounds
of the compaction loop, whose bound is the size of the vector it shrinks; `Remap` renames.
`Incompat`: `Compare` is the body of the loop over pairs, `Propagate` one step of
`propagateIncompStates`: a mark and the recursive call it makes at once. Which call is at work is
left open: `calls` holds the active ones, and a call returns (`Return`) when nothing is left for
it. The code's depth-first order is one of the orders allowed. `SplitTransitions`:
`StartClass`, `GrowClass`, `EndClass` for the classes, `Collect`, `Split`, `EndSplit` for
`getDisjointInputSet`, where the queue of remaining inputs grows while it is worked off, and
`FillTable`. `Memin` adds `Sort`, `TakeState` (`findPairwiseIncStates`), `StartSearch`,
`Solve` (one round of the loop around the solver; the clauses of `buildCNF` are the conjuncts of
`Models`, the reduced alphabet of `computeReducedInputAlphabet` is `Columns`) and `BuildMachine`;
`Clock` then runs the given and the new machine side by side. The solver returns any assignment that
satisfies the clauses. `NoState` is -1, as in the code.

### KissToBlif

`ParseReset`, `ParseRow`, `ParseEnd` are `parseKISSFile`, which numbers states as their names
appear and copies the rows of `*` to the others; `Choose` takes the given file or the
one `writeKISSFile` makes of the parsed machine; `ReadLine` is the first pass of the encoder over
the file, `Encode` builds the covers of all nets, with open outputs as 0 or as 1, and `PowerUp` and `Clock` run
the circuit next to the machine of the given file.

## 3. Properties

Refinement is the main property. `ImplementsFold` of `StruFold`, `BddFold` and
`BddMux` and `NaiveImplementsFold` of `NaiveFold` say that the folded circuit does what `FoldedCircuit` promises, for an unbounded
number of batches - `checkEqv` in the code unrolls one. Values must be right for
*every* completion of the batch, which is what makes an output that is scheduled too early an
error. `ImplementsGiven` of `Memin` and `KissToBlif` says that, from the reset state on and as long as the
given machine has a transition for every input, the new machine shows every output bit that is
specified.

The other properties say why, and each belongs to a hazard in `PROJECT.json`:

| module | property | what could go wrong |
|---|---|---|
| `StruFold` | `EarliestFrame` | entries of `vMap` outlive a frame; an object waits too long |
| | `PermLegal` | two outputs on one slot |
| | `OneLoadPerFrame` | a latch that changes hands is loaded with two values in one frame |
| | `NoMoreLatsThanNeeded` | `-m` adds a latch while one is free |
| `NaiveFold` | `RingCountsFrames`, `StoreKeepsBatch` | a storage latch loses its value before the last frame |
| `PinSchedule` | `NextSlotExists`, `PermLegal`, `ReadBeforeShown` | the walk runs out of slots; an output is shown before it is known |
| | `LeastPins` | giving up too early costs a pin |
| `BddFold` | `StatesPartition`, `OneTransition` | words that are in no state or two; a machine that stops or has a choice |
| | `Minimal`, `StatesCounted` | states that differ in name only; a wrong header |
| `BddFold`, `BddMux` | `CheckAgrees` | the check undoes a permutation the wrong way round |
| `Preparation` | `ReachablePartRenamed` | the vector shrinks under the loop, renaming is chained |
| | `MarkedIsPropagated`, `MatrixCorrect` | a mark that was not propagated before the recursion returned |
| | `TableCorrect` | a word in two pieces or none |
| `Memin` | `SuccessorsFound` | the program gives up, or the new machine lacks a transition |
| | `Smallest` | fixed classes exclude a smaller cover |
| `KissFile` | `ParsedAsWritten` | rows of `*` before a state is known; the reset state named late |
| `Commands` | `CascadeResets`, `VoterCounts`, `MergedApart`, `InputsPlaced` | triangular indices; latches of merged circuits; partial permutations |
| | `ConeInRange` | violated, see below |

Termination is stated by `FoldingEnds`, `SchedulingEnds`, `FoldEnds`, `PreparationEnds` and
`SearchEnds`.

Fairness. Only these need it: weak fairness of the command's own steps
(`Build` of `StruFold`, `Folding` of `BddFold`, `Next` of `PinSchedule` and `Preparation`, the
preparation and `Search` of `Memin`). It holds because a command is a single thread that nothing
blocks. The clock of a folded circuit or a new machine is not assumed to tick.

**A disagreement in the code.** `icone` compares its indices with the number of inputs
(`misc/icone.cpp:45-49`) and then calls `aigCone`, which takes the cone of outputs and asserts that they are
indices of outputs (`utils/aigUtils.cpp:18-19`). Run `cone` shows a session of two commands that ends with
that assertion: `ConeInRange` is expected to be violated.

## 4. Runs and bounds

| run | instance | what it shows |
|---|---|---|
| `stru_small` | 3 frames, 1 pin, all strashed circuits with two ANDs over three inputs and a second output on any object | the traversal, slots, refinement and termination, with and without `-m` |
| `stru_long` | 4 frames, 1 pin, three ANDs, three outputs | latches that are held, freed and taken again |
| `naive_three` | 3 frames of 2 pins | ring, storage, refinement |
| `pins_deep` | 3 frames, 1 pin, 3 outputs, every choice of supports | retries, skipping, least number of pins, termination |
| `fold_three` | 3 frames, 1 pin each way, every function of the first two frames in frame 1, 32 functions of all three in frame 2 | states, minimality, refinement, termination |
| `fold_wide` | 2 frames, 2 pins each way, 3 outputs, one slot empty, inputs and outputs moved | every way to list transitions as cubes, determinism and completeness, the check of `-c`, refinement |
| `mux` | 3 frames, 1 pin, 2 outputs, every order `-r` may leave | refinement, the check of `-c` |
| `prepare` | `NIn` 2, `NOut` 1, machines of three and four states (102 499 states) | the steps of `memin` before the search, termination |
| `memin` | `NIn` 1, `NOut` 1, machines of three and four states, all options (53 140 states) | the search, its minimality, the new machine at work, termination |
| `kiss` | files of up to four rows, in every order of the rows | parsing, both encodings, direct and through `memin`'s writer |
| `commands` | sessions of three commands on three circuits, at most 8 inputs | every command that changes the network |
| `cone` | sessions of two commands | `ConeInRange` fails |

No run bounds the number of batches or the time a machine runs: the state holds the frame
within a batch and the inputs of the current batch only, so the reachable states are finite.
`MaxCi`, `MaxPermuted` and `MaxCommands` of `Commands` bound the sizes of circuits, of
permutations that are enumerated and of sessions.

* Two AND nodes are enough for every case of one `Visit`/`Store` (fanin reached first or
  second, fanout waiting, PO on a shared driver, on an input, on the constant); three nodes and
  four frames are needed, and enough, for a latch to be freed and taken by another
  object while a third one is held. Both polarities of an edge occur.
* For the schedule, three outputs over three frames reach every branch, including two retries
  in a row.
* For the STG three frames are needed for a frame with both a frame before and one after it;
  `fold_three` meets all sizes of the state tables up to four, frames without outputs, and
  machines whose states differ only two frames later. `fold_wide` adds cubes with
  more than one input and several outputs per state.
* The machines of `prepare` come in three families: four states with every choice of successors for the
  reset states 0 and 2 (gaps anywhere, the reset state itself moved), conflicts that travel back
  over transitions, and inputs that overlap in every way (equal, contained, crossing).
  Those of `memin` need one, two and three classes. For one of them (`Open`) the lower bound is
  not enough: the search fails and goes on with one class more, with `-nl` it does so for all.
* In `commands` three commands are the least for expansion, `time_cas` and one command after
  it; machines have one and two latches, with both initial values.

`CHECK_DEADLOCK FALSE` stands in the runs whose system really stops: `prepare` (its last step is
not followed by the search), `memin` and `kiss` (a machine that has no transition for
the inputs that may come), `commands` and `cone` (sessions are bounded, an assertion ends one).

All circuits of the structural folds have distinct AND nodes with two distinct non-constant fanins:
that is what `Abc_NtkStrash` guarantees, and `IsStrashed` is assumed of the constant `Circuits`.

## 5. Proofs

All proofs are checked by `tlapm` with Z3, Zenon and, for the temporal steps, LS4. They
hold for every value of the constants that meets the named assumptions:

* `NTimeFrameAssumption`, `STGAssumption`: a fold has at least one frame;
* `StructuralFoldAssumption`: every circuit is a strashed AIG over the inputs of all frames,
  what both commands get from `Abc_NtkStrash`;
* `PinScheduleAssumption`: at least one frame, which option `-t` enforces, and a circuit with at
  least one input per frame and one output;
* the assumptions of `BddFold` and `BddMux` on `Circuits`: every input and output has a place of
  its own, outputs are finitely many and numbered from 0 as ABC numbers them, an output has no place before its
  inputs (`BddFold`; this is what `ReadBeforeShown` and `PermLegal` of `PinSchedule` give); some output can be 1 (`BddMux`; `bddMux.cpp:434` leaves no state otherwise);
* `FilesAssumption`: a file has at most one line that names the reset state;
* `KissToBlifAssumption`: of the rows that apply to one state, those of `*` included, at most one
  matches an input word - the machines are deterministic;
* `CommandsAssumption`: what is read is a circuit (`IsCircuit`: inputs, outputs and latches numbered from 0, every
  output and next value a function of all inputs and latches), numbers typed are integers, and what `-i` reads is a
  part (`IsPart`: its inputs are different ones, the permutation of its fold is one);
* `MachinesAssumption`: numbers of input and output bits, states numbered from 0, at most one
  transition per input word.

### NumberLemmas

Number `f * n + i` is item `i` of frame `f`: division, remainder and range; the code
numbers input pins, storage latches and output slots in this way. Functions defined by recursion
over `0 .. n` exist and satisfy their equations. A set that grows inside a finite one is closed after as many
steps as that has elements (`IterationCloses`), which makes the `Reachable` and `Distinguishable`
that TLC computes least fixed points. `CountedExists` is the same for functions whose value at `t` is computed from the
one at `t - 1`, the runs of circuits over frames.

### NaiveFold

The inductive invariant `NaiveIInv` is `TypeOK /\ RingCountsFrames /\ StoreKeepsBatch`.
No part is inductive alone: whether a storage latch loads depends on the ring, so
`StoreKeepsBatch` needs `RingCountsFrames`, and that the ring's successor is the next frame
needs the range of `cycle`. `TypeCorrect`, `RingCorrect`, `StoreCorrect` are the three parts;
`NaiveImplements` is the refinement of `FoldedCircuit`: a clock cycle of the netlist shows
`NaivePoFunc`, which by `StoreCorrect` evaluates the circuit on the inputs read in this
batch, so it is the abstract cycle; building the netlist maps to the initial state.

### StruFold

Copies are overwritten at the end of a frame, when what waits moves into latches, so the state
alone does not say what an object of the folded circuit is for. The invariant keeps that in a
ghost: `\E D : Meaning(D)`, where `D` is a set of triples `<<f, m, o>>`, in the cycle of frame `f`
object `m` of the folded circuit has the value of object `o` of the given one. Every step that builds adds
triples and takes none away. Around it stand `Shape` (types), `InputsReached`, `WaitsForOther` (an AND
node in `vMap` waits for the fanin that is not reached), `PosOnce` and `OneLoadPerFrame`; for
the circuit at work, `RingCounts` and `BatchRead`, and `Running` says that a latch
that stands for an object in this cycle holds its value. The values and supports of objects, recursive functions in
`Aig`, are shown to satisfy their equations by the well-foundedness of the numbering of objects.

`OutputsAreEarly`, `LatchesLoadedOnce`, `SlotsOfOutputs` are `EarliestFrame`, `OneLoadPerFrame` and
`PermLegal`; `LatchesNeeded` is the action property `NoMoreLatsThanNeeded`; `Implements` is the refinement.

### PinSchedule

The inductive invariant `IInv` has six parts, each restricted to the
phases (`pc`) in which the code relies on it:

* `TypeInv` - types, with `nPo <= NCo` and `NCo <= nPo * NTimeFrame`. That `GiveUp` keeps
  `nPo <= NCo` (`FailsBelowMax`) is the reason why the `do` loop of `schedulePO` has at most
  `NCo` attempts: by `PlaceInv`, `Skipped(f) = f * nPo - i`, at most `Cap` when `nPo = NCo`.
* `PlaceInv` - `ct1 * nPo + ct2 = i + cnt`, the occupied slots lie before that position, and
  they hold exactly the outputs `sIdx[0 .. i-1]`. `CountRight` is its first line and
  `NextSlotExists` follows since an output is left.
* `UniqueInv` - no output has two slots. It needs `PlaceInv` (the output placed was not placed
  before) and gives, with `OutInv`, `PermLegal`.
* `EarlyInv` - the outputs of frames `0 .. f` depend on at most `(f + 1) * NPi` inputs
  altogether. This is the heart of the greedy walk: an output enters frame `f` only if the
  union of all supports so far fits, and every later one enters at or after it.
* `OutInv` - `oPerm` is the inverse of `slots`.
* `InInv` - `iPerm` is a permutation, and inputs of the output in slot `s` have
  positions below `(FrameOf(s) + 1) * NPi`. It follows from `EarlyInv` when `schedulePI` numbers the
  inputs: `Before` is a strict total order (`BeforeTotal`, `BeforeTransitive`), so counting
  predecessors is a permutation (`RankIsPermutation`), and an input needed by frame `f` has
  all its predecessors among the inputs needed by frame `f` (`RankBelow`). It is stated per slot,
  not per output, so that the swaps of `reordPO`, which keep a slot's frame, preserve it.

`ReadInTime` is `InInv` at `s = oPerm[k]`; `OwnPins` adds that `iPerm` is injective and that
two positions of one frame with the same remainder are equal.

`PinsLeast` says that the greedy walk gives up only what is impossible. When an attempt with `n` pins ends
early, the outputs left over from some position `a` of the sorted order on are more than the slots from the
earliest frame of output `a` to the last (`TooFew(n)`): the invariant `LeastInv` collects this for
every number of pins given up. Earliest frames only grow along the order (`FrameForMonotone`), so in any schedule
all those outputs would need a frame of that range, and `n` per frame are not enough (`ItemsPerFrame`).
Conversely the schedule found is one that `LeastPins` speaks about (`FoundSpreads`).

### STG, BddFold, BddMux

`STG_proofs` holds the lemmas both folds need: words, their prefixes and continuations (`Ext`), that the tables
`Listed` makes partition the words, that cubes taken from a guard stay in it, that signatures
of different outputs differ, what the run of a machine over a word is (`RunIs`), and what the helpers of
`aigUtils.cpp` do to a circuit of functions (`CombOf`, `ConeOf`, `PermCiOf`, `PermCoOf`, `FramesOf`).

`BddFold`: `Tables` says that the states of the current frame partition the words before
it and that two words of one state agree (`Agree`) for every way to go on; the tables of the frames done are
overwritten, but the transitions already listed name their states, so the invariant keeps them in
a ghost: `\E W : History(W)`, where `W` gives the words of every state named so far. Its parts:

* `Right` - every transition listed leads from words of one state to words of the other and shows the outputs
  of any of them; `Complete` and `Current` - the states that `buildTrans` is done with have exactly one
  transition per input, the one at work has them for the next states it is done with. Counting gives
  `OneTransitionHolds`; `StatesPartitionHolds` is a part of `Tables`.
* `Reached` - the machine is in the state that holds the word read; with `Right` this is `Implements`.
* `Told` - the states are counted (`StatesCountedHolds`), and two words of different states of a frame are told
  apart by an output of the frame or by the states that follow. By induction over the frames, from the last one
  backwards, such states answer some continuation differently (`StatesApart`): `MinimalHolds`.
* `CheckAgreesHolds`: from the reset state the machine runs through the states that hold the prefixes of the word
  (`RunShows`), so the expansion over the frames, whose outputs `aigPermCo` moves back and of which `aigCone`
  drops the free slots, is the function of every output (`FramesShow`, `CheckFinds`).

`BddMux` has the same argument in the other direction, with `Alike` (the same residual hyper-function)
in place of `Agree`. Here only some input needs a transition where outputs are open, so `Complete` says
`Taken`: there is one. For its equivalence check `MovedValue` follows a word through the
permutation of the inputs: the word that the expansion reads is the one that `perm` sends back to the word
of the circuit.

### memin

`Memin_proofs` has one invariant per step, and each is carried unchanged through the later
ones.

* `RemoveInv`: while the states are visited, `ReachInv` - those seen are reachable, and
  successors of those that left the worklist are seen. During the compaction, `CompactInv` - every reachable
  state is either still in its old place, at or behind `pos`, or placed in front of `pos`; the numbers given
  are injective and leave no gap below `pos`. This is why the renaming needs no second
  pass although the loop's bound moves. Then `SettledInv` - what is left is deterministic and a renaming
  of the reachable part. Gives `ReachableKept`.
* `MatrixInv`: marks are symmetric pairs of distinguishable states, every pair compared so far whose
  outputs conflict is marked, active calls are for marked pairs, and a marked pair whose predecessors are not
  all marked has an active call. Gives `MarksPropagated`, and when no call is left the marks are closed, so by
  leastness they are all distinguishable pairs: `MatrixExact`.
* `SplitInv`: pieces are disjoint (`Apart`), and every word of an input of the class lies in a piece or in
  a remaining input that is part of that input (`Covered`). `IntersectFacts`, `DiffFacts`,
  `ReplaceByParts` and `CutKeeps` say what one cut does to both. When the queue is empty every
  transition is the union of its pieces: `TableExact`.

When the preparation ends, these invariants give `Ready`: the machine is the given one under new numbers
(`Now` translates; without a reset state it is untouched, `KeptInv`), the matrix is exact, and every class of
states with common inputs has an exact table (`GroupInv` keeps which states these classes hold).
The search only reads what `Ready` speaks about, so it stays. `SearchInv` then is:

* the states of `findPairwiseIncStates` are marked with one another (`Pairwise`), so in any closed cover they lie in
  different classes (`ClassesApart`) and it has at least that many (`LowerBound`);
* no closed cover has fewer classes than are tried (`NoCover`). When the solver finds no assignment, there is no
  closed cover of that size: the classes of one can be numbered so that the pairwise
  incompatible states come first (`NumberClasses`), and the numbering satisfies every clause, those that the code
  adds to fix states and leave out classes included (`CoverIsModel`). This is `FewestClasses`;
* when it finds one, `Solved`: classes hold only states that are not marked, every class has a
  successor class for every column, also where clauses were left out, since a successor that is one of the fixed
  states has its class (`SuccessorTaken`). This is `SuccessorsTaken`;
* when it runs, the new machine is `Built` from these classes and its state is a class of the state of the given
  one. Outputs of unmarked states do not conflict pairwise, which is enough for the common
  output that `buildMachine` folds together (`FoldJoins`), and a word is answered by the entry of its column
  (`BuiltAnswers`): `MeMinImplementsGiven`.

### KissFile

`ParseInv`: while the file is read, the names of the lines read have the numbers from 0 on (`IsNumbering`; `NumberKeeps`:
a new name takes the next one and moves no other), every state has the rows read for it (`GrownIs`: when the vector grows,
new places are empty), the rows of `*` are kept apart, and the reset state is `ResetOf` the lines read. `RowResets` is the case
that is easy to get wrong: a row may bring two new states, and the one with the smaller number becomes the reset
state only if no line and no earlier row gave one. `ParsedRight` follows when the rows of `*` are handed out.

### KissToBlif

`CircuitImplementsGiven`: the circuit of `kiss_to_blif` implements `GivenMachine`, the machine of the file that was given
first. The argument has four parts:

* the file encoded has the given machine under other names (`SameMachine`). If it went through `parseKISSFile` and
  `writeKISSFile`, the states are their numbers, rows of `*` are spelled out (`WrittenIsSame`, which rests on `ParseInv`);
  otherwise it is the file itself (`FileIsSame`). Each row of the file encoded comes from one row and one state it applies to;
* codes tell states apart (`CodesDiffer`). The list of states has every name once (`Lists`, `ShownGrows`), so no state has
  two places in it. Places are told apart by their bits: halving as often as the width says ends at 0
  (`HalvingEnds`, `HalvedMonotone`, `BitsEnough`), and two numbers whose halvings end at 0 with the same remainders are equal
  (`BitsDiffer`). With one latch per state, the list must not be longer than there are latches (`ListFits`);
* a net is 1 exactly when the row of the state and the word is in its cover (`NetShows`): a cover holds the codes of its
  rows, and no other row applies;
* `EncodeInv` joins these: once the circuit is at work, its latches hold the code of the state that the given machine is in.
  Without the list being complete before `Encode` and the names being told apart, it is not inductive.

### Commands

The properties speak of the latest command only, but two of them need more than it: `time_cas` is given a network that
`frames` made, and every command relies on what was read or made before being a circuit. `SessionInv` says, while
commands are given, that the current network and the one it replaced are circuits and that the current one is what
the latest command makes of its arguments (`Made`); for a `time_cas` after `frames` it also says of what machine the
network before was the expansion, which is why `done.arg` keeps the command before. TLC agrees on the instance of `commands`.
Each command keeps it because its operator makes circuits of circuits. The four theorems rest on one lemma each:

* `VoterVotes` - in the expansion of the sequential voter latch `l` is 1 after a frame exactly when more than `l` ones were read
  (`VoterRuns`), so the last output is a comparison of the number of ones with `VoterLatches`;
* `MergeApart` - two circuits sit in the merged one with their latches and outputs in ranges of their own (`SitsIn`), and
  a circuit that sits in another goes through the states it goes through alone (`PartRuns`, `PartShows`);
* `CascadeShows` - `Offset` is where the outputs of a copy start in the flattened `yVec` (`OffsetIs`, `Segment`), so `Selected` picks
  the copy of the last reset before the frame (`SelectedIs`); that copy, through `pCopy` (`CopyShows`), reads the inputs from
  its start on (`CopySees`), so it is in the state in which the machine with resets is (`CopyRuns`);
* `SupportPlaces` and `PartPlaces` - `permPi` counts predecessors in a total order, hence is a permutation (`RankBijection`), and
  an input is in the round of the first output that has it (`RoundIs`); `readInfo` places the inputs of the part injectively
  (`KidPlaces`) and fills the places that are left in order, which are as many as the other inputs (`ReadInfoPlaces`).

### Only model-checked

All safety properties of the passing runs are proved. What is left to TLC:

* The liveness properties (`FoldingEnds`, `SchedulingEnds`, `FoldEnds`, `PreparationEnds`, `SearchEnds`): the
  prover does not handle fairness.

## 6. Not modelled

* ABC, CUDD, MiniSat: external or vendored. What the code relies on is stated in `Aig`, `AigUtils` and in the
  comments at the definitions marked external in `PROJECT.json`; the SAT solver is "any assignment that
  satisfies the clauses, or none if there is none".
* Command-line parsing, file output, logging (`timeLogger`), naming of objects, `sys` (a shell).
* `timeMux2/reord2.cpp`: constants for single benchmarks. `utils/fileWrite.cpp`: superseded by
  `STG::write`. `timeMux/bddMux.cpp` 87-344: the older way to build the BDDs, superseded. The AIG mode of
  `time_mux` is not implemented in the source.
* Inputs outside the assumptions: circuits without outputs (`reord.cpp:104`), fewer inputs than frames, a reset
  state without a row in `natEnc` (`natEnc.cpp:136`), headers without `.r` there (`natEnc.cpp:38`, which
  reads on past the header), 0 frames in `time_cas` (`timeCas.cpp:139`), a hyper-function that is constant 0
  (`bddMux.cpp:434`), `cmerge` without anything to merge. Numbers of states so large that variables of the CNF
  overflow (`DIMACSWriter.cpp`) are out of reach.

## 7. Plan

Done, in this order: `FoldedCircuit`, `StruFold`, `NaiveFold`, `PinSchedule`, `BddFold` with the
proofs of the naive fold and the schedule; then `STG` as a part of its own, `BddMux`, the chain of
`memin`, `KissFile` and `KissToBlif`, `Commands` with `TimeCas` and `InputPerm`; then the proofs of
`StruFold`, `BddFold`, `BddMux`, of `memin` with its search, of the parser, of the encodings and
of the commands.

What is left is liveness, which the prover cannot handle, and what section 6 lists.
