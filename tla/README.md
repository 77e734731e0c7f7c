# A verification development of veripp

veripp checks C and C++ functions with the bounded model checker ESBMC. It
generates a harness for a function, runs ESBMC on it, and, in a loop that may
consult an LLM, widens the search, explains counterexamples and tries
preconditions. Whole files are scanned function by function, and verdicts are
cached. The tool's promise is that the LLM proposes and the solver decides:
whatever the sequence of refinements, retries, edits and crashes, "verified"
means verified.

These TLA+ modules model the control of that program. TLC checks them on small
instances, and TLAPS proves the central safety properties for all values of the
constants.

## 1. Inventory

Paths are relative to `src/src/veripp/`.

| component | state it keeps | operations | what is hard | what makes it correct |
|---|---|---|---|---|
| verify loop (`agent.py`) | source, configuration, preconditions, two escalation ladders, attempts, last diagnosis, the context a report quotes | run, triage, look past an artifact, regenerate under a precondition, escalate, take LLM invariants, probe, report | a long sequence of legal steps; state updated in different places; LLM answers are arbitrary | a proof is genuine and not vacuous; a report describes its own run; the loop ends |
| checker interface (`esbmc.py`) | none between runs | build the command line, run, classify the transcript | one transcript may list genuine and unwinding violations | nothing that failed is called verified |
| triage (`triage.py`) | what its questions have concluded so far | recognise artifacts mechanically; ask an LLM to classify, to explain and to propose a precondition | a file location is all that tells the harness from the code; the second or third question may fail after the first | the harness's failures are not findings, the code's are; a triage that fails excuses nothing |
| LLM clients (`llm.py`) | the requests of a call | choose a client, ask, ask again without a token cap, read the reply | may fail or answer anything; a refused cap looks like any failure | never decides a verdict; sends source code only to a model that was named |
| scan (`scan.py`) | the table of results, three counters | a parallel first pass, a retry pass, a triage pass | passes overwrite one another's results field by field; budgets; exceptions in mid-pass | each result is sound whichever passes wrote it; answers are not undone |
| verdict cache (`cache.py`, `cli.py`) | entries on disk, a memo of checker digests | key, get, put, whether an entry serves a request | concurrent processes, death in mid-write, inputs that change | what is served was found on the inputs it is served for |
| baseline (`baseline.py`) | accepted findings on disk | load, save, split, stale | rewritten in place while others read it, replaced and not amended | no finding is discounted that nobody accepted, and an accepted one does not fail |
| command line (`cli.py`) | the harness, the scratch directory and the report of a run | verify, harness, scan of a file, a tree or what changed, accept, exit codes | a run may end at a dozen places; a file skipped on an exception; a tree that changes during a scan | the exit code says what was found, in all that was to be scanned; nothing is left behind |
| checker installation (`checker.py`, `esbmc.py`) | the staging area, the installed release, the memo of probe results | download, check, extract, probe, move into place, probe again after a proof | interruption between two moves, leavings of earlier attempts, a memo without a lock | what is installed has passed the probes and is one release; a proof by an unsound checker says so |
| MCP server (`mcp.py`) | none between requests | a request loop over stdio, each tool a command run within the server's process | lines that are no requests; commands that end by a return, by `SystemExit` or by any exception | one answer per request, in order; every request answered |
| harness generation (`harness.py`) | the harness so far, a stack of structs being filled | parameters, buffers with lengths, cursors, objects and what they point to, preconditions, the call | recursion over types that refer to each other; what must come before what; simplifications at a dozen places | the harness compiles, no buffer is shorter than its count, every simplification is told |
| signature parser (`cppsig.py`), compile database (`compdb.py`) | none | text to data | brackets, which entry applies | refuses what it cannot read |
| reports (`sarif.py`, `repro.py`, `term.py`) | none | formatting | - | - |

How they interact: `verify` builds a **harness**, lets the **verify loop**
conclude and turns its report into an exit code; the **MCP server** does the same
for a client. For a scan, the command line asks the **cache**; on a miss it runs the
**scan**, whose workers call **harness generation** and the **checker
interface**; its second and third pass call the **verify loop**, which calls
the checker, **triage** and an **LLM client**. The result goes back into the
cache, through the **baseline** and into an exit code. Every run of ESBMC takes
the checker it finds, which may be the one **checker installation** has put in
place; after a proof, `verify` asks whether that one misses planted bugs.

The hazards of this code, each at the line where it bites, are listed in
`PROJECT.json`; sections 3 and 4 say which property is aimed at which.

## 2. Modules

| module | models | uses |
|---|---|---|
| `Checker` | one run of ESBMC, `parse_output`, the reachability probe, which failures are the harness's | |
| `CheckerProofs` | lemmas about those operators | `Checker` |
| `AgentAnswer` | what a caller can rely on in an `AgentReport` | `Checker` |
| `SoundVerdict` | abstract specification: a question that may be narrowed, and one answer | `Checker` |
| `AgentLoop` | `verify_with_agent`, implements `SoundVerdict`, keeps `AgentAnswer` | `AgentAnswer` |
| `AgentLoopProofs` | its invariant and theorems | `AgentLoop`, `CheckerProofs` |
| `ScanPasses` | `scan`, its three passes, the report and exit code | `AgentAnswer` |
| `ScanPassesProofs` | its invariant and theorems | `ScanPasses`, `CheckerProofs` |
| `VerdictCache` | keys, `get`, `put`, `_cache_serves`, over a file system | |
| `VerdictCacheProofs` | its invariant and theorems | `VerdictCache` |
| `CheckerInstall` | `install`, `find_esbmc`, `check_soundness` and its memo | |
| `CheckerInstallProofs` | its invariant and theorems | `CheckerInstall` |
| `TreeScan` | `_scan_tree`, `_scan`, `changed_sources`, `_accept`, `Baseline` | |
| `TreeScanProofs` | its invariant and theorems | `TreeScan` |
| `TriageCall` | `triage_counterexample`, its questions and the requests they take | `AgentAnswer` |
| `VerifyCommand` | `veripp verify` and `veripp harness`, from the arguments to the exit code | `TriageCall` |
| `McpServer` | `serve`, `handle`, `call_tool`, with the commands run inside it | `VerifyCommand` |
| `McpServerProofs` | its invariant and theorems | `McpServer` |
| `ObjectHarness` | `_emit_object`, `_fill_fields` and what they call | |
| `FunctionHarness` | `generate`: the harness of one function | `ObjectHarness` |
| `FunctionHarnessProofs` | that the recursion over types is bounded | `FunctionHarness` |
| `MCAgentLoop`, `MCScanPasses`, `MCVerdictCache`, `MCCheckerInstall`, `MCTreeScan`, `MCMcpServer`, `MCFunctionHarness` | values for TLC | |

The composition of loop and scan is by contract: `AgentLoop` is shown to return
only replies in `verify_with_agent(w, offline)` of `AgentAnswer`
(`KeepsPromise`, checked and proved), and `ScanPasses` lets the loop return any
of them. A property of the scan therefore holds for any loop that keeps the
promise, and the two state spaces need not be multiplied. `VerifyCommand` takes
the loop in the same way, and `TriageCall` closes the contract at its other end:
`AgentLoop` lets a triage conclude anything in `Conclusions` of `AgentAnswer`, and
`TriageIsConservative` (checked and proved) says that a triage, taken question by
question and request by request, concludes nothing else.

### Checker

ESBMC is external. A `World` is the truth about one function: what fails in
its harness under n proposed preconditions (`fails[n]`), and whether the end of
the harness can be reached (`ends[n]`). Preconditions only remove executions, so
both only shrink. `Transcript` is the set of things ESBMC may print about a
program in which exactly F fails: it may always give up, it says SUCCESSFUL
only if F is empty, and a FAILED run lists one failure, or with
`--multi-property` all of them, or some of them beside an unwinding assertion.
That each FAILED run comes with a block that `_parse_properties` can read is assumed
(`Violated`); of one without, the code makes a counterexample without a property.
`parse_output`, `violated_property`, `mechanical_artifact`, `real_failures` and
`probe_reachability` are translated from the source on top of that. A property
is one of six kinds: the code's bug, an artifact known by its description, an
assertion an LLM inserted, the probe's own, an unwinding assertion of the code,
and one of a loop in the generated harness. The last exists only when the
constant `HarnessLoops` is TRUE. `harness.py` does generate loops
(for example at lines 1681, 2126 and 3149), bounded by `--max-array-len`; with
the default bounds they fit into the unwind bound, and the constant says whether
that is so.

### AgentLoop

`stage` is where the body of the `while` loop is, and each action is the code
from one call of the checker or the LLM to the next: `RunChecker`, `Triage`,
`LookInVain`, `FindRealFailure`, `FindOnlyArtifacts`, `Regenerate`,
`EscalateTimeout`, `EscalateUnwind`, `TakeInvariants` and the ways to end in a
report or an exception. The variables carry the names of the locals. A
`VerifyResult` carries, beyond the code's fields, the program it was obtained
on, so that a report can be compared with the run it speaks of. The LLM is a
set of possible answers, failure included; `Offline` makes it the `NullLLM`.
Which textual edits `_not_just_assertions` lets through is abstracted to "only
assertions were added" or not. Wall time may run out between any two attempts.

### ScanPasses

`results` is the table of `FunctionResult`s; `phase` says which pass is
writing, and `todo` what it has still to do. `Attempt` is `one()` with its
`attempt()`; workers take functions in any order, and each fills in its own
entry. `RetrySettles`, `RetryInVain`, `TooDear` and `BudgetSpent` are the ways
through `_retry_pass`; `Triage` and `TriageFails` those through `_triage_pass`.
`Report` builds the buckets and the
exit code from what the table holds.

### VerdictCache

The file system is modelled as far as `put` depends on it: a path names an
inode, opening for writing truncates it, an open inode survives its name, a move
replaces what the target names. All writers of one key use the same `.tmp` path,
so two of them may write into one inode, and leave one body or a mixture of
two, which does not parse. A process may die at any step.

### CheckerInstall

A release is a set of files, and a directory maps each file name to the release
the file in it comes from, so that a mixture of two can be told from either.
`archive` and `unpacked` are the staging area, `bin` the installed checker, `memo` the
file of probe results, by the bytes of the checker. An installer goes through
`Download` (of any bytes, against the pin there may be), `Unpack`, `Extract` (file by
file), the check, `Judge`, `Remove` and `Move` (file by file again), and may die
anywhere; what it leaves in the staging area is what the next attempt finds. `AskMemo`, `RunProbes`, `Recall` and
`Publish` are `check_soundness`, shared by the installer, by `verify` after
a proof, which asks the memo first, and by `doctor`. A `verify` looks for the
checker twice, in `Verify` and in `FindAgain`, and an installation may replace the
checker between the two, or at any other moment; a `scan` (`ScanProves`) does not
ask. `replaced` is a history variable: that the installed checker has changed since
the verification that is about to look for it again has run it. No guard reads it. All writers of the memo share one temporary path: what `Published` allows
is summarised from the file system `VerdictCache` models in full.

`Sound` is the set of releases that reject every planted bug, which is what the
probes find out; that such a checker is right about other programs is not
claimed.

### TreeScan

Processes scan and accept, beside a developer who edits (`Edit`) and commits
(`Commit`). `work` and `head` map files to the findings they contribute; a
source's findings are its own and those of the headers it includes, each with
the file it fails in, because the SARIF report goes by that file and the baseline
by the source scanned. A scan lists its sources (`Start`), takes them one by one
(`ScanSource`, or `SkipSource` on an exception), and reads the baseline three
times (`WriteSarif`, `ApplyBaseline`, `BaselineNote`), each time at the mercy of
an acceptance that is rewriting it (`Truncate`, `Write`). `accept` of a directory
is refused by `main()` (`Refused`). `decided`, `fresh` and `steady` are history
variables for the properties, and no guard reads them. A scan and an acceptance of
one state of the files are taken to find the same (`Occurring`), although a timeout
or a spent budget may make either find less. Only
comparisons with HEAD are modelled, not those with a ref, and not `--only`; the
root given is taken to be the repository (`.`), so that `SKIP_DIRS` above it
matter to `changed_sources`, which resolves its paths, and not to
`discover_sources`, which does not.

### TriageCall

`question` is what the triage is about to be told, `posts` which requests that
took. An endpoint (external) is the set of things it may do: answer, refuse the
token cap, fail, or answer what nothing here can read. `PostRefused` asks once
more without the cap; `PostFails` ends the triage, whatever was concluded before;
`PostRaises` is what neither `_post` nor the triage catches. A reply is its lines,
and a line is the word, expression or prose it is; `last_label` and
`expression_from` read them as the code does.

### VerifyCommand

`step` is the next thing `main` or `_verify` does, and the variables are its
locals: the client, the scratch directory, the report, the broken preconditions,
what is on stdout, the exit code. Every action that may end the run does so by an
exit code or by an exception (`Uncaught`), and `leave` is the `finally` clause.
argparse ends it too, with the usage error's code or, for `--help`, with 0.
Of the loop only the report is taken, one of `verify_with_agent(w, offline)`;
where a client is asked, the last of its triages is taken step by step.

### McpServer

A session (external) is the lines a client sends, and each action deals with one:
`Ignore`, `RefuseMessage`, `Respond`, `RefuseCall`, `call_tool`, and `Die` for what
`handle` and `argv_for` take for granted. `Work` is a step of the command, which
runs in the server's process; `AnswerExit` and `AnswerException` answer it.
The same commands are run from a shell (`RunFromShell`), so that one module says
what their exit codes are worth.

### ObjectHarness and FunctionHarness

A harness is a C program, modelled as the sequence `code` of statements that
declare, fill, point, assume and call; `said` is what its recorded assumptions
mention. `frames` is the stack of calls of `_fill_fields`, innermost first, and each
of its branches is an action (`FillCounted`, `FollowPointer`, `CutPointer`,
`FillNested`...). `stage` and `at` say which of the passes of `generate` over the
parameters is at which of them. What naming conventions tell of a name (that it is
a length, what it counts) is given with the field or parameter: the model is about
what is done with that. Names that the harness makes up by joining others are
kept as words, since two of them may meet. A pairing of a pointer with a count is
chosen among several that would do, because the code iterates over a set of
strings, whose order differs from run to run; which sibling is the buffer of a
length is chosen where the code takes the first of a list. What has been followed
is recorded by the type's name, where the code records the type as it is spelled
(`FollowPointer`); no property depends on either.

## 3. Runs

| run | checks | distinct states | result |
|---|---|---|---|
| `agent_loop` | nine properties of `AgentLoop` | 769,743 | passes |
| `agent_insertion` | `FailedInsertionReported` | | violated |
| `agent_unwinding` | `GenuineProof` with `HarnessLoops` | | violated |
| `agent_exhausted` | `ExhaustedBoundIsNoBug` | | violated |
| `cache_interleaved` | `TypeOK`, `ServedVerdictIsCurrent` | 4,296,564 | passes |
| `scan_passes` | seven properties of `ScanPasses` | 66,420 | passes |
| `scan_vacuous` | `UnprovedIsNoPass` | | violated |
| `checker_install` | six properties of `CheckerInstall` | 7,591,156 | passes |
| `tree_scan` | four properties of `TreeScan` | 3,032,398 | passes |
| `command` | seven properties of `McpServer` | 167,493 | passes |
| `harness` | five properties of `FunctionHarness` | 731,152 | passes |
| `harness_unsaid` | `EverySimplificationSaid` | | violated |

What the passing runs show:

- `GenuineProof`, `DeliversPromise`, `KeepsPromise`: however preconditions,
  escalations, artifacts and LLM edits follow upon one another, a verified
  report is a proof about the function under the preconditions it lists, and is
  not vacuous.
- `ClaimDescribesProgram`, `HonestCounterexample`: a report that makes a claim
  names the program that was run, what it shows fails there, and its diagnosis is
  of that failure. The exception is named in the property and refuted by the run
  `agent_exhausted`: behind an artifact that was looked past, an exhausted bound is
  shown as a counterexample.
- `PreconditionAnswersCounterexample`: a precondition is never added on the
  strength of an artifact's or an older failure's diagnosis.
- `AttemptsBounded`, `LoopEnds`: the attempt budget may be overrun by two, and
  the loop ends.
- `ResultsAreProofs`, `FindingsAreFailures`, `TerminationOfProofs`: a table
  that three passes have written into field by field is still true, of the functions
  as they were asked about; a finding may be an exhausted bound only where the
  retry pass was handed that same exception by the loop.
- `ConditionsComeFromTriage`, `OneBucketEach`, `AnswersAreKept`: the retry pass
  leaves no conditional proof, each function is counted once, and a later pass
  never undoes an answer.
- `ServedVerdictIsCurrent`: sharing temporary files, truncation and crashes
  cannot make the cache serve a verdict for other inputs.
- `NothingUnprobed`, `OneRelease`, `FailureKeepsChecker`: whatever earlier
  attempts have left and wherever one dies, what is installed has passed the
  probes, is of one release, and gives way only to a release that has passed.
- `MemoIsTrue`, `NoSilentUnsoundness`: what the memo says of a checker is true
  of its bytes, and a proof by an unsound checker says so, unless the installed
  checker was changed between the run and the question.
- `OnlyDecidedIsDiscounted`, `CleanAfterAccept`: a baseline that is torn, rewritten
  while it is read, or of another file never lets a finding pass that nobody has
  accepted, and what was accepted as it is does not fail.
- `ChangedIsScanned`: a passing scan of what changed has looked at every source
  that differs from HEAD, new ones included, or skipped it with a message, and the
  files so skipped are exempt.

- `ExitZeroIsProof`: `verify` exits 0 only for a genuine proof that was probed and
  that no caller breaks, or for the help that was asked for, which prints no report,
  whether a shell or an MCP client asked.
- `NothingLeftBehind`, `NothingUnaskedIsSent`: however a command ends, scratch
  directories go and no report names a harness that is gone; source code goes to no
  model that nobody named, whatever keys are in the environment.
- `TriageIsConservative`: a triage that fails half way through surfaces the bug.
- `AnsweredInOrder`, `EveryRequestAnswered`: each request has one answer, in order,
  and every well-formed one gets it, whatever its command does.
- `NamesResolve`, `CountsFit`: a harness mentions only what it has declared, and never
  calls with a count of more elements than there are, whatever order fields and
  parameters come in.
- `PointersBounded`, `OnlyCountsGoUnsaid`: types that refer to each other are followed
  up to the depth bound; and one kind of simplification, of counts, goes unsaid, and
  no other.

The violated ones are disagreements between the code and what its comments and
README say; `PROJECT.json` quotes both sides of each. In short: a failing LLM
assertion passes for an artifact; so does a loop of the harness that was cut off at
the bound; an exhausted bound of the code, listed behind an artifact, is reported as a
counterexample; a vacuous scan exits 0; a harness fixes a counted pointer to a struct,
buildable or not, at null and its count at 0 without telling anyone.

### Disagreements known without a run

Found while modelling, from the code alone or by running the function concerned:

- `changed_sources` resolves each path and passes it over when any part of it, the
  directories above the repository included, is dotted or in `SKIP_DIRS`
  (`cli.py:936`): in a repository below a directory called `build`, `scan --changed`
  finds nothing and exits 0, although "missing a changed file means a check that
  silently passed on unverified code" (`tests/test_scan_changed.py:4-6`). With
  `SkippedAbove = TRUE` in `TreeScan.cfg`, TLC refutes `ChangedIsScanned`;
- a literal like `010` at a call site makes `verify` end in a traceback: `_c_literal`
  passes it to `int(..., 0)`, which raises `ValueError` (`triage.py:604`). It is one of
  the exceptions `CheckCallers` may raise;
- an inconclusive report can name a newer harness than the one its result is from
  (`agent.py:783`);
- `scan` does not ask whether its checker misses planted bugs (`cli.py:1608`), and
  a directory cannot be accepted (`cli.py:428`), though messages tell one to;
- the MCP server says `verified` of exit code 0 of `harness`, which verifies nothing,
  and of a `--help` among a client's extra arguments, as no error (`mcp.py:31`-`266`);
- two storage names meet where one struct has fields `p.q` and `p_q`
  (`harness.py:3174`); a struct that is already being filled is left uninitialised
  (`harness.py:2984`); a mask that meets a count fixed at 0 leaves no execution;
- the harness of a C call sequence refers to stubs it does not define
  (`harness.py:2068`-`2320`);
- a compile database written for another tree is matched by the longest common tail
  of the paths (`compdb.py:145`): in a tree mounted at `/src`, `main.c` gets the flags
  of `src/main.c`, and a file in no database those of its namesake. Where its `file`
  is relative with `..`, or the tree lies inside the old one, include paths are left
  behind or moved twice (`compdb.py:173`);
- a scan counts a bound that cut off a harness's own loop both as a harness artifact
  and as inconclusive (`scan.py:171`, `scan.py:653`), which is why
  `ScanCountsEachOnce` assumes there is none;
- `inferred_invariants` asks whether an array that another one indexes is paired with
  a count, and not what it is an array of (`harness.py:2846`): where one struct indexes
  `cells` by `hashes` and another has fields of these names, of which the first is
  `void *`, the harness of the other loops over `cells_items`, which it does not declare;
- `-U` of the build comes after `-D` of the command line, and after the build's own
  later `-D` (`cli.py:1753`).

### Bounds

- `MaxRounds = 2` (the default is 2) and `MaxAttempts = 6` (what a scan uses)
  for the loop: enough for both rounds to be used and then for either ladder to
  be climbed to its end. The unwind ladder has three rungs and the timeout
  ladder one, as in the code. `agent_loop` runs for every `World`, with both
  configurations the program starts a loop with. The violation runs need five
  attempts and one configuration.
- Unwind bounds are counted in steps of the ladder, since only their order
  matters: an unwind of n stands for the configured bound times 4^n. The ladder
  bounds it.
- Scan: two functions are enough for the passes to treat them differently, seven
  kinds of function represent the truths the report tells apart, one
  precondition round, every combination of passes. `SYMMETRY` swaps the two
  functions, which nothing distinguishes.
- Cache: two processes, two versions of the inputs, four inodes (one for each
  key's entry and temporary file, which is the most that can be in use).
  Processes and inodes are interchangeable. Each version leaves work for one of
  the two passes.
- Checker: three releases, one unsound, one sound of two files and one sound of
  the checker alone, so that a mixture can arise; one installer, restarted at
  will, which is what the theorems assume; one verifier, which may also be
  `scan` or `doctor`, with the unsound release as what is on PATH.
- Tree: two sources that share a header, one finding, two edits (`MaxEdits`), which
  are enough to write the second source, change the header and take either back;
  two processes, both of which accept and one of which scans.
- Command and server: sessions of two lines, at most one of them a call of a command
  that may do anything, so that what follows or precedes it is seen; three
  functions (safe, failing unless a precondition saves it, never reached), four
  environments, and three endpoints: one that answers, one that refuses caps and
  one that does anything. `MaxRounds = 1`, as only the report counts here.
- Harness: `MaxStructDepth = 2` and `MaxArrayLen = 2`: a pointer is followed, followed
  again, and cut. Either every struct of three fields of the kinds listed (around
  pointers, counts, cursors, arrays, nested structs that refer to each other) for
  one signature, or every signature and every wish for a few sources, each with all
  sixteen options: what a parameter is does not interact with what a struct holds.
  Names are of one word, since joined names may meet, see above.
- `CHECK_DEADLOCK FALSE` where it is used: the loop and the scan stop in
  `done`, `report` or `raised`, the server when its input closes, the generator
  when it is done.

### Fairness

Two properties need any. `LoopEnds` needs weak fairness of the loop's whole next
step: the loop is one thread, and each call it waits for, of ESBMC or of an LLM, has
a timeout of its own, so it does take its next step. `EveryRequestAnswered` needs
the same of the server, which is one thread too, reads lines that are there, and
runs commands whose calls have timeouts. Nothing is assumed about which step is
taken. `FunctionHarness` states the same fairness (the generator is a function call)
and no property relies on it. The other modules have no liveness property, and no
fairness.

## 4. What is proved

`tlapm` checks every leaf. The theorems, with what they assume beyond the
constants' own assumptions:

- `AgentLoopProofs`: `TypesCorrect`, `ClaimsDescribeTheirProgram`,
  `CounterexamplesAreHonest`, `PromiseIsKept`, `AttemptsAreBounded`,
  `PreconditionsAnswerCounterexamples`; and, assuming `~HarnessLoops`,
  `ProofsAreGenuine` and `LoopDeliversPromise` (the loop implements
  `SoundVerdict`, steps and stuttering included). Without the assumption these
  are false, as the run `agent_unwinding` shows. The proofs hold for any budget,
  any number of rounds, any set of worlds and configurations.
  `CounterexamplesAreHonest` leaves one thing open that the run `agent_exhausted`
  shows the code does: a counterexample may be an exhausted bound of the code where an
  artifact was looked past (`Showable`).
- `ScanPassesProofs`: `ScanTypesCorrect`, `ScanFindingsAreFailures`,
  `ScanConditionsComeFromTriage`, `ScanTerminationOfProofs`,
  `ScanAnswersAreKept`, and, assuming `~HarnessLoops`, `ScanProofsAreGenuine` and
  `ScanCountsEachOnce`, for any finite set of functions. Without the assumption both
  are false: a bound that cuts off a loop of the harness is taken for an artifact,
  and counted as one and as inconclusive. `ScanFindingsAreFailures` has the loop's one
  exception: a finding may be an exhausted bound of a function that also has an artifact.
- `VerdictCacheProofs`: `ServedVerdictsAreCurrent` and `CacheTypesCorrect`, for
  any number of processes, inputs and inodes, assuming `~EditsDuringScan`. Without
  it the first is false: an edit between the key and the scan stores the edited
  inputs' verdict under the old key, and reverting the edit serves it.
- `CheckerInstallProofs`: `InstallTypesCorrect`, `OnlyProbedIsInstalled`,
  `InstalledIsOneRelease`, `RememberedPassesAreTrue`, `UnsoundnessIsSaid`,
  `FailuresKeepTheChecker`, for any releases, layouts, pins and any number of
  verifiers, assuming `Alone`: one installer at most. Nothing in the code enforces it,
  and with two TLC refutes `NothingUnprobed` (they share the staging area). The one
  installer may replace the checker at any moment of any verification.
- `TreeScanProofs`: `TreeTypesCorrect`, `OnlyAcceptedPasses`,
  `AcceptedDoesNotFail`, and, assuming `~SkippedAbove`, `ChangesAreScanned`, for
  any number of processes, sources and headers. Without the assumption the last is
  false, as the first of the disagreements above says.
- `McpServerProofs`: `ServerTypesCorrect`, `PassesAreProofs`, `ScratchIsRemoved`,
  `OnlyAskedIsSent`, `TriagesAreConservative`, `AnswersAreInOrder`, for any functions,
  sessions, command lines, environments, endpoints and replies; nothing is
  assumed. `PassesAreProofs` leaves exit code 0 without a proof to `--help`. What a report is worth comes with it, as the loop's promise.
- `FunctionHarnessProofs`: `DepthIsBounded` and `HarnessTypes`, for any types, however
  they refer to each other, any signatures and any bound; and, assuming
  `IndexedArraysAreScalars`, `SilenceIsAboutCounts` and `NamesDeclaredFirst`. That
  assumption is about the sources: where the code goes through one array by the indices
  in another, every struct's field of the first one's name is an array there. Without
  it the harness has a loop over what it did not declare, as the disagreement above says.
  Assuming also `MembersDistinct`, `CountsHold`: `CountsFit`, as long as no name is
  declared twice. Members have distinct names in any C source, and a struct that has
  one twice in the branches of an `#if` is refused (`cppsig.py:980`). TLC evaluates
  both assumptions on the run's sources, one of which has arrays that index.
- `CheckerProofs`: the lemmas the first two rest on: what a classified
  transcript says about the program (`AnswerIsSound`) and what the probe says
  (`ProbeIsSound`).

The arguments:

- **Loop.** That a report is true cannot be shown from the report's fields:
  what makes it true is that the loop's locals agree with one another when
  the report is built. The invariant `IInv` therefore says, for each stage, of
  which program the result is, that the program was made under exactly the
  preconditions in force, and that the diagnosis is of the result at hand.
  `CheckerProofs` supplies what an outcome says about the program; one lemma per
  action shows that the agreement is kept.
- **Scan.** `Sound(w, r)` says all that is true of a result, and for each pass
  one lemma shows that it makes a sound result of a sound one. `IInv` adds what a
  pass may presume of what it has still to do (`Chosen`), that a result is
  there as soon as the first pass has dealt with the function (`Dealt`),
  and a count of the retries against the names left (`Counts`), from which the
  bound on `retried` follows.
- **Cache.** The inode of an entry holds a payload about the entry's own key, or
  nothing that parses. That is inductive only together with the same fact about
  every inode a writer has open and every temporary path, since these are
  what a later move publishes.
- **Checker.** The probes are run on files that other steps may change. `IInv`
  says, for each step of an installer, that what the probes were asked about is still
  what is at hand (`InstallerInv`); and of a verifier, that the checker of its proof is
  sound, or still where it was found, or has been replaced before it was looked for
  again (`VerifierInv`, `Accounted`). What takes the place of an installed checker is
  sound itself, so a key and a probe of two installed checkers do not mislead the memo
  (`CheckInv`). `Owes(p)` collects what one step of one
  process has to preserve, one lemma per action shows that it does, and
  `OwedIsEnough` that this suffices for everybody else.
- **Tree.** A scan passes on what a baseline read at one moment says of findings
  made at others. `ProcInv(p)` says of each process that what it found is still what
  the sources hold as long as nothing has moved, and that what it let pass was
  accepted; `BaselineInv` that a baseline that parses holds only what was accepted.
  What was accepted only grows, so a step of one process spares every other
  (`SparedKeepInvariant`), torn and interleaved baselines included.

- **Command and server.** What an exit code is worth is decided several steps before
  it is returned. `AnswerInv` says that a report is one the loop gives and that an
  exit code of 0 was made from it, `ScratchInv` where a scratch directory can be and who
  has been told of it, `ClientInv` that a client that asks was asked for, and
  `TriageInv` what each question presumes of the one before; one lemma per group of
  steps shows that they are kept. `OutboxInv` says that the answers are to
  the awaited lines read so far, but the one in work, in order, and nothing of what
  is in them, so it is kept apart.
- **Harness: depth.** Nothing records which pointers have led to a call; only its depth
  is known. `Stacked` says that every call is at least as deep as those it came
  from, and deeper if a pointer led to it. So the depths of the calls that pointers
  led to are distinct, and their number is at most that of the depths there are.
- **Harness: types.** `TypeInv` says of each call that it is of a struct of the source
  and at a field of it, and of each statement that it is about names made of
  words. That a joined name is a name, and that joined blocks of statements are
  statements, are facts about a fold, `FlattenSeq`; they are shown by induction on
  the number of blocks (`LeastNumber`, `Induction`: a set of numbers without a least
  element is empty), since the library's own induction theorems cannot be used.
- **Harness: silence.** `ObjectSaid` divides the statements by who answers for them.
  A statement of the code is `Fine`: noted, or of a pointer or count the code has
  already cut to nothing. What a call is still to write, its finish and the
  constraints it hands on, is `Owing`: the note is there before the statement is.
  Notes only grow, so what is fine stays fine.
- **Harness: names.** `DeclaredInv` says that every statement's variables are declared
  before it or are declared in file scope; that a call's object is declared in the
  code, or in what a call it was made for still ends with (`Known`, `ObjectDeclared`);
  and that of the parameters, those that the stage has passed are declared or about
  to be (`Due`, `ParamsDeclared`), which is what preconditions, lengths and the call
  itself refer to. `Introduces(lines, known, names)` says of a block what it needs and
  what it adds, and joins like a Hoare triple.
- **Harness: counts.** The bound on a count is worth nothing if the count is written
  after it, and the bound is often written by another call than the one that made the
  buffer. `Counts` says of every counted pointer that its count is bounded and settled
  (`Bounded`, `Settled`: declared, and no call under way is still to write it or what
  holds it), or that a call still owes it the bound and will say it on its return
  (`Owed`); and of the calls, that each leaves alone what those within it were called
  for (`Stands`). Two fields of one object differ because members do; a field and what
  a call further out is still to fill differ because the prefixes do (`Differ`). For
  parameters, a length is declared with the scalars, before the turn of its buffer
  (`LengthsDeclared`), and a block for a parameter writes only what it declares
  (`Afresh`).

Only model-checked: `LoopEnds` and `EveryRequestAnswered` (liveness, which is out of
the prover's reach), and of `NamesResolve` that nothing is declared twice
(`DeclaredOnce`). The last is not true of every source, since `p.q` and `p_q` give one
name, so that `NamesDeclaredFirst` shows the other half, and that half to be enough
where names do not collide, and `CountsHold` is about harnesses without a collision.

## 5. Plan

In this order; the core above comes first because every command's verdict
goes through it.

1. `InvariantGuard`: `_not_just_assertions` over token sequences, which
   discharges the abstraction in `AgentLoop`.
2. The composition of `TreeScan` with the buckets of `ScanPasses`.
3. `CompileDatabase`: which entry a file gets in a tree that was moved, and what
   becomes of its flags; the disagreements above, as runs.
4. `DigestMemo`: the memo of checker digests in the cache directory, read,
   changed and written back without a lock (`cache.py:105`). What concurrent writers
   lose costs the next run a hash; that it never yields the digest of another
   binary is to be shown.
5. `Transcripts`: `parse_output` down to the order of its markers, against a
   reference classification, and `_parse_properties` over block sequences.
6. Harnesses of call sequences, once the code defines the stubs they refer to.
7. Pure operators: `match_bracket` and `scrub`, the include closure of a cache key.

## 6. Not modelled

Formatting (the C text of a harness, SARIF, terminal output) and the wording of
messages; packaging and CI. What ESBMC, an LLM and a client do is external and
only constrained as described. In the loop, a user's file that is edited between
two runs of the checker is left out. In the scan, the ranking of findings,
caller counts and access kinds are left out: no other part of the modelled state
reads them.

Of harness generation: harnesses of call sequences and of classes, the extents and
directions read from a function's body (given with the parameter instead), and how
a name is taken apart. Of the MCP server: the other tools, whose commands are in
`TreeScan` and `CheckerInstall`, and how their arguments become flags. Of the LLM
clients: the Anthropic one, whose requests and retries its own library makes. Of the
command line: `--only`, a ref for `--changed`, `doctor`, `init`.

The signature parser turns text into the signatures and structs that
`FunctionHarness` is given; it keeps no state, and what could go wrong in it is a
matter of text. The compile database turns one file into flags.

## 7. Running it

    tlc -config AgentLoop.cfg MCAgentLoop.tla
    tlapm AgentLoopProofs.tla

`PROJECT.json` names the module, configuration and properties of each run, the
source lines of each definition, and for each property of a passing run a
mutant of one definition that violates it.
