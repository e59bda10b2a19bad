# Zeerak: formal model

Zeerak puts a web panel, a REST API and a command line in front of nftables.
Its promise (`VISION.md`, "Safe by default") is that every change to the
firewall is a trial: it is put into force, and undone by a timer unless an
operator confirms it. This directory holds TLA+ modules that model the parts of
the program that keep this promise, configurations that check them with TLC on
small instances, and theorems about them that TLAPS checks for every value of
the constants. Paths below are relative to the repository, `src/` included.

1. [The system](#1-the-system)
2. [Modules](#2-modules)
3. [Runs](#3-runs)
4. [Fairness](#4-fairness)
5. [Proofs](#5-proofs)
6. [Disagreements found](#6-disagreements-found)
7. [What is not modelled](#7-what-is-not-modelled)
8. [Plan](#8-plan)
9. [Running it](#9-running-it)

## 1. The system

| Part | Source | State | Operations | Correct if |
|---|---|---|---|---|
| Stager | `internal/stager/stager.go` | `state`, `snapshot`, `candidate`, `timer`, `cancel`, under `mu` | `Stage`, `Confirm`, `Rollback`, `fireTimeout` (timer goroutine), `Status` | an unconfirmed change is undone; a confirmed one stays; a rollback restores what was last approved |
| nftables adapter | `internal/nft/nft_linux.go` | `last`, the ruleset of the last successful run | `Apply` (one run of `nft -f -`), `Snapshot` (returns `last`) | tables of other software are untouched; the kernel enforces `last` |
| Renderer, ruleset model | `internal/render`, `internal/model` | none | text of a ruleset | an apply does to the kernel what the ruleset says |
| Preset compiler | `internal/policy` | none | `Validate`, `Compile`, `CompileTables` | the chains admit exactly what the presets say |
| Configuration | `internal/config` | none | load, `ToRuleset` | the tables of the presets are all there |
| Web panel | `internal/ui/ui.go` | `current`, `pendingPresets` under a lock of its own; forms in the browser | pages; `editService`, `presetsPreview`, `presetsStage`, `confirm`, `rollback` | it shows what is in force; an edit of one service leaves the others alone; what is staged is what was reviewed |
| Dashboard cards | `internal/ui/cards.go` | none | a card for each service, ports that Caddy binds in vain | the cards say what the compiled chains do |
| Diff | `internal/diff` | none | edit script, hunks, unified diff | it spells out both texts, is shortest, and patches the one into the other |
| REST API | `internal/api/api.go` | none of its own | stage, confirm, rollback; preview, ruleset, status | as the stager; an empty preview means that nothing would change |
| Activity log | `internal/activity` | a file of one event per line, a temporary file, under a mutex | `Append` with compaction, `Recent` | the timeline is true, newest first, and bounded |
| Daemon | `cmd/zeerak-server/main.go`, the systemd unit | everything above, in memory | boot apply, serve, die, be restarted | after any crash the kernel holds what is approved |
| MCP server | `internal/mcp`, `cmd/zeerak-mcp` | none | explain a rule, simulate a packet | a rule reported as a hit is one; the answer is the kernel's |
| CLI | `cmd/zeerak`, `internal/cliclient` | none | `apply` (with `--yes`: stage, then confirm), `preview`, `confirm`, `rollback`, `status`, `ruleset` | `--yes` confirms its own change; a client that leaves does no harm |
| Integrations, test kit | `internal/integrations`, `testkit` | none | read-only detection; network namespaces | |

How they interact. The panel and the API call one stager from the goroutines of
their HTTP requests. The stager drives the adapter; it holds its lock while it
looks at or changes its state and *not* while nft runs. Staging starts a timer,
whose goroutine (`fireTimeout`) takes the same path as a rollback. The panel
learns of a change only from its own handlers: neither the timer nor the API
tells it. The command line is a client of the API: when it gives up (30 seconds,
or Ctrl-C) the context of its request ends, which kills an nft run of `Stage`
or `Rollback`.
Previews and simulations read the kernel with `nft list`, without any lock,
while all this goes on. The only thing that survives the process is the kernel's tables, the
configuration file and the activity log: nothing of the stager is stored.

What is hard here:

* the windows between the critical sections of `Stage`, `Confirm`, `Rollback`
  and `fireTimeout`: every local read under the lock is used after the unlock;
* failures in the middle: nft may refuse a script, or be killed after it has
  committed; `Rollback` stops the timer before an apply that may fail;
* `add table` and `flush table` do not replace a table: chains, policies and
  elements of sets of earlier rulesets stay, and whole tables that the new ruleset
  does not name;
* the order of rules, the split of lists by address family, defaults for 0 and
  empty lists;
* claims that are worked out next to the compiler and not from its result: the
  cards, the simulation of packets, "no changes" under an empty diff;
* a client that leaves, is refused, or confirms after its change has ended;
* two pages of the wizard that pass the whole configuration on in hidden inputs;
* the end of the daemon at any moment: during a trial, an nft run, an append.

`PROJECT.json` lists each hazard with its line and the properties aimed at it.

## 2. Modules

| Module | Models |
|---|---|
| `AutoRollback` | abstract specification: propose, accept, revert |
| `Stager` | the stager and the adapter's `last`, one action per critical section |
| `Nft` | what one nft run does to tables, chains, rules and sets |
| `Firewall` | `Stager` with `Install <- Apply` of `Nft`, next to foreign tables |
| `Client` | `Stager` behind `zeerak apply`, `confirm` and `rollback` |
| `Explain` | `SimulatePacket` and `ExplainRule` over the words of a rule |
| `Reads` | `Firewall` while previews and simulations read the kernel |
| `Panel` | `Stager` behind the panel's handlers and the API |
| `Daemon` | `Panel` with crashes and restarts |
| `Netfilter` | how the kernel walks a packet through a chain |
| `Policy` | the preset compiler and `Validate`, over `Netfilter`'s rules |
| `Traffic` | presets put into force by `Nft!Apply`, one after another, while connections open |
| `Cards` | the dashboard's claims, over `Traffic`'s chains |
| `Wizard` | forms, editor page, review page, staging, over `Policy` |
| `Activity` | appends, compaction, torn writes, crashes, `Recent` |
| `LineDiff` | `lcsDiff`, `groupHunks`, `writeHunk` |
| `PresetShapes`, `MC*` | small values for TLC |
| `StagerProofs` | theorems on `Stager` and its refinement of `AutoRollback` |
| `ClientProofs`, `DaemonProofs` | theorems on `Client`, and on `Daemon` with `Panel` |
| `FirewallProofs` | theorems on `Nft`, `Firewall` and `Reads` |
| `TrafficProofs` | theorems on `Policy`, `Traffic` and `Cards` |
| `WizardProofs` | theorems on `Wizard` |
| `ActivityProofs`, `LineDiffProofs` | theorems on `Activity` and `LineDiff` |

```
AutoRollback <--refines-- Stager <--INSTANCE-- Firewall --> Nft
                          ^    ^                  ^
                       Panel  Client            Reads --> Explain
                          ^
                       Daemon
Netfilter <-- Policy <-- Traffic <-- Cards
                 ^          |
              Wizard        +--> Nft       Activity, LineDiff (alone)
```

**Stager.** A member of `Changes` is one call of `Stage` that passes its first
check, then that change's timer, then the goroutine of that timer: the three
follow one another. A member of `Rollbacks` is a goroutine that serves one
`Rollback` after another. `Confirm` is a single critical section and needs no
process. `pc` says between which critical sections a goroutine is, `snap` and
`arg` are its locals. Calls that are turned away (`ErrAlreadyPending`,
`ErrNoPending`) change nothing and are not actions. An apply is two steps,
`Commit` (nft commits to the kernel) and `Remember` (`last` is set under the
adapter's lock), since the latter can be overtaken. `Failed` says when an apply
reports an error: `Refused`, with the kernel unchanged, or `Killed`, after the
commit. The constant `Faults` chooses which may happen. The history variable
`accepted` is the ruleset last approved: the configuration at boot, or the
candidate of a `Confirm`. `Install` is a parameter: the replacement that the
`Applier` interface promises, or `Nft!Apply`.

| Code | Actions |
|---|---|
| `Stage` 142-177 | `StageCheck`, `StageSnapshot`, `StageApply`, `StageRemember`, `StageFails`, `StageCommit` |
| `Confirm` 179-191 | `Confirm` |
| `Rollback` 193-214 | `RollbackCheck`, `RevertApply`, `RevertRemember`, `RollbackFails`, `RevertCommit` |
| `time.AfterFunc` 169 | `Fire` |
| `fireTimeout` 216-240 | `TimeoutIgnored`, `TimeoutCheck`, `RevertApply`, `RevertRemember`, `TimeoutFails`, `RevertCommit` |
| `stopTimerLocked` 242-251 | `StopTimer`, `Silenced` |

Three degrees of disorder are specified. `Spec` lets all calls overlap.
`OneOperatorSpec` has requests one at a time, but timers fire whenever they
like. `SerialSpec` has no request begin while a timer's goroutine runs either.
The code enforces neither of the latter two; they separate what is true always
from what is true of an orderly client.

**Nft, Firewall.** Rules and elements are opaque. `Apply` flushes every table
of the ruleset and adds the rendered table; a chain's policy changes only where
one is written. Every table made by `ToRuleset` and `CompileTables` is owned,
so the filter on `Owned` is the identity.

**Panel, Daemon.** A handler calls the stager and takes the panel's own lock
after that call has returned: `StageForm`/`Stash`, `ConfirmButton`/`Promote`,
`RollbackButton`/`Clear`. `Behind` carries a step of the stager and lets the
handler of a failed call return. The boot applies the file and tells the panel
(`Restart`). A crash forgets every variable but the kernel, and an nft child
may still commit. `last` and `accepted` mean nothing while the daemon is down.

**Client.** A change is one `zeerak apply`: `Apply` is the POST to `/stage`,
`AnswerStaged` and `AnswerFailed` are its answer, `AutoConfirm` is the POST to
`/confirm` that `--yes` sends after the first answer. `RollbackCommand` is the
POST to `/rollback`, with its answers `AnswerRolledBack` and
`AnswerRollbackFailed`. `Leave` is a client of either that gives up; an nft run
of a request may be killed after its commit only then. A `Stage` that is past
its nft run goes on and arms its timer for nobody. Three histories: `overlapped`
records requests that met another call or another `apply --yes`, `escaped` nft
runs that were lost (killed after they had committed, or failed in a timer), and
`stranded` that a `Rollback` has failed since the last change was armed, with
which the code loses the timer (`stager.go:204`).

**Explain, Reads.** A rule is the sequence of its words; `Satisfied` is one turn
of the loop of `ruleMatches`, `Explained` one of `ExplainRule`. What a word such
as `80-443` or `10.0.0.0/8` names is a constant. `Reads` lets previews and
simulations look at `Firewall`'s kernel at any moment: `LiveTable` is one
`nft list table`, and the stager may act between two of them (`moved`). The
listing of a table is the table itself, so that the model's diff is empty at
least wherever the code's is. A simulation is a single listing and needs no
action. A base chain is named after its hook. The last part of `Reads` is
nftables itself, where the simulation claims to know it: `Clauses` are the
places where the clauses of a listed rule begin, `Asks` is what one of them asks
of a packet, family included (`ip protocol udp` is a question about IPv4
packets), a packet that `Meets` a rule meets all, and `KernelVerdict` is the walk
through one base chain, which `return` ends with the policy and `jump` and `goto`
take elsewhere. What a rule with other clauses does (`Applies`) is a constant.
What the code overlooks of this has names of its own: `ComesTo` (tables of the
other family), `Overlooked` (`ip protocol`), `IsDecided` (the three verdicts).

**Netfilter, Policy, Traffic.** A network is the set of its addresses. A rule
has for each field of a packet the set of values that it lets through, so that
the rules of the code become records and their order stays. `Rank` and
`NetworkRank` stand for the lexicographic order of the strings that are
sorted. `Traffic` composes this with `Nft` and the kernel's connection tracking:
`PutInForce` stands for any way in which presets come into force, including
their undoing, and runs `Nft!Apply` over the kernel as earlier presets left it.
What the filters see are the packets that are not redirected. Three operators
name what can be left: `Left` (a table that the presets in force do not compile
to), `OutputIsLeft` (an output chain without rules) and `StillBlocked` (elements
of block sets).

**Cards.** `ServiceCards`, `OutboundCard` and `CaddyPortGaps` compute from the
presets what the dashboard says; the properties compare it with what `Traffic`'s
chains do to a first packet. A label is the set of its phrases, and `Means` is
what a reader who knows the usual ports takes each of them for; of the custom
ports the code names only their number.

**Wizard.** A page is a record of what the browser holds; posting it is a
function from input names. `Hidden`, `Shown` and `ReviewInputs` are the inputs
of the templates, `Posted` is what the browser sends of an editor page after an
edit, `Parse` is `parsePresetForm`, `ToPresets` and `FormFromPresets` are the
two conversions. A review that fails `Validate` shows an error and cannot be
staged (`valid`). `Over` and `RowsAt` are the library's `@@` and `SelectSeq`,
written so that the prover can expand them. There is one window; `Elsewhere` is
a change confirmed in another one. The browser's own validation of inputs is
left out, so that a post may hold a port of 70000.

**Activity.** Events are numbered in the order in which `Append` takes the
mutex. A size is the number of events of which the file has bytes. A fault leaves a part of a line, or a line without
its newline; a crash does so at any step, and leaves the temporary file absent,
partial or complete.

**LineDiff.** `Lengths` is the table of `lcsDiff`, a recursive function on its
cells: the order in which the code fills them is one in which every cell finds
the ones that it needs.
`Keep`, `Delete`, `Insert` and `Walked` are the walk along it; each op carries
its place in both texts, which the code adds afterwards (`lined`). `GroupHunk`
is one turn of the outer loop of `groupHunks`: a hunk goes from `Context` ops
before its first change to `Context` ops after the last one it reaches.
`Header`, `OldSide` and `NewSide` are what `writeHunk` prints.

## 3. Runs

| Run | Instance | Shows |
|---|---|---|
| `stager_any` | 3 changes, 1 rollback, 2 rulesets, all faults, everything overlaps | types; no revert without a snapshot (`RevertHasTarget`); a pending change loses what would end it only by a failing `Rollback` (`GuardLostOnlyByFailedRollback`) |
| `client` | 2 applies with or without `--yes`, 1 rollback client, 2 rulesets; stage, rollback and timer may fail, nft may be killed; everything overlaps | until a `Rollback` fails a pending change is guarded (`GuardedUnlessStranded`) and ends (`PendingEnds`); `YesConfirmsItsOwn`, `OnlyLostRunsEscape` |
| `stager_serial` | 3 changes, 2 rollbacks, 3 rulesets; serial requests | `CacheIsLive`, `SnapshotIsAccepted`, `OnlyAcceptedIsLasting`; the stager implements `AutoRollback` with its fairness (`KeepsFairContract`) |
| `reads` | 2 changes, 1 rollback, 9 rulesets: 7 of the shapes that presets compile to, 2 with raw tables; Docker's table; 36 packets of both families, 384 queries | other software's tables untouched (`ForeignUntouched`); the kernel enforces `last` rule for rule, and in the tables that `last` names what an earlier ruleset left has no rules (`LastIsEnforced`); `NoChangesMeansNone`, `HitsAreReal`, `SimulationIsSound` |
| `daemon` | 3 changes, 1 rollback, 3 rulesets, 2 crashes, panel and API | after any crash kernel, cache and stager agree; the panel shows what is in force; what nobody approves leaves the kernel |
| `traffic` | 218 sets of presets to boot with, 6 to change to, over real applies, 3 peers of two families, 9 ports | the eight properties below |
| `wizard` | 7 sets of presets, all nine editor pages, allowed and refused inputs | `EditKeepsOthers`, `BasicsAreStagedAsReviewed` |
| `activity` | 9 events, limit 3, 4 faults | types (only the last line lacks its newline), `TimelineIsTrue`, `LogIsBounded` |
| `diff` | all pairs of texts of up to 5 lines over 2 lines, context 1 | types (no hunk leaves the script), `ScriptSpellsBoth`, `ScriptIsShortest`, `HunksShowChanges`, `HunksPatch` |
| `stager_confirm_race`, `traffic_leftovers`, `wizard_review` | small | statements of the repository that the code does not keep, see section 6 |

The properties of `traffic`: `FilterIsAsConfigured` (the first packet of a
connection passes only if a plain reading of the presets says so, whatever was
in force before; and if they say so it passes, unless what earlier presets left
is in the way), `OpenConnectionsAreKept` (no change cuts what comes in on a
connection of the host; what goes out is cut only for a blocked peer or by an
output chain that was left, and so the operator's session lives to confirm a
change that leaves none), `BlockedHearNothing` (the host sends nothing to a
blocked peer, not even on an open connection; what is redirected to another host
passes no output chain and is not covered), `ForwardsReachTheirHosts`,
`LargestMarkWins`; and of the dashboard, under the conditions that section 6
gives the reasons for: `CardsAreTrue` (what comes in is what an open or
restricted card names, and the other way round), `GapsAreExact` (the ports on
which Caddy listens in vain), `OutboundCardIsTrue` (what leaves is what the
phrases of the outbound card stand for, no more and no less).

`LastIsEnforced` speaks of the tables that the ruleset in force names. One that
it does not name, such as `zeerak-nat` after the last port forward was removed,
keeps all its rules: `Left` in `traffic`.

The properties of `client`: `GuardedUnlessStranded` (whoever leaves and whatever
is killed, a pending change has a timer or a revert under way, unless a
`Rollback` failed since it was armed), `PendingEnds` (so it ends),
`YesConfirmsItsOwn` (`--yes` confirms the change it
staged and no other, as long as nobody else uses the daemon meanwhile: the code
passes no identity, so this rests on refused calls and faster timers leaving
nothing to confirm), `OnlyLostRunsEscape` (at rest with nothing pending the
kernel holds what was accepted, unless requests overlapped or an nft run was
lost).

The properties of `reads`: `NoChangesMeansNone` (an empty diff of a kernel that
did not change meanwhile means that staging changes nothing), `HitsAreReal` (a
rule that the simulation reports as matched matches in the kernel every packet
that the query may stand for, comes to the table and is not of the family that
an `ip protocol` excludes; and its explanation is complete),
`SimulationIsSound` (for such a packet with every field and a chain whose rules
it understands, the simulated verdict is the kernel's, unless a `return`, `jump`
or `goto` is met first).

The properties of `diff`: `ScriptSpellsBoth` (what is kept and deleted is the
old text, what is kept and inserted the new one, line by line and position by
position), `ScriptIsShortest` (no common subsequence is longer),
`HunksShowChanges` (each change is in a hunk with all its context, and hunks that
would overlap or meet are one), `HunksPatch`
(replacing what each header says by the new side of its hunk makes the new text,
and each side is where its header says).

Why the bounds are enough.

* *Changes.* Every race known in this code is between one change, the next, and
  a call that ends one of them; three changes let a stale timer and a stale
  rollback meet a later change. `Rollbacks` are reused, so two suffice for two
  at once. `Symmetry` permutes changes, rollbacks and rulesets other than
  `Boot`, in runs without liveness only.
* *Rulesets.* The stager never looks into them; two tell a candidate from the
  snapshot, three tell it from an earlier confirmed one.
* *`MaxConnections` = 1.* The verdict on a packet does not depend on other
  connections; a run with one checks each connection against all changes.
* *`client`:* two applies are the one that is looked at and another that comes
  before, during or after it, and the rollback client comes back as often as it
  likes; `stager_any` has the third change.
* *`diff`:* with a context of 1, two changes share a hunk up to a distance of 2;
  five lines have changes nearer and farther apart, at both ends of a text and
  in empty ones. Two different lines give every tie of the table.
* *Ports* are those that the presets name, the defaults, 0 and one other.
* *Leftovers in `traffic`.* The presets to change to add and remove an output
  chain of either policy, an element of a block set, forwards and marks, and all
  tables; every set to boot with comes before each of them.
* *`MaxConfirms` = 1* in `wizard`: a page depends on `current` alone, and
  `current` ranges over all presets that `Elsewhere` or a `Confirm` can leave.
* *`MaxCrashes` = 2:* a crash while the effects of an earlier one remain.
* *`activity`:* 9 events fill and compact the file at least three times;
  `MaxFaults` exceeds `MaxBytes` because a file of one line above the limit
  takes that many torn writes.

Deadlock checking is off where the instance runs out of changes, events or
confirms, and in `traffic`, where stopping is not an error either; it is on in
`wizard`. `PROJECT.json` gives for each property of a passing run a mutant, a
change to one definition such as a dropped check or a swapped order, with which
the run fails. The mutants stand before the definitions they mutate.

## 4. Fairness

`Fairness` in `Stager` is weak fairness of the work of each goroutine that
exists: a timer that ticks expires (`time.AfterFunc`), the Go scheduler runs a
runnable goroutine, a mutex is released by every holder without blocking, and
an nft run ends. A goroutine's steps are fair as a whole, so nothing forces an
apply to succeed or to fail. Requests are never fair: no client has to come
back. In `Daemon`, `Restart` is fair because the unit has
`Restart=on-failure`; crashes are not. `AutoRollback` has only the fairness of
`Revert`: the trial is finite. In `Client` the answer to a request is part of
the daemon's work; clients owe nothing.

`PendingEnds` is checked in `client`, with failing rollbacks: after one the change
stays pending with no timer (section 6), so the property lets go there
(`stranded`), and `GuardLostOnlyByFailedRollback` shows that there is no other
way. `UnapprovedLeaves` is checked for serial requests with crashes.

## 5. Proofs

All theorems hold for every value of the constants that satisfies the named
assumptions: `ProcessAssumption` (`Changes` and `Rollbacks` are disjoint, `None`
is no change), `RulesetAssumption` (`Boot` is a ruleset, `None` is none),
`FaultAssumption`; in `Firewall` the same as `FirewallAssumption`, and
`ForeignAssumption` (no ruleset names a foreign table). The sets of changes,
rollbacks and rulesets may be infinite. `LineDiff` has `TextsAssumption` (texts
are sequences of lines) and `ContextAssumption`, `Activity` that the limit of
the file is positive (`SizeAssumption`), `Policy` that strings are ranked by
numbers (`RankAssumption`), and `Traffic` that what boots or is staged has the
types of the code's structs (`PresetAssumption`, `IsPresets`): networks of one
family, the mail ports of the wizard, forwards and marks with or without each
optional field. Addresses, ports, interfaces and the number of connections are
arbitrary, and so are the lengths of all lists. `Wizard` has
`WizardAssumption`: `None` is no stanza and no choice of a radio button, the
presets that the panel starts from have the types of the structs, and so has
what is entered on a page, where only the page's own inputs can be changed. A
network has addresses; what else is entered, valid or not, is arbitrary.

`Reads` has three assumptions on nft and its callers. `ListingAssumption`: rules
are listed as words, no clause is cut off, a `tcp` that is not followed by a
port match is not followed by a word that begins a clause, an address after `ip`
or `ip6` is of that family, and a rule has one verdict. `KernelAssumption`: a
rule that some packet meets, so that all its clauses are known and their words
literal, matches exactly the packets that meet it; of every other rule nothing
is assumed. `PacketAssumption`: queries and packets have the fields of `Packet`,
and the packets have all of them. The run `reads` evaluates them on the listing
of seventeen rules, some met by packets, the others with an operator, a set
or a word that the simulation does not know, and on packets of both families.

| Theorem | Says | Under |
|---|---|---|
| `TypeCorrect` | `[]TypeOK` | `Spec`: every interleaving and fault |
| `RevertsHaveTarget` | `[]RevertHasTarget` | same |
| `GuardIsLostOnlyByFailedRollback` | the action property of `stager_any` | same |
| `PendingIsGuarded` | `[]Guarded` | `Spec`, no failing rollback, no kill after the commit |
| `CacheIsAlwaysLive`, `SnapshotIsAlwaysAccepted`, `OnlyAcceptedAlwaysLasts` | the invariants of `stager_serial` | `SerialSpec`, `Replacing`, `Reliable` |
| `StagerKeepsContract` | `SerialSpec => Contract!Spec` | same |
| `ApplyEnforces` | after an apply the kernel enforces the ruleset, and a leftover chain is empty | well-formed tables (`Contents`) |
| `UndoIsExact`, `StageThenUndo` | applying a snapshot that covers a candidate erases the candidate | same |
| `ForeignIsNeverTouched` | `[]ForeignUntouched` | `Firewall!Spec`: every interleaving and fault |
| `LastIsAlwaysEnforced` | `[]LastIsEnforced` | `SerialSpec` of `Firewall`, `WellFormed`, `Reliable` |
| `NoChangesIsAlwaysTrue` | `[]NoChangesMeansNone` | `ReadsSpec`, `WellFormed`: every fault |
| `HitsAreAlwaysReal`, `SimulationIsAlwaysSound` | `[]HitsAreReal`, `[]SimulationIsSound`, with the exceptions they state | `ReadsSpec`, `WellFormed`, `Worded`: any rules, any queries |
| `YesAlwaysConfirmsItsOwn` | the action property of `client` | `ClientSpec`: every interleaving and fault, and every client that leaves |
| `ClientsLeaveNoneUnguarded` | `[]GuardedUnlessStranded`: guarded until a `Rollback` fails | same |
| `NothingElseEscapes` | `[]OnlyLostRunsEscape` | `ClientSpec`, `Replacing` |
| `DaemonTypeCorrect` | `[]DaemonTypeOK` | `DaemonSpec`: any crashes and faults |
| `UpIsAlwaysConsistent`, `UpPanelAlwaysShowsAccepted` | the invariants of `daemon` | `DaemonSpec`, `Replacing`, `Reliable` |
| `FilterIsAlwaysAsConfigured`, `OpenConnectionsAreAlwaysKept`, `BlockedAlwaysHearNothing`, `ForwardsAlwaysReachTheirHosts`, `LargestMarkAlwaysWins` | the invariants of `traffic` on packets | `Traffic!Spec`: any presets, any changes, over what `Nft!Apply` leaves |
| `CardsAreAlwaysTrue`, `OutboundCardIsAlwaysTrue` | `[]CardsAreTrue`, `[]OutboundCardIsTrue` | same |
| `GapsAreAlwaysExact` | `[]GapsAreExact` | same; there is an address and an interface besides `lo`; `AdmitsSomebody` |
| `ScriptIsFaithful`, `ScriptIsAlwaysShortest`, `PlacesAreInRange`, `HunksAlwaysShowChanges`, `HunksAlwaysPatch` | `[]ScriptSpellsBoth`, `[]ScriptIsShortest`, `[]TypeOK`, `[]HunksShowChanges`, `[]HunksPatch` | `LineDiff!Spec`: any texts, any context |
| `EditAlwaysKeepsOthers`, `BasicsAreAlwaysStaged` | `[]EditKeepsOthers`, `[]BasicsAreStagedAsReviewed` | `Wizard!Spec`: any presets, any inputs, any changes elsewhere |
| `LinesAreWellFormed`, `LogIsAlwaysBounded`, `TimelineIsAlwaysTrue` | `[]TypeOK`, `[]LogIsBounded`, `[]TimelineIsTrue` | `Activity!Spec`: any limit, any number of events and faults |

`Replacing` says that `Install` returns its second argument and that the kernel
starts with `Boot`; `Reliable` says that only runs for `Stage` and `Rollback`
may be refused; `WellFormed` that rulesets and foreign tables are tables of
chains and sets; `Worded` that the rules they are made of are among those
listed. `AdmitsSomebody` is a hypothesis on the presets: every
service that is on admits somebody, so its list holds an address, and SSH is not
limited to the loopback interface. The run `traffic` satisfies it.

*The nil pointers.* `RevertHasTarget` alone is not inductive: the snapshot that
a revert reads comes from the shared state, and that from a local of `Stage`.
`NilInv` adds that a pending change has snapshot and candidate
(`PendingHasRulesets`) and that `Stage` has its candidate and, from the
snapshot on, its snapshot. It survives `Confirm` and other reverts that clear
the shared fields because these leave the pending state in the same critical
section. `NextNilInv` has a step for each action.

*The guard.* `GuardStep` goes through the actions once more and shows that only
`RollbackFails` can take the guard away; the action property follows with type
correctness, and `PendingIsGuarded` because that action is then disabled. In
`Client` it is not: `FailedRollbackIsNoticed` says that it leaves `stranded`
true, and `ArmedIsGuarded` that only a change newly armed, with a timer of its
own, makes it false again, so `GuardedUnlessStranded` is kept.

*The refinement.* What the kernel holds when a trial begins or ends depends on
where the one active goroutine is. `ControlInv` says who may be active
(`OneAtWork`, `TickingIsCurrent`, `RevertIsPending`, `StageIsNotPending`) and
which timers can be cancelled (`TimerIsArmed`, `LiveIsNotCancelled`), whatever
`Install` does; `SerialInv` adds what kernel, cache and locals hold at rest
(`KernelAtPeace`), inside `Stage` (`KernelInStage`) and inside a revert
(`KernelInRevert`), with `SnapshotsAreAccepted` throughout. The refinement mapping takes `live` from the
kernel and makes a trial begin when nft commits the candidate and end when nft
commits the snapshot (`TrialStatus`); all other steps stutter.

Both are kept by every step in which no apply that has reached the kernel or
belongs to a timer fails (`LosslessNext`), which `Reliable` ensures
(`ReliableIsLossless`) and which `Client` has as long as `escaped` is false: so
one induction serves `NothingElseEscapes` and the daemon as well.

*Clients.* `YesInv` holds as long as no request has overlapped: at most one
apply is between its two requests, its call of `Stage` is over, and if anything
is pending it is its own change. The histories only ever become true
(`OverlappedStays`), so an induction under `~overlapped'` is enough.

*Crashes.* `LifeInv` is `SerialInv` while the daemon is up and `Blank` while it
is down: no goroutine, nothing stashed. A crash forgets everything but
the kernel, and a restart puts the file into it, which is `Init` of the stager
again. `PanelInv` follows a change through the handlers: a form holds the candidate
until its handler returns (`Forms`), from then on the stash does (`Stashed`), a
rollback's handler clears it only when nothing is pending (`Cleared`), and a
promotion in progress finds the accepted presets stashed (`Promoted`).

*nft at work.* `InForceInv` is `KernelAtPeace`, `KernelInStage` and
`KernelInRevert` once more, with "holds" replaced by `InForce`: the kernel
enforces the ruleset and has no other rules in its tables. `NextInForce` follows
from `ApplyEnforces` and the control part. For previews, `ReadInv` says that
what has been read is what is there unless the kernel moved; then an apply of a
candidate all of whose tables are there as rendered is the identity, table by
table (`ReapplyTable`, `ReapplyIsNothing`).

*The simulation.* The state only matters in that chains hold listed rules
(`ListedChain`, from `ReadInv`); the rest is about the words of one rule.
`ruleMatches` is a walk whose steps are as long as `Satisfied` says, and it
succeeds exactly if every set of places that is closed under these steps and
holds the first reaches the end (`WalkPasses`): that replaces the recursion by a
quantifier over sets. A step of a successful walk is as long as the clause
where it stands (`StepIsWidth`), so a hit has been at every clause
(`HitClauses`) and a packet that satisfies all of them is a hit (`ClausesHit`);
`GivenClause` compares what the code asks of a query with what the clause asks
of the packets it may stand for: they agree but for the family (`FamilyFits`),
which an address implies (`ListingAssumption`) and an `ip protocol` does not
(`Overlooked`). The walk of `ExplainRule` stops at no known
clause (`KnownIsExplained`). For a packet with every field a hit is a met rule
(`PacketHits`), so in a chain of rules that are understood the first hit with a
verdict that ends the simulation is the first rule at which nftables would stop,
if it stops at such a one (`IsDecided`).

*Chains of rules.* `Verdict` takes the first rule that matches. Every part of a
chain is a list of rules that agree on the verdict (`Uniform`), and for such a
list all that counts is which packets it hits (`Hits`): `UniformBoth` and
`HitsBoth` take concatenations apart, `EarliestHit` finds the deciding rule, and
`PerFamilyHits`, `BlockHits`, `AllowHits` say what the split by address family,
the blocked networks and the allowed services hit, whatever their order within
the part. `InputRuns` and `OutputRuns` put the parts together: any table that
runs the two chains (`RunsInput`, `RunsOutput`), whatever its sets hold besides,
decides as the chains read as sentences. `FilterIsAsConfigured` and the claims
of the cards (`CardsAgree`, `PortsLetIn`, `SomebodyKnocks`, `CardIsTrue`) follow
without looking at a chain again.

*Leftovers.* The inductive invariant `TrafficInv` says what nft keeps of the
truth (`KernelRuns`): every table that the presets in force compile to has their
rules and policies, and an input chain that was left is the whole input chain of
some earlier presets. `ApplyRuns` shows that one apply over any such kernel
makes it so again, and `InputIs` and `OutputIs` that everything else which can
differ is one of `Left`, `OutputIsLeft` and `StillBlocked`. Blocked peers are
not among the differences, since their rules come first and elements are only
added; nor is what comes in on open connections, which every input chain
accepts by a rule. What goes out is, and `traffic_leftovers` has the
counterexample.

*Sorting.* `StableSort` puts each entry at its place: the number of entries with
a smaller key, or with the same key and before it. Places are different for
different entries (`BeforeTotal`), so by counting each is taken
(`PlacesAreTaken`) and the sorted list has the entries of the list, in order
(`Sorted`). This needs that `LexLess` is total (`LexTotal`).

*The log.* `LogInv` says that lines hold events in the order in which they were
recorded (`InOrder`), that the file has no more events than lines and faults
(`LinesAreEvents`: only a torn write puts two events into a line), that it
exceeds the limit by a fault each (`SizeIsBounded`), and that an event which was
recorded and is gone is older than all that remain, with as many lines left as a
compaction keeps (`MissingAreOld`). `KeptIsNewer` is the compaction: every line
that it drops held an event of its own. Each fault is either one that leaves the
file alone (`FaultKeeps`) or leaves bytes of the event at its end
(`WrittenKeeps`).

*The diff.* `ScriptInv` says that each op starts where the one before leaves off
(`Chained`) and the walk stands where the last one does (`Reached`). It does not
mention the table: a wrong one makes the script longer, never false. `GroupInv`
says that all changes before the next op to look at are shown and that the next
change is more than a context away (`NextIsAhead`), which is why its hunk leaves
a line out; `LastChange` is where a hunk ends.

For the shortest script the table counts. `TableIsFilled` shows that a function
with the cells' equations exists, and `TableBounds` that the cell at `i, j`
bounds every common subsequence of what follows `i` and `j`. `ShortestInv` adds
to `ScriptInv` that the lines kept so far and what the table still promises make
up what it promised at the start: `Keep` takes one from the promise, and
`Delete` and `Insert` go where it stays. At the end nothing is promised, so the
script keeps as many lines as the first cell says, which no other exceeds.

For patching, `PatchInv` adds to `GroupInv` that every hunk begins with the
script or with an op that both texts have, so that its header is right although
an empty side is stamped 0. `SidesAre` says that the sides of a hunk are the
parts of the texts between the places of its ops. `Mix(n)` is the old text
before op `n` and the new text from there on. Patching a hunk turns the mix
after it into the mix before it (`PatchOne`), and between two hunks, where all
ops are equal, a mix does not change (`MixOfRun`); so from the last hunk to the
first the old text becomes the new one (`PatchingGivesB`).

*The wizard.* `WizardInv` says that the presets which are current or staged pass
`Validate` and nft (`Sound`), that an editor page holds the form of the presets
it was opened with (`PageIsCurrentThen`), and that a review holds what `Parse`
reads from such a page with an edit (`ReviewIsOfPage`). The work is in two
lemmas on the operators. `OthersAgree` says that the parsed form agrees with the
presets on every field of the kinds that were not edited, because hidden inputs
and the page's own are separate (`InputsAreSeparate`) and no radio button of
another kind is posted; `UntouchedAgrees` says so of the edited kind when
nothing was entered. `RoundTrip` says that a form which agrees with the presets
on the fields of a kind means the same for it: field by field for most, while a
default port (`SshRoundTrip`, `DbRoundTrip`) and an outbound stanza that
restricts nothing (`OutboundRoundTrip`) come back different but compile to the
same, and block sets survive as text if none is empty (`BlockSetsRoundTrip`).
`AsShownIsValid` is the claim that a page
submitted as shown is never refused. For the review page, `StagedForm` says what
its inputs carry, and `CarriedIsStaged` that this is enough for the services
that they can express.

*nft.* `Apply` is taken apart into what it does to a table, a chain and a set.
`Covers` is the condition on the shapes of snapshot and candidate under which
a rollback is proved to leave no trace; `traffic_leftovers` shows what happens without it.

Model-checked only, and why:

* everything about liveness, which the prover has no rules for: `PendingEnds`,
  `UnapprovedLeaves`, and the fairness of `AutoRollback` in
  `KeepsFairContract` (its safety is `StagerKeepsContract`);
* the three runs of section 6, which refute.

Every invariant and every action property that a passing run checks is a
theorem. Where one needs induction over the naturals, whose theorem in the
library takes an operator and cannot be instantiated here, the proofs take it
from the least element of a set of numbers (`LeastOf`, `GreatestOf`,
`AllNaturals`), and what a recursive function computes from a witness that
satisfies its equations (`SomeTableIsFilled`, `WalkExists`).

## 6. Disagreements found

With a run:

* **Confirm can be undone** (`stager_confirm_race`). `fireTimeout` looks at the
  state, releases the lock and applies the snapshot. A `Confirm` in between
  answers success, "the staged change becomes permanent" (`stager.go:179`), and
  the goroutine then sets `rolled-back`.
* **Leftovers of a flushed table cut connections** (`traffic_leftovers`). After
  a trial that restricts outbound traffic, a rollback to presets without an
  outbound stanza leaves the output chain with policy drop and no rules.
* **What is staged is not what was reviewed** (`wizard_review`). The form of the
  review page has no inputs for interface pins and the rate limit of SSH, for
  references to block sets, port forwards, masquerade, marks and helpers.

Seen while modelling, without a run of their own:

* A stale timer acts on the next change. The check under the lock asks whether a
  change is pending, not whether it is this timer's (`stager.go:170-172, 219`):
  after a `Confirm` and another `Stage`, a timer that had already fired marks
  the new change `rolled-back` while it stays in the kernel.
* `Confirm` stores nothing: after a restart the configuration file is in force
  again, although `stager.go:10` says that it "persists the new state".
* `Stage` never looks at the state again before it commits: overlapping calls
  both succeed, and the second takes the place of a pending change.
* `Rollback` stops the timer first; if its apply fails the change is pending
  with no end. It is enough that its client leaves: the context of the request
  is that of the nft run (`api.go:294`).
* A table that the next presets do not compile to is not in the script, and
  stays as it was: after the last port forward and masquerade are removed or
  rolled back the old redirections go on, after the last mark the old marks,
  and without any filter preset the old input chain, its drop policy
  included. Elements taken out of a block set stay in it, and
  their peers stay blocked (`nft_linux.go:58-71`).
* "Block CIDRs ... win over any allow" (`policy.go:118`) is true of what the host
  sends. A blocked peer whose connection is forwarded to another host goes on
  hearing from there: such packets pass no output chain.
* The context of an HTTP request kills nft when the client goes: a candidate
  may be committed with an error reported, no timer armed and `last` stale.
* `fireTimeout` drops the error of its apply and reports `rolled-back`.
* The panel keeps the presets of a change that the timer or the API ended, and
  a later confirm of another change promotes them.
* A page opened before a change elsewhere was confirmed stages the old values
  of all other services.
* "Only trusted networks" with an empty list opens SSH or the database to all.
  A block set without networks disappears on the editor page, and a reference
  to it then makes every edit invalid. The editor of marks turns an icmp mark
  into one for all protocols.
* Without `default_deny_inbound` allowlists, interface pins and rate limits
  restrict nothing (a test expects it so).
* The simulation of packets (`internal/mcp/explain.go`) takes a rule with a word
  that it does not know for a miss. Every rule that Zeerak renders has a
  `comment`, so on a live ruleset it answers with the policy of the first chain.
  It honours fewer words than `ExplainRule`, although `explain.go:145-146` says
  "the same" (`ct`, `meta` and `icmp` are misses); a field that is not given is a
  miss too, although 118-119 says that it does not "constrain the match"; and it
  walks all tables, not only "owned chains" (141): the first that has a policy
  at the hook decides, be it Docker's. It does not look at families: a table of
  family ip is walked for an IPv6 packet, and `ip protocol udp` is reported as a
  hit of one. `return`, `jump` and `goto` are passed over, where the kernel goes
  to the policy or to another chain.
* A preview never shows "no changes" for presets with a NAT or mark chain: the
  renderer leaves out the policy that nft lists. It reads the tables of the
  candidate one after another, so the diff may mix two moments. Chains that the
  candidate lacks appear in it as deleted, and stay in the kernel.
* `zeerak apply --yes` sends a `Confirm` without identity: if its change was
  rolled back and another staged in between, it confirms that one.
* The cards: without default-deny a service that is shown as "blocked" is
  reachable, and the gaps of Caddy are false alarms; SSH that is limited to an
  interface or a rate is shown as "Open from anywhere"; references to block sets
  and an output chain left by earlier presets are not looked at; while a change is pending they show the presets last
  confirmed and not those in force.

## 7. What is not modelled

The text format of nft and the raw `tables` of a configuration file (copied as
they are); families and priorities of tables, which belong to their names here;
HTTP, HTML, authentication and JSON-RPC framing; the wording of explanations and
the section of the dashboard on routing, which restates the presets;
integrations other than the ports of Caddy and the test kit, which only read the
host or set up tests; the limits on line lengths of the scanners in `activity.go`, which no
line written by the daemon meets; deadlines of the rollback timer (it may fire
at any moment, so every length is covered); master and agents, which exist only
in `VISION.md`. `Daemon` has handlers one at a time; `Panel`'s own race between
`presetsStage` and `confirm` in two tabs is listed as a hazard. Conntrack
helpers and masquerade are compiled and round-tripped, but `Traffic` has no
packets that would show their effect.

## 8. Plan

The order so far was by importance: the contract and the stager, what nft does
with it, panel and daemon, what the rulesets mean, the pages that produce them,
the log; then the command line, what is read back from the kernel, the cards and
the diff; then a theorem for every safety property. What is left:

1. Theorems: `StageThenUndo` for a list of changes one after another.
2. `Panel` with two tabs and the API in a run of its own, for what remains true.
3. `Cards` while a change is pending, once the dashboard says which presets it
   shows; the section on routing.

Each new question joins a run that can carry it, or replaces one: the project
keeps its runs few.

## 9. Running it

In this directory:

```
tlc -workers 2 -config stager_any.cfg MCStager
tlapm StagerProofs.tla
```

The module of each configuration is in `PROJECT.json`. All runs together take a
few minutes; the proofs take longer, most of it for `TrafficProofs`, `LineDiffProofs`
and `FirewallProofs`.
