# SharedOS in TLA+

A verification development for SharedOS: TLA+ models of the kernel that decides
and mediates what agents do, of what drives it and of what it serves, TLC runs
over small instances, and TLAPS proofs of what matters most for instances of any
size. Source paths below are relative to the repository; `core` is
`packages/core/src`.

## The system

A **host** owns the state (grants, files, channels, policy, audit log). A
**turn** is one run of an agent. SharedOS sits between: it resolves what the
turn may do from the host's grants, offers it a catalogue of tools, decides each
operation, and records it. Everything runs in one JavaScript process, so a
handler is atomic up to its next `await` and anything may run at the `await`:
other turns, other calls of the same turn, the host editing its grant store, a
signal firing. Around it are processes that are not: a vendor's CLI, a model
behind a network, a client on a connection that may be lost, a file system.

| Part | State it keeps | Operations | Talks to |
| --- | --- | --- | --- |
| Grants (`contracts/capability.ts`, `core/authorization.ts`, `constraints.ts`, `delegation.ts`, `internal.ts`) | none: grants are values | matching, containment, windows, the link rule, `deriveGrant` | read by everything below |
| Delegation chain (`core/delegation.ts`) | the ancestors of one walk | `validateDelegationChain` | awaits the host's resolver once per ancestor |
| Authorizer (`core/authorization.ts`) | the usage store's counts | `authorize`, `canDiscover`, `reach` | grant verifier, chain walk, host policy, usage store |
| Authority resolver (`core/authority.ts`) | a memo of snapshots | `resolve` | the host's `GrantSource` |
| Turn authority (`core/kernel.ts`) | the lease table: identity to `{refs, resolution, registry, catalogHash}` | `openTurnAuthority`, its `close`, the lookup every operation starts with | resolver, audit sink |
| Tool registry and catalogue (`core/tool-registry.ts`, `published-tool.ts`, `kernel.ts`) | the shared derivation a lease holds, its waiters | `#resolveToolRegistry`, `#holdRegistry`, `listTools` | tool providers, every operation's own signal |
| Kernel operations (`core/kernel.ts`) | none between calls | `invokeTool`, `invokeResource`, `sendMessage`, `admitTurn`, `readAgentCard`, `reach`, listings, settings | all of the above, tool handlers, channels, audit sink |
| Turn envelope (`runtime/executor.ts`) | one turn: budgets, calls in flight, deadlines, draining | `execute` | kernel, runtime plugin |
| Standard runtime (`runtime/standard-runtime.ts`) | position of the driver loop | the loop, the late session | driver, envelope |
| Model seat (`adapters/model`) | the transcript, the reply's calls not yet made, the attempt | `open`, `next`, the client's retries | model API, loop |
| Harness seat, driven (`adapters/driver.ts`, `node.ts`, `process.ts`, the vendors' protocols) | frames unread, calls not yet made, the child process | `open`, `next`, `close` | child process, loop |
| Harness seat, over MCP (`adapters/mcp-runtime.ts`) | escalation latch, terminal outcome, idle timer | `run` a vendor CLI as a turn | bridge, child process, envelope |
| MCP bridge, server (`mcp`) | closed flag, the requests of each post | list, invoke, batches | envelope, harness |
| Message tool (`core/message-tool.ts`) | the envelope prepared per call | requirement, handler | kernel |
| HTTP handler and client (`http`, `client`) | one request | one per route | kernel, the caller |
| Files and repo tools (`os`) | the call parsed, per call | arguments, requirement, translation to a resource operation | kernel |
| Reference host's files and settings (`examples/reference-host`) | a tree of files, snapshots, a table of enabled namespaces | twelve file actions, `applyUpdate` | file system |
| Capability requests and precedent (`core/capability-request.ts`, `precedent`) | the host's rows of answers | ask, answer, `admitAutoDecision` | the host's lookup and store |
| Agent cards (`core/agent-card.ts`, `reach.ts`, `kernel.ts`) | none: derived when read | `readAgentCard`, `reach` | resolver, usage store, directory grants |
| Testkit, conformance, scripts, other examples | none of the system's own | | |

### What is hard, and what must hold

- **Grants and delegation.** Rules are stated several times (a link is checked at
  use, at issue, and between constraint envelopes), and the store changes between
  the awaits of one walk. A chain must never permit more than any of its
  ancestors, must spend depth, and must feel a removal or expiry above it.
- **Authorizer.** Decisions interleave at the usage store, and a store may count
  a use and then fail to say so. A bounded grant must never be overspent, a
  refusal must cost nothing, and the reason given must be the worst one met.
- **Turn authority.** Turns that share an identity open, join and close around
  slow loads. All operations of one turn must be decided on one authority, and no
  lease may outlive its turns.
- **Catalogue.** One derivation, many waiters, each with its own signal. A caller
  that gives up must end nobody else's work; work nobody waits for must stop; one
  turn must answer from one catalogue.
- **Kernel operations.** The audit trail must account for what was done: a use
  spent and then an unwritable record, a handler entered and then interrupted, a
  record that is written after its limit.
- **Turn envelope.** `retryable` must not be claimed while a write may have
  happened, by a call nobody waits for any more or one stopped by another's
  outage; a plugin must not outlive, swallow or outspend what the envelope
  decided; a draining turn must settle.
- **Driven turns.** A session that opens after its turn gave up must be closed
  with the turn's ending; a call stated twice on the wire must be made once; a
  model must hear of every call it made; a harness must not outlive its turn, nor
  a turn complete on anything but its word.
- **Harness over MCP.** Posts come at any time, in batches, beside each other.
  Nothing may reach the host once a human was asked for or the turn is over, and
  an ask that was taken must be the ending.
- **Remote calls.** A caller that never heard makes its call again, perhaps while
  the first is under way; file operations are several file system calls each.
  What the caller is told must be what happened.
- **Consent.** An automatic decision rests on rows another store answers with. It
  must permit no more than each of them, and no more than was asked where any of
  them answered another question. A description of authority must not be wider
  than the grants in force while they are spent, and must not become narrower
  because something it depends on is down.

`PROJECT.json` lists these hazards one by one at the line where they bite, with
the properties that cover each.

## The modules

| Module | Models | Checked by | Proved in |
| --- | --- | --- | --- |
| `Grants` | the grant predicates and `deriveGrant`, as operators | through the modules that use it | `AuthorizerProofs` |
| `DelegationWalk` | `validateDelegationChain` against a live store | run `delegation_walk` | `AuthorizerProofs` |
| `UseBudget` | abstract: at most `maxUses` operations stand on a grant | `BudgetKept` | |
| `Authorizer` | `#decide` for concurrent decisions, with the usage store | run `authorizer` | `AuthorizerProofs` |
| `HeldAuthority` | abstract: holders around one frozen authority | `AuthorityIsHeld` | |
| `TurnAuthority` | the lease table and operations that look it up | run `turn_authority` | `TurnAuthorityProofs` |
| `Catalogue` | the shared derivation, its waiters, the hash on the records | runs `catalogue`, `shared_abort` | `TurnAuthorityProofs` |
| `Invocation` | the kernel's operations on the world and their records | run `invocation` | `InvocationProofs` |
| `TurnEnvelope` | one turn: deadlines, mediated calls, its ending | run `turn_envelope` | `TurnEnvelopeProofs` |
| `StandardRuntime` | the standard loop over any driver | run `driven_turn` | `DrivenTurnProofs` |
| `Seat`, `ModelSeat`, `ChannelSeat`, `VendorProtocols` | the two drivers the adapters seat, and what the four vendors' frames mean | run `driven_turn` | `DrivenTurnProofs` |
| `DrivenTurn` | composes them | run `driven_turn` | `DrivenTurnProofs` |
| `McpServer` | the turn's tool server: HTTP transport, bridge, latch | run `harness_turn` | `HarnessTurnProofs` |
| `HarnessTurn` | a vendor's CLI run over it | runs `harness_turn`, `leaked_port` | `HarnessTurnProofs` |
| `OsTools` | the portable file and repo tools, as operators | run `remote_calls` | `RemoteCallsProofs` |
| `ToolRegistry` | registries, what is published and shown of them, as operators | run `remote_calls` | `RemoteCallsProofs` |
| `FileProvider` | the reference host's files provider | run `remote_calls` | `RemoteCallsProofs` |
| `RemoteCalls` | client, HTTP handler, kernel operations, message tool, settings | run `remote_calls` | `RemoteCallsProofs` |
| `GrantStore` | the host's grants and uses, and what a load answers | run `consent` | `ConsentProofs` |
| `Admission` | asking, answering, admitting on precedent | run `consent` | `ConsentProofs` |
| `AgentCards` | agent cards and reach | run `consent` | `ConsentProofs` |
| `Consent` | the two over one store | run `consent` | `ConsentProofs` |

The modules meet where the components do. Some compose: `DrivenTurn` extends a
loop and two drivers, `HarnessTurn` extends its server, `RemoteCalls` extends the
provider its calls end in, and `Admission` and `AgentCards` share `GrantStore`,
which stands on `Grants` as `DelegationWalk` and `Authorizer` do. Others rely on
what another shows rather than on its state: `Authorizer` implements `UseBudget`,
which is the authorizer as `Invocation` sees it; `TurnEnvelope` takes a call's
answer as `Invocation` shows it may be (`NoneMeansNothingRan`), and closes its
authority as `TurnAuthority` assumes; the host in `StandardRuntime` and
`HarnessTurn` answers, rejects, drains and aborts as `TurnEnvelope` may.

`MC*` modules instantiate a module for TLC. A proof module extends the components
it is about; where two share one (`AuthorizerProofs`, `TurnAuthorityProofs`),
the smaller component's specification has names of its own (`ChainSpec`,
`CatalogueSpec`). Operators whose comment begins with
"Mutant:" are plausible wrong versions of the definition below them; nothing
uses them but the mutation checks listed in `PROJECT.json`.

### Grants

Schemas become record sets (`Capability`, `Constraints`, `Grant`,
`Requirement`), an absent optional field is `None`, a timestamp that is present
but unparseable is `Garbled`. A path is a sequence of opaque segments. Each
predicate keeps its name: `capabilityMatches`, `capabilityIntersectsCeiling`,
`capabilityIsWithin`, `capabilityIsWithinInAnyContext`, `grantIsActive`,
`constraintsAreWithin`, `constraintsAreAttenuated`, `linkHolds` (`linkViolation`
returns undefined), `derivable` and `deriveGrant`. The actions are a set rather
than an array, because the code only asks for membership.

### DelegationWalk

State: the host's store and clock, the grant copy the turn was admitted with,
and one walk (`child`, `ancestors`, the two instants it decides at). `StartWalk` is
the call from `#validateDelegation`; `TooLong`, `ResolverFails`, `ParentMissing`
and `ParentResolved` are one iteration of the loop each, split at the `await`.
The host's `Derive`, `Revoke`, `Remove` and `Tick` run between any two. One walk
is enough: walks only read the store. `issued` holds every id used so far, from
the start also those of ancestors that are gone and only named.

### Authorizer

Every call has a walk record: where it is (`step`), the outcome of each grant it
passed, the flags `#decide` keeps (`delegationFailure`, `policyDenial`,
`foundExhaustedGrant`) and the verdict. The chain walk, verifier and ceiling
answer nondeterministically, as their own modules and the host may. The usage
store is atomic inside (`StoreServes`) and its answer travels separately
(`StoreAnswers`) or is lost (`StoreFails`). `paid` is a history variable: which
grant a call's use was counted on.

### TurnAuthority

`leases` is the `#turnAuthority` map. A turn opens in phases cut at the awaits:
`Open` (first look at the table), `SourceAnswers`, `Settle` (second look, then
install or join). `Refuse` is `ExecutionInProgressError`. `Close` is the scope's
idempotent close by the turn that was handed it, `CloseAbandoned` the same by the
reaction to the promise of an open that was given up on. Operations answer from
the lease (`Present`) or load for themselves. The grant store is a version number
that changes at any time. `Abandon` is a caller whose signal fires while its open
is under way.

### Catalogue

`Leases` are the successive leases of one identity, and `Readers` the operations
that need its catalogue. A lease outlives its place in
the table in whoever captured it, and the module keeps both. A derivation is
named by the operation that started it. `HoldsRegistry`/`JoinsRegistry` are
`lease.registry ??= ...` and the count, `Aborts`/`Wakes` are `raceAbort`,
`Leaves` is the `finally`, `Settles` is the promise reaction that drops a
rejected derivation, and is a step apart from `Ends`, which rejected it.
`Publishes` and `Records` are the two places the catalogue's hash reaches an
audit record.

### Invocation

`op` holds one operation's progress: `checking` until it is decided, `deciding`
while its decision is with the sink, `allowed`, `running` inside the host's port,
`closing` while its outcome is with the sink, `reporting` while `onAuditError` has
it. `trail` is what the sink holds of it; `late` are the outcomes a sink may still
write after `auditWriteTimeoutMs`; `reported` is what the host was told. The five
kinds share one path, as the code's do (`#decideAndRecord`, `#invokePort`,
`#recordOutcome`), and differ in who decides them: a `dispatch` stands on its tool
call's decision, an `admit` has no port. `OuterOf` nests operations: a port may
call the kernel back and let through what it hears (`PortLosesAudit`). A port
answers anything; the sink fails, having written or not. A decision is one step
that may spend a use. The lookup of authority and catalogue is `ThrowsEarly` or
`Refuses`, its detail being `TurnAuthority`'s and `Catalogue`'s.

### TurnEnvelope

`stage` is where `#runTurn` is: it opens, admits and prepares, runs the plugin,
records an escalation, settles its calls in the `catch`, and then has a result.
`draining` and `hard` are the two signals of `createTurnDeadlines`, `hard` with
its reason, because a call aborted for an outage rejects with that outage. Each
mediated call is refused (`RefusesUnseen`, `RefusesSeen`) or goes to the kernel
(`Mediates`), where it may act and then answer (`KernelAnswers`), also long after
the turn stopped waiting. `Catches` is the `catch` and `EndsHolding` the `finally`
with the result. An answer and the reactions to it are one step: nothing reads
the counts in between but to be more careful. Which of its endings the plugin
chooses, whether it awaits its calls, and what it does with a rejection are free.

### StandardRuntime, Seat, ModelSeat, ChannelSeat, VendorProtocols, DrivenTurn

`StandardRuntime` is `StandardLoop.run` over any driver. `at` is where the loop
is: it opens a session, asks it, calls the host, or closes it. `opening` is what
became of `open`, which may answer after the turn gave up (`OpensLate`); the
session is then closed with the outcome the turn has. `Decides` parses a
candidate (its type, keys and the values that do not parse) and `Continues`,
`EndsWith` and `Catches` are the three ways on. `AbortWakes` is `raceAbort`,
`CloseSettles` the close or its timeout. The host answers, rejects, begins to
drain or aborts as `TurnEnvelope` may.

`Seat` is `SeatCalls`: what an occupant asks for in one breath is queued, and
handed to the loop one call at a time. `said` and `sent` are history: what was
said, and what the host was sent. `ModelSeat` puts a model in it. `thinking` is
what its client waits for, `attempt` its retries, `wire` the transcript as roles
and call ids, `malformed` the calls it could not read. `ChannelSeat` puts a
vendor's CLI in it: `child` is the process, `buffered` the frames nobody has read,
`waitsFor` what the session awaits. The process writes, falls silent or exits
when it likes. `VendorProtocols` says what its frames mean: whether blocks or
frames of their own are read as calls (`readsBlocks`, `readsCalls`), and which
frame ends a turn and how (`endingStep`): those read as finished, those listed as
failures, and those that are neither and complete the turn all the same
(`unlisted`). A `host` seat is any driver, as the
loop allows one. `DrivenTurn` composes them; its `LoopStep`s are the loop's own.

### McpServer, HarnessTurn

`McpServer` is the tool server of one turn. A post is a sequence of messages,
handled in order (`post[p].body` is what is left of it, `answers` what it has so
far, each with the place of the message it is to), and posts run beside each
other, cut at the awaits of the catalogue and of the host. `asked`, `afterwards`
and `askNoted` are the latch's reason, count and record; `isOpen`, `isStillOpen`
and `refusesAll` are its three looks. `HarnessTurn` runs a vendor's CLI over it:
`at` goes from `binding` the port over `scratch`, `launching`, `running`,
`settling` and `closing` to `done`. `Closes` is the bridge's close, which drops
the posts not answered. A session harness (`session`, `keepStdinOpen`) is let go
by closing its input when a terminal frame came or the idle timer fired; a
one-shot one has its input closed from the start. The timer is due (`quiet`) only
once time passed without a word (`Lapses`): each frame (`Speaks`) and each piece
of error output (`Mutters`) starts it again. `outcome` is what `run` returns.

### OsTools, ToolRegistry, FileProvider, RemoteCalls

`OsTools` says what each portable tool takes and which resource operation a call
of it is; `ToolRegistry` which definitions a host publishes and shows. What
the code settles by going over providers and definitions in turn is stated there
of the offers as a whole (`isRefused`), which is what a proof can use.
`FileProvider` performs an operation as the sequence of file system calls the
reference host makes (`planOf`), one step each, so that two operations interleave
between them; a write makes the directories above its file, then empties
the file before it fills it. The file system may refuse any of the calls, and the
recursive removal of a directory part way. What an operation then leaves behind
it, short of what it is for, is kept in `left`. A removal looks and then removes, so
that two of one file may both succeed. `RemoteCalls` is a
call from the client to the provider and back: the handler parses and routes, the
tool's requirement stage keeps what it prepared under the call itself
(`prepared`), the kernel decides, the handler stage takes it. The client may lose
the connection anywhere (`told`), and the server go on. `enabled` and `patches`
are the host's settings and the updates that made them; `changed` is history.
Audit and authority are `Invocation`'s and `Authorizer`'s: a decision here is
either way.

### GrantStore, Admission, AgentCards, Consent

`GrantStore` is the host's grants and counted uses. `Admission`: a host escalates
what a turn was denied, or an ask stated to it (`Asks`), for a purpose that is the
ask's own; an escalation without an ask, as a turn's envelope records, leaves
nothing to answer. Its owner answers and may answer again (`Records`), a host's
matcher proposes a decision citing earlier asks (`Proposes`), the lookup answers
with any rows (`LookupAnswers`), and an admitted decision is issued as a grant
marked as such (`IssuesAdmitted`). `objections` are the refusals of
`admitAutoDecision`; `tightestConstraints` is its envelope. `AgentCards` reads the
store back: a read loads the grants, then asks for each budget in turn while
`Spends` spends, and serves the reach. A budget that cannot be read ends it
(`BudgetUnreadable`); a grant whose verifier or chain's resolver throws, or whose
parent is nowhere to be found, is passed over (`CheckFails`). `Consent` puts the
two over one store.

## The runs

| Run | Instance | Bounds and why they are enough |
| --- | --- | --- |
| `delegation_walk` | 3 grants in a line, limits 1 and 2, clock 0..2, 13 starting stores (8 with a hand-written middle grant that breaks one rule), 4 derive requests | Two links are needed for attenuation to compose and three ids for a cycle or an overlong chain; a clock of 2 lets an edge of a window be before, at and after a decision. Longer chains are covered by the proofs. |
| `authorizer` | 3 decisions over 3 grants (`maxUses` 1, 2, none; one derived), 8 requests | Three deciders contend for one and for two uses; requests reach every gate. Calls are symmetric. |
| `turn_authority` | 2 turns naming one execution, 3 turns on an unnamed identity, 1 operation each, 2 store versions | Three holders are needed for "first close", "middle close" and "last close" to differ. `OneIdentityAtATime` keeps a behaviour to one identity: two identities meet only in the store, whose changes either sees anyway. |
| `catalogue` | 2 turns, 1 listing, 2 calls | Two waiters and one latecomer; one turn to leave and the next to be mistaken for it. Turns and calls are symmetric. |
| `invocation` | an outer tool call, an inner resource operation or dispatch, an admission from inside; one signal, 1 use; a host with a write limit and a hook, and one with neither | Two levels of nesting let an outage pass through a port; the inner call contends for the one use, so the budget is met. The host with no limit may wait for a record for ever. |
| `turn_envelope` | 3 calls, 2 of them within `maxToolCalls`, steps 0 and 1 with `maxSteps` 1, an executor with a grace and one without | A call that meets an outage, a sibling stopped by it and one refused meanwhile. Three is one over each budget. |
| `driven_turn` | `maxSteps` 2; a model, one of the four vendors' CLIs, or a driver of any kind in the seat; two breaths of up to three items, readable or not, asks among them; one malformed call and one retry borne; 3 frames unread | A second breath is needed for a result to be taken for the next one's; two calls in a breath for one to overtake the other; the third step is one too many. |
| `harness_turn` | 2 posts of 1 to 3 messages, a session and a one-shot CLI of Pi's, a catalogue with the affordance and one without it that has a tool of the name it is written by where dots are not allowed | Two posts to be beside each other, three messages for a call before and after an ask in one batch. |
| `remote_calls` | 2 calls, any pair of 29 requests, all with one id; a directory, a file and a planted link; a tool provider with three kinds of offers | Races over files and settings are between two operations, and a retry is two calls. Calls are symmetric. |
| `consent` | 2 asks, of 3 that may be made and 2 purposes, 1 proposal, 1 read; a bounded grant of one use, one derived from it, an unbounded one; lookups of up to 2 rows | Two rows are needed for their envelope to differ from each, and a row to be missing, doubled or foreign. `readsMayRun` bounds the interleaving: a read shares only the store with the rest, and only issuing writes there. |
| `shared_abort`, `leaked_port` | as `catalogue` and `harness_turn` | Each checks one statement of the source, and fails. |

Deadlock checking is off in all of them: a grant walk that has ended, decisions
all made, turns all closed, calls all answered are states in which the modelled
system rightly stops.

What the passing runs show, property by property:

- `NoAmplification`, `DepthBudgetSpent`, `RemovalReachesDescendants`,
  `ValidChainWasWhole`: what "valid" means, though the walk reads its ancestors
  at different times. The last says the walk is sound as if it had been one read
  of the store at its start. That is because grants are immutable except for
  revocation and removal, and ids are not reused (the one assumption about the
  host, `issued`; an id is documented as unique).
- `DerivedLinksHold`: what `deriveGrant` issues, the walk accepts, unless an
  ancestor ended or the chain is too long.
- `DenialNamesTheWorst`, `BudgetKept`: the second is a refinement of `UseBudget`.
- `TurnsDecideOnOneAuthority`, `AuthorityIsHeld` (a refinement of
  `HeldAuthority`) and `NothingStaysHeld` (liveness).
- `CancelledOnceAllHaveGone`, `NoWorkForNobody`, `TurnReadsOneCatalogue`: a shared
  derivation is nobody's to cancel but its last waiter's, and is cancelled then.
- `ActsOnRecordedAllow`, `NoneMeansNothingRan`, `TrailIsComplete`,
  `TrailMatchesAnswers`: the two audit rules (a record before an effect stops it,
  a record after one changes nothing) keep trail and callers in agreement, at any
  depth, whether the sink fails, fails having written, or writes late.
  `TrailIsComplete` is about hosts with a hook: without one a lost outcome is lost
  in silence. `AnswersAreReleased` is liveness.
- `RetryRepeatsNothing`, `OutageIsNotSwallowed`, `DrainWaitsForCalls` and
  `EveryTurnEnds` (liveness). The first has one exception, in its statement: a
  tool that acts and then itself answers `denied` is taken for one refused before
  it ran (`isRefusedBeforeEffect`), as the kernel passes a handler's own `denied`
  on.
- `ClosedWithItsEnding`, `EverySessionIsClosed` and `RunEnds` (liveness): a session
  is closed once, however late it opened and whatever the driver does.
- `CallsReachTheHostInOrder`, `WireIsAnswered`, `CompletesOnItsWord`: what comes
  between an occupant and the loop loses, doubles, reorders and invents nothing: no
  call of a reply or a frame, no result, no ending. The last says that a harness
  which dies, falls silent, goes on trying or names a failure does not complete its
  turn; what DeepSeek and Claude Code may end with besides is
  among the disagreements below.
  `HarnessOutlivesNoTurn`: an
  abort reaches the process, one still being started included.
- `NothingReachesAnEndedTurn`, `AskIsHonoured`: the latch is closed for calls at
  the same instant as an ask is taken, and read again after every await; and the
  answer a harness was given to its ask is the turn's outcome though the harness
  then exits as if it had completed or failed. `EveryRequestIsAnswered`: in each
  post, once and in order, and what the answers of all posts say of the latch agrees
  with it and with the record. `RunEnds` is liveness, also when nobody stops the
  turn; the one run it excepts is of a session harness that goes on writing and
  states no ending, which restarts the idle timer and is the deadline's to end.
- `AppendedOnce`, `ClientIsToldWhatHappened`: expected versions make a call safe
  to make again, and refusals are given before anything is changed, between the
  file system calls of another operation. A request at fault (400 to 499) leaves
  nothing; a conflict or a denial may leave the directories above a file, and a
  recursive delete what it had not got to: see the disagreements below.
  `AppendedOnce` needs the version not to come back, and says so.
  `AuthorizedIsDone`, `PatchesHold`: two calls through one handler, and two
  patches of the settings, take nothing from each other.
- `AllowRestsOnEveryAnswer`, `NarrowedUnlessSameQuestion`: an allow is tried use by
  use, at every instant and purpose, against each row it rests on. `ReachIsTrue`:
  budgets are read one at a time, and what is served still lies between what was
  open when the grants were loaded and what is open when it is served, and a budget
  that cannot be read leaves nothing out. A grant whose own checks ended without an
  answer may be missing, which is among the
  disagreements below.

### Fairness

Six properties of five runs are liveness and need some:

- `NothingStaysHeld`: weak fairness of `Close` and of `CloseAbandoned`. The envelope
  closes a scope it was handed in a `finally` that its hard deadline reaches
  (`runtime/executor.ts:870-876`), which is part of `EveryTurnEnds`. The scope of an
  open that was given up on is closed in a reaction to its own promise (877-880);
  what is assumed there is that reactions run, and the property fails of a turn
  that closes only what it was handed (the mutant `leavesOpen`).
- `AnswersAreReleased`: weak fairness of `OutcomeLate` and `HookLate`, which are a
  timer (`core/kernel.ts:2289-2313`). Without `auditWriteTimeoutMs` they never
  fire, and nothing is claimed.
- `EveryTurnEnds`: weak fairness of `Stops` (the timer of `timeoutMs`) and of the
  envelope's own continuations (`Starts`, `Interrupted`, `Settles`).
- `EverySessionIsClosed` and the loop's `RunEnds`: `LoopFairness`, weak fairness of
  the turn's deadline (`Aborts`), of the two things the loop races (`AbortWakes`,
  `CloseSettles`), and of the host's rejection of a call of a turn that is over,
  which `TurnEnvelope` shows. Nothing is assumed of the driver, the model, the
  process or its frames.
- The harness's `RunEnds`: weak fairness of what `run` itself awaits, of time
  (`Lapses`), of the idle timer once it is due, and of the exit of a process whose
  input has ended or that was told to stop. A harness that always writes in time
  keeps the timer from ever being due, and the property says so. The turn's
  deadline may fire but need not: a silent session ends by its idle timer. A
  harness that ignores the end of its input is ended by the deadline alone, and is
  not claimed for here.

`remote_calls`, `consent`, `delegation_walk`, `authorizer` and `catalogue` state
safety only and assume none. Nothing is assumed anywhere of the grant store, the
audit sink, `onAuditError`, a port or a plugin: any may never answer.
`EveryTurnEnds` is about the result; that `execute` then answers with it depends
on the record of the turn's end, which only a write limit bounds.

### What disagreed

Shown by a run:

- **One caller's abort can end another's operation** (`shared_abort`). The last
  waiter's abort cancels the shared derivation, which stays on the lease until its
  promise rejects. An operation arriving in between joins it and fails with it
  (`core/kernel.ts:1498`). The comment at `kernel.ts:1483` says a caller that gives
  up does not end the others' operations.
- **A scratch directory that cannot be made leaks the turn's port**
  (`leaked_port`). `mkdtemp` at `adapters/mcp-runtime.ts:236` is outside the `try`
  whose `finally` closes the server. The comment at line 175 says nothing outlives
  the turn, not the port.

Met while modelling, and stated in the models:

- Two opens of one execution id that both find no lease both load; the later is
  refused. `core/errors.ts:34` says "Nothing was loaded".
- The record of a late call looks its lease up when it writes (`kernel.ts:2115`).
  If the turn has closed and its identity reopened, the hash is the next turn's.
- With a grace, a call still out while an escalation is recorded can meet an
  outage, and the turn ends `escalated`. `docs/host-integration.md:547` says an
  outage ends the turn `failed`.
- A `turn/end` of DeepSeek's of a kind `TURN_END_FAILURES` does not list completes
  the turn (`deepseek/protocol.ts:162-165`), beside a comment that says `completed`
  is the only ending that produces an outcome (lines 90-92). Claude Code's result of
  any other subtype than `error`, not marked `is_error`, completes in the same way
  (`claude-code/protocol.ts:76-89`), and no comment says otherwise. Both are endings
  of the model (`unlisted`), on which `CompletesOnItsWord` lets a turn complete.
- Every `EACCES` is answered `denied` (`filesystem-provider.ts:396`), also one met
  after the directories above a file were made or part way through a recursive
  delete, and `docs/errors.md:14` says of a denial that nothing ran. In the model it
  is `left`, which `ClientIsToldWhatHappened` excepts (`refusedPartWay`).
- A throwing verifier or resolver, or a parent that is not found, makes `reach` pass
  over the grant and serve the rest (`authorization.ts:468-474`). The comments at
  `kernel.ts:819-822` and `authorization.ts:427-429`, and ADR 0021, say a reach must
  not omit a live grant because a dependency is down; the code does what they ask
  for authority and budgets only. In the model it is `CheckFails`, and `ReachIsTrue`
  excepts the grants passed over.
- `files.create` is of a "previously absent path" (`os/src/index.ts:301`), which the
  provider looks for and then writes to: two creates at once may both succeed.

## The proofs

All hold for every value of the constants, from the named `ASSUME`s: that
sentinels (`None`, `Garbled`, `Unavailable`) are not values, that finite sets are
finite, and that the parameters have their types.

- `AuthorizerProofs`, of `Grants`. `WithinMatches`: containment of capabilities
  preserves matching. `InvocationImpliesDiscovery`: what matches an invocation
  intersects its ceilings. `AttenuatedBounds`: attenuated constraints never hold
  where the parent's do not. `DeriveIsValidLink`: what `deriveGrant` writes passes
  the link rule under an active parent, in any context.
- `AuthorizerProofs`, of `DelegationWalk`. The inductive invariant `ChainIInv`
  adds to the types that every ancestor *so far*, not only at the end, permits
  what the presented grant does and has at least its distance more depth.
  `LinkPermits` carries it up one link from `WithinMatches` and
  `AttenuatedBounds`. The three properties of the store's history have an
  invariant of their own, `HInv`: two grants ever seen under one id differ in
  their revocation at most; an id that was named, but not there, when the walk
  began does not come back, so what the walk resolves was there; the line resolved
  so far was a line in that store; and a derived grant fits under the parent it
  was derived from, whatever became of either.
- `AuthorizerProofs`, of `Authorizer`. The invariant says what each call owes
  (`Owes`: what it has paid, by the step it is at), that the three flags remember
  exactly the outcomes met (`FlagsRemember`), and what a concluded walk has seen.
  It is split into one lemma per action. That a bounded grant is never overspent,
  that a refusal costs nothing, and `DenialNamesTheWorst` follow, and the
  refinement of `UseBudget` needs besides that what a call stands on never changes
  once set.
- `TurnAuthorityProofs`. The invariant adds to the count of holders that scopes
  sharing an identity share the lease's resolution, that a named identity has one
  holder, that operations inside a turn answered from its lease, and that a turn
  about to settle has loaded. The count is an induction over cardinalities of the
  open set. `AuthorityIsHeld` follows step by step. Of `Catalogue` it is `CatInv`:
  the lease counts exactly those who wait (by cardinality again), a lease holds the
  derivation started for it until that is dropped, and who was answered was
  answered by one that resolved. That only the last to leave cancels is an action
  property, proved from it.
- `InvocationProofs`. The invariant says of each operation what its phase, port,
  answer and records say together (`Sound`), that a nested operation has begun only
  inside a port that was entered (`Nested`), that late records have answers, and
  that the uses counted are the decisions that spent one. `OperationMoves` carries
  all of it over one move of one operation, and each action is a case of it.
- `TurnEnvelopeProofs`. The invariant adds to the types that `writesWithKernel` is
  the number of writes the kernel has, that an act is either still with the kernel,
  noted as possible or denied by its tool (`Accounted`), that nothing is called
  before the run, that what allowed a retry stays so after the end (`RetryStands`),
  and that a settling turn waits for every call in a tool (`WaitsForAll`).
- `DrivenTurnProofs`. The invariant `ClosingInv` says that while a session is held
  or still opening none is closed, and that a closing carries the ending of the
  outcome it was made with. `LoopCloses` shows `ClosedWithItsEnding` for the loop
  over any driver at all; `TurnTakesLoopSteps` that every step of the model's and
  the harness's seat is a step of that loop or leaves it alone, so that
  `TurnCloses` has it for them. `DrainingTurnAsksNoMore` is an action property.
  `NoHarnessOutlivesItsTurn` adds where the process is while its session is held,
  opening or late.
- `DrivenTurnProofs`, of the calls. What was said is kept whole, and an item's
  place in it is its identity, so that every claim about order is one about
  numbers. In the harness's seat (`HarnessInv`) the calls queued, then those of
  each frame not yet read, increase; while the turn goes on they and the ones sent
  are all the calls said, and those sent come before. A call stated twice has to
  be read once: `Stated` says so of each vendor. In the model's seat (`ModelInv`)
  the queue is what the model said last (`LastOf`), the calls sent are the
  readable ones before it (`head`), and of every reply on the wire all calls are
  answered in place, save as many of the last one's as are owed: those queued, and
  the one the loop is at or has an answer to (`ReplyFits`, `owed`).
  `ProceedsKeeps` carries that over `#release`, in each of its three endings. A
  turn that is over keeps nothing but the order of what it sent, which is why both
  invariants are about turns under way or a client still waiting.
  `TurnSendsInOrder`, `ModelHearsItsAnswers` and `TurnCompletesOnItsWord` follow.
  `inOrder`, which says what choosing from a message's blocks keeps, is a
  `CHOOSE`: `CanBeOrdered` shows by the least number principle that there is
  something to choose, in place of an induction. `TurnTypeCorrect` needs of the
  invariant that a client about to try again may, and that a session still reading
  has frames left.
- `HarnessTurnProofs`. The invariant relates, for each post, the ask it holds, the
  answers it was given and what is left of its body to the messages it arrived
  with; the latch to those answers (an ask accepted is the latch's, and there is one
  across all posts); and the turn's record and outcome to the latch. That no call
  reaches the host later is an action property.
- `ConsentProofs`. The code compares a proposal with the rows it cites once, when it
  admits it, and the rows are never looked at again: the invariant says that what
  was admitted stays supported by the very answers it cited, that a grant issued is
  the host's or an admitted proposal's, and that a reach under way holds all it has
  considered and not passed over, and nothing else.
- `RemoteCallsProofs`. `RInv` says of every call that what is kept under it is its
  own (so that two calls with one id cannot take each other's); that it is where its
  route and its operation lead; that an operation that has yet to change anything
  has the one change ahead of it, and nothing but filling behind it; and that what
  was answered is true of that. A step touches one call, and `Frame` carries `Sound`
  over for the rest. A setting is what the last patch that names it says. The
  planned file system calls and the tools are functions and sets throughout, so that
  nothing here is an induction over data. `AInv` is beside it, for `AppendedOnce`: as
  long as no file has come to a version that is expected, a file that has one has it
  as it was found; an append that read what it adds to while the file was as found
  has that very text; so one that then passes the version check writes right after
  the text as found, whoever else does, and every other write leaves what stands
  there in its place or drops it. `OnceAssumption` says what "appended once" can
  mean: the text is nowhere else, and is only ever appended under a version.

Proved, and checked by no run: `NeverOverspent`, `RefusalsAreFree`,
`LeaseTableCounts`, `UsesBind`, `BudgetsAlwaysBind`, `DrainingTurnAsksNoMore`, the
`TypeCorrect` theorems and `TurnTypeCorrect`, and what the inductive invariants say
beyond the properties (`CallsAreSound`).

Only model-checked: liveness (`NothingStaysHeld`, `AnswersAreReleased`,
`EveryTurnEnds`, `EverySessionIsClosed`, both `RunEnds`), which is beyond the
prover. Every other property of a passing run is the conclusion of a theorem.

## Not modelled, and the plan

If more is modelled: the resolver's memo by snapshot digest, and the stdio transport
of the tool server.

Left out for good: schemas and what they say of a malformed value; the
conformance bench and the test kit (they observe the system and keep none of its
state); scripts; spans; the execution token; the codec of model tool names; the
resource registry, a map filled at construction; the other examples, which are
assemblies of the parts above. The wording, logging and metadata of records are
abstracted throughout; a record is modelled by what it says of the operation.
