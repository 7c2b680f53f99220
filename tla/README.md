# A TLA+ model of hubspot-mcp

hubspot-mcp is an MCP server for HubSpot CRM.  A model calls its tools; tools
that read go straight to HubSpot, tools that write go through a gate: the server
stores a *preview*, a human approves or rejects it, an approved write is
executed and can be undone.  The same server runs over stdio for one user and
as a hosted, multi-tenant HTTP service whose state is in Redis and whose
processes come and go.  This directory models the parts of it whose
correctness depends on the order of events.

## The system

| Part | State | Operations | What is hard |
|---|---|---|---|
| Write gate (`handlers.py`, `safety.py`, `snapshot.py`, `audit.py`) | pending previews, undo snapshots, audit log (all in the state store) | `handle_tool`, `handle_approve`, `handle_reject`, `hubspot_undo_write` | several requests on one action; failures and crashes between awaits; answers of HubSpot that are lost |
| Pattern writes (`handlers._execute_pattern_write`) | a preview of up to 100 records | execute with compare-and-set per record | edits between preview and execution; partial failure |
| Approval policy (`policy.py`) | `approval_policy.json` | `classify_write` | malformed configuration must never lower a tier |
| State store (`persistence.py`, `state/*.py`) | files under a lock, or Redis keys with a TTL | store, load, confirm, clear, reap | concurrent confirm and clear; expiry |
| Changesets (`intent/changes.py`) | a batch of operations with a status, its undo snapshot; the ids being applied in this process | propose, apply, undo | partial failure, interruption at any await, concurrent creates, death between two stores, two processes |
| Hosted auth (`auth/*.py`, `hosted_session.py`, `state/connection_store.py`) | connections with tokens, one-time tickets and states, a pool of clients | resolve, refresh, begin and complete a connect | refresh races, double redemption, eviction under use |
| Client (`client.py`) | token, rate-limit counters | `_request` with retries | concurrent sleepers, 401 and refresh, never sending a write twice |
| Intent tools (`intent/*.py`) | a search limiter, cached lookups | triage, forecast, hygiene, resolve_record, get_deal, account_brief, log_meeting_outcome | pages cut by offset while deals move, several searches for one answer, the right record among similar ones, values read long before they are written |
| Agents (`agents/*.py`, `dispatch.py`, `models.py`) | none of their own | preview, execute, reconcile | execute searches again, reconcile judges from a third read |
| Server (`server.py`) | lifespan contexts, tool registry | startup, teardown, tool wrappers | two HTTP surfaces sharing one lifespan |
| Caches (`cache.py`, `checkpoint.py`) | JSON files | load, modify, store | lost updates |
| Tools (`tools/*.py`) | none of their own | one HubSpot request each | what a request can end in |
| Routed surface, skills, blueprints | none of their own | text routing, prompt texts | not modelled |

How they interact: the server hands every tool call a client (one for the whole
process, or the caller's from the pool).  A write tool stores a preview and the
gate executes it later through the same tools; intent tools that write end in a
changeset, which `changes.py` applies without the gate.  Both keep what an undo
needs in the state store.  The agents and the raw tools share the client.

`PROJECT.json` lists every part under `components` and every behaviour that a
test would hardly reach under `hazards`, with the property that covers it.

## Plan

The modules, in the order in which they were written and depend on each other:

| Modules | About |
|---|---|
| `GateContract`, `WriteGate`, `WriteGateProofs` | the gate, what it promises, and the proofs |
| `Changeset`, `ChangesetProofs`, `ChangesetReports` | propose, apply and undo of batches; proofs about its types, status and writes; about its snapshots, its reports and its undo |
| `PatternWrite`, `PatternProofs` | one approved rule on many records, and the proofs |
| `Connections`, `ConnectFlow`, `HostedSession`, `HostedProofs` | stored connections and grants; the browser flow; tool calls, composed with both; proofs about who owns what, and about the clients of the calls |
| `AgentHandlers`, `RecordAgents`, `SpecialistAgents`, `AgentPipeline`, `AgentProofs` | what the agents share; the handlers file by file as operators; a request through them, and the proofs |
| `DealRules`, `IntentReads`, `ReadProofs` | the computations as operators; the calls that search, wait and compute, and the proofs |
| `RecordSearch`, `IntentLookups`, `LookupProofs` | which record is meant, as operators; the calls that find one and act on it, and the proofs |

An `MC...` module beside each of the state machines holds the values a run gives its
constants.  No module declares a `RECURSIVE` operator, so each can be proved about.

Left: the lifespan shared by two surfaces, and refinements of the store operations that the
gate and the changesets take as atomic.

All runs set `CHECK_DEADLOCK FALSE`: every request ends and the bounds run out,
so the systems stop.

## Write gate: `WriteGate.tla`

A *worker* is one request in flight.  `pc[w]` names its next await; each action
is the code from one await to the next, so requests interleave exactly where
asyncio, or two processes that share a store, can interleave them.

| Variables | Code |
|---|---|
| `preview`, `pending` | the record `apply_write` assembles, and what the store holds of it: `unborn`, `unconfirmed`, `confirmed` (`confirmed_count` is stored), `gone` |
| `snapshot` | the undo snapshot: original value, created ids |
| `audit` | entries of the audit log |
| `record`, `live`, `writes` | HubSpot: the value of a record, the objects an action created, how often it applied an action |
| `pc`, `act`, `count`, `held` | the request: next await, action id, typed count, snapshot or id it keeps |
| `granted`, `reported`, `rejected`, `undone` | history, read by properties only |

| Actions | Code |
|---|---|
| `CallTool`, `StorePending`, `Load` | `handle_tool`: build the preview, store it, auto-apply an AUTO write |
| `Approve`, `Confirm`, `SaveSnapshot`, `Invoke`, `RecordCreated`, `ClearPending`, `Audit`, `DropSnapshot` | `execute_pending_write` |
| `Reject`, `Discard` | `handle_reject` |
| `Undo`, `Restore`, `ForgetSnapshot`, `UndoAudit` | `hubspot_undo_write`, `undo_action` |
| `Abort` | a crash, a cancelled or timed-out request, or a store error nothing catches: the request ends at its next await |
| `ExpirePending`, `ExpireSnapshot` | the TTLs of the Redis store (24 h, 7 d) |
| `Edit` | another user of the portal changes or deletes a record |

Abstractions.  One record stands for the records an update touches, and its
value is the name of whoever wrote it last, so that a property can say whose
write is in HubSpot.  `InvokeOutcomes` is what a HubSpot write can end in: done
(`ok`), done without the id of the new object in the answer (`noid`), refused
(`rejected`), or done with the answer lost (`lost`).  `Swallowed` names the
store calls whose failure the code swallows.  A failure of any other store call
is an `Abort`.  A tier is chosen freely among those `classify_write` allows for
the write's reversibility.

### Runs

| Run | Setting | Shows |
|---|---|---|
| `gate_concurrent` | one action, two requests at a time, four requests, one abort, one edit, expiry, every outcome | `TypeOK`, `WritesAreGranted`, `AuditIsTruthful`, `SettledStaysSettled`, and that the gate implements `GateContract` |
| `gate_sequential` | two actions on one record, one request at a time, six requests, one edit, HubSpot answers every write | `AtMostOnce`, `ReportedKeepsUndo`, `AppliedUpdateHasSnapshot`, `UndoneLeavesNoTrace` |
| `gate_lost_answer` | a HubSpot answer is lost | violation: a snapshot is dropped although there is something to undo |

Why the bounds are enough: every race of the gate is between two requests on
the same action, and four requests are a preview, two racing approves and a
reject or undo; a second action matters only through a shared record
(`gate_sequential`).  The settings of `gate_sequential` are those the
properties need; what is lost without them is told below.  It has no `Abort`,
because an approve cut short between the write and the clearing of its preview
can be approved again (`AtMostOnce` fails); `AppliedUpdateHasSnapshot` speaks of
every state, so it covers a process that dies in any of them and stays down.

### Findings

* `execute_pending_write` says after a failure that "the snapshot is dropped
  since nothing was changed to undo" (`handlers.py:532`).  A read timeout or a
  5xx after HubSpot applied the write takes the same path (`gate_lost_answer`).
* Nothing claims an action between `load_pending` and `clear_pending`.  Two
  approves in flight both execute, and the one HubSpot refuses deletes the
  snapshot of the other (`handlers.py:641`): `ReportedKeepsUndo` and
  `AtMostOnce` hold only for requests that come one at a time.  No document
  promises more, so this is an observation: give `gate_sequential` a second
  worker to see it.
* Undo replays originals.  Of two updates of one record, undone in the order
  they were made, the second undo brings back the value of the first;
  `UndoneLeavesNoTrace` excepts exactly that.

### Proofs: `WriteGateProofs.tla`

For any sets of actions, workers and records, any outcomes and any bounds:

| Theorem | States |
|---|---|
| `TypeCorrect` | `Spec => []TypeOK` |
| `NoUngrantedWrite` | `Spec => []WritesAreGranted` |
| `AuditNeverLies` | `Spec => []AuditIsTruthful` |
| `SettledForGood` | `Spec => []SettledStaysSettled` |
| `GateImplementsContract` | `Spec => Contract!Spec` |

The properties of requests that come one at a time:

| Theorem | States | Assumes |
|---|---|---|
| `AppliedOnce` | `Spec => []AtMostOnce` | `OneAtATime` |
| `UndoneIsGone` | `Spec => []UndoneLeavesNoTrace` | `OneAtATime` |
| `UpdateKeepsSnapshot` | `Spec => []AppliedUpdateHasSnapshot` | `OneAtATime`, no expiry |
| `ReportKeepsUndo` | `Spec => []ReportedKeepsUndo` | the same, HubSpot names what it creates (no `"noid"`), the store takes the merge of its id (`"record" \notin Swallowed`) |

All assume `GateAssumption` (the constants are what their names say) and
`NoneIsNoRecord` (the null value is not a record).  The type invariant carries
`Known` (what is stored or in flight has been previewed; an undo that replays
originals has them).  The safety invariant `SafetyInv` adds three facts about
requests in flight, each needed for an invariant that speaks of the store only:
`GrantedInFlight` (a request past the count gate is on a granted action, for
`WritesAreGranted`), `MintedOnce` (the request that will store a new preview is
the only one on its action, so `StorePending` never reopens a closed one) and
`DoneInFlight` (a request about to record or audit has written, and one about
to audit has cleared, for `AuditIsTruthful` and `SettledStaysSettled`).  The
refinement maps the phase of an action to "open" while it is stored or a
request that found it there is executing it.

`OneAtATime` says of the constants what `gate_sequential` sets: one worker, no abort, no
lost answer.  The theorems hold for any number of actions, records, requests and edits,
and the first two also with expiry, with answers that lack the id and with store calls that
fail.  `SeqInv` adds to the types `Once` (before the write of an action its request has
nothing applied, after it the preview is cleared before anybody loads it again: that
is what `AtMostOnce` rests on), `SnapshotsKnown` (a snapshot, stored or taken by an
undo, holds the original of its preview and at most the one created object),
`LiveKnown` (that object is all there is of a create, and nothing of it after its undo),
`NamesKnown` (a value that names an action was written by it, so no preview read
its own) and `TracesKnown` (the value of an undone update comes back only with the
undo of a later one).  `UpdateKeepsSnapshot` adds `SnapshotsKept`, and `ReportKeepsUndo`
adds `IdsKept` (the id reaches the snapshot before the write is reported).

There is no fairness: every handler is straight-line code that returns or raises at
each await.

## Changesets: `Changeset.tla`

The intent tools write in batches: `propose` stores a list of update, create and
associate ops with the values the updates would change, `apply` executes them,
`undo` reverts them.  The module follows one changeset.  A worker is one request
in flight, `Process[w]` is the process it runs in; other changesets and users are
seen through `Edit`.

| Variables | Code |
|---|---|
| `status`, `original`, `result` | the stored record: its status, `original_values`, outcome per op |
| `snapshot` | the stored undo snapshot: updates to put back, ids created, associations made |
| `audit` | entries of the audit log |
| `value`, `live`, `link`, `writes` | HubSpot: the record of each update, the records created, who made each association, how often each item was applied |
| `pc`, `run`, `undo` | the request: next await, its `_Run`, what its undo has left to do |
| `answered`, `reverted` | history: ids the server received; whether an undo reported "undone" |

`_inflight`, the set of ids being applied in a process, is not a variable of its
own: an id is in it while a worker of that process is in an apply (`Inflight`).

| Actions | Code |
|---|---|
| `Propose` | `propose` |
| `Apply`, `Classify`, `StoreApplying`, `SaveSnapshot`, `Release` | `apply_changeset`, `_classify_updates`, `_release`, `_run_apply` up to the first write |
| `WriteUpdates` | `_write_batch` |
| `SendCreate`, `AnswerCreate`, `FlushCreated`, `EndCreates` | `_create_records`: tasks under a semaphore, a checkpoint of the ids under a lock |
| `ReadLinks`, `WriteLinks`, `ReadBack` | `_associate`, `_write_association_chunk` |
| `SaveOutcome`, `StoreApplied`, `AuditApply` | `_mark_interrupted`, `_apply_pair_results`, `_conclude` |
| `Undo`, `LoadSnapshot`, `RemoveLink`, `ArchiveCreated`, `RestoreValue`, `StoreUndone`, `DropSnapshot`, `AuditUndo` | `undo_changeset` |
| `Raise`, `RaiseStored`, `FailSnapshot`, `Interrupt` | a cancelled request, or a store call that fails: before the writes, while "applying" is stored, while the first snapshot is saved, among the writes |
| `Kill` | the process dies with all its requests |
| `ExpireRecord`, `ExpireSnapshot` | the TTLs of the Redis store |

Abstractions.  Which records share a batch follows from object types and batch
sizes; the model lets a batch be any set of the writes still to be made.
`Outcomes` is what a write can end in: answered (`ok`), refused (`failed`),
applied with the answer lost (`lost`), neither applied nor answered (`timeout`),
and for associations answered with errors that name no pair (`partial`).
HubSpot has settled a write by the time its answer is lost.

### Runs

| Run | Setting | Shows |
|---|---|---|
| `changeset_apply` | an update, two creates (one belongs to the update and carries an association), an associate op; two workers of one process, three requests, two faults (store, cancel, kill), one edit, every outcome | `TypeOK`, `ReportIsHonest`, `AppliedOnce`, `SnapshotFirst`, `AppliedIsRevertible`, `DependentsFollow`, `StateMachine` |
| `changeset_undo` | the same ops with a labelled association, one slot of the semaphore and a checkpoint after each create; one worker, four requests, lost answers, an edit, expiry, fairness | `UndoneLeavesNothing`, `OldLinksStay`, `UndoneIsFinal`, `ApplyEnds` |
| `changeset_stranded` | one cancellation | violation of `NotStranded` |

Why the bounds are enough: every kind of op is there, with the one dependency
ops can have on each other; three requests are two applies and an undo (or the
other way round), and two faults an interruption and a failure of what is done
about it.  `CREATE_CONCURRENCY` and `CREATE_CHECKPOINT` are two in
`changeset_apply`, so that two creates are on the wire together, and one in
`changeset_undo`, so that a task waits for the slot of another that waits for
the checkpoint lock.

What the settings leave out, and why.  `changeset_apply` has no expiry: an undo
of an *expired* record does not look at `_inflight`, so a leftover snapshot of a
first save that failed and a record that expires at that moment would let an
undo run beside an apply.  No run has failing reads (the fault `"read"`): a
failed read of the existing associations is taken for "none"
(`changes.py:651`), so a pair that was joined before can be reported "ok"
without a write (`ReportIsHonest`), and an undo removes an association of others
(`OldLinksStay`).  `changeset_undo` has no faults at all, for that reason and
for the observations below.  All passing
runs have one process: the module docstring says that the claim of an id is per
process (`changes.py:24`).

Fairness: `FairSpec` asks weak fairness of every step of a request, because
each HubSpot call and each store call returns, raises or times out.  Requests,
faults and edits are never fair.

### Findings and observations

* `changeset_stranded`: a cancellation while "applying" is being stored
  (`changes.py:815`) is outside the `try` of `_run_apply`.  Nothing is written,
  the changeset stays in "applying", apply refuses it and undo finds no snapshot.
* An apply interrupted before it has read which pairs are already joined marks
  all of them unconfirmed and none pre-existing (`changes.py:990`); they enter
  the undo snapshot, and the undo removes an association that others had made,
  though the docstring of `undo_changeset` says "drop new associations".  Give
  `changeset_undo` the fault `"cancel"` and check `OldLinksStay` alone to see it.
* The conclusion of an apply that nothing interrupted is outside the `try` of
  `_run_apply`.  Cancelled, or refused by the store, while it saves the last
  snapshot (`changes.py:1000`), it leaves the associations it made out of the
  snapshot and the status at "applying"; the undo that follows reports "undone"
  and they stay (`UndoneLeavesNothing` with that fault).
* A labelled pair whose records were joined before, refused within a partial
  failure, is reported "ok": the read-back (`changes.py:697`) looks for any
  association.  `changeset_apply` has no labelled pairs for that reason.
* A process that dies between two checkpoints leaves created records that no
  undo finds, up to `CREATE_CHECKPOINT - 1` of them (`changes.py:622`), and the
  undo reports "undone".  `changeset_undo` has no death for that reason.
* Nothing claims an id for an undo (`changes.py:1063`).  A second undo that
  loads the snapshot before the first deletes it replays the originals over
  what was edited in between; `UndoneIsFinal` is checked with one worker.
* An undo in a second process takes the "applying" of a live apply for that of
  a dead one (`changes.py:1058`), and the apply then stores "applied" over
  "undone"; `StateMachine` is checked with one process.

### Proofs: `ChangesetProofs.tla`, `ChangesetReports.tla`

For any ops, any dependencies and labels among them, any number of requests, any
outcomes, faults, edits, batch sizes and bounds:

| Theorem | States | Assumes |
|---|---|---|
| `TypeCorrect` | `Spec => []TypeOK` | |
| `StatusMovesAlong` | `Spec => StateMachine` | `OneProcess` |
| `WritesAreAppliedOnce` | `Spec => []AppliedOnce` | `OneProcess` |
| `CreatesFollowUpdates` | `Spec => []DependentsFollow` | `OneProcess` |
| `SnapshotComesFirst` | `Spec => []SnapshotFirst` | `OneProcess`, `NoExpiry` |
| `RevertsWhatItApplied` | `Spec => []AppliedIsRevertible` | `OneProcess`, `NoExpiry` |
| `ReportsAreHonest` | `Spec => []ReportIsHonest` | `OneProcess`, `SureLinks` |
| `OthersLinksStay` | `Spec => OldLinksStay` | `LooksFirst` |
| `NothingIsLeft` | `Spec => []UndoneLeavesNothing` | `OneProcess`, `NoExpiry`, `OnlyReadsFail` |
| `UndoIsFinal` | `Spec => UndoneIsFinal` | `OneWorker` |

The hypotheses are those the code has.  `OneProcess`: the claim of an id is per process
(`changes.py:24`).  `NoExpiry`: the store keeps its keys, as the file store does; on a
store that does not, the undo of an expired record runs beside an apply (see
above).  `SureLinks`: if associations can be refused in part, none is labelled and no
read fails, because the read-back that settles them asks for any association.
`LooksFirst`, `OnlyReadsFail` and `OneWorker` are what the observations above leave:
no cancellation and no failed look for the associations of others; no cancellation, death or failing
store for what an undo finds; no second undo beside the first for what comes after
it.  `OthersLinksStay` needs neither one process nor a store that keeps its keys, and
`NothingIsLeft` allows overlapping undos.

The argument goes up in layers, each inductive on top of those before it:

* `TypeInv` is the types and `LinksKnown`: an explicit association has an outcome when
  its turn comes, so what the report holds for it is the outcome of an op.
* `Phases`: one apply at a time (`OneApply`, from `_inflight`), the stored status is
  known at each of its steps (`AppliesAt`), and an undo that will store "undone" does not
  run beside an apply (`UndoesAlone`).  Without it any step of a second request would
  undo what the first relies on.
* `WriteInv`: what the run has recorded, attempted and planned is exactly what HubSpot has
  counted (`Underway`), and an unclaimed changeset has written nothing.
* `SnapInv`: the snapshot names every update the run is going to write (`Covered`).
* `LinkInv` and `RevertInv`: what the run knows of each association tells whether it
  was there before (`Joined`), and an id the server received is in the run or in the
  snapshot (`AllAnswered`).
* `ReportInv`: what the run has recorded is true of each item, so its report is.

* `SparesAll`, which rests on the types alone: what a run counts as its own, what the
  snapshot names and what an undo has still to remove was not joined by others.
* `OrigInv` and `LeftInv`, on top of all of these: whatever the server knows to have
  written and HubSpot still has is among what an undo without failures has still to
  revert (`Left`), so that nothing is left when it has no more to do.  A value that
  was written differs from the original, or putting it back would change nothing.
* `FinalInv`: once an undo has reported, no request is in flight that could write, no
  snapshot is stored, and the status lets none in.

Model-checked only: `ApplyEnds`, which is liveness.  `UndoneLeavesNothing` on a store
whose keys expire is checked by `changeset_undo` and not proved: `SnapInv` needs a store
that keeps them.

## Pattern writes: `PatternWrite.tla`

A reversible update of many records can be approved once, as a rule.  The
executor (`_execute_pattern_write`) then re-reads each record, skips it when it
no longer holds the value of the preview, writes it, and saves the undo snapshot
after the last one.

| Variables | Code |
|---|---|
| `record` | HubSpot: each matched record holds the value of the preview (`pre`), of the rule (`new`) or somebody's edit |
| `pending`, `snapshot`, `audit` | the preview with or without its count, the stored pre-images, the audit entries |
| `pc`, `at`, `run` | the request: next await, its record, the lists `applied`, `skipped`, `failed` |
| `report`, `undone`, `alone` | history: what the last approve reported, what the last undo put back, whether requests ever met |

`Tool` is the eligibility and the count threshold of `handle_tool`; `Approve`,
`Load`, `Confirm`, `ReadRecord`, `WriteRecord`, `SaveSnapshot`, `Clear`, `Audit`,
`Answer` are the executor; `Undo`, `Restore`, `Forget` are `hubspot_undo_write`.

`pattern_approval`: two records, two requests at a time, three in all, one abort, one
edit, lost answers, saves of the snapshot that fail, with the workers interchangeable.  `DriftIsKept` (action property)
holds under every interleaving: the only edit an approve overwrites is one made
between the re-read of its record and the write.  `ReportedIsRevertible` holds for
requests that do not meet: what the report calls applied has its pre-image stored
until an undo has put it back, unless the save of the snapshot of that very approve was not
answered (`report.saved`); and nothing an undo has put back still holds the value of the
rule.  Two records suffice for a write that succeeds before one that fails or drifts.

A failed save is a flaw of the code, and the runs explore it: the executor swallows it
(`handlers.py:887`), and the report names the undo command all the same
(`handlers.py:895`, `handlers.py:928`), so a user is told of an undo that is not there.  Take
`report.saved =>` out of `ReportedIsRevertible` and TLC shows one.  What breaks the
property and is outside it: two overlapping approves, of which the later replaces the
snapshot of the other (drop `alone`).  A record whose write was
applied and its answer lost is reported as failed and is in no snapshot; an
approve that is cut short in the loop leaves written records that a
second approve then skips as drifted.  The property says nothing of either,
since neither is reported as applied.

### Proofs: `PatternProofs.tla`

For any records, requests, outcomes and bounds, `DriftNeverOverwritten` states
`Spec => DriftIsKept`, and `ReportCanBeUndone` states `Spec => []ReportedIsRevertible`,
saves that fail included.
The first needs `DriftSeen` only: a record about to be written holds what its re-read
saw unless an edit came after it.  The second needs, while requests have not
met, that there is one of them (`OneByOne`), that the first approve to pass
the gate is the only one (`ApprovedIsGone`), and that what it wrote is in its lists until
the save and, when the save was answered, in the snapshot after it (`Solo`).

## Hosted calls: `Connections.tla`, `ConnectFlow.tla`, `HostedSession.tla`

On the hosted server a person proves who they are with a token of an identity
provider, and acts in HubSpot on a grant they gave in a browser.  `Connections`
is the store of connections and HubSpot's side of the grants: tokens are numbered
as they are issued, a refresh may rotate the refresh token.  `ConnectFlow`
extends it with browsers: a link with a ticket, a state, HubSpot's consent, the
callback.  `HostedSession` extends that with tool calls: who calls, which
connection, a refresh if the token is old, a client from the pool, one request
with the retries of `client.py`.

| Variables | Code |
|---|---|
| `grants`, `connections` | HubSpot's grants in the order of consent; the connection store |
| `tickets`, `states`, `browser` | the cache entries of `connect.py`; where a visit is |
| `req` | a call: next await, connection and client held, attempts left, its victims (evicted clients it has to close), answer |
| `pool`, `clients`, `serving` | `ClientPool` in its order; every client with its credentials, whether open, its token lock; the lifespan |

| Actions | Code |
|---|---|
| `OpenLink`, `TakeTicket`, `DeleteTicket`, `MintState`, `Consent`, `Decline`, `ReloadCallback`, `TakeState`, `DeleteState`, `Exchange`, `ResolveHubId`, `PutConnection` | `ConnectFlow.begin` and `complete` behind the two routes, `_take` in its two calls |
| `Arrive`, `ReadConnection`, `RefreshGrant`, `StoreRefreshed`, `Guide` | `hosted_session.py`, `HostedOAuthProvider.resolve`, the connect link in the answer |
| `Acquire`, `CloseVictim`, `CloseAll`, `Shutdown` | `ClientPool`, the end of `app_lifespan` |
| `FreshToken`, `ForceRefresh`, `ClientReads`, `ClientRefreshes`, `ClientStores`, `Send`, `Resend`, `SendOnClosed` | `HubSpotClient._get_fresh_token` and `_request` |
| `Age`, `Revoke`, `ExpireEntry` | tokens run out, a grant is revoked in HubSpot, a ticket or state expires |

`hosted_calls`: two people, two calls at a time, a pool of one client so that every
second person evicts, one browser, one token that ages, one revocation, one fault
of HubSpot or the store.  Nobody acts on another's grant, whatever browsers and
evictions do in between (`OwnGrantOnly`); a caller is sent to reconnect only when
HubSpot has dropped the grant (`ReconnectOnlyIfGone`); no client stays open
outside the pool (`NoClientLeak`); a write is sent once, through 401, 429 and refresh
(`WriteSentOnce`); every call ends (`CallsEnd`), under weak fairness of
the steps of a call: the loop runs what is ready, and every request has a timeout.
Browsers, expiry and shutdown are never fair.

Two limits of the code that this run leaves out by its constants, each shown by a
small change of them:

* `HostedOAuthProvider` keeps its lock per person on the instance, and each call
  builds one (`hosted_session.py:100`, `:153`), so two calls of one person in one
  process both refresh, which the comment at `auth/hosted.py:52` wants to exclude.
  Should HubSpot rotate refresh tokens (`Rotates = {TRUE}`, one subject), the slower
  call is told to reconnect an account that is connected.
* Eviction closes the least recently used client also while a call is using it:
  that call's request is refused by httpx (answer `"closed"`), where
  `hosted_session.py:36` speaks of "a reconnect, not a leak".

Two visits that overlap can both take a ticket or a state (`connect.py:108` reads and
deletes in two calls, and swallows a failed delete).  `connect.py:20` calls both
single-use; what `OwnGrantOnly` adds is that either visit stores a grant for
the person the ticket was minted for.

### Proofs: `HostedProofs.tla`

For any people, calls, browsers, pool size, faults and bounds, and with other calls
and browsers between any two awaits:

| Theorem | States | Assumes |
|---|---|---|
| `OnlyOneself` | `Spec => []OwnGrantOnly` | |
| `WritesGoOutOnce` | `Spec => []WriteSentOnce` | |
| `NoneLeftOpen` | `Spec => []NoClientLeak` | |
| `ReconnectsOnlyIfGone` | `Spec => []ReconnectOnlyIfGone` | `KeepsTokens` |

`OwnGrantOnly` speaks of a token in use; `Inv` follows a grant to it from the
consent.  A state goes back to the ticket of the same person and a visit to
either (`FlowOwned`, `VisitsOwned`), so what the callback stores is a grant
of that person (`StoreOwned`), which a call holds (`CallsOwned`) and its client keeps
(`ClientsOwned`, `PoolKnown`).  `GrantsKnown` and `Since` say that grants are only added
and keep their owner, so every one of these facts survives the steps of others.

`WriteSentOnce` needs `SentInv`: where a call stands bounds how often it has sent.
`NoClientLeak` needs `OnlyClosing`: only a call about to close has victims.
`ReconnectOnlyIfGone` needs `KeepsTokens` (HubSpot does not rotate refresh tokens), as
the limit told above shows, and `OneInv`: there is one refresh token per grant, and
a refusal that a call remembers is of a grant that was gone.  `CallsEnd` is liveness
and stays with TLC.

## Agents: `AgentHandlers.tla`, `RecordAgents.tla`, `SpecialistAgents.tla`, `AgentPipeline.tla`

`dispatch.py` registers for each agent a preview builder, an executor and, for
most, a reconciliation.  `RecordAgents` holds those of the record types, most of which
repeat one form with variations that the module lists file by file;
`SpecialistAgents` holds the others.  They are operators: a request and the
answer of the one read they make go in; a preview, a status with the call to make, or a
verdict comes out.  `AgentPipeline` runs a request through them against a portal
that others edit between any two calls.  The server registers these
handlers and calls none of them, so who calls them, and with which payload, is
left open.

`agents_pipeline`: every agent, every kind of request, with and without a target, two
payloads, three things with three contents, any initial portal, one edit, refused and lost
writes; the record agents share their handlers, so one of them is asked for everything
and the others for named updates.  A search returns three and a reconciliation
compares two of them, so that several hits are compared and one is not.

The searches of the reconciliations ask for no properties (`courses.py:254`), the preview's
do (`courses.py:82`).  HubSpot then returns default properties only, as strings: any other
reads None, and a number or a boolean equals nothing.  `Returned` says of each content what
comes back of it; of the three, one comes back as it was sent, one is hidden (`Hidden`) and
one is None.  So the code does raise false alarms, and the properties say which:

* `FalseAlarmIffHidden`: undisturbed, answered and with a single hit, an update that was
  applied is called a discrepancy if and only if the search hides what was sent.
* `VerifiedUpdateTook`: a verified update of records, of a value that nothing else comes back
  as (`Telling`), is in a record the text finds, in the one it wrote if the text still finds
  it, and in every other one, unless as many hold it as are compared.  Whoever expects
  None is told "verified" whatever the records hold.
* `VerifiedDeleteIsGone`: a verified delete is gone.
* `WorkflowEditsKept`: a workflow update overwrites no edit it did not fetch; the other
  updates are blind.

What the handlers do that a reader might not expect, in the model as in the code: tools
return errors as dictionaries, so an execution reports "success" for a refused write; a
reconciliation whose read failed calls a delete verified; an update by id is
verified when the thing is there, whatever it holds; deletes of pipelines, lists, forms and
workflows report success without a call; an execution without a target does nothing and
reports success; record agents search again when they execute and act on the
first hit (`courses.py:163`).

### Proofs: `AgentProofs.tla`

For any set of requests, payloads, things and contents, any limits and any number of edits:

| Theorem | States |
|---|---|
| `VerifiedDeletesAreGone` | `Spec => []VerifiedDeleteIsGone` |
| `VerifiedUpdatesTook` | `Spec => []VerifiedUpdateTook` |
| `FalseAlarmsAreHidden` | `Spec => FalseAlarmIffHidden` |
| `WorkflowEditsStay` | `Spec => WorkflowEditsKept` |

They assume `HandlerAssumption` (finitely many things; `Absent`, `NoId` and `NoVal` are none
of them; a search returns of a content a content or nothing comparable; a reconciliation compares no more than a search returns) and `PipelineAssumption`
(requests are of known agents and kinds, payloads are payloads).  `RecordHandlers` proves
that the handlers of the record agents, file by file, are one preview, one execution
and one reconciliation; the others are gone through agent by agent (`PreviewPayload`,
`SpecialistFits`).  `RankedHits` is what a search returns: without repetition, and all
there is when it fits the page; `ComparedHits` is what follows for all of them when those
compared agree.  The invariant has three parts.  `Known`: types, and that only a
creation makes something, so that an update or a delete is reconciled against the
payload it was given.  `Aimed`, for `FalseAlarmIffHidden`: until somebody edits, a
record agent's update is of a record the text still finds, since an update keeps what the
text matches.  `Conditional`, for `WorkflowEditsKept`: what an update of a workflow is
about to send is a PUT under a revision.  The first two theorems need no more than the
types: they hold whoever edited, because they speak of the portal the reconciliation read.

## Sales jobs: `DealRules.tla`, `IntentReads.tla`

`DealRules` is what `rules.py`, `triage.py`, `forecast.py` and `bulk_hygiene.py`
compute from the deals a search returned, translated operator by operator: periods,
reason codes, urgency, the figures of a forecast, the changes that move past-due
close dates.  A day is a number and a month an index into a table of last days.  Sorting
is counting (`InOrder`: the members of a set, each after all that precede it), and a
merge of two records is `With`, so that both can be reasoned about.
`IntentReads` are the calls in flight: owner, one or two searches
page by page, lookups, answer.  The searches share the sliding-window limiter of
`common.py`, whose holder sleeps while others queue for its lock; a 429 is
retried, other failures end the call; a search is evaluated anew for each page.

| Variables | Code |
|---|---|
| `deals` | HubSpot |
| `calls` | each call: next await, job, rules, search, offset, what it has, attempt, time left to sleep; whether somebody edited meanwhile |
| `queue`, `stamps` | who waits for the limiter's lock, its holder first; the ages of its acquisitions |
| `owned`, `piped` | whether the owner and pipeline lookups are cached |
| `recent` | history, read by `WindowKept` only: how long ago the last `MaxPerWindow + 1` places were taken |

| Actions | Code |
|---|---|
| `Start`, `ResolveOwner`, `OwnersFail` | arguments, rules file, `resolve_owner` |
| `Ask`, `Acquire`, `Limit`, `Wake` | `SearchLimiter.acquire` |
| `ReadPage`, `Refused`, `SearchFails` | `search_page`, `search_all` (cap, repeated cursor, next search), the retry of a 429 |
| `Compute`, `LookupFails` | pipelines, then the answer |
| `Tick`, `CacheExpires`, `Edit` | time; the lookup TTL; other users |

`intent_reads`: one call of each kind of job, pages of one, a cap of two, three deals, two edits,
one fault.  A call during which nothing was edited and nothing was cut answers what a look at
the whole portal would (`QuietIsExact`, whose reference definitions do not page);
whatever was edited, a forecast counts a deal once (`CountedOnce`) and a
hygiene changeset is sound (`MovesAreSound`): a task only after the move of its
deal, one move per deal, from the day that undo will put back, to a day not past.
`intent_limiter`: two calls, a window of two ticks for one search, three faults,
waits longer than allowed.  The window is kept (`WindowKept`: of any `MaxPerWindow + 1`
searches in a row the first is a window old, which is said of the history `recent` because the limiter
forgets what it thinks is old), and every call ends
(`CallsEnd`) under weak fairness of `Tick` and of the steps that need no fault:
asyncio runs what is ready and time passes.  Months of three days and pages of one
deal keep the numbers small; every comparison of dates and offsets has both
outcomes in the initial portals.

Offset paging loses a deal when another one leaves the result in between; no document
promises otherwise, and `QuietIsExact` says precisely when it cannot happen.  Owners
beyond 50 pages and associations beyond 200 are dropped silently, and the lookups may be 300 s
old; the model's owners are complete and constant.

### Proofs: `ReadProofs.tla`

For any calls, jobs, portals, page sizes, windows, faults and edits:

| Theorem | States |
|---|---|
| `SearchesKeepTheWindow` | `Spec => []WindowKept` |
| `ForecastCountsOnce` | `Spec => []CountedOnce` |
| `HygieneMovesSoundly` | `Spec => []MovesAreSound` |
| `QuietCallsAreExact` | `Spec => QuietIsExact` |

They assume `DealRulesAssumption` (the table of months goes up), `ReadsAssumption` (sizes and
windows are positive, ids are numbers, there are finitely many deals and calls) and `DatesAssumption` (each day
the jobs speak of lies in a month of the table that has a next one; the period of a forecast
starts on some day; a hygiene job names no day of its own, as the tool takes none).
`QuietCallsAreExact` also needs `DealsAssumption`: HubSpot computes whether a deal is closed and won from its
stage, so that a won deal is closed and a deal in a closed stage is; amounts and dates
are numbers or absent, as `parse_float` and `to_date` leave them; every reason code has a weight, and
the limit of a triage is a number.

`LimiterInv`, for `WindowKept`: the stamps are the newest of `recent`, there are no more
than `MaxPerWindow`, both go from young to old, and what is in `recent` and
not in the stamps is a window old.  `YoungKeeps`, `TakenKeeps` and `OlderKeeps` carry it over a purge, an
acquisition and a tick; that a sleeper looks again before it takes a place is
the guard of `Acquire`.

`CallsInv`, for the other three: everything a call has found or is finding are deals with properties
that the portal can hold, the rules and job it runs under passed the checks of `Start`, and an
answer is what its job computes from some such list (`AnswerOf`).  Pages that move can put
anything in that list, a deal twice included, so the two properties are properties of the
computations for every list: `ForecastSets` (by `UniqueIs` one record per deal, so a deal is won,
open in the period or outside) and `FixIsSound` (by `SortedIs` and `OpsAre` the op at a place is the move of the
deal at that place; what is moved twice is refused; by `NextMonthIsLater` the new
day is not past).

`PagesInv`, for `QuietCallsAreExact`, adds where a call is in its searches: while nobody edits, the search in
hand has sent the hits before its offset, in order, and the searches before it all of
theirs, unless one was cut (`Reading`).  A page joins on (`PageJoins`); a wait, a 429 and a tick keep what was
read (`WaitsRead`, `TimeReads`); an edit makes the call dirty, of which nothing more is said.  A
cursor HubSpot repeats is one the call has seen, so that it fails instead of reading a page twice
(`PageTaken`).  `QuietFinds` then gives the answering call the hits of all its
searches, each deal once and by id (`Lists`), and the rest is about the computations:
`TriageIsExact` and `HygieneIsExact` (by `SortedPlaces` a stable sort of a list puts each item in one
place, none after one it belongs before, so the first ones kept are the most urgent, or the
first by id), `ForecastIsExact` (by `UniqueOfTwo` and `ForecastPlaces` the two searches together give each deal
its place, by `FiguresAre` each figure is the sum over the deals that belong in it).
The sums are folds.  Their induction needs no theorem with an operator parameter: of
the subsets of a finite set on which a claim about sums fails, one is smallest (`SmallestSubset`),
and taking one element out of it contradicts that (`SumIsInt`, `SumsMatch`).

## Finding the record: `RecordSearch.tla`, `IntentLookups.tla`

`RecordSearch` is how the tools tell which record is meant: the scores and the decision of
`support.py`, the person of a brief, the deal, company and people of a
meeting.  A text is a sequence of words; difflib's ratio is the constant operator `Ratio`.
`IntentLookups` is one call from the words to the answer, a step for
each question to HubSpot, with other users editing in between: `ById`, `Find`, `FindText`,
`Details` (`resolve_record`, `get_deal`); `SearchPerson`, `CompaniesOf`,
`BriefLinks`, `BriefDeals`, `Engagements`, `NeverContacted` (`account_brief`);
`Names`, `Companies`, `OnlyDeal`, `ReadCompany`, `ReadContacts`, `ReadStaff`,
`ReadPerson`, `Propose` (`log_meeting_outcome`); `CheckDrift`, `Release` and `Write` (the apply
of its changeset: the read of the drift, a status or snapshot that cannot be stored, the
batch update).  `crm` is the portal, `call` the call; `call.dirty` and `call.cut` say whether somebody
edited since it began and whether a page left hits out, or a company that answered was dropped.

`intent_lookups`: three deals, two companies, three contacts in 24 portals that differ
in who shares a name and what is linked, about fifty jobs, pages of two, one company looked
into when none bears the text, two edits.

* `NeverGuesses`: two equally good records are never guessed between.  What a call acts on
  fits well enough (`ClearMatch`), and of the records the deciding search can find, and of the
  deals and persons of the portal, no other fits the words as well; a company answers the words
  of a meeting when it bears them or, if none does, when its search finds it.
* `NoLostEdit`: a meeting overwrites what its call read, or what was changed after the last
  read of the drift, and no other edit, however often apply is released and called again.
* `NothingTwice`: nobody is created who is there, nor two people of one key in one changeset, and
  no link is made that is there.
* `NeverContactedIsTrue`: nobody is listed as never contacted who had been.

What the code does that these properties except:

* Only what fits one page is compared (`cut`).  Nor are more than five of the ten companies a
  meeting's search returns looked into when none bears the text (`log_meeting.py:198`):
  the deal then taken as "the only open deal matching" (`log_meeting.py:207`) may be one
  of several, although `log_meeting.py:13` says "It never guesses".  Take the disjunct
  `SomeDropped` out of `Companies` and TLC shows a meeting logged on such a deal (the job
  "acme corp", two companies, one looked into).
* Between the read of the drift (`changes.py:811`) and the batch update (`changes.py:891`) apply
  stores a status and a snapshot, and nothing looks again: an edit made in that window is
  overwritten.  Take `now # call.checked[f]` out of `NoLostEdit` and TLC shows one.

Other limits of the code: a query of two or three words is first filtered by first and last name, so
that a contact entered the other way round is not seen when the filter finds
another (`support.py:200`); somebody named once with an address and once without has
two keys (`log_meeting.py:134`), so that he is created twice, or linked twice by
the same op if he is there; a contact somebody makes
between the search and the apply is made again; an amount is written
in the currency read, also when the deal's currency changed meanwhile and the
changeset does not write it (`changes.py:506` compares only the fields it writes).
HubSpot is taken to date a contact when a call is logged (`Dates`): an edit that adds an
engagement also sets the date of the last contact, and none removes that date while the
engagement is there.

### Proofs: `LookupProofs.tla`

For any portals, edits, jobs, page sizes and sales rules:

| Theorem | States | Assumes |
|---|---|---|
| `MeetingsLoseNoEdit` | `Spec => NoLostEdit` | |
| `NeverContactedHolds` | `Spec => NeverContactedIsTrue` | |
| `MeetingsAddNothingTwice` | `Spec => []NothingTwice` | |
| `LookupsNeverGuess` | `Spec => []NeverGuesses` | `RatioIsPercent` |

All assume `LookupsAssumption`: a portal's records are finitely many and numbered,
the pages hold something, a job is of a known kind and asks for something.  `RatioIsPercent` says
that `Ratio`, which stands for `SequenceMatcher.ratio()`, returns a percentage of any two
texts, as difflib documents of its 0..1: a score above 100 would beat an exact match.

`StepIs` says of every step which of its call's locals it may change and where it
leads; what each invariant needs of a step follows from that.

* `ShownInv`, for `NoLostEdit`: the original values of a preview are those `read` holds of
  the fields it updates, and the preview stays what it is while apply reads, is released, reads
  again and writes.  A write that takes found those values when it last looked, so what it
  overwrites is one of them or came later: the edits between may be any.
* `DatedInv`, for `NeverContactedIsTrue`: from the moment the engagements are read, everybody
  with an engagement was among those read or has a date.  It rests on `Dates`.
* `CallInv`: the portal is one, a meeting that is looked into passed the checks of its inputs, and
  it has no ops before it comes to the people.  `TwiceInv`, for `NothingTwice`, adds what a meeting has read
  (`MeetingRead`: the links of its deal, the staff of its company) and that the ops of the people
  gone through so far fit it (`OpsFit`): whoever is created was found neither by address
  nor as the only one of that name, and each op is that of its own person, so that
  `EachPersonOnce` of the inputs carries over to the ops.
* `GuessInv`, for `NeverGuesses`: while the call is undisturbed, the deal it goes on with has no
  rival (`Unrivalled`), and until it has one, what it keeps of its first searches is all that answers the
  words (`Told`).  Below it are lemmas about the operators of `RecordSearch`: a
  score is a percentage and a greatest exists (`ScoreIs`, `Greatest`), a decision for
  a match leads by the margin (`MatchLeads`), a person chosen is the only one of the best
  rank (`PersonLeads`), a text finds itself (`TextFindsItself`).

## Not modelled

* The verification of a caller's own token (`bearer_middleware.py`, `token_verifier.py`), the
  one-user login of `oauth_provider.py`, the sources of credentials: checks of data and I/O.
* `client.py`'s own rate limit: HubSpot answers 429 to what passes it, and that path is modelled.
* The lifespan shared by two HTTP surfaces (`server.py:179`) and the lost update of the
  schema cache (`cache.py:148`).
* The parsing of `approval_policy.json`, and how the stores implement their operations.
* Of the intent tools: the timeline and the tasks of a brief, the company that `resolve_record`
  displays, `grouped.py`, the wrapper of `propose_changes`, the layout of answers.
* Routing of text, prompt texts, skills, blueprints, scope tables, validation, telemetry, the
  evaluation harness, the demo data and the assembly of the HTTP application: they keep no state that
  two steps could see in a different order.

What stays with TLC: the liveness properties (`ApplyEnds`, and `CallsEnd` of the hosted calls
and of the sales jobs), which the prover cannot treat under fairness.  Every other property
of the runs that pass is stated by a theorem.
