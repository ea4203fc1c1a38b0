# Verification of the ReuleauxCoder runtime

TLA+ models of the concurrent and durable core of ReuleauxCoder, an AI coding
agent runtime, model-checked with TLC on small instances and, where it matters
most, proved with TLAPS for every instance. The reference is the code; every
definition names, in `PROJECT.json` under `map`, the lines it stands for.

- [The system](#the-system)
- [Modules: state and actions](#modules-state-and-actions)
- [Runs](#runs)
- [Fairness](#fairness)
- [Proofs](#proofs)
- [Where code and documentation disagree](#where-code-and-documentation-disagree)
- [What is not modelled](#what-is-not-modelled)
- [Plan](#plan)

## The system

A frontend (CLI, TUI, VS Code) talks JSON-RPC over stdio to a Python backend.
One backend process owns one session: an `Agent` runs model turns, tools change
the workspace, and everything that must survive is committed to an append-only
ledger (`events.jsonl`) first and projected into a session snapshot
(`replay.json`, `manifest.json`) afterwards.

| Part | State | Operations | Interacts with | What makes it hard |
|---|---|---|---|---|
| `RuntimeServer` (`app/rpc/server.py`) | foreground flag, workers, queue, submission receipts, closing | submit, run, continue a goal, stop, shut down | agent, goals, command queue | RPC threads, workers, goal wake-ups, retries of lost answers |
| `Agent` turn and steering (`domain/agent/agent.py`, `loop.py`) | pending directions, interrupt epoch, stop event, context | admit, apply at a request boundary, promote, stop, recover | ledger, server | a direction arrives at any point of a request; crash inside the drain |
| `SessionSnapshotWriter` (`app/runtime/snapshot_writer.py`) | Timer, generation, two locks, closed | defer, flush, save, close | context lock of the agent | Timers racing explicit saves; lock order |
| `HistoryLedger` (`domain/history.py`) | sequence numbers, pending batch, file | append, bind, unbind | session store | torn writes, retries, restarts |
| Session store (`infrastructure/persistence/session_store.py`) | replay, manifest, ledger | save, load, recover the tail, repair tool calls | agent, writer | a crash between any two writes |
| Interactions (`app/runtime/interactions.py`, `app/rpc/remote_interactor.py`, `infrastructure/rpc/peer.py`, `app/rpc/client.py`) | slot, active request, cancellation events, futures, prompts | ask, answer, expire, cancel, shut down, disconnect | every thread that asks the user | messages that overtake each other; deadline against late answer |
| Goal, plan and progress (`domain/goal.py`, `domain/plan.py`) | goal, boards, committed calls, recovery flag | tools, `/goal` commands, usage, recovery, restart | agent, ledger, snapshot, subagents | failed snapshots, stale judgements, late usage |
| Tool pipeline, approval, subagents, processes, relay and Go peer, jobs, MCP, LSP, output journal | see [Plan](#plan) | | | |
| LLM wire formats, prompts, configuration, file tools, rendering | | | | sequential or pure I/O |

`PROJECT.json` lists every part under `components` with its status, and under
`hazards` what can go wrong at which line, with the properties that would
notice.

## Modules: state and actions

Each module's header says what a step is: one critical section of the lock that
protects the state, or one read or write that the code makes outside of it.
Conversations, plans, prompts and payloads are abstracted to identities.

**`SnapshotWriter`**: `SessionSnapshotWriter` and the agent methods that drive
it. The variables are the fields of the class plus the owners of the context
lock and of `_write_lock`; an actor is a foreground thread or a Timer, named by
its generation, and `pc` says where it is. A mutation (`AppendMessage`,
`ReplaceContext`) takes the context lock, raises `revision` and asks for a
deferred snapshot; `SaveSession`, `PersistRuntimeSnapshot` and `Unbind` are the
explicit ones. A snapshot is the revision it captured.

**`HistoryLedger`**: the ledger's memory, its sink and the file. The file is the
sequence of its lines with a flag for a missing final newline, so that a torn
write, and the record that joins it, are visible. `Append1`, `AppendBatch`,
`BindJsonl`, `UnbindJsonl`, `SaveManifest`, `Crash` and `Restart` follow the
methods; `Kept` is what `_load_history_events` keeps of a file.

**`SessionRecovery`**: the live context, the committed events, `replay.json`
and `manifest.json`, and the load: `Loaded` is snapshot plus durable tail plus
repair of unanswered tool calls. A save is two steps (`SaveReplay`,
`SaveManifest`), a reset is two (`Reset`, `ResetClears`) and the closing save it
returns with, or which raises out of it; a crash may fall between any of them.
`raced` remembers that a snapshot was taken in the middle of a reset.

**`UserSteering`**: a turn worker (`pc`) through the part of `_chat_turn`
before its `try`, request, response, tools, retry, closing summary and end of
turn, and the server threads that admit and promote directions, stop and shut
down. The ledger is summarised by the admissions, commits and discards of
directions. A drain or a discard is one step of the steering lock that an append
may end half way, by an exception or by the death of the process; the history
variable `lost` holds the directions such an exception took off the queue.

**`RuntimeServer`**: worker slots with the stage and the value they execute,
the queue, the receipts of `SubmissionAdmissions`, the goal's status and the
two halves of stop and shutdown. A goal continuation is allowed under the lock
(`CheckGoal`), given to the agent (`StartGoal`) and enters its loop
(`EnterTurn`) in three steps, between which anything may happen. Directions
given to a running turn are a set (`UserSteering` has their life).

**`Interactions`**: each request is the thread that asks. `stage` walks it
through `InteractionCoordinator._invoke`, `RemoteInteractor._ask` and
`RpcPeer.request`; cancelling threads run `cancel`, `cancel_all` or `shutdown`;
requests, cancellations and replies are sets in flight, so they arrive in any
order; the frontend's prompts and remembered early cancellations are state.

**`ControlPlane`**: both controllers, their tools and commands, usage of the
turn and of one subagent, the recovery flag and the two durable images. `board`
holds plan and progress; a plan's text is the tool call that wrote it. `turn`
and `command` are the two threads; `handoff` says that the rounds are used up
and the closing summary is being requested; `made` is a goal whose `create_goal`
has not returned yet, or never did; `since` is where in the ledger this process
and generation began. `Crash` is the death of the process and the resumption of
the session by another.

Composition is by shared boundary rather than by one large module:
`SessionRecovery` assumes of a save what `SnapshotWriter` shows (it happens
under the context lock, and never goes back), `UserSteering` and `ControlPlane`
assume of an append what `HistoryLedger` shows (it is kept once it returned),
and `RuntimeServer` assumes of a turn what `UserSteering` shows (it settles its
directions).

## Runs

`tlc -workers 2 -config <cfg> <module>` in this directory. States and times are
of two workers.

| Run | Configuration | States | Shows |
|---|---|---|---|
| `snapshot_writer` | `MCSnapshotWriter.cfg` | 144 k, 1 min | lock order, no forgotten mutation, save before acknowledge, no regression, nothing written after close; every call returns, every mutation reaches the disk |
| `history_ledger` | `MCHistoryLedger.cfg` | 462 k | sequence numbers are not reused, acknowledged events survive, a clean crash does not degrade the restore |
| `session_recovery` | `MCSessionRecovery.cfg` | 1.7 M | the replay can always be opened, the conversation survives, a reset that returned stays done |
| `user_steering` | `MCUserSteering.cfg` | 113 k | directions are settled once and in order, memory and ledger agree so that only a raising call strands one; directions and promotions come to an end, a stop ends the turn |
| `runtime_server` | `MCRuntimeServer.cfg` | 2.3 M, 95 s | one foreground and an exact `running`, no submission twice, no round of a goal turn after a stop |
| `runtime_server_live` | `MCRuntimeServerLive.cfg` | 160 k, 2 min | an active goal continues, accepted work runs, closing drains the workers for good |
| `interactions` | `MCInteractions.cfg` | 117 k, 75 s | one owner, a complete shutdown, no documents or answers after a cancellation; cancelled requests return, prompts close |
| `control_plane` | `MCControlPlane.cfg` | 3.5 M, 2 min | budgets stop goals, calls commit once, own commits stand, requests of rounds show saved boards, the model judges what it saw |
| `recovered_tool_result`, `shutdown_pauses_goal`, `create_clears_interrupt`, `summary_skips_recovery` | their own | violated | see [below](#where-code-and-documentation-disagree) |

Bounds, and why they are enough:

- `SnapshotWriter`: two threads and four calls give a mutation, a Timer it
  leaves behind, a second Timer that supersedes it, and an explicit save or
  close between them.
- `HistoryLedger`: five events, one raising write and two deaths: a batch, its
  retry, a torn tail and a rebind after it.
- `SessionRecovery`: fan-out two distinguishes a partly answered tool message;
  three messages and two restarts allow a snapshot, a compaction and a reset
  around it, and a second recovery of the recovered session.
- `UserSteering`: three directions, two promotions, two turns, one failing
  append, two deaths: a drain or a discard of several directions cut at each place, a late
  admission, a recovery after a recovery.
- `RuntimeServer`: any two of six submissions, retried any number of times, on
  three slots: a foreground, a concurrent command and a worker that is leaving.
  The liveness run has a chat and a pause against a goal that never ends.
- `Interactions`: an owner and a waiter, one with a deadline and documents, and
  one canceller that chooses its call; the early-cancellation memory holds two
  (1024 in the code).
- `ControlPlane`: two tool calls, two commits, two goals, two objectives, a
  budget of one or none, and two of failed snapshot, reset and crash in any
  combination: a commit whose snapshot failed is recovered, and the recovery
  fails, is cut by a crash, or is followed by the same call again.
  `SYMMETRY` over calls and objectives is sound: the run checks safety only.

Deadlock is checked except in `snapshot_writer` and `interactions`, whose
behaviours really end: all calls made, all requests answered.

Every property has a mutant in `PROJECT.json`: a plausible bug in one mapped
definition under which TLC finds that property violated. The mutated
forms stand in the modules directly before the definitions they replace.

## Fairness

Only scheduling that the code and its platform give:

- `SnapshotWriter`: weak fairness of every started thread and Timer. Calls are
  finite in number, so a lock is always released again.
- `UserSteering`: the turn worker runs (a provider request has timeouts), a
  dead process is started again. Nothing says that runtime issues which keep the
  loop from starting can be published in the end: `AdmittedIsSettled`, and
  `InterruptTakesEffect` for promotions, name the behaviours in which the loop
  gives up at its entry for ever as their exception (item 5 below). That a stop
  ends the turn holds in those as well.
- `RuntimeServer`: workers run and turns end; a stop request that set the flag
  goes on to pause the goal. Clients and the model are not fair: nothing obliges
  them to submit, stop or finish a goal.
- `Interactions`: threads, the reader of the peer, an armed deadline, a
  canceller that has started and the propagation of a disconnect. The user is
  not fair: nobody has to answer.

## Proofs

`tlapm <module>.tla`; everything below is checked to the last leaf, for all
values of the constants that satisfy the named assumptions.

**`SnapshotWriterProofs`** (assumes that threads are not Timers' numbers and
that the bound is a natural number). `TypeCorrect`, `LockOrder`
(`ContextBeforeWriter`), `Coalescing` (`NoMutationForgotten`),
`SaveBeforeAcknowledge` (`SavedIsCovered`) and `Monotone`
(`SnapshotNeverRegresses`). None is inductive alone. `LockInv` says at which
stages an actor owns which lock, `StageInv` that a pending Timer waits, and
`DataInv` that a captured revision is current for as long as the context lock
is held; the last is what makes a write never go back.

**`InteractionsProofs`** (deadlines and reviews are kinds of requests).
`SingleOwner` (`OneOwner`), `ShutdownIsComplete` (`ShutdownSweeps`) and
`CancellationWins` (`CancelledIsNotAnswered`). Ownership needs `Registered`: a
request is in the registry exactly between the two critical sections of
`_invoke`, which is why the sweep of a shutdown reaches it wherever it waits.

**`ControlPlaneProofs`** (budgets are positive, costs natural, and "no goal" is
neither a goal nor what a request shows of one). Each property has its own small invariant:
- `BudgetIsKept`: `GoalInv`, which adds that the goal in memory is the one a
  restart would restore; one lemma per way to change a goal.
- `RoundRequestsAreSaved` (`RoundsShowSavedBoards`): `SavedInv`: a board is
  saved, or the turn is about to save it, or the recovery flag is up. The
  request of a round is built with the flag down; the closing summary is not,
  and is left out of the theorem (item 4 below).
- `JudgementIsInformed` (`JudgesWhatItSaw`): `JudgeInv`: while a response is
  being handled, a model that was shown no goal meets none but a goal of its own
  making. `update_goal` itself accepts any goal from such a model; the property
  rests on `/goal create` waiting for the turn, and on every change of a goal
  keeping its identity.
- `CallsCommitOnce` (`CommitsOnce`): `CallsInv`: every call in the part of the
  ledger that this process wrote in this generation is of that generation and
  remembered. The recovery forgets the calls and finds them again there. A reset
  and a restart do forget them, and the theorem claims nothing across those.

Only model-checked: all liveness (the prover has no fairness); `NoWriteAfterClose`;
`OwnCommitsStand`, which depends on what filtering a sequence returns;
`CancelEndsDocuments`; and the properties of `HistoryLedger`, `SessionRecovery`,
`UserSteering` and `RuntimeServer` (the load functions of the first two are
recursive). Proofs for the last two, and of `SequenceNeverReused`, are planned.

## Where code and documentation disagree

Four disagreements have a run that TLC refutes, and a finding in `PROJECT.json`:

1. `recovered_tool_result`: a snapshot taken while a tool runs stores a
   synthesized answer; after a crash it wins over the real result in the ledger.
2. `shutdown_pauses_goal`: a shutdown between two unlocked reads of a worker
   pauses a goal that it should preserve.
3. `create_clears_interrupt`: `/goal create` and `/goal resume` clear a stop
   request that arrived while they ran.
4. `summary_skips_recovery`: after a failed snapshot "recovery is required
   before the next model request" (`plan.py:224`), but the summary requested
   when the rounds are used up is built without it (`loop.py:690`).

The others were met while modelling. The models follow the code, and the
properties except these cases by name:

5. While runtime issues cannot be published and directions are queued,
   `_chat_turn` spins (`EntryGivesUp`), until a stop comes.
6. A write that raises half way in a living process leaves a torn tail that
   only `bind_jsonl` separates (`domain/history.py:346`; AGENT.md says torn
   tails are separated before new appends). Excepted from `acked`.
7. `_drain_user_steering` and every `discard_pending_user_steering` empty the
   queue before the ledger appends, so one raise strands the remaining
   admissions until a restart (`agent.py:1046`, `agent.py:1124`), although the
   latter is to "durably discard every non-terminal steering admission". In a
   drain the commits before the raise are not in the context either. A discard
   that raises in `request_interrupt_intent` or `_shutdown` also skips the stop
   request that follows it. Excepted by `lost`.
8. A promotion between the drain and the reading of the epoch does not
   interrupt the request (`loop.py:295`); it ends at the next boundary.
9. `recover_from_ledger` looks at the current generation only
   (`plan.py:239`): a plan restored from the snapshot of an earlier process is
   dropped when only the progress was committed since. `OwnCommitsStand` speaks
   of what this process committed.
10. A restart takes plan and progress from the snapshot only
    (`session_state.py:446`), although the ledger may hold a newer commit; the
    goal does come from the ledger. `RoundsShowSavedBoards` bounds the loss:
    no request of a round has used what is lost.
11. Generation numbers start again in every process while a restore trusts the
    largest in the ledger (`agent.py:756`): after two resets in one process,
    later events with smaller generations are ignored.
12. `reset` clears the recovery flag before its own snapshot
    (`agent.py:2077`): if that fails, a crash brings the old plan back.
13. `InteractionCoordinator.cancel` reads whether the request is active under
    the lock and sets its event outside (`interactions.py:71`): a request that
    becomes active in between is asked anyway. Nothing in the program calls it.
14. `update` cuts an explanation at 500 characters after stripping, recovery
    strips again without cutting (`plan.py:106`, `plan.py:276`): a fingerprint
    may differ after recovery. Texts are identities in the model.
15. What raises in `_chat_turn` before its `try` (`agent.py:1895`) leaves
    `_accepting_user_steering` set: directions are admitted although no turn
    runs, and wait for the next one (`StartRaises`, `TurnRaisesEarly`). Excepted
    by `pc = "idle" /\ accepting`.
16. When the snapshot of `create_goal` raises, the goal is committed but the tool
    does not note that the model has seen it (`tools/builtin/goal.py:25`): the
    model may still complete or block it. Excepted by `made`.
17. A snapshot in the middle of a reset, of a context that came from a
    compaction, makes the tail with the reset unusable until the closing save
    replaces it (`agent.py:2054`). If that save raises, so does the reset; a
    crash then, or a death before it, brings the old conversation back. Excepted
    by `raced`; a reset that returned stays done.
18. A stop requests first and pauses the goal later (`server.py:621`). A
    submission or a `/goal create` in between clears the request, so a goal turn
    that was already allowed runs on (`halted = "overtaken"`). No new one is
    started.
19. A single `append` that raises leaves its event in memory
    (`domain/history.py:179`); the next manifest counts it, and a restart is
    degraded. Excepted from `CleanCrashIsNotDegraded` by `failures = 0`.

## What is not modelled

- Wire formats, prompts, configuration, rendering, search and file tools: pure
  functions and I/O.
- Model providers and the frontend's user: nondeterministic choices.
- `ControlPlane`: elapsed time of a goal, validation of texts, switching
  sessions inside one process, the retry of a request that a promotion
  interrupted. A snapshot is one step (`SnapshotWriter` has its
  inside), `blocked` stands for `usage_limited`, and of a snapshot only the
  boards are kept, because a goal is restored from the ledger.
- `SessionRecovery`: legacy formats, damaged artifacts, images.
- `RuntimeServer`: state revisions published to clients, uploads, history
  queries.
- The parts of the plan below that have no module yet. They are most of the
  code by lines; the modules above cover the session's core.

## Plan

Done: `SnapshotWriter` (proved), `HistoryLedger`, `SessionRecovery`,
`UserSteering`, `RuntimeServer`, `Interactions` (proved), `ControlPlane`
(proved).

Next, in this order:

1. `OutputJournal`, on top of `HistoryLedger`: unacknowledged output is
   recovered once, acknowledged output never.
2. `SubagentManager`: job states, slots, cancellation, guidance deadlines,
   delivery of completions to the parent, restore; abstract specification: a job
   ends once and its parent hears of it once.
3. `ProcessManager`: start against shutdown, publish against exit, expiry; no
   process is left behind and completion is reported once.
4. `ToolExecution` with `Approval`: stages of a call, parallel batches, what is
   reported when a step after the effect fails; rule precedence as an operator
   against a reference definition.
5. `Relay`: host and Go peer, pending requests, streams, disconnects.
6. `RuntimeLocks`: the lock hierarchy of `docs/runtime-locking.md`.
7. `Jobs`, `Mcp`, `Lsp`: leases, server lifecycles, generations.

Abstract specifications to add: an atomic register of the latest revision,
implemented by `SnapshotWriter`; a durable log implemented by `HistoryLedger`.
Proofs to add: `SequenceNeverReused` (numbers in file, batch and queue are below
`_next_seq`), `SettledOnce` and `OneForeground`.
