--------------------------- MODULE SessionRecovery ---------------------------
(***************************************************************************)
(* What a session looks like after a crash: the model-visible context of   *)
(* the Agent, the events it commits to the ledger, the replay.json and     *)
(* manifest.json a snapshot writes, and SessionStore.load.                 *)
(*                                                                         *)
(* A message is its role and an identity.  An assistant message with tool  *)
(* calls makes Fanout of them and is answered by one tool message per      *)
(* call; answers synthesized by the repair of unanswered calls are not     *)
(* real.  The ledger is the sequence of committed messages and context     *)
(* views, so an event's index is its sequence number; a torn line is the   *)
(* flag torn (HistoryLedger has the file itself).  A snapshot is taken     *)
(* under the context lock (SnapshotWriter), so nothing is appended between *)
(* its two file replacements, but the process may die there.               *)
(***************************************************************************)
EXTENDS Naturals, Sequences, SequencesExt, FiniteSetsExt

CONSTANTS
  Fanout,       \* tool calls made by one assistant message
  MaxMessages,  \* bound on the message identities of one behaviour
  MaxRestarts   \* bound on process deaths

ASSUME FanoutIsPositive == Fanout \in Nat \ {0}
ASSUME BoundsAreNat == MaxMessages \in Nat /\ MaxRestarts \in Nat

VARIABLES
  up,        \* the process is running
  live,      \* agent.state.messages
  answered,  \* answers to the last tool-call message; Fanout: none is open
  log,       \* committed events: messages and views of the whole context
  torn,      \* the ledger file has a line that does not decode
  replay,    \* replay.json: items and the newest event they come from
  manifest,  \* event_count of manifest.json
  saving,    \* stage of the save that holds the context lock
  resetting, \* how far a reset got that has not returned
  raced,     \* whether replay.json holds a context that a reset was about to clear,
             \* or the process resumed from such a file
  ids,       \* message identities used
  restarts

vars == <<up, live, answered, log, torn, replay, manifest, saving, resetting,
          raced, ids, restarts>>

\* No save, a forced one that has yet to replace replay.json, and one that
\* has yet to replace manifest.json.
Stages == {"no", "due", "replay"}

\* No reset (or the last one returned), one that committed its empty view, one
\* that cleared the context and waits for its closing save, one whose closing
\* save raised out of it.
ResetStages == {"no", "view", "cleared", "raised"}

\* No reset is under way.
NotResetting == resetting \in {"no", "raised"}

Message ==
  [role : {"user", "calls", "tool"}, id : 1 .. MaxMessages,
   call : 0 .. Fanout, real : BOOLEAN]

User(n) == [role |-> "user", id |-> n, call |-> 0, real |-> TRUE]
Calls(n) == [role |-> "calls", id |-> n, call |-> 0, real |-> TRUE]
Answer(n, c, r) == [role |-> "tool", id |-> n, call |-> c, real |-> r]

Committed(m) == [view |-> FALSE, items |-> <<m>>]
View(ms) == [view |-> TRUE, items |-> ms]

Spoken(ms) == SelectSeq(ms, LAMBDA m : m.role # "tool")

-----------------------------------------------------------------------------
(* reconcile_tool_call_adjacency.                                          *)

\* Each tool-call message is followed by the first answer present for each of
\* its calls, in call order, or by a synthesized one; other answers go.
Reconcile(ms) ==
  LET Answers(m, c) ==
        SelectSeq(ms, LAMBDA r : r.role = "tool" /\ r.id = m.id /\ r.call = c)
      First(m, c) == IF Answers(m, c) = <<>> THEN Answer(m.id, c, FALSE)
                     ELSE Head(Answers(m, c))
      Block(m) == CASE m.role = "tool"  -> <<>>
                    [] m.role = "user"  -> <<m>>
                    [] m.role = "calls" ->
                         <<m>> \o [c \in 1 .. Fanout |-> First(m, c)]
  IN  FlattenSeq([i \in 1 .. Len(ms) |-> Block(ms[i])])

-----------------------------------------------------------------------------
(* Saving and loading.                                                     *)

LastView(events) == Max({0} \cup {i \in 1 .. Len(events) : events[i].view})

\* Mutant: the boundary is the next event to come.
SnapshotSeqNext(items) == Len(log) + 1

\* The newest event that ItemProvenanceIndex.align names as a source of items:
\* the last view when the first item is one of its items (the scan of the view
\* stops for good at an item it does not hold), and committed messages.
SnapshotSeq(items) ==
  LET v == LastView(log)
      fromView == {v} \cap {i \in 1 .. Len(log) :
                     items # <<>> /\ Contains(log[i].items, items[1])}
      fromMessage == {i \in 1 .. Len(log) :
                        ~log[i].view /\ Contains(items, log[i].items[1])}
  IN  Max({0} \cup fromView \cup fromMessage)

\* Mutant: a context view in the tail is appended like a message.
ApplyViewAppends(ms, event) == ms \o event.items

\* One event of the tail: a view replaces the context, a message extends it.
Apply(ms, event) == IF event.view THEN event.items ELSE Append(ms, event.items[1])

\* _recover_replay_tail.
RecoverReplayTail ==
  LET tail == SubSeq(log, replay.seq + 1, Len(log))
  IN  IF replay.seq = 0 /\ replay.items # <<>> THEN replay.items
      ELSE FoldLeft(Apply, replay.items, tail)

\* The ledger is degraded: a line was lost or the manifest counts more events.
Degraded == torn \/ manifest > Len(log)

\* SessionStore.load: the snapshot, the durable tail unless the ledger is
\* degraded, then the repair of tool calls.
Loaded == Reconcile(IF Degraded THEN replay.items ELSE RecoverReplayTail)

-----------------------------------------------------------------------------

\* A new session: the first snapshot is written when persistence is bound.
Init ==
  /\ up = TRUE /\ live = <<>> /\ answered = Fanout /\ log = <<>> /\ torn = FALSE
  /\ replay = [items |-> <<>>, seq |-> 0]
  /\ manifest = 0 /\ saving = "no"
  /\ resetting = "no" /\ raced = "no" /\ ids = 0 /\ restarts = 0

\* Agent._append_message: the ledger first, then the context.
Commit(m) ==
  /\ up /\ saving = "no" /\ NotResetting
  /\ log' = Append(log, Committed(m))
  /\ live' = Append(live, m)

AppendUser ==
  /\ ids < MaxMessages /\ answered = Fanout
  /\ ids' = ids + 1
  /\ Commit(User(ids + 1))
  /\ UNCHANGED <<up, answered, torn, replay, manifest, saving, resetting, raced,
                 restarts>>

\* The loop commits the assistant message, then runs its tools.
AppendCalls ==
  /\ ids < MaxMessages /\ answered = Fanout
  /\ ids' = ids + 1 /\ answered' = 0
  /\ Commit(Calls(ids + 1))
  /\ UNCHANGED <<up, torn, replay, manifest, saving, resetting, raced, restarts>>

\* The answers of a round, in call order; a cancelled tool has one too.
AppendResult ==
  /\ answered < Fanout
  /\ answered' = answered + 1
  /\ Commit(Answer(Spoken(live)[Len(Spoken(live))].id, answered + 1, TRUE))
  /\ UNCHANGED <<up, torn, replay, manifest, saving, resetting, ids, raced, restarts>>

\* _replace_context_messages: the view is committed, the context replaced and
\* a snapshot forced, all under the context lock.
ReplaceContext(items) ==
  /\ up /\ saving = "no" /\ answered = Fanout /\ NotResetting
  /\ log' = Append(log, View(items)) /\ live' = items /\ saving' = "due"
  /\ UNCHANGED <<up, answered, torn, replay, manifest, resetting, raced, restarts>>

\* Compaction between rounds: a summary and a suffix of the context.
Compress ==
  /\ ids < MaxMessages /\ ids' = ids + 1
  /\ \E n \in 1 .. Len(live) :
       ReplaceContext(Reconcile(<<User(ids + 1)>> \o SubSeq(live, n + 1, Len(live))))

\* Agent.reset commits an empty view; a pending deferred snapshot may run ...
Reset ==
  /\ up /\ saving = "no" /\ answered = Fanout /\ NotResetting /\ live # <<>>
  /\ log' = Append(log, View(<<>>)) /\ resetting' = "view"
  /\ UNCHANGED <<up, live, answered, torn, replay, manifest, saving, ids, raced, restarts>>

\* ... before the context is cleared and the closing snapshot forced.
ResetClears ==
  /\ up /\ saving = "no" /\ resetting = "view"
  /\ live' = <<>> /\ resetting' = "cleared" /\ saving' = "due"
  /\ UNCHANGED <<up, answered, log, torn, replay, manifest, ids, raced, restarts>>

\* What raced becomes when replay.json is replaced.
Raced == CASE raced = "resumed" -> raced
           [] raced # "resumed" /\ resetting = "view" -> "yes"
           [] raced # "resumed" /\ resetting # "view" -> "no"

\* Mutant: the context is saved as it is, with its open calls.
SaveReplayUnrepaired ==
  /\ up /\ saving \in {"no", "due"}
  /\ replay' = [items |-> live, seq |-> SnapshotSeq(live)]
  /\ saving' = "replay" /\ raced' = Raced
  /\ UNCHANGED <<up, live, answered, log, torn, manifest, resetting, ids,
                 restarts>>

\* SessionStore.save, at any moment the context lock is free: replay.json ...
SaveReplay ==
  /\ up /\ saving \in {"no", "due"}
  /\ LET items == Reconcile(live)
     IN  replay' = [items |-> items, seq |-> SnapshotSeq(items)]
  /\ saving' = "replay" /\ raced' = Raced
  /\ UNCHANGED <<up, live, answered, log, torn, manifest, resetting, ids,
                 restarts>>

\* ... then manifest.json; with its closing save a reset returns.
SaveManifest ==
  /\ up /\ saving = "replay" /\ saving' = "no"
  /\ manifest' = Len(log)
  /\ resetting' = IF resetting = "view" THEN resetting ELSE "no"
  /\ UNCHANGED <<up, live, answered, log, torn, replay, ids, raced, restarts>>

\* A save that raises: a deferred one is recorded, a forced one raises out of
\* its caller (a reset that has cleared the context has not returned then), and
\* the session goes on.
SaveFails ==
  /\ up /\ saving # "no" /\ saving' = "no"
  /\ resetting' = IF resetting = "cleared" THEN "raised" ELSE resetting
  /\ UNCHANGED <<up, live, answered, log, torn, replay, manifest, ids, raced, restarts>>

\* The process dies; a write under way may leave a torn line.
Crash ==
  /\ up /\ restarts < MaxRestarts
  /\ up' = FALSE /\ restarts' = restarts + 1 /\ saving' = "no"
  /\ torn' \in (IF saving = "no" THEN {torn, TRUE} ELSE {torn})
  /\ UNCHANGED <<live, answered, log, replay, manifest, resetting, raced, ids>>

\* load, then restore_history_runtime: the loaded messages become the context
\* without a new view.
Restart ==
  /\ ~up
  /\ up' = TRUE /\ live' = Loaded /\ answered' = Fanout /\ resetting' = "no"
  /\ raced' = IF raced = "no" THEN raced ELSE "resumed"
  /\ UNCHANGED <<log, torn, replay, manifest, saving, ids, restarts>>

Next ==
  \/ AppendUser \/ AppendCalls \/ AppendResult \/ Compress \/ Reset \/ ResetClears
  \/ SaveReplay \/ SaveManifest \/ SaveFails \/ Crash \/ Restart

Spec == Init /\ [][Next]_vars

-----------------------------------------------------------------------------
(* Properties.                                                             *)

\* Type invariant: the ledger, the two snapshot files and the live context.
\* Neither file counts events that the ledger lacks.
TypeOK ==
  /\ up \in BOOLEAN /\ torn \in BOOLEAN /\ saving \in Stages
  /\ resetting \in ResetStages /\ raced \in {"no", "yes", "resumed"}
  /\ live \in Seq(Message) /\ answered \in 0 .. Fanout
  /\ \A i \in 1 .. Len(log) :
       log[i].view \in BOOLEAN /\ log[i].items \in Seq(Message)
  /\ replay.items \in Seq(Message) /\ replay.seq \in 0 .. Len(log)
  /\ manifest \in 0 .. Len(log) /\ ids \in 0 .. MaxMessages /\ restarts \in 0 .. MaxRestarts

\* A replay.json on disk always satisfies the assistant/tool contract that
\* load demands (validate_protocol): otherwise the session could not be opened
\* at all after a crash during tool execution.
ReplayIsLoadable ==
  \A i \in 1 .. Len(replay.items) :
    LET m == replay.items[i]
    IN  m.role = "calls" =>
          /\ i + Fanout <= Len(replay.items)
          /\ \A c \in 1 .. Fanout :
               LET r == replay.items[i + c]
               IN  r.role = "tool" /\ r.id = m.id /\ r.call = c

\* Whatever snapshot was last on disk, a crash loses, repeats and reorders no
\* user or assistant message that was committed: snapshot plus durable tail
\* rebuild the live conversation (_recover_replay_tail), unless the ledger
\* itself is torn or replay.json was written in the middle of a reset that has
\* not returned (or that the process died in).  A reset that has not returned
\* may or may not have happened; one that returned stays done, whatever was
\* saved while it ran.
ConversationSurvives ==
  (~up /\ ~Degraded /\ (raced = "no" \/ (raced = "yes" /\ resetting = "no"))) =>
    \/ Spoken(Loaded) = Spoken(live)
    \/ resetting \in {"view", "cleared"} /\ Spoken(Loaded) = <<>>

\* A tool result that was committed before the crash is in the recovered
\* context: "Apply durable message/view events committed after the replay
\* snapshot."
CommittedResultSurvives ==
  (~up /\ ~Degraded /\ resetting = "no") =>
    \A i \in 1 .. Len(live) :
      live[i].role = "tool" /\ live[i].real => Contains(Loaded, live[i])

=============================================================================
