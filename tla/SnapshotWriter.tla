--------------------------- MODULE SnapshotWriter ---------------------------
(***************************************************************************)
(* SessionSnapshotWriter (app/runtime/snapshot_writer.py) and the Agent    *)
(* methods that drive it.                                                  *)
(*                                                                         *)
(* Foreground threads mutate the conversation under the context lock and   *)
(* ask for a snapshot, either at once or deferred to a Timer.  The writer  *)
(* has a leaf lock _lock (each block under it is one step here), and       *)
(* persists while holding the context lock and then _write_lock.  A Timer  *)
(* is an actor named by its generation number.  The data of a snapshot is  *)
(* the context revision it captured.                                       *)
(***************************************************************************)
EXTENDS Naturals

CONSTANTS
  Threads,      \* the foreground threads that call the writer
  MaxCalls      \* bound on the operations started in one behaviour

ASSUME ThreadsAreNotTimers == Threads \cap Nat = {}
ASSUME MaxCallsIsNat == MaxCalls \in Nat

VARIABLES
  revision,     \* Agent._context_revision: mutations committed so far
  disk,         \* the revision held by the snapshot on disk
  hasSnapshot,  \* _has_snapshot
  generation,   \* _generation
  timer,        \* _timer: the generation of the pending Timer, 0 for None
  closed,       \* _closed
  bound,        \* Agent._session_persist_callback is this writer
  ctxOwner,     \* holder of the (reentrant) context lock, 0 when free
  writeOwner,   \* holder of _write_lock, 0 when free
  pc,           \* where each thread and each Timer is
  captured,     \* the revision each actor's last capture holds
  op,           \* the operation a thread is executing
  want,         \* the revision a thread's operation must cover (history)
  result,       \* how a thread's last operation ended (history)
  failed,       \* a write or a scheduling failed since the last good write
  calls         \* operations started so far

vars == <<revision, disk, hasSnapshot, generation, timer, closed, bound,
          ctxOwner, writeOwner, pc, captured, op, want, result,
          failed, calls>>

Free == 0

Timers == 1 .. generation

Stages == {"idle", "deferred", "scope", "ctx", "writer", "write",
           "save", "unbind", "waiting", "done"}

Ops == {"none", "append", "replace", "flush", "save", "close"}

Results == {"none", "ok", "skipped", "raised"}

\* The operations that run inside the caller's own hold of the context lock.
HoldsContext(t) == op[t] \in {"append", "replace", "save"}

-----------------------------------------------------------------------------

Init ==
  /\ revision = 0 /\ disk = 0 /\ hasSnapshot = FALSE
  /\ generation = 0 /\ timer = 0 /\ closed = FALSE /\ bound = TRUE
  /\ ctxOwner = Free /\ writeOwner = Free
  /\ pc = [t \in Threads |-> "idle"]
  /\ captured = [t \in Threads |-> 0]
  /\ op = [t \in Threads |-> "none"]
  /\ want = [t \in Threads |-> 0]
  /\ result = [t \in Threads |-> "none"]
  /\ failed = FALSE /\ calls = 0

\* A thread starts operation o at the stage s, which must cover revision r.
Start(t, o, s, r) ==
  /\ pc[t] = "idle" /\ bound /\ calls < MaxCalls
  /\ pc' = [pc EXCEPT ![t] = s]
  /\ op' = [op EXCEPT ![t] = o]
  /\ want' = [want EXCEPT ![t] = r]
  /\ result' = [result EXCEPT ![t] = "none"]
  /\ calls' = calls + 1
  /\ UNCHANGED <<disk, hasSnapshot, generation, timer, closed, bound,
                 writeOwner, captured, failed>>

\* Commit a mutation under the context lock, then call the writer inside it.
Mutate(t, o, s) ==
  /\ ctxOwner = Free
  /\ Start(t, o, s, revision + 1)
  /\ ctxOwner' = t
  /\ revision' = revision + 1

\* Agent._append_message: the snapshot is deferred.
AppendMessage(t) == Mutate(t, "append", "deferred")

\* Agent._replace_context_messages: the snapshot is synchronous.
ReplaceContext(t) == Mutate(t, "replace", "scope")

\* Agent.persist_runtime_snapshot() outside the context lock.
PersistRuntimeSnapshot(t) ==
  /\ Start(t, "flush", "scope", revision)
  /\ UNCHANGED <<ctxOwner, revision>>

\* save_session_snapshot: Agent.session_snapshot_scope takes the context lock
\* first, commit_session_exit may add the exit message, then the writer scope.
SaveSession(t) ==
  /\ ctxOwner = Free
  /\ \E r \in {revision, revision + 1} :
       Start(t, "save", "scope", r) /\ revision' = r
  /\ ctxOwner' = t

\* Agent.unbind_session_persistence: settle the writer with close().
Unbind(t) ==
  /\ Start(t, "close", "scope", revision)
  /\ UNCHANGED <<ctxOwner, revision>>

\* Under _lock: take the next generation and cancel the pending Timer.  The
\* new generation's Timer, if one is started, waits; thread t moves to s.
NextGeneration(t, s, timerStage) ==
  /\ generation' = generation + 1
  /\ pc' = [a \in Threads \cup 1 .. (generation + 1) |->
              CASE a = t -> s
                [] a = generation + 1 -> timerStage
                [] a = timer -> "done"
                [] OTHER -> pc[a]]
  /\ captured' = [a \in Threads \cup 1 .. (generation + 1) |->
                    IF a = generation + 1 THEN 0 ELSE captured[a]]

\* The operation of t ends with result r and releases what t holds.
Return(t, r) ==
  /\ result' = [result EXCEPT ![t] = r]
  /\ op' = [op EXCEPT ![t] = "none"]
  /\ ctxOwner' = IF ctxOwner = t THEN Free ELSE ctxOwner
  /\ writeOwner' = IF writeOwner = t THEN Free ELSE writeOwner

\* __call__(deferred=True) before the first snapshot: flush instead.
FirstSnapshot(t) ==
  /\ pc[t] = "deferred" /\ ~hasSnapshot
  /\ pc' = [pc EXCEPT ![t] = "scope"]
  /\ UNCHANGED <<revision, disk, hasSnapshot, generation, timer, closed, bound,
                 ctxOwner, writeOwner, captured, op, want, result, failed,
                 calls>>

\* __call__(deferred=True) on a closed writer does nothing.
ScheduleClosed(t) ==
  /\ pc[t] = "deferred" /\ hasSnapshot /\ closed
  /\ Return(t, "skipped")
  /\ pc' = [pc EXCEPT ![t] = "idle"]
  /\ UNCHANGED <<revision, disk, hasSnapshot, generation, timer, closed, bound,
                 captured, want, failed, calls>>

\* Mutant: a new deferred request leaves a pending Timer in place although it
\* takes the generation that Timer compares itself with.
ScheduleKeepsTimer(t) ==
  /\ pc[t] = "deferred" /\ hasSnapshot /\ ~closed
  /\ IF timer # 0
       THEN /\ generation' = generation + 1
            /\ pc' = [a \in Threads \cup 1 .. (generation + 1) |->
                        CASE a = t -> "idle"
                          [] a = generation + 1 -> "done"
                          [] OTHER -> pc[a]]
            /\ captured' = [a \in Threads \cup 1 .. (generation + 1) |->
                              IF a = generation + 1 THEN 0 ELSE captured[a]]
            /\ UNCHANGED timer
       ELSE NextGeneration(t, "idle", "waiting") /\ timer' = generation + 1
  /\ Return(t, "skipped")
  /\ UNCHANGED <<revision, disk, hasSnapshot, closed, bound, want, failed, calls>>

\* __call__(deferred=True): replace the pending Timer; starting the new one
\* may fail, which is recorded and not raised.
Schedule(t) ==
  /\ pc[t] = "deferred" /\ hasSnapshot /\ ~closed
  /\ \/ /\ NextGeneration(t, "idle", "waiting")
        /\ timer' = generation + 1
        /\ UNCHANGED failed
     \/ /\ NextGeneration(t, "idle", "done")
        /\ timer' = 0
        /\ failed' = TRUE
  /\ Return(t, "skipped")
  /\ UNCHANGED <<revision, disk, hasSnapshot, closed, bound, want, calls>>

\* Mutant: the scope takes a generation and forgets to clear _timer.
EnterScopeKeepsTimer(t) ==
  /\ pc[t] = "scope"
  /\ NextGeneration(t, "ctx", "done")
  /\ UNCHANGED <<timer, revision, disk, hasSnapshot, closed, bound, ctxOwner,
                 writeOwner, op, want, result, failed, calls>>

\* write_scope, first block: supersede every earlier generation.
EnterScope(t) ==
  /\ pc[t] = "scope"
  /\ NextGeneration(t, "ctx", "done")
  /\ timer' = 0
  /\ UNCHANGED <<revision, disk, hasSnapshot, closed, bound, ctxOwner,
                 writeOwner, op, want, result, failed, calls>>

\* A Timer elapses: _run_deferred, first block.
TimerElapses(g) ==
  /\ pc[g] = "waiting"
  /\ IF closed \/ g # generation
       THEN pc' = [pc EXCEPT ![g] = "done"] /\ UNCHANGED timer
       ELSE pc' = [pc EXCEPT ![g] = "ctx"] /\ timer' = 0
  /\ UNCHANGED <<revision, disk, hasSnapshot, generation, closed, bound,
                 ctxOwner, writeOwner, captured, op, want, result, failed,
                 calls>>

\* Mutant: the writer goes to its own lock without the context lock.
TakeNoContext(a) ==
  /\ pc[a] = "ctx"
  /\ pc' = [pc EXCEPT ![a] = "writer"]
  /\ UNCHANGED <<revision, disk, hasSnapshot, generation, timer, closed, bound,
                 ctxOwner, writeOwner, captured, op, want, result, failed,
                 calls>>

\* with self._context_lock: reentrant for a caller that already holds it.
TakeContext(a) ==
  /\ pc[a] = "ctx" /\ ctxOwner \in {Free, a}
  /\ ctxOwner' = a
  /\ pc' = [pc EXCEPT ![a] = "writer"]
  /\ UNCHANGED <<revision, disk, hasSnapshot, generation, timer, closed, bound,
                 writeOwner, captured, op, want, result, failed, calls>>

\* with self._write_lock
TakeWriter(a) ==
  /\ pc[a] = "writer" /\ writeOwner = Free
  /\ writeOwner' = a
  /\ pc' = [pc EXCEPT ![a] = "write"]
  /\ UNCHANGED <<revision, disk, hasSnapshot, generation, timer, closed, bound,
                 ctxOwner, captured, op, want, result, failed, calls>>

\* Mutant: only a Timer re-checks that the writer is still open.
WritableWhenClosed(a) ==
  IF a \in Threads THEN TRUE ELSE ~closed /\ a = generation

\* What the code re-checks once it holds both locks: flush() and close() want
\* an open writer, a Timer also wants to be the newest generation, and
\* save_session_snapshot ignores what write_scope yields.
Writable(a) ==
  IF a \in Threads THEN op[a] = "save" \/ ~closed
                   ELSE ~closed /\ a = generation

\* unbind goes on after close() has returned; the others are finished.
After(t) == IF op[t] = "close" THEN "unbind" ELSE "idle"

\* flush() or close() on a closed writer.
SkipFlush(t) ==
  /\ pc[t] = "write" /\ ~Writable(t)
  /\ Return(t, "skipped")
  /\ pc' = [pc EXCEPT ![t] = After(t)]
  /\ UNCHANGED <<revision, disk, hasSnapshot, generation, timer, closed, bound,
                 captured, want, failed, calls>>

\* Mutant: the early return keeps the two locks.
SkipDeferredKeepsLocks(g) ==
  /\ pc[g] = "write" /\ ~Writable(g)
  /\ pc' = [pc EXCEPT ![g] = "done"]
  /\ UNCHANGED <<revision, disk, hasSnapshot, generation, timer, closed, bound,
                 ctxOwner, writeOwner, captured, op, want, result, failed,
                 calls>>

\* _run_deferred of a superseded Timer, or on a closed writer.
SkipDeferred(g) ==
  /\ pc[g] = "write" /\ ~Writable(g)
  /\ ctxOwner' = Free /\ writeOwner' = Free
  /\ pc' = [pc EXCEPT ![g] = "done"]
  /\ UNCHANGED <<revision, disk, hasSnapshot, generation, timer, closed, bound,
                 captured, op, want, result, failed, calls>>

\* Mutant: the locks cover the capture but not the disk write.
CaptureThenRelease(a) ==
  /\ pc[a] = "write" /\ Writable(a)
  /\ captured' = [captured EXCEPT ![a] = revision]
  /\ pc' = [pc EXCEPT ![a] = "save"]
  /\ ctxOwner' = Free /\ writeOwner' = Free
  /\ UNCHANGED <<revision, disk, hasSnapshot, generation, timer, closed, bound,
                 op, want, result, failed, calls>>

\* persist_snapshot copies the context under the context lock.
Capture(a) ==
  /\ pc[a] = "write" /\ Writable(a)
  /\ captured' = [captured EXCEPT ![a] = revision]
  /\ pc' = [pc EXCEPT ![a] = "save"]
  /\ UNCHANGED <<revision, disk, hasSnapshot, generation, timer, closed, bound,
                 ctxOwner, writeOwner, op, want, result, failed, calls>>

\* Mutant: a session that already has a snapshot is not written again.
SaveOnce(a) ==
  /\ disk' = IF hasSnapshot THEN disk ELSE captured[a]
  /\ failed' = FALSE

\* store.save replaces the snapshot, or raises and leaves the old one.
SaveOk(a) == disk' = captured[a] /\ failed' = FALSE

SaveRaises == failed' = TRUE /\ UNCHANGED <<disk, hasSnapshot>>

\* The rest of flush() for the three operations that end there.
Flush(t) ==
  /\ pc[t] = "save" /\ op[t] \in {"append", "replace", "flush"}
  /\ \/ SaveOk(t) /\ hasSnapshot' = TRUE /\ Return(t, "ok")
     \/ SaveRaises /\ Return(t, "raised")
  /\ pc' = [pc EXCEPT ![t] = "idle"]
  /\ UNCHANGED <<revision, generation, timer, closed, bound, captured, want,
                 calls>>

\* The rest of save_session_snapshot; it does not set _has_snapshot.
ExplicitSave(t) ==
  /\ pc[t] = "save" /\ op[t] = "save"
  /\ \/ SaveOk(t) /\ Return(t, "ok") /\ UNCHANGED hasSnapshot
     \/ SaveRaises /\ Return(t, "raised")
  /\ pc' = [pc EXCEPT ![t] = "idle"]
  /\ UNCHANGED <<revision, generation, timer, closed, bound, captured, want,
                 calls>>

\* The rest of close(); a failed save leaves the writer open and bound.
Close(t) ==
  /\ pc[t] = "save" /\ op[t] = "close"
  /\ \/ /\ SaveOk(t) /\ hasSnapshot' = TRUE /\ Return(t, "ok")
        /\ closed' = TRUE
        /\ pc' = [pc EXCEPT ![t] = "unbind"]
     \/ /\ SaveRaises /\ Return(t, "raised")
        /\ pc' = [pc EXCEPT ![t] = "idle"]
        /\ UNCHANGED closed
  /\ UNCHANGED <<revision, generation, timer, bound, captured, want, calls>>

\* The rest of unbind: the Agent drops the closed writer.
DropCallback(t) ==
  /\ pc[t] = "unbind"
  /\ bound' = FALSE
  /\ pc' = [pc EXCEPT ![t] = "idle"]
  /\ UNCHANGED <<revision, disk, hasSnapshot, generation, timer, closed,
                 ctxOwner, writeOwner, captured, op, want, result, failed,
                 calls>>

\* The rest of _run_deferred: a failure is recorded, not raised.
RunDeferred(g) ==
  /\ pc[g] = "save"
  /\ (SaveOk(g) /\ hasSnapshot' = TRUE) \/ SaveRaises
  /\ ctxOwner' = Free /\ writeOwner' = Free
  /\ pc' = [pc EXCEPT ![g] = "done"]
  /\ UNCHANGED <<revision, generation, timer, closed, bound, captured, op, want,
                 result, calls>>

ThreadStep(t) ==
  \/ FirstSnapshot(t) \/ ScheduleClosed(t) \/ Schedule(t) \/ EnterScope(t)
  \/ TakeContext(t) \/ TakeWriter(t) \/ SkipFlush(t) \/ Capture(t)
  \/ Flush(t) \/ ExplicitSave(t) \/ Close(t) \/ DropCallback(t)

TimerStep(g) ==
  \/ TimerElapses(g) \/ TakeContext(g) \/ TakeWriter(g)
  \/ SkipDeferred(g) \/ Capture(g) \/ RunDeferred(g)

Call(t) ==
  \/ AppendMessage(t) \/ ReplaceContext(t) \/ PersistRuntimeSnapshot(t)
  \/ SaveSession(t) \/ Unbind(t)

Next ==
  \/ \E t \in Threads : Call(t) \/ ThreadStep(t)
  \/ \E g \in Timers : TimerStep(g)

Spec == Init /\ [][Next]_vars

\* A running thread or Timer keeps running.  Operations are finite in number,
\* so weak fairness on lock acquisition is enough: no lock is taken for ever.
Fairness ==
  /\ \A t \in Threads : WF_vars(ThreadStep(t))
  /\ \A g \in 1 .. MaxCalls : WF_vars(g \in Timers /\ TimerStep(g))

FairSpec == Spec /\ Fairness

-----------------------------------------------------------------------------

\* Type invariant of the writer and of the threads that call it.
TypeOK ==
  /\ revision \in Nat /\ disk \in Nat /\ generation \in Nat /\ calls \in Nat
  /\ hasSnapshot \in BOOLEAN /\ closed \in BOOLEAN /\ bound \in BOOLEAN
  /\ failed \in BOOLEAN
  /\ timer \in {0, generation}
  /\ pc \in [Threads \cup Timers -> Stages]
  /\ captured \in [Threads \cup Timers -> Nat]
  /\ op \in [Threads -> Ops]
  /\ want \in [Threads -> Nat]
  /\ result \in [Threads -> Results]
  /\ ctxOwner \in {Free} \cup Threads \cup Timers
  /\ writeOwner \in {Free} \cup Threads \cup Timers

\* "Always take context before writer" (snapshot_writer.py:28): whoever holds
\* the writer lock also holds the context lock, whether it came through a
\* mutation, an explicit save or a Timer.
ContextBeforeWriter == writeOwner # Free => ctxOwner = writeOwner

\* Actor a will still capture the context before it stops.
WillCapture(a) ==
  \/ a \in Threads /\ pc[a] \in {"deferred", "scope", "ctx", "writer", "write"}
  \/ a = generation /\ pc[a] \in {"waiting", "ctx", "writer", "write"}
  \/ pc[a] = "save" /\ captured[a] = revision

\* Coalescing loses nothing: while a committed mutation is missing from the
\* snapshot of an open writer that has not reported a failure, some thread or
\* the Timer of the newest generation is still on its way to capture it.
\* Cancelling and superseding Timers (lines 44-59, 119-123) must keep this.
NoMutationForgotten ==
  disk < revision /\ ~closed /\ ~failed =>
    \E a \in Threads \cup Timers : WillCapture(a)

\* Save-before-acknowledge: an operation that returned without raising on an
\* open writer left every mutation committed before its call on disk, however
\* Timers and other savers interleaved with it.
SavedIsCovered ==
  \A t \in Threads : result[t] = "ok" => disk >= want[t]

\* A snapshot never goes back to an older revision of the context: no late
\* Timer overwrites a newer explicit save (lines 67-78).
SnapshotNeverRegresses == [][disk' >= disk]_vars

\* After close() only an explicit save that already holds the scope can touch
\* the snapshot: no flush and no Timer of the closed writer writes.
NoWriteAfterClose ==
  [][closed /\ disk' # disk => \E t \in Threads : op[t] = "save"]_vars

\* Every call returns: threads, Timers and savers cannot wait on each other
\* for ever over the context lock and the writer lock.
EveryCallReturns ==
  \A t \in Threads : pc[t] # "idle" ~> pc[t] = "idle"

\* The deferred path does write: a committed mutation reaches the snapshot,
\* unless the writer is closed or has reported a failure.
MutationReachesDisk ==
  \A n \in 1 .. MaxCalls :
    revision >= n ~> disk >= n \/ closed \/ failed

=============================================================================
