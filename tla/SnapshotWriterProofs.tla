------------------------ MODULE SnapshotWriterProofs ------------------------
(***************************************************************************)
(* Safety of the snapshot writer for any set of threads and any number of  *)
(* calls.  The properties are not inductive by themselves: they rest on    *)
(* where each actor must be while it holds a lock, on the pending Timer    *)
(* being the newest generation, and on the captured revision staying       *)
(* current for as long as the context lock is held.                        *)
(***************************************************************************)
EXTENDS SnapshotWriter, TLAPS

Actors == Threads \cup Timers

\* An actor past an acquisition owns the lock, and an owner is at a stage
\* where it still has it to release.
LockInv ==
  /\ \A a \in Actors : pc[a] \in {"writer", "write", "save"} => ctxOwner = a
  /\ \A a \in Actors : pc[a] \in {"write", "save"} => writeOwner = a
  /\ writeOwner # Free => pc[writeOwner] \in {"write", "save"}

\* Threads and Timers keep to their own stages; _timer names a Timer that
\* waits, or one that elapsed after close() and did nothing.
StageInv ==
  /\ \A t \in Threads : pc[t] \notin {"waiting", "done"}
  /\ \A g \in Timers : pc[g] \notin {"idle", "deferred", "scope", "unbind"}
  /\ timer # 0 => pc[timer] \in {"waiting", "done"}

\* A capture stays current until it is written, and nothing runs ahead of
\* the context.
DataInv ==
  /\ \A a \in Actors : pc[a] = "save" => captured[a] = revision
  /\ disk <= revision
  /\ \A t \in Threads : want[t] <= revision

IInv == TypeOK /\ LockInv /\ StageInv /\ DataInv /\ NoMutationForgotten
          /\ SavedIsCovered

\* The writer starts inside the inductive invariant.
LEMMA InitIInv == Init => IInv
<1> SUFFICES ASSUME Init PROVE IInv
  OBVIOUS
<1>1. Timers = {}
  BY DEF Init, Timers
<1>2. TypeOK
  BY <1>1 DEF Init, TypeOK, Stages, Ops, Results, Free
<1>3. LockInv /\ StageInv
  BY <1>1 DEF Init, LockInv, StageInv, Actors, Free
<1>4. DataInv /\ NoMutationForgotten /\ SavedIsCovered
  BY <1>1 DEF Init, DataInv, NoMutationForgotten, SavedIsCovered, Actors
<1> QED
  BY <1>2, <1>3, <1>4 DEF IInv

\* A lock owner is never mistaken for "free", nor a thread for a Timer.
LEMMA ActorFacts ==
  ASSUME TypeOK
  PROVE  /\ \A t \in Threads : t \notin Timers /\ t \notin Nat
         /\ \A a \in Actors : a # Free
         /\ generation + 1 \notin Threads \cup Timers
BY ThreadsAreNotTimers DEF TypeOK, Timers, Actors, Free

\* Starting an operation: t was idle and holds neither lock; a mutation needs
\* the context lock free, so no capture is outstanding when revision moves.
LEMMA CallStep ==
  ASSUME IInv, NEW t \in Threads, Call(t)
  PROVE  IInv'
<1> USE DEF IInv
<1>1. PICK o \in Ops, s \in {"deferred", "scope"}, r \in Nat :
        /\ Start(t, o, s, r)
        /\ \/ ctxOwner = Free /\ ctxOwner' = t /\ revision' = revision + 1
              /\ r = revision + 1
           \/ ctxOwner = Free /\ ctxOwner' = t /\ revision' = revision
              /\ r = revision
           \/ ctxOwner' = ctxOwner /\ revision' = revision /\ r = revision
  BY DEF Call, AppendMessage, ReplaceContext, PersistRuntimeSnapshot,
         SaveSession, Unbind, Mutate, TypeOK, Ops
<1>2. t \notin Timers /\ t # Free /\ \A a \in Actors : a # Free
  BY ActorFacts DEF Actors
<1>3. TypeOK'
  BY <1>1, <1>2 DEF TypeOK, Start, Timers, Stages, Ops, Results
<1>9. /\ \A a \in Actors : pc'[a] = IF a = t THEN pc'[t] ELSE pc[a]
      /\ pc'[t] \in {"deferred", "scope"} /\ pc[t] = "idle"
      /\ Actors' = Actors /\ writeOwner' = writeOwner /\ captured' = captured
      /\ disk' = disk
  BY <1>1 DEF TypeOK, Start, Actors, Timers
<1>4. LockInv'
  <2>1. ctxOwner = Free => \A a \in Actors : pc[a] \notin {"writer", "write", "save"}
    BY <1>2 DEF LockInv
  <2>2. writeOwner # Free => writeOwner \in Actors
    BY DEF TypeOK, Actors, Free
  <2> QED
    BY <1>1, <1>9, <2>1, <2>2 DEF LockInv
<1>5. StageInv'
  BY <1>1, <1>2 DEF TypeOK, StageInv, Start, Timers
<1>6. DataInv'
  <2>1. \A a \in Actors : pc'[a] = "save" => captured'[a] = revision'
    BY <1>1, <1>2, <1>9 DEF LockInv, DataInv
  <2>2. disk' <= revision' /\ \A u \in Threads : want'[u] <= revision'
    BY <1>1, <1>9 DEF DataInv, TypeOK, Start
  <2> QED
    BY <2>1, <2>2, <1>9 DEF DataInv
<1>7. NoMutationForgotten'
  <2>1. pc'[t] \in {"deferred", "scope"}
    BY <1>1 DEF TypeOK, Start
  <2> QED
    BY <2>1 DEF NoMutationForgotten, WillCapture
<1>8. SavedIsCovered'
  BY <1>1 DEF TypeOK, SavedIsCovered, Start
<1> QED
  BY <1>3, <1>4, <1>5, <1>6, <1>7, <1>8

\* Taking a generation: the new actor is the only one added, the cancelled
\* Timer and t are the only old ones that move.
LEMMA GenerationStep ==
  ASSUME IInv, NEW t \in Threads, NEW s \in Stages, NEW ts \in Stages,
         NextGeneration(t, s, ts)
  PROVE  /\ Timers' = Timers \cup {generation + 1}
         /\ Actors' = Actors \cup {generation + 1}
         /\ pc' \in [Threads \cup Timers' -> Stages]
         /\ captured' \in [Threads \cup Timers' -> Nat]
         /\ pc'[t] = s /\ pc'[generation + 1] = ts
         /\ \A a \in Actors : a # t /\ a # timer => pc'[a] = pc[a]
         /\ \A a \in Actors : a = timer => pc'[a] = "done"
                                           /\ pc[a] \in {"waiting", "done"}
         /\ \A a \in Actors : captured'[a] = captured[a]
<1> USE DEF IInv
<1>1. generation \in Nat
  BY DEF TypeOK
<1>2. Timers' = Timers \cup {generation + 1}
  BY <1>1 DEF NextGeneration, Timers
<1>3. Actors' = Actors \cup {generation + 1}
  BY <1>2 DEF Actors
<1>4. t # generation + 1 /\ t # timer /\ timer # generation + 1
  BY <1>1, ThreadsAreNotTimers DEF TypeOK
<1>5. \A a \in Actors : a # generation + 1
  BY ActorFacts DEF Actors
<1>6. /\ \A a \in Actors : captured'[a] = captured[a]
      /\ captured' \in [Threads \cup Timers' -> Nat]
  BY <1>1, <1>2, <1>5 DEF NextGeneration, TypeOK, Actors, Timers
<1>7. pc' \in [Threads \cup Timers' -> Stages]
  <2>1. \A a \in Threads \cup 1 .. (generation + 1) :
          a # generation + 1 => pc[a] \in Stages
    BY <1>1 DEF TypeOK, Timers
  <2>2. Timers' = 1 .. (generation + 1)
    BY <1>1 DEF NextGeneration, Timers
  <2>3. "done" \in Stages
    BY DEF Stages
  <2> QED
    BY <2>1, <2>2, <2>3 DEF NextGeneration
<1>8. pc'[t] = s /\ pc'[generation + 1] = ts
  BY <1>1, <1>4 DEF NextGeneration
<1>9. \A a \in Actors : a # t /\ a # timer => pc'[a] = pc[a]
  BY <1>1, <1>4, <1>5 DEF NextGeneration, Actors, Timers
<1>10. \A a \in Actors : a = timer => pc'[a] = "done"
                                           /\ pc[a] \in {"waiting", "done"}
  BY <1>1, <1>4, <1>5, ActorFacts DEF NextGeneration, Actors, Timers, StageInv, Free
<1> QED
  BY <1>2, <1>3, <1>6, <1>7, <1>8, <1>9, <1>10

\* __call__(deferred=True) with a snapshot on disk: the new Timer is on its
\* way to capture, or the scheduling failure is recorded.
LEMMA ScheduleStep ==
  ASSUME IInv, NEW t \in Threads, Schedule(t)
  PROVE  IInv'
<1> USE DEF IInv
<1>1. PICK ts \in {"waiting", "done"} :
        /\ NextGeneration(t, "idle", ts)
        /\ \/ ts = "waiting" /\ timer' = generation + 1 /\ failed' = failed
           \/ ts = "done" /\ timer' = 0 /\ failed' = TRUE
  BY DEF Schedule
<1> DEFINE G == generation + 1
<1>2. /\ Timers' = Timers \cup {G} /\ Actors' = Actors \cup {G}
      /\ pc' \in [Threads \cup Timers' -> Stages]
      /\ captured' \in [Threads \cup Timers' -> Nat]
      /\ pc'[t] = "idle" /\ pc'[G] = ts
      /\ \A a \in Actors : a # t /\ a # timer => pc'[a] = pc[a]
      /\ \A a \in Actors : a = timer => pc'[a] = "done"
                                           /\ pc[a] \in {"waiting", "done"}
      /\ \A a \in Actors : captured'[a] = captured[a]
  BY <1>1, GenerationStep DEF Stages
<1>3. /\ \A u \in Threads : u \notin Timers /\ u \notin Nat
      /\ \A a \in Actors : a # Free /\ a # G
      /\ t \in Actors /\ generation \in Nat
  BY ActorFacts DEF Actors, TypeOK
<1>4. /\ generation' = G /\ revision' = revision /\ disk' = disk
      /\ closed' = closed /\ hasSnapshot' = hasSnapshot /\ bound' = bound
      /\ want' = want /\ calls' = calls /\ ~closed /\ pc[t] = "deferred"
      /\ result' = [result EXCEPT ![t] = "skipped"]
      /\ op' = [op EXCEPT ![t] = "none"]
      /\ ctxOwner' \in {Free, ctxOwner} /\ (ctxOwner # t => ctxOwner' = ctxOwner)
      /\ writeOwner' \in {Free, writeOwner} /\ (writeOwner # t => writeOwner' = writeOwner)
  BY <1>1 DEF Schedule, Return, NextGeneration
<1>5. TypeOK'
  <2>1. timer' \in {0, generation'} /\ generation' \in Nat
    BY <1>1, <1>3, <1>4 DEF TypeOK
  <2>4. failed' \in BOOLEAN
    BY <1>1, Zenon DEF TypeOK
  <2>2. op' \in [Threads -> Ops] /\ result' \in [Threads -> Results]
    BY <1>4 DEF TypeOK, Ops, Results
  <2>3. /\ ctxOwner' \in {Free} \cup Threads \cup Timers'
        /\ writeOwner' \in {Free} \cup Threads \cup Timers'
    BY <1>2, <1>4 DEF TypeOK
  <2> QED
    BY <1>2, <1>4, <2>1, <2>2, <2>3, <2>4 DEF TypeOK
<1>6. LockInv'
  <2>1. writeOwner # t
    BY <1>4, <1>3 DEF LockInv
  <2>2. writeOwner # Free => writeOwner \in Actors /\ writeOwner # timer
    BY <1>2 DEF TypeOK, Actors, Free, LockInv
  <2> QED
    BY <1>1, <1>2, <1>3, <1>4, <2>1, <2>2 DEF LockInv
<1>7. StageInv'
  BY <1>1, <1>2, <1>3, <1>4 DEF StageInv, Actors
<1>8. DataInv'
  BY <1>1, <1>2, <1>3, <1>4 DEF DataInv
<1>9. NoMutationForgotten'
  BY <1>1, <1>2, <1>4 DEF NoMutationForgotten, WillCapture
<1>10. SavedIsCovered'
  BY <1>4 DEF SavedIsCovered, TypeOK
<1> QED
  BY <1>5, <1>6, <1>7, <1>8, <1>9, <1>10

\* write_scope, first block: the caller itself is on its way to capture.
LEMMA EnterScopeStep ==
  ASSUME IInv, NEW t \in Threads, EnterScope(t)
  PROVE  IInv'
<1> USE DEF IInv
<1> DEFINE G == generation + 1
<1>1. NextGeneration(t, "ctx", "done")
  BY DEF EnterScope
<1>2. /\ Timers' = Timers \cup {G} /\ Actors' = Actors \cup {G}
      /\ pc' \in [Threads \cup Timers' -> Stages]
      /\ captured' \in [Threads \cup Timers' -> Nat]
      /\ pc'[t] = "ctx" /\ pc'[G] = "done"
      /\ \A a \in Actors : a # t /\ a # timer => pc'[a] = pc[a]
      /\ \A a \in Actors : a = timer => pc'[a] = "done"
                                           /\ pc[a] \in {"waiting", "done"}
      /\ \A a \in Actors : captured'[a] = captured[a]
  BY <1>1, GenerationStep DEF Stages
<1>3. /\ \A u \in Threads : u \notin Timers /\ u \notin Nat
      /\ \A a \in Actors : a # Free /\ a # G
      /\ t \in Actors /\ generation \in Nat
  BY ActorFacts DEF Actors, TypeOK
<1>4. /\ generation' = G /\ timer' = 0 /\ pc[t] = "scope"
      /\ UNCHANGED <<revision, disk, hasSnapshot, closed, bound, ctxOwner,
                     writeOwner, op, want, result, failed, calls>>
  BY DEF EnterScope, NextGeneration
<1>5. TypeOK'
  BY <1>2, <1>3, <1>4 DEF TypeOK, Timers
<1>6. LockInv'
  <2>1. writeOwner # Free => writeOwner \in Actors /\ writeOwner # timer
                             /\ writeOwner # t
    BY <1>2, <1>4 DEF TypeOK, Actors, Free, LockInv
  <2> QED
    BY <1>2, <1>3, <1>4, <2>1 DEF LockInv
<1>7. StageInv'
  BY <1>2, <1>3, <1>4 DEF StageInv, Actors
<1>8. DataInv'
  BY <1>2, <1>3, <1>4 DEF DataInv
<1>9. NoMutationForgotten'
  BY <1>2 DEF NoMutationForgotten, WillCapture
<1>10. SavedIsCovered'
  BY <1>4 DEF SavedIsCovered
<1> QED
  BY <1>5, <1>6, <1>7, <1>8, <1>9, <1>10

\* The steps that take no generation move one actor and keep the others.
LEMMA OneActorMoves ==
  ASSUME IInv, NEW a \in Actors, NEW s \in Stages,
         pc' = [pc EXCEPT ![a] = s], generation' = generation
  PROVE  /\ Timers' = Timers /\ Actors' = Actors
         /\ pc' \in [Threads \cup Timers' -> Stages]
         /\ pc'[a] = s
         /\ \A b \in Actors : b # a => pc'[b] = pc[b]
BY DEF IInv, TypeOK, Actors, Timers

\* Before the first snapshot a deferred request becomes a flush.
LEMMA FirstSnapshotStep ==
  ASSUME IInv, NEW t \in Threads, FirstSnapshot(t)
  PROVE  IInv'
<1> USE DEF IInv
<1>1. /\ Timers' = Timers /\ Actors' = Actors
      /\ pc' \in [Threads \cup Timers' -> Stages]
      /\ pc'[t] = "scope"
      /\ \A b \in Actors : b # t => pc'[b] = pc[b]
  BY OneActorMoves DEF FirstSnapshot, Actors, Stages
<1>2. /\ pc[t] = "deferred" /\ t \in Actors
      /\ \A u \in Threads : u \notin Timers /\ u # timer
  BY ActorFacts DEF FirstSnapshot, Actors, TypeOK
<1>3. TypeOK'
  BY <1>1 DEF FirstSnapshot, TypeOK
<1>4. LockInv'
  BY <1>1, <1>2 DEF FirstSnapshot, LockInv, TypeOK, Actors, Free
<1>5. StageInv'
  BY <1>1, <1>2 DEF FirstSnapshot, StageInv, TypeOK, Actors, Timers
<1>6. DataInv'
  BY <1>1, <1>2 DEF FirstSnapshot, DataInv
<1>7. NoMutationForgotten'
  BY <1>1 DEF NoMutationForgotten, WillCapture
<1>8. SavedIsCovered'
  BY DEF FirstSnapshot, SavedIsCovered
<1> QED
  BY <1>3, <1>4, <1>5, <1>6, <1>7, <1>8

\* A deferred request on a closed writer returns.
LEMMA ScheduleClosedStep ==
  ASSUME IInv, NEW t \in Threads, ScheduleClosed(t)
  PROVE  IInv'
<1> USE DEF IInv
<1>1. /\ Timers' = Timers /\ Actors' = Actors
      /\ pc' \in [Threads \cup Timers' -> Stages]
      /\ pc'[t] = "idle"
      /\ \A b \in Actors : b # t => pc'[b] = pc[b]
  BY OneActorMoves DEF ScheduleClosed, Actors, Stages
<1>2. /\ pc[t] = "deferred" /\ t \in Actors /\ t # Free
      /\ \A u \in Threads : u \notin Timers /\ u # timer
  BY ActorFacts DEF ScheduleClosed, Actors, TypeOK
<1>3. TypeOK'
  BY <1>1 DEF ScheduleClosed, Return, TypeOK, Ops, Results, Free
<1>4. LockInv'
  BY <1>1, <1>2 DEF ScheduleClosed, Return, LockInv, TypeOK, Actors, Free
<1>5. StageInv'
  BY <1>1, <1>2 DEF ScheduleClosed, StageInv, TypeOK, Actors, Timers
<1>6. DataInv'
  BY <1>1, <1>2 DEF ScheduleClosed, DataInv
<1>7. NoMutationForgotten'
  BY DEF ScheduleClosed, NoMutationForgotten
<1>8. SavedIsCovered'
  BY DEF ScheduleClosed, Return, SavedIsCovered, TypeOK
<1> QED
  BY <1>3, <1>4, <1>5, <1>6, <1>7, <1>8

\* A Timer elapses: the newest one goes on to capture, a stale one never was
\* the one NoMutationForgotten relied on.
LEMMA TimerElapsesStep ==
  ASSUME IInv, NEW g \in Timers, TimerElapses(g)
  PROVE  IInv'
<1> USE DEF IInv
<1>1. /\ g \in Actors /\ pc[g] = "waiting" /\ generation' = generation
      /\ \A u \in Threads : u \notin Timers /\ u # timer /\ u # g
  BY ActorFacts DEF TimerElapses, Actors, TypeOK
<1>2. PICK s \in {"done", "ctx"} :
        /\ pc' = [pc EXCEPT ![g] = s]
        /\ \/ s = "done" /\ (closed \/ g # generation) /\ timer' = timer
           \/ s = "ctx" /\ g = generation /\ timer' = 0
  BY <1>1 DEF TimerElapses
<1>3. /\ Timers' = Timers /\ Actors' = Actors
      /\ pc' \in [Threads \cup Timers' -> Stages]
      /\ pc'[g] = s
      /\ \A b \in Actors : b # g => pc'[b] = pc[b]
  BY <1>1, <1>2, OneActorMoves DEF Stages
<1>4. TypeOK'
  BY <1>2, <1>3 DEF TimerElapses, TypeOK
<1>5. LockInv'
  BY <1>1, <1>2, <1>3 DEF TimerElapses, LockInv, TypeOK, Actors, Free
<1>6. DataInv'
  BY <1>1, <1>2, <1>3 DEF TimerElapses, DataInv
<1>7. NoMutationForgotten'
  BY <1>1, <1>2, <1>3 DEF TimerElapses, NoMutationForgotten, WillCapture, Actors
<1>8. SavedIsCovered'
  BY DEF TimerElapses, SavedIsCovered
<1>9. StageInv'
  BY <1>1, <1>2, <1>3 DEF StageInv, TypeOK, Actors
<1> QED
  BY <1>4, <1>5, <1>6, <1>7, <1>8, <1>9

\* Acquiring the context lock: no other actor was past that point.
LEMMA TakeContextStep ==
  ASSUME IInv, NEW a \in Actors, TakeContext(a)
  PROVE  IInv'
<1> USE DEF IInv
<1>1. /\ Timers' = Timers /\ Actors' = Actors
      /\ pc' \in [Threads \cup Timers' -> Stages]
      /\ pc'[a] = "writer"
      /\ \A b \in Actors : b # a => pc'[b] = pc[b]
  BY OneActorMoves DEF TakeContext, Stages
<1>2. /\ pc[a] = "ctx" /\ \A b \in Actors : b # Free
      /\ \A u \in Threads : u \notin Timers
      /\ timer # 0 => timer \in Actors
  BY ActorFacts DEF TakeContext, TypeOK, Actors, Timers
<1>3. TypeOK'
  BY <1>1 DEF TakeContext, TypeOK, Actors
<1>4. LockInv'
  <2>1. \A b \in Actors : b # a => pc[b] \notin {"writer", "write", "save"}
    BY <1>2 DEF TakeContext, LockInv
  <2>2. writeOwner = Free
    BY <1>2, <2>1 DEF TypeOK, LockInv, Actors
  <2> QED
    BY <1>1, <2>1, <2>2 DEF TakeContext, LockInv
<1>5. StageInv'
  BY <1>1, <1>2 DEF TakeContext, StageInv, Actors
<1>6. DataInv'
  BY <1>1 DEF TakeContext, DataInv
<1>7. NoMutationForgotten'
  BY <1>1, <1>2 DEF TakeContext, NoMutationForgotten, WillCapture, Actors
<1>8. SavedIsCovered'
  BY DEF TakeContext, SavedIsCovered
<1> QED
  BY <1>3, <1>4, <1>5, <1>6, <1>7, <1>8

\* Acquiring the writer lock while holding the context lock.
LEMMA TakeWriterStep ==
  ASSUME IInv, NEW a \in Actors, TakeWriter(a)
  PROVE  IInv'
<1> USE DEF IInv
<1>1. /\ Timers' = Timers /\ Actors' = Actors
      /\ pc' \in [Threads \cup Timers' -> Stages]
      /\ pc'[a] = "write"
      /\ \A b \in Actors : b # a => pc'[b] = pc[b]
  BY OneActorMoves DEF TakeWriter, Stages
<1>2. /\ pc[a] = "writer" /\ \A b \in Actors : b # Free
      /\ \A u \in Threads : u \notin Timers
      /\ timer # 0 => timer \in Actors
  BY ActorFacts DEF TakeWriter, TypeOK, Actors, Timers
<1>3. TypeOK'
  BY <1>1 DEF TakeWriter, TypeOK, Actors
<1>4. LockInv'
  BY <1>1, <1>2 DEF TakeWriter, LockInv
<1>5. StageInv'
  BY <1>1, <1>2 DEF TakeWriter, StageInv, Actors
<1>6. DataInv'
  BY <1>1 DEF TakeWriter, DataInv
<1>7. NoMutationForgotten'
  BY <1>1, <1>2 DEF TakeWriter, NoMutationForgotten, WillCapture, Actors
<1>8. SavedIsCovered'
  BY DEF TakeWriter, SavedIsCovered
<1> QED
  BY <1>3, <1>4, <1>5, <1>6, <1>7, <1>8

\* The capture is current: its actor holds the context lock.
LEMMA CaptureStep ==
  ASSUME IInv, NEW a \in Actors, Capture(a)
  PROVE  IInv'
<1> USE DEF IInv
<1>1. /\ Timers' = Timers /\ Actors' = Actors
      /\ pc' \in [Threads \cup Timers' -> Stages]
      /\ pc'[a] = "save"
      /\ \A b \in Actors : b # a => pc'[b] = pc[b]
  BY OneActorMoves DEF Capture, Stages
<1>2. /\ pc[a] = "write"
      /\ \A u \in Threads : u \notin Timers
      /\ timer # 0 => timer \in Actors
  BY ActorFacts DEF Capture, TypeOK, Actors, Timers
<1>9. /\ captured' \in [Threads \cup Timers' -> Nat]
      /\ captured'[a] = revision
      /\ \A b \in Actors : b # a => captured'[b] = captured[b]
  BY <1>1 DEF Capture, TypeOK, Actors
<1>3. TypeOK'
  BY <1>1, <1>9 DEF Capture, TypeOK
<1>4. LockInv'
  <2>1. writeOwner # Free => writeOwner \in Actors
    BY DEF TypeOK, Actors
  <2> QED
    BY <1>1, <1>2, <2>1 DEF Capture, LockInv
<1>5. StageInv'
  BY <1>1, <1>2 DEF Capture, StageInv, Actors
<1>6. DataInv'
  BY <1>1, <1>9 DEF Capture, DataInv
<1>7. NoMutationForgotten'
  BY <1>1, <1>9 DEF Capture, NoMutationForgotten, WillCapture, Actors
<1>8. SavedIsCovered'
  BY DEF Capture, SavedIsCovered
<1> QED
  BY <1>3, <1>4, <1>5, <1>6, <1>7, <1>8

\* Every way out of the two locks: the actor a leaves for s, and a snapshot
\* was written (disk' = revision), a failure noted, or nothing was due.
LEMMA LeaveLocks ==
  ASSUME IInv, NEW a \in Actors, NEW s \in {"idle", "unbind", "done"},
         s \in {"idle", "unbind"} <=> a \in Threads,
         pc[a] \in {"write", "save"},
         pc' = [pc EXCEPT ![a] = s],
         ctxOwner' = Free, writeOwner' = Free,
         UNCHANGED <<revision, generation, timer, captured, want, calls>>,
         \/ disk' = revision
         \/ disk' = disk /\ failed'
         \/ disk' = disk /\ pc[a] = "write" /\ ~Writable(a),
         failed' \in BOOLEAN, closed' \in BOOLEAN, closed => closed',
         disk' # revision => (failed => failed'),
         hasSnapshot' \in BOOLEAN, bound' \in BOOLEAN,
         op' \in [Threads -> Ops], result' \in [Threads -> Results],
         \A t \in Threads : result'[t] = "ok" =>
                               disk' = revision \/ result[t] = "ok"
  PROVE  IInv'
<1> USE DEF IInv
<1>0. s \in Stages
  BY DEF Stages
<1>1. /\ Timers' = Timers /\ Actors' = Actors
      /\ pc' \in [Threads \cup Timers' -> Stages]
      /\ pc'[a] = s
      /\ \A b \in Actors : b # a => pc'[b] = pc[b]
  BY <1>0, OneActorMoves
<1>2. /\ \A u \in Threads : u \notin Timers
      /\ \A b \in Actors : b # Free
      /\ timer # 0 => timer \in Actors
  BY ActorFacts DEF TypeOK, Actors, Timers
<1>3. revision \in Nat /\ disk \in Nat /\ disk <= revision /\ disk' \in Nat
      /\ disk' >= disk /\ disk' <= revision
  BY DEF TypeOK, DataInv
<1>4. TypeOK'
  BY <1>1, <1>3 DEF TypeOK
<1>5. LockInv'
  BY <1>1, <1>2 DEF LockInv
<1>6. StageInv'
  BY <1>1, <1>2 DEF StageInv, Actors
<1>7. DataInv'
  BY <1>1, <1>3 DEF DataInv
<1>8. NoMutationForgotten'
  <2> SUFFICES ASSUME disk' < revision', ~closed', ~failed'
               PROVE  \E b \in Actors : WillCapture(b)'
    BY <1>1 DEF NoMutationForgotten, Actors
  <2>1. disk' = disk /\ pc[a] = "write" /\ ~Writable(a) /\ ~closed /\ ~failed
    BY <1>3
  <2>2. a \notin Threads /\ a # generation
    BY <2>1 DEF Writable
  <2>3. PICK b \in Actors : WillCapture(b)
    BY <2>1, <1>3 DEF NoMutationForgotten, Actors
  <2>4. b # a
    BY <2>1, <2>2, <2>3 DEF WillCapture
  <2> QED
    BY <2>3, <2>4, <1>1 DEF WillCapture
<1>9. SavedIsCovered'
  BY <1>3 DEF SavedIsCovered, DataInv, TypeOK
<1> QED
  BY <1>4, <1>5, <1>6, <1>7, <1>8, <1>9

\* Whoever is at stage write or save owns both locks, so Return frees them.
LEMMA ReturnFrees ==
  ASSUME IInv, NEW t \in Threads, NEW r \in Results, Return(t, r),
         pc[t] \in {"write", "save"}
  PROVE  /\ ctxOwner' = Free /\ writeOwner' = Free
         /\ op' \in [Threads -> Ops] /\ result' \in [Threads -> Results]
         /\ \A u \in Threads : u # t => result'[u] = result[u]
         /\ result'[t] = r
BY DEF IInv, TypeOK, LockInv, Return, Actors, Ops

LEMMA SkipFlushStep ==
  ASSUME IInv, NEW t \in Threads, SkipFlush(t)
  PROVE  IInv'
<1>1. /\ ctxOwner' = Free /\ writeOwner' = Free
      /\ op' \in [Threads -> Ops] /\ result' \in [Threads -> Results]
      /\ \A u \in Threads : u # t => result'[u] = result[u]
      /\ result'[t] = "skipped"
  BY ReturnFrees DEF SkipFlush, Results
<1>2. closed' \in BOOLEAN /\ failed' \in BOOLEAN /\ hasSnapshot' \in BOOLEAN
      /\ bound' \in BOOLEAN
  BY Zenon DEF SkipFlush, IInv, TypeOK
<1>3. t \in Actors
  BY DEF Actors
<1> QED
  BY <1>1, <1>2, <1>3, LeaveLocks DEF SkipFlush, After

LEMMA SkipDeferredStep ==
  ASSUME IInv, NEW g \in Timers, SkipDeferred(g)
  PROVE  IInv'
<1>1. /\ closed' \in BOOLEAN /\ failed' \in BOOLEAN /\ hasSnapshot' \in BOOLEAN
      /\ bound' \in BOOLEAN
      /\ op' \in [Threads -> Ops] /\ result' \in [Threads -> Results]
  BY DEF SkipDeferred, IInv, TypeOK
<1>2. g \in Actors /\ g \notin Threads
  BY ActorFacts DEF Actors, IInv
<1> QED
  BY <1>1, <1>2, LeaveLocks DEF SkipDeferred

LEMMA FlushStep ==
  ASSUME IInv, NEW t \in Threads, Flush(t) \/ ExplicitSave(t) \/ Close(t)
  PROVE  IInv'
<1>1. PICK r \in {"ok", "raised"} :
        /\ Return(t, r)
        /\ \/ r = "ok" /\ SaveOk(t)
           \/ r = "raised" /\ disk' = disk /\ failed'
  BY DEF Flush, ExplicitSave, Close, SaveRaises
<1>2. /\ pc[t] = "save"
      /\ \E s \in {"idle", "unbind"} : pc' = [pc EXCEPT ![t] = s]
      /\ UNCHANGED <<revision, generation, timer, captured, want, calls>>
  BY DEF Flush, ExplicitSave, Close
<1>3. /\ ctxOwner' = Free /\ writeOwner' = Free
      /\ op' \in [Threads -> Ops] /\ result' \in [Threads -> Results]
      /\ \A u \in Threads : u # t => result'[u] = result[u]
      /\ result'[t] = r
  BY <1>1, <1>2, ReturnFrees DEF Results
<1>4. /\ failed' \in BOOLEAN /\ closed' \in BOOLEAN /\ (closed => closed')
      /\ hasSnapshot' \in BOOLEAN /\ bound' \in BOOLEAN
  BY Zenon DEF Flush, ExplicitSave, Close, SaveOk, SaveRaises, IInv, TypeOK
<1>5. t \in Actors
  BY DEF Actors
<1>6. r = "ok" => disk' = revision
  BY <1>1, <1>2, <1>5 DEF SaveOk, IInv, DataInv
<1> QED
  BY <1>1, <1>2, <1>3, <1>4, <1>5, <1>6, LeaveLocks

LEMMA DropCallbackStep ==
  ASSUME IInv, NEW t \in Threads, DropCallback(t)
  PROVE  IInv'
<1> USE DEF IInv
<1>1. /\ Timers' = Timers /\ Actors' = Actors
      /\ pc' \in [Threads \cup Timers' -> Stages]
      /\ pc'[t] = "idle"
      /\ \A b \in Actors : b # t => pc'[b] = pc[b]
  BY OneActorMoves DEF DropCallback, Actors, Stages
<1>2. /\ pc[t] = "unbind" /\ t \in Actors
      /\ \A u \in Threads : u \notin Timers /\ u # timer
  BY ActorFacts DEF DropCallback, Actors, TypeOK
<1>3. TypeOK'
  BY <1>1 DEF DropCallback, TypeOK
<1>4. LockInv'
  BY <1>1, <1>2 DEF DropCallback, LockInv, TypeOK, Actors, Free
<1>5. StageInv'
  BY <1>1, <1>2 DEF DropCallback, StageInv, TypeOK, Actors, Timers
<1>6. DataInv'
  BY <1>1, <1>2 DEF DropCallback, DataInv
<1>7. NoMutationForgotten'
  BY <1>1, <1>2 DEF DropCallback, NoMutationForgotten, WillCapture, Actors
<1>8. SavedIsCovered'
  BY DEF DropCallback, SavedIsCovered
<1> QED
  BY <1>3, <1>4, <1>5, <1>6, <1>7, <1>8

LEMMA RunDeferredStep ==
  ASSUME IInv, NEW g \in Timers, RunDeferred(g)
  PROVE  IInv'
<1>1. g \in Actors /\ g \notin Threads
  BY ActorFacts DEF Actors, IInv
<1>2. \/ disk' = revision
      \/ disk' = disk /\ failed'
  BY <1>1 DEF RunDeferred, SaveOk, SaveRaises, IInv, DataInv
<1>3. /\ failed' \in BOOLEAN /\ closed' \in BOOLEAN /\ (closed => closed')
      /\ hasSnapshot' \in BOOLEAN /\ bound' \in BOOLEAN
      /\ op' \in [Threads -> Ops] /\ result' \in [Threads -> Results]
  BY Zenon DEF RunDeferred, SaveOk, SaveRaises, IInv, TypeOK
<1> QED
  BY <1>1, <1>2, <1>3, LeaveLocks DEF RunDeferred

\* Every step of the writer keeps the inductive invariant.
LEMMA StepIInv == IInv /\ [Next]_vars => IInv'
<1> SUFFICES ASSUME IInv, [Next]_vars PROVE IInv'
  OBVIOUS
<1>1. CASE \E t \in Threads : Call(t)
  BY <1>1, CallStep
<1>2. CASE \E t \in Threads : ThreadStep(t)
  <2>1. PICK t \in Threads : ThreadStep(t)
    BY <1>2
  <2>2. t \in Actors
    BY DEF Actors
  <2> QED
    BY <2>1, <2>2, FirstSnapshotStep, ScheduleClosedStep, ScheduleStep,
       EnterScopeStep, TakeContextStep, TakeWriterStep, SkipFlushStep,
       CaptureStep, FlushStep, DropCallbackStep DEF ThreadStep
<1>3. CASE \E g \in Timers : TimerStep(g)
  <2>1. PICK g \in Timers : TimerStep(g)
    BY <1>3
  <2>2. g \in Actors
    BY DEF Actors
  <2> QED
    BY <2>1, <2>2, TimerElapsesStep, TakeContextStep, TakeWriterStep,
       SkipDeferredStep, CaptureStep, RunDeferredStep DEF TimerStep
<1>4. CASE UNCHANGED vars
  BY <1>4 DEF vars, IInv, TypeOK, LockInv, StageInv, DataInv, Actors, Timers,
              NoMutationForgotten, WillCapture, SavedIsCovered
<1> QED
  BY <1>1, <1>2, <1>3, <1>4 DEF Next

\* The inductive invariant holds throughout.
THEOREM Inductive == Spec => []IInv
  BY InitIInv, StepIInv, PTL DEF Spec

\* The writer's variables keep their types, for any number of calls.
THEOREM TypeCorrect == Spec => []TypeOK
<1>1. IInv => TypeOK
  BY DEF IInv
<1> QED
  BY <1>1, Inductive, PTL

\* The documented lock order: whoever holds the writer lock took the context
\* lock first and still holds it.
THEOREM LockOrder == Spec => []ContextBeforeWriter
<1>1. IInv => ContextBeforeWriter
  BY DEF IInv, TypeOK, LockInv, ContextBeforeWriter, Actors, Free
<1> QED
  BY <1>1, Inductive, PTL

\* Cancelling and superseding Timers never forgets a committed mutation.
THEOREM Coalescing == Spec => []NoMutationForgotten
<1>1. IInv => NoMutationForgotten
  BY DEF IInv
<1> QED
  BY <1>1, Inductive, PTL

\* A save that returned without raising covers what was committed before it.
THEOREM SaveBeforeAcknowledge == Spec => []SavedIsCovered
<1>1. IInv => SavedIsCovered
  BY DEF IInv
<1> QED
  BY <1>1, Inductive, PTL

\* No step replaces the snapshot by an older one.
THEOREM Monotone == Spec => SnapshotNeverRegresses
<1>1. IInv /\ [Next]_vars => [disk' >= disk]_vars
  <2> SUFFICES ASSUME IInv, Next PROVE disk' >= disk
    BY DEF vars
  <2>0. disk \in Nat /\ revision \in Nat /\ disk <= revision
    BY DEF IInv, TypeOK, DataInv
  <2>1. disk' = disk \/ \E a \in Actors : pc[a] = "save" /\ disk' = captured[a]
    BY DEF Next, Call, AppendMessage, ReplaceContext, PersistRuntimeSnapshot,
           SaveSession, Unbind, Mutate, Start, ThreadStep, TimerStep,
           FirstSnapshot, ScheduleClosed, Schedule, EnterScope, TimerElapses,
           TakeContext, TakeWriter, SkipFlush, SkipDeferred, Capture, Flush,
           ExplicitSave, Close, DropCallback, RunDeferred, SaveOk, SaveRaises,
           Actors
  <2> QED
    BY <2>0, <2>1 DEF IInv, DataInv
<1> QED
  BY <1>1, Inductive, PTL DEF Spec, SnapshotNeverRegresses

=============================================================================
