---------------------------- MODULE RuntimeServer ----------------------------
(***************************************************************************)
(* Admission and execution of client work by RuntimeServer                 *)
(* (app/rpc/server.py), with the submission receipts of                    *)
(* app/rpc/submissions.py and the command queue of                         *)
(* app/commands/service.py: one foreground worker runs chats, commands and *)
(* goal turns one after another, concurrent workers run the commands that  *)
(* may run during a turn, RPC threads submit, stop and shut down.          *)
(*                                                                         *)
(* A block under RuntimeServer._lock is one step; what the code does       *)
(* between two such blocks is split wherever another thread can intervene. *)
(* A turn is agent.chat (UserSteering): it accepts directions, may raise    *)
(* before its try, then looks at the stop request and works.               *)
(* The goal is its status: a goal is replaced only by the foreground       *)
(* worker, so a continuation never meets another goal than its own.        *)
(***************************************************************************)
EXTENDS Naturals, FiniteSets, Sequences, SequencesExt

CONSTANTS
  Subs,      \* submission IDs
  Kind,      \* what each submission asks for
  MaxSent,   \* bound on the submissions of one behaviour
  Slots,     \* bound on worker threads that live at the same time
  None       \* no value

Kinds == {"chat", "create", "pause", "reset", "exit"}

ASSUME KindIsTotal == Kind \in [Subs -> Kinds]
ASSUME NoneIsNoSubmission == None \notin Subs
ASSUME SlotsAreFinite == IsFiniteSet(Slots)
ASSUME MaxSentIsNat == MaxSent \in Nat

VARIABLES
  running,     \* _running
  closing,     \* _closing
  ready,       \* _ready
  stop,        \* the agent's stop request
  goal,        \* goal_controller.state: none or complete, active, paused, or
               \* stopped by a failure or a limit ("blocked")
  generation,  \* session generation
  worker,      \* worker threads: what they do, for which value
  pending,     \* CommandService._pending
  accepting,   \* the agent's _accepting_user_steering
  steered,     \* directions the agent has to settle
  entry,       \* SubmissionAdmissions._entries
  sent,        \* the generation the client bound a submission to
  runs,        \* how often a submission was executed or given to a turn
  stopping,    \* a stop request between its two halves
  halted,      \* the last of: no stop yet, a stop was answered (while its request
               \* stood, or after it was cleared), a goal was started (history)
  shutdown     \* runtime.shutdown: not called or failed, waiting, done

directions == <<accepting, steered>>

vars == <<running, closing, ready, stop, goal, generation, worker, pending,
          directions, entry, sent, runs, stopping, halted, shutdown>>

Goal == "goal continuation"
Statuses == {"none", "active", "paused", "blocked"}
Stages == {"start", "allowed", "enter", "turn", "created", "exiting", "failed",
           "after", "seen", "next", "broken", "leave"}
Free == [stage |-> "free", value |-> None, concurrent |-> FALSE]
Receipts == {None, "steering", "queued", "running", "rejected", "error"}

Deferred == {"create", "reset", "exit"}

Workers == {w \in Slots : worker[w] # Free}
At(w, stage) == worker[w].stage = stage

Go(w, stage) == worker' = [worker EXCEPT ![w].stage = stage]

Init ==
  /\ running = FALSE /\ closing = FALSE /\ ready = FALSE /\ stop = FALSE
  /\ goal \in {"none", "active"} /\ generation = 0
  /\ worker = [w \in Slots |-> Free]
  /\ pending = <<>> /\ accepting = FALSE /\ steered = {}
  /\ entry = [s \in Subs |-> None]
  /\ sent = [s \in Subs |-> None]
  /\ runs = [s \in Subs |-> 0]
  /\ stopping = FALSE /\ halted = "never" /\ shutdown = "no"

-----------------------------------------------------------------------------
(* Threads and goals between turns.                                        *)

\* _spawn; a free slot becomes the thread.
Spawned(threads, value, concurrent) ==
  LET w == CHOOSE x \in Slots : threads[x] = Free
  IN  [threads EXCEPT ![w] = [stage |-> "start", value |-> value,
                              concurrent |-> concurrent]]

CanSpawn(threads) == \E w \in Slots : threads[w] = Free

\* GoalController.stop.
GoalStops(status) == goal' = IF goal = "active" THEN status ELSE goal

\* Mutant: a goal goes on while the session closes.
NextGoalWhileClosing(isReady) == isReady /\ ~stop /\ goal = "active"

\* _next_goal; planner mode is a goal that is not active.
NextGoal(isReady) == isReady /\ ~closing /\ ~stop /\ goal = "active"

\* Mutant: the goal is woken while other work is still running.
WakeGoalTooEarly(isReady, threads) ==
  IF NextGoal(isReady) /\ CanSpawn(threads)
  THEN worker' = Spawned(threads, Goal, FALSE) /\ running' = TRUE
  ELSE worker' = threads /\ UNCHANGED running

\* Mutant: nobody wakes the goal.
WakeGoalNever(isReady, threads) == worker' = threads /\ UNCHANGED running

\* _wake_goal; the stop request it clears is not set.
WakeGoal(isReady, threads) ==
  IF ~running /\ (\A w \in Slots : threads[w] = Free) /\ NextGoal(isReady)
  THEN worker' = Spawned(threads, Goal, FALSE) /\ running' = TRUE
  ELSE worker' = threads /\ UNCHANGED running

\* RuntimeServer.ready.
Ready ==
  /\ ~ready /\ ready' = TRUE
  /\ WakeGoal(TRUE, worker)
  /\ UNCHANGED <<closing, stop, goal, generation, pending, directions, entry, sent,
                 runs, stopping, halted, shutdown>>

-----------------------------------------------------------------------------
(* Submission.                                                             *)

\* The entries kept when one is added: those of other generations are dropped.
KeptEntries ==
  [s \in Subs |-> IF sent[s] = generation THEN entry[s] ELSE None]

\* Mutant: a retry is bound to the session it arrives in.
DeliverRebinds(s) ==
  /\ sent[s] = None => Cardinality({x \in Subs : sent[x] # None}) < MaxSent
  /\ sent' = [sent EXCEPT ![s] = generation]

\* The client binds a submission to the generation it first sends it in; a
\* delivery for another generation is refused.
Deliver(s) ==
  /\ sent[s] \in {None, generation}
  /\ sent[s] = None => Cardinality({x \in Subs : sent[x] # None}) < MaxSent
  /\ sent' = [sent EXCEPT ![s] = generation]

\* The record of an admission with the given outcome.
Admitted(s, status) == entry' = [KeptEntries EXCEPT ![s] = status]

\* Mutant: a direction whose snapshot could not be saved is admitted again.
AdmissibleUntilSaved(s) == entry[s] \in {None, "steering", "rejected"}

\* What was not admitted before, or was rejected; any other delivery is answered
\* from the entry and changes nothing.
Admissible(s) == entry[s] \in {None, "rejected"}

\* _submit of a chat while work is running: a direction of the turn, queued
\* when no turn takes it, rejected when the work is being stopped.
SubmitChatWhileRunning(s) ==
  /\ running /\ Kind[s] = "chat"
  /\ CASE accepting -> /\ steered' = steered \cup {s}
                       /\ runs' = [runs EXCEPT ![s] = @ + 1]
                       /\ Admitted(s, "steering") /\ UNCHANGED pending
       [] ~accepting /\ ~stop -> /\ pending' = Append(pending, s)
                                 /\ Admitted(s, "queued")
                                 /\ UNCHANGED <<steered, runs>>
       [] ~accepting /\ stop -> /\ Admitted(s, "rejected")
                                /\ UNCHANGED <<pending, steered, runs>>
  /\ UNCHANGED <<running, stop, worker>>

\* _submit of a command while work is running.
SubmitCommandWhileRunning(s) ==
  /\ running /\ Kind[s] # "chat"
  /\ IF Kind[s] \in Deferred
     THEN /\ pending' = Append(pending, s) /\ Admitted(s, "queued")
          /\ UNCHANGED worker
     ELSE /\ CanSpawn(worker) /\ worker' = Spawned(worker, s, TRUE)
          /\ Admitted(s, "running") /\ UNCHANGED pending
  /\ UNCHANGED <<running, stop, steered, runs>>

\* _submit when nothing runs in the foreground.
SubmitWhenIdle(s) ==
  /\ ~running /\ CanSpawn(worker)
  /\ running' = TRUE /\ stop' = FALSE
  /\ worker' = Spawned(worker, s, FALSE)
  /\ Admitted(s, "running")
  /\ UNCHANGED <<pending, steered, runs>>

\* submit, first delivery or retry.
Submit(s) ==
  /\ ~closing /\ Deliver(s) /\ Admissible(s)
  /\ \/ SubmitChatWhileRunning(s)
     \/ SubmitCommandWhileRunning(s)
     \/ SubmitWhenIdle(s)
  /\ UNCHANGED <<closing, ready, goal, generation, stopping, halted, shutdown, accepting>>

\* The ledger refuses the direction: the outcome is unknown and every retry is
\* told so.
SubmitFails(s) ==
  /\ ~closing /\ Deliver(s) /\ Admissible(s)
  /\ running /\ Kind[s] = "chat" /\ accepting
  /\ Admitted(s, "error")
  /\ UNCHANGED <<running, closing, ready, stop, goal, generation, worker, pending,
                 directions, runs, stopping, halted, shutdown>>

-----------------------------------------------------------------------------
(* Workers (RuntimeServer._run).                                           *)

\* A continuation is validated again under the lock.
CheckGoal(w) ==
  /\ At(w, "start") /\ worker[w].value = Goal
  /\ Go(w, IF NextGoal(ready) THEN "allowed" ELSE "after")
  /\ UNCHANGED <<running, closing, ready, stop, goal, generation, pending, directions,
                 entry, sent, runs, stopping, halted, shutdown>>

\* Mutant: the turn of a continuation forgets the stop request, as the default
\* of chat's clear_stop does.
StartGoalClearsStop(w) ==
  /\ At(w, "allowed") /\ Go(w, "enter")
  /\ accepting' = TRUE /\ stop' = FALSE
  /\ UNCHANGED <<running, closing, ready, goal, generation, pending, steered, entry,
                 sent, runs, stopping, halted, shutdown>>

\* Its turn, started after the lock was released.
StartGoal(w) ==
  /\ At(w, "allowed") /\ Go(w, "enter")
  /\ accepting' = TRUE
  /\ UNCHANGED <<running, closing, ready, stop, goal, generation, pending, steered,
                 entry, sent, runs, stopping, halted, shutdown>>

Executes(w, kind) ==
  /\ At(w, "start") /\ worker[w].value \in Subs /\ Kind[worker[w].value] = kind
  /\ runs' = [runs EXCEPT ![worker[w].value] = @ + 1]

\* A chat: the agent's turn, which accepts directions from now on.
StartChat(w) ==
  /\ Executes(w, "chat") /\ Go(w, "enter")
  /\ accepting' = TRUE
  /\ UNCHANGED <<running, closing, ready, stop, goal, generation, pending, steered,
                 entry, sent, stopping, halted, shutdown>>

\* The head of AgentLoop.run: without a stop request the rounds begin.
EnterTurn(w) ==
  /\ At(w, "enter") /\ ~stop /\ Go(w, "turn")
  /\ UNCHANGED <<running, closing, ready, stop, goal, generation, pending, directions,
                 entry, sent, runs, stopping, halted, shutdown>>

\* _chat_turn raises before its try: the agent goes on accepting directions.
TurnRaisesEarly(w) ==
  /\ At(w, "enter") /\ Go(w, "failed")
  /\ UNCHANGED <<running, closing, ready, stop, goal, generation, pending, directions,
                 entry, sent, runs, stopping, halted, shutdown>>

\* /goal create and /goal resume: the goal is active, then the stop request is
\* cleared in a step of its own.
CommandCreate(w) ==
  /\ Executes(w, "create") /\ Go(w, "created")
  /\ goal' = "active" /\ halted' = "resumed"
  /\ UNCHANGED <<running, closing, ready, stop, generation, pending, directions,
                 entry, sent, stopping, shutdown>>

CreateClearsStop(w) ==
  /\ At(w, "created") /\ Go(w, "after")
  /\ stop' = FALSE
  /\ UNCHANGED <<running, closing, ready, goal, generation, pending, directions,
                 entry, sent, runs, stopping, halted, shutdown>>

\* /goal pause, in the foreground or beside a turn.
CommandPause(w) ==
  /\ Executes(w, "pause") /\ Go(w, "after")
  /\ goal' = IF goal = "none" THEN goal ELSE "paused"
  /\ UNCHANGED <<running, closing, ready, stop, generation, pending, directions,
                 entry, sent, stopping, halted, shutdown>>

\* /reset, /new and /session: another session without a goal; the agent drops
\* what a turn left behind.
CommandReset(w) ==
  /\ Executes(w, "reset") /\ Go(w, "after")
  /\ goal' = "none" /\ generation' = generation + 1
  /\ accepting' = FALSE /\ steered' = {}
  /\ UNCHANGED <<running, closing, ready, stop, pending, entry, sent, stopping,
                 halted, shutdown>>

\* /exit drops the queue; the session closes in a later step.
CommandExit(w) ==
  /\ Executes(w, "exit") /\ Go(w, "exiting")
  /\ pending' = <<>>
  /\ UNCHANGED <<running, closing, ready, stop, goal, generation, directions,
                 entry, sent, stopping, halted, shutdown>>

ExitCloses(w) ==
  /\ At(w, "exiting") /\ Go(w, "after")
  /\ closing' = TRUE
  /\ UNCHANGED <<running, ready, stop, goal, generation, pending, directions,
                 entry, sent, runs, stopping, halted, shutdown>>

\* A command raises.
CommandFails(w) ==
  /\ \E kind \in Kinds \ {"chat"} : Executes(w, kind)
  /\ Go(w, "failed")
  /\ UNCHANGED <<running, closing, ready, stop, goal, generation, pending, directions,
                 entry, sent, stopping, halted, shutdown>>

\* create_goal and update_goal, called by the model in a turn.
ModelSetsGoal(w) ==
  /\ At(w, "turn")
  /\ \/ goal = "none" /\ goal' = "active" /\ halted' = "resumed"
     \/ goal # "none" /\ goal' \in {"none", "blocked"} /\ UNCHANGED halted
  /\ UNCHANGED <<running, closing, ready, stop, generation, worker, pending,
                 directions, entry, sent, runs, stopping, shutdown>>

\* The turn ends, finished, failed or stopped, before its first round when the
\* stop request is there or runtime issues cannot be published; it settled its
\* directions.
TurnEnds(w) ==
  /\ At(w, "turn") \/ At(w, "enter")
  /\ Go(w, "after") \/ Go(w, "failed")
  /\ accepting' = FALSE /\ steered' = {}
  /\ UNCHANGED <<running, closing, ready, stop, goal, generation, pending, entry,
                 sent, runs, stopping, halted, shutdown>>

\* Mutant: a failure sets a status goals do not have.
OperationFailedOddly(w) ==
  /\ At(w, "failed") /\ Go(w, "next") /\ goal' = "failed"
  /\ UNCHANGED <<running, closing, ready, stop, generation, pending, directions,
                 entry, sent, runs, stopping, halted, shutdown>>

\* The exception path: a failed foreground operation blocks the goal.
OperationFailed(w) ==
  /\ At(w, "failed") /\ Go(w, "next")
  /\ IF worker[w].concurrent THEN UNCHANGED goal ELSE GoalStops("blocked")
  /\ UNCHANGED <<running, closing, ready, stop, generation, pending, directions,
                 entry, sent, runs, stopping, halted, shutdown>>

\* A stopped foreground operation pauses the goal unless the session closes:
\* closing is read first, the stop request after it, without the lock.
ReadsClosing(w) ==
  /\ At(w, "after")
  /\ Go(w, IF worker[w].concurrent \/ closing THEN "next" ELSE "seen")
  /\ UNCHANGED <<running, closing, ready, stop, goal, generation, pending, directions,
                 entry, sent, runs, stopping, halted, shutdown>>

ReadsStop(w) ==
  /\ At(w, "seen") /\ Go(w, "next")
  /\ IF stop THEN GoalStops("paused") ELSE UNCHANGED goal
  /\ UNCHANGED <<running, closing, ready, stop, generation, pending, directions,
                 entry, sent, runs, stopping, halted, shutdown>>

\* Mutant: the goal goes before the queue.
NextValueGoalFirst(w, published) ==
  LET value == IF NextGoal(ready) THEN Goal
               ELSE IF pending # <<>> THEN Head(pending) ELSE None
  IN  /\ At(w, "next") /\ ~worker[w].concurrent
      /\ pending' = IF value \in Subs THEN Tail(pending) ELSE pending
      /\ IF value = None THEN running' = FALSE /\ UNCHANGED stop
                         ELSE stop' = FALSE /\ UNCHANGED running
      /\ worker' = [worker EXCEPT ![w].value = value,
                                  ![w].stage = IF value = None THEN "leave" ELSE "start"]
      /\ UNCHANGED <<closing, ready, goal, generation, directions, entry, sent, runs,
                     stopping, halted, shutdown>>

\* The foreground worker takes the next value: what is queued, then the goal
\* when no other thread works, else it gives up the foreground.
NextValue(w, published) ==
  LET value == CASE ~closing /\ pending # <<>> -> Head(pending)
                 [] (closing \/ pending = <<>>) /\ Workers = {w} /\ NextGoal(ready) -> Goal
                 [] OTHER -> None
  IN  /\ At(w, "next") /\ ~worker[w].concurrent
      /\ pending' = IF value \in Subs THEN Tail(pending) ELSE pending
      /\ IF value = None THEN running' = FALSE /\ UNCHANGED stop
                         ELSE stop' = FALSE /\ UNCHANGED running
      /\ worker' = [worker EXCEPT ![w].value = value,
                                  ![w].stage = CASE ~published -> "broken"
                                                 [] published /\ value = None -> "leave"
                                                 [] published /\ value # None -> "start"]
      /\ UNCHANGED <<closing, ready, goal, generation, directions, entry, sent, runs,
                     stopping, halted, shutdown>>

\* A concurrent worker has only its own value.
ConcurrentDone(w, published) ==
  /\ At(w, "next") /\ worker[w].concurrent
  /\ Go(w, IF published THEN "leave" ELSE "broken")
  /\ UNCHANGED <<running, closing, ready, stop, goal, generation, pending, directions,
                 entry, sent, runs, stopping, halted, shutdown>>

\* A result or a state could not be recorded or published: the runtime closes.
Broken(w) ==
  /\ At(w, "broken") /\ Go(w, "leave")
  /\ closing' = TRUE
  /\ running' = (running /\ worker[w].concurrent)
  /\ UNCHANGED <<ready, stop, goal, generation, pending, directions, entry, sent, runs,
                 stopping, halted, shutdown>>

\* The thread ends; the last one wakes the goal.
Leave(w) ==
  /\ At(w, "leave")
  /\ WakeGoal(ready, [worker EXCEPT ![w] = Free])
  /\ UNCHANGED <<closing, ready, stop, goal, generation, pending, directions, entry,
                 sent, runs, stopping, halted, shutdown>>

-----------------------------------------------------------------------------
(* Stop and shutdown.                                                      *)

\* stop, and an interrupt gesture that stops: the request under the lock, the
\* goal after it.
StopRequests ==
  /\ ~stopping /\ stopping' = TRUE
  /\ stop' = TRUE
  /\ UNCHANGED <<running, closing, ready, goal, generation, worker, pending, directions,
                 entry, sent, runs, halted, shutdown>>

StopPausesGoal ==
  /\ stopping /\ stopping' = FALSE
  /\ GoalStops("paused")
  /\ halted' = IF stop THEN "halted" ELSE "overtaken"
  /\ UNCHANGED <<running, closing, ready, stop, generation, worker, pending, directions,
                 entry, sent, runs, shutdown>>

\* _shutdown up to its wait.
ShutdownBegins ==
  /\ shutdown = "no" /\ shutdown' = "waiting"
  /\ closing' = TRUE /\ stop' = TRUE /\ pending' = <<>> /\ steered' = {}
  /\ UNCHANGED <<running, ready, goal, generation, worker, entry, sent, runs,
                 stopping, halted, accepting>>

\* Ten seconds passed: the client is told and may call again.
ShutdownTimesOut ==
  /\ shutdown = "waiting" /\ Workers # {} /\ shutdown' = "no"
  /\ UNCHANGED <<running, closing, ready, stop, goal, generation, worker, pending,
                 directions, entry, sent, runs, stopping, halted>>

ShutdownCompletes ==
  /\ shutdown = "waiting" /\ Workers = {} /\ shutdown' = "done"
  /\ UNCHANGED <<running, closing, ready, stop, goal, generation, worker, pending,
                 directions, entry, sent, runs, stopping, halted>>

-----------------------------------------------------------------------------

WorkerStep(w) ==
  \/ CheckGoal(w) \/ StartGoal(w) \/ StartChat(w) \/ EnterTurn(w) \/ TurnRaisesEarly(w)
  \/ CommandCreate(w) \/ CreateClearsStop(w)
  \/ CommandPause(w) \/ CommandReset(w) \/ CommandExit(w) \/ ExitCloses(w)
  \/ CommandFails(w)
  \/ TurnEnds(w) \/ OperationFailed(w) \/ ReadsClosing(w) \/ ReadsStop(w)
  \/ \E published \in BOOLEAN : NextValue(w, published) \/ ConcurrentDone(w, published)
  \/ Broken(w) \/ Leave(w)

Done == shutdown = "done" /\ UNCHANGED vars

Next ==
  \/ Ready
  \/ \E s \in Subs : Submit(s) \/ SubmitFails(s)
  \/ \E w \in Slots : WorkerStep(w) \/ ModelSetsGoal(w)
  \/ StopRequests \/ StopPausesGoal
  \/ ShutdownBegins \/ ShutdownTimesOut \/ ShutdownCompletes
  \/ Done

Spec == Init /\ [][Next]_vars

\* Threads run, a turn ends (its requests have timeouts; UserSteering names the
\* case in which its loop is run for ever), a stop request is
\* carried to its end.
Fairness ==
  /\ \A w \in Slots : WF_vars(WorkerStep(w))
  /\ WF_vars(StopPausesGoal)

FairSpec == Spec /\ Fairness

-----------------------------------------------------------------------------
(* Properties.                                                             *)

\* Type invariant of the workers, the queue and the submission receipts.
TypeOK ==
  /\ running \in BOOLEAN /\ closing \in BOOLEAN /\ ready \in BOOLEAN
  /\ stop \in BOOLEAN /\ stopping \in BOOLEAN
  /\ goal \in Statuses /\ generation \in Nat
  /\ worker \in [Slots -> {Free} \cup [stage : Stages, value : Subs \cup {Goal, None},
                                       concurrent : BOOLEAN]]
  /\ pending \in Seq(Subs) /\ accepting \in BOOLEAN /\ steered \subseteq Subs
  /\ entry \in [Subs -> Receipts]
  /\ sent \in [Subs -> Nat \cup {None}] /\ runs \in [Subs -> Nat]
  /\ halted \in {"never", "halted", "overtaken", "resumed"}
  /\ shutdown \in {"no", "waiting", "done"}

\* A foreground worker inside its loop.
InLoop(w) ==
  /\ w \in Workers /\ ~worker[w].concurrent
  /\ worker[w].stage # "leave"
  /\ worker[w].stage = "broken" => worker[w].value # None

\* Turns, deferred commands and goal continuations never overlap: admission,
\* the hand-over between values, the leaving of a worker and the waking of a
\* goal keep one foreground worker, also when publishing fails.  And "running"
\* tells the clients the truth: it is set exactly while that worker has work.
OneForeground ==
  ~closing =>
    Cardinality({w \in Slots : InLoop(w)}) = IF running THEN 1 ELSE 0

\* However often a submission is delivered (lost answers, failed saves, a
\* session change in between), it is executed or given to a turn at most once,
\* and never when its last answer was "rejected".
RunsOnce ==
  \A s \in Subs : runs[s] <= 1 /\ (entry[s] = "rejected" => runs[s] = 0)

\* Until a goal is created or resumed, an answered stop holds: no continuation
\* passes its validation any more, and one that passed it before still becomes
\* a turn (turn_started, its message, chat_start) but does no round, because its
\* loop sees the stop request and nobody clears that in between.  The second
\* part needs the request to stand when the stop is answered; /goal create, a
\* queued value or a new submission may have cleared it between the two halves.
NoGoalRoundAfterStop ==
  [][\A w \in Slots : worker[w].value = Goal =>
       /\ halted \in {"halted", "overtaken"} /\ At(w, "start")
            => ~(worker'[w].stage = "allowed")
       /\ halted = "halted" /\ At(w, "enter")
            => ~(worker'[w].stage = "turn")]_vars

\* An active goal goes on: once clients are ready, a goal turn runs, or the
\* goal is no longer active, or the runtime closes.  Nobody else may be left
\* to wake it.
GoalContinues ==
  (ready /\ goal = "active")
    ~> (closing \/ goal # "active"
        \/ \E w \in Slots : At(w, "enter") /\ worker[w].value = Goal)

\* What was answered "running" or "queued" is executed, unless the runtime
\* closes: a goal that continues forever does not starve the queue.
AcceptedRuns ==
  \A s \in Subs :
    (entry[s] \in {"running", "queued"}) ~> (closing \/ runs[s] > 0)

\* Once the runtime closes, every worker ends, so that a shutdown (repeated
\* after a timeout) completes, and from then on no worker or foreground comes
\* back, whatever is still submitted.  A shutdown also empties the queue and
\* settles what is steered; an exit or a broken worker closes and leaves the
\* queue, and what a turn left that raised before its try.
ClosingDrains ==
  closing ~> [](/\ Workers = {} /\ ~running
                /\ shutdown # "no" => pending = <<>> /\ steered = {})

\* Shutting down keeps an active goal for the next start of the session, as
\* test_shutdown_preserves_active_goal_for_session_resume asks: a goal is
\* paused only when somebody asked for a stop or a pause.
ShutdownKeepsGoal ==
  goal = "paused" =>
    \/ halted # "never" \/ stopping
    \/ \E s \in Subs : Kind[s] = "pause" /\ runs[s] > 0

\* "Workers must preserve interrupts received after this boundary" (_submit):
\* a stop request is not cleared while a foreground operation is in progress.
InterruptPreserved ==
  [][stop /\ ~stop' => ~\E w \in Slots :
       /\ InLoop(w)
       /\ worker[w].stage \in {"start", "allowed", "enter", "turn", "created"}]_vars

=============================================================================
