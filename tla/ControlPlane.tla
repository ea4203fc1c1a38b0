---------------------------- MODULE ControlPlane ----------------------------
(***************************************************************************)
(* The control plane of a session: the plan and progress of PlanController *)
(* (domain/plan.py) and the goal of GoalController (domain/goal.py), the   *)
(* tools with which the model changes them, the commands with which the    *)
(* user does, and their two durable images: the history ledger, to which   *)
(* every change is committed first, and the session snapshot, which        *)
(* persist_runtime_snapshot writes afterwards and may fail to.             *)
(*                                                                         *)
(* Two threads act: the turn (a model request, its usage, its tool calls)  *)
(* and the commands that may run beside it.  A step is one critical        *)
(* section of a controller, or one snapshot.  The text of a plan is the    *)
(* tool call that wrote it; a call repeated with other text is refused     *)
(* exactly where one repeated with the same text is ignored.               *)
(***************************************************************************)
EXTENDS Naturals, Sequences, SequencesExt

CONSTANTS
    Calls,          \* tool call ids of update_plan and report_progress
    Objectives,     \* objectives the user or the model may set
    Budgets,        \* token budgets, other than none
    Costs,          \* what one model response may cost
    MaxGoals,       \* bound: goals created
    MaxUsed,        \* bound: tokens after which no more is spent
    MaxCommits,     \* bound: plan and progress events
    MaxTroubles,    \* bound: failed snapshots, resets and crashes together
    None

ASSUME BudgetsAssumption == Budgets \subseteq Nat \ {0}
ASSUME NoneAssumption == None \notin Nat \X Objectives
ASSUME CostsAssumption == Costs \subseteq Nat
ASSUME BoundsAssumption ==
    {MaxGoals, MaxUsed, MaxCommits, MaxTroubles} \subseteq Nat

VARIABLES
    \* memory of the process
    gen,         \* Agent.session_generation
    board,       \* PlanController._state and _progress
    committed,   \* PlanController._committed_calls
    goal,        \* GoalController._goal
    recovery,    \* Agent._control_plane_recovery_required
    seen,        \* Agent._goal_request: the goal the model was last shown
    turn,        \* where the turn is
    then,        \* where it goes after the snapshot it is taking
    handoff,     \* AgentLoop.round_limit_reached: a summary is requested
    owner,       \* turn_usage_recorder's owner
    recorder,    \* the goal the request in flight is charged to
    child,       \* the goal a running subagent is charged to
    command,     \* where the command thread is
    \* durable
    ledger,      \* plan_updated and progress_reported events
    goalRecord,  \* the goal of the last goal_changed, none after runtime_reset
    disk,        \* the boards in the session snapshot
    \* history: what this process committed in this generation, the length of
    \* the ledger when it began, the goal of the last create_goal call unless it
    \* was returned to the model, and the counts that the bounds limit
    own, since, made, goals, troubles

plane == <<gen, board, committed, recovery, own, since>>
goalState == <<goal, goalRecord>>
usage == <<owner, recorder, child>>
counts == <<goals, troubles>>
view == <<seen, made>>
vars == <<plane, goalState, view, turn, then, handoff, usage, command, ledger,
          disk, counts>>

Kinds == {"plan", "progress"}
NoBoard == [rev |-> 0, by |-> None]
NoBoards == [k \in Kinds |-> NoBoard]

-----------------------------------------------------------------------------
(* Goals                                                                   *)

\* blocked stands for usage_limited too, which no condition tells apart.
Statuses == {"active", "paused", "blocked", "budget_limited", "complete"}

Exhausted(g) ==
    g.budget # None /\ g.used >= g.budget

\* An active goal that has used its budget is limited by it.
Limited(g) ==
    IF g.status = "active" /\ Exhausted(g)
    THEN [g EXCEPT !.status = "budget_limited"] ELSE g

\* mutation: the status, not the objective, is part of what the model saw
ShownStatus(g) == IF g = None THEN None ELSE <<g.id, g.status>>

Shown(g) == IF g = None THEN None ELSE <<g.id, g.objective>>

\* GoalController._commit: the ledger first, then the memory.
CommitGoal(g) ==
    goal' = g /\ goalRecord' = g

\* GoalController.create: a goal that is not complete is in the way.
Create(o, b) ==
    /\ ~(goal # None /\ goal.status # "complete")
    /\ goals < MaxGoals
    /\ goals' = goals + 1
    /\ CommitGoal([id |-> goals', objective |-> o, status |-> "active",
                   budget |-> b, used |-> 0])

\* mutation: the budget is not looked at again
UnlimitedUpdate(o, s, b) ==
    CommitGoal([goal EXCEPT !.objective = o, !.status = s, !.budget = b])

\* GoalController.update once its checks have passed.
UpdateGoal(o, s, b) ==
    CommitGoal(Limited([goal EXCEPT !.objective = o, !.status = s, !.budget = b]))

Active == goal # None /\ goal.status = "active"

\* GoalController.stop of an active goal; it leaves any other alone.
StopGoal(s) ==
    CommitGoal([goal EXCEPT !.status = s])

\* GoalController.record_usage: the usage of a goal that has been cleared or
\* replaced is dropped.
Owns(id) == goal # None /\ goal.id = id

RecordUsage(n) ==
    CommitGoal(Limited([goal EXCEPT !.used = @ + n]))

-----------------------------------------------------------------------------
(* The turn                                                                *)

Stages == {"none", "boundary", "built", "flight", "tools", "answered",
           "save", "saveGoal", "saveBoard"}

SaveThen(t) == turn' = "save" /\ then' = t

\* The operation ends with an error: an active goal does not continue, and
\* the locals of the turn are gone.
FailTurn ==
    /\ IF Active THEN StopGoal("blocked") /\ SaveThen("none")
                 ELSE turn' = "none" /\ UNCHANGED <<goalState, then>>
    /\ owner' = None /\ recorder' = None

\* chat enters its loop; the usage recorder of the turn has no owner yet.
StartTurn ==
    /\ turn = "none" /\ command # "foreground"
    /\ turn' = "boundary" /\ handoff' = FALSE
    /\ UNCHANGED <<plane, goalState, view, then, usage, command, ledger, disk, counts>>

\* A round ends: the next request is prepared, the rounds are used up and a
\* summary is asked for, or the turn ends.
EndRound ==
    /\ turn = "tools"
    /\ \/ turn' = "boundary" /\ UNCHANGED <<owner, handoff>>
       \/ turn' = "boundary" /\ handoff' = TRUE /\ UNCHANGED owner
       \/ turn' = "none" /\ owner' = None /\ UNCHANGED handoff
    /\ UNCHANGED <<plane, goalState, view, then, recorder, child, command, ledger,
                   disk, counts>>

\* The summary ends the turn, unless directions are queued and the loop is run
\* again.
EndSummary ==
    /\ turn = "answered"
    /\ \/ turn' = "none" /\ owner' = None /\ UNCHANGED handoff
       \/ turn' = "boundary" /\ handoff' = FALSE /\ UNCHANGED owner
    /\ UNCHANGED <<plane, goalState, view, then, recorder, child, command, ledger,
                   disk, counts>>

\* The request, or what is done with its response, raises.
TurnFails ==
    /\ turn \in {"built", "flight", "tools", "answered"}
    /\ FailTurn
    /\ UNCHANGED <<plane, view, handoff, child, command, ledger, disk, counts>>

Snapshot == disk' = board

Trouble == troubles < MaxTroubles /\ troubles' = troubles + 1

FailSnapshot == Trouble /\ UNCHANGED disk

Persist ==
    \/ Snapshot /\ UNCHANGED troubles
    \/ FailSnapshot

\* recover_from_ledger looks at the events of the current generation only.
Ours(k) == SelectSeq(ledger, LAMBDA e : e.gen = gen /\ e.kind = k)

\* mutation: the last snapshot is trusted
SnapshotBoards == disk

RecoveredBoards ==
    [k \in Kinds |-> IF Ours(k) = <<>> THEN NoBoard
                     ELSE [rev |-> Last(Ours(k)).rev, by |-> Last(Ours(k)).call]]

\* mutation: restore has cleared the calls and nothing rebuilds them
ForgottenCalls == {}

RecoveredCalls == {ledger[i].call : i \in {j \in DOMAIN ledger : ledger[j].gen = gen}}

\* recover_control_plane_if_required, before the request of a round: the
\* boards and the calls come back from the ledger; the flag stays, and the turn
\* fails, when the snapshot cannot be written this time either, or the event
\* that records the recovery cannot.
Recover ==
    /\ turn = "boundary" /\ ~handoff /\ recovery
    /\ board' = RecoveredBoards
    /\ committed' = RecoveredCalls
    /\ \/ /\ disk' = board'
          /\ recovery' = FALSE
          /\ UNCHANGED <<goalState, turn, then, usage, counts>>
       \/ /\ Trouble
          /\ disk' = board' \/ UNCHANGED disk
          /\ FailTurn
          /\ UNCHANGED <<recovery, goals, child>>
    /\ UNCHANGED <<gen, own, since, view, handoff, command, ledger>>

\* _full_messages: the request shows the goal and the boards as they are now.
Build ==
    /\ turn = "boundary" /\ turn' = "built"
    /\ seen' = Shown(goal)
    /\ UNCHANGED <<plane, goalState, made, then, handoff, usage, command, ledger,
                   disk, counts>>

\* The request of a round
BuildRequest == ~handoff /\ ~recovery /\ Build

\* The summary requested when the rounds are used up: no recovery comes first.
BuildSummary == handoff /\ Build

\* turn_usage_recorder.capture, as the request leaves
Dispatch ==
    /\ turn = "built"
    /\ owner' = IF Active THEN goal.id ELSE owner
    /\ recorder' = IF goal # None /\ owner' = goal.id
                      /\ goal.status \in {"active", "budget_limited", "complete"}
                   THEN goal.id ELSE None
    /\ turn' = "flight"
    /\ UNCHANGED <<plane, goalState, view, then, handoff, child, command, ledger, disk,
                   counts>>

\* A charge above MaxUsed is not followed further.
Affordable(n) == goal # None => goal.used + n <= MaxUsed

\* The response arrives and is charged to the goal captured at its dispatch; a
\* summary calls no tools.
Respond(n) ==
    LET next == IF handoff THEN "answered" ELSE "tools" IN
    /\ turn = "flight"
    /\ Affordable(n)
    /\ IF Owns(recorder) THEN RecordUsage(n) /\ SaveThen(next)
                         ELSE turn' = next /\ UNCHANGED <<goalState, then>>
    /\ recorder' = None
    /\ UNCHANGED <<plane, view, handoff, owner, child, command, ledger, disk, counts>>

\* PlanController.update and report: a call that this process remembers is not
\* committed again.  The call is bound to the generation that is current when
\* it is executed, and a reset waits for the turn.
Commit(k, c) ==
    /\ turn = "tools"
    /\ c \notin committed
    /\ Len(ledger) < MaxCommits
    /\ LET b == [rev |-> board[k].rev + 1, by |-> c] IN
       /\ ledger' = Append(ledger, [gen |-> gen, kind |-> k, call |-> c, rev |-> b.rev])
       /\ board' = [board EXCEPT ![k] = b]
       /\ own' = [own EXCEPT ![k] = b]
    /\ committed' = committed \cup {c}
    /\ turn' = "saveBoard"
    /\ UNCHANGED <<gen, since, recovery, goalState, view, then, handoff, usage,
                   command, disk, counts>>

\* mutation: the failure of the snapshot is only reported
ReportFailure ==
    /\ turn = "saveBoard"
    /\ turn' = "tools"
    /\ Persist
    /\ UNCHANGED <<plane, goalState, view, then, handoff, usage, command, ledger,
                   goals>>

\* PlanController._persist_or_require_recovery
PersistOrRequireRecovery ==
    /\ turn = "saveBoard"
    /\ turn' = "tools"
    /\ \/ Snapshot /\ UNCHANGED <<recovery, troubles>>
       \/ FailSnapshot /\ recovery' = TRUE
    /\ UNCHANGED <<gen, board, committed, own, since, goalState, view, then, handoff,
                   usage, command, ledger, goals>>

\* The tool create_goal: GoalController.create commits the goal, ...
ModelCreates(o, b) ==
    /\ turn = "tools"
    /\ Create(o, b)
    /\ made' = Shown(goal') /\ UNCHANGED seen
    /\ turn' = "saveGoal"
    /\ UNCHANGED <<plane, then, handoff, usage, command, ledger, disk, troubles>>

\* ... publishes it and returns it to the tool, which notes that the model has
\* seen it; when the snapshot raises, the call fails without that and the turn
\* goes on.
CreateReturns ==
    /\ turn = "saveGoal" /\ turn' = "tools"
    /\ \/ Snapshot /\ seen' = made /\ made' = None /\ UNCHANGED troubles
       \/ FailSnapshot /\ UNCHANGED view
    /\ UNCHANGED <<plane, goalState, then, handoff, usage, command, ledger, goals>>

\* The tool update_goal: the goal must be the one the model was shown, unless
\* it was shown none.
ModelUpdates(s) ==
    /\ turn = "tools"
    /\ goal # None
    /\ seen # None => seen = Shown(goal)
    /\ goal.status = "complete" => s = "complete"
    /\ UpdateGoal(goal.objective, s, goal.budget)
    /\ SaveThen("tools")
    /\ UNCHANGED <<plane, view, handoff, usage, command, ledger, disk, counts>>

\* The tool get_goal
ModelReads ==
    /\ turn = "tools"
    /\ seen' = Shown(goal)
    /\ UNCHANGED <<plane, goalState, made, turn, then, handoff, usage, command,
                   ledger, disk, counts>>

\* A subagent started by a tool call is charged to the goal active now, ...
Spawn ==
    /\ turn = "tools" /\ child = None
    /\ Active
    /\ child' = goal.id
    /\ UNCHANGED <<plane, goalState, view, turn, then, handoff, owner, recorder,
                   command, ledger, disk, counts>>

\* ... whenever it reports, and its thread publishes the change.
ChildReports(n) ==
    /\ child # None
    /\ Affordable(n)
    /\ IF Owns(child)
       THEN RecordUsage(n) /\ Persist
       ELSE UNCHANGED <<goalState, disk, troubles>>
    /\ child' = None
    /\ UNCHANGED <<plane, view, turn, then, handoff, owner, recorder, command, ledger,
                   goals>>

\* GoalController._publish of the turn: a failure reaches the tool or the
\* request, and the goal stays committed.
PublishTurn ==
    /\ turn = "save"
    /\ turn' = then /\ then' = "none"
    /\ Persist
    /\ UNCHANGED <<plane, goalState, view, handoff, usage, command, ledger, goals>>

-----------------------------------------------------------------------------
(* Commands and interrupts                                                 *)

\* A command that may run beside a turn, ...
Commanded == command = "idle" /\ command' = "save"

\* ... and one that waits until no turn runs, and is then the foreground
\* operation itself (DuringTurnPolicy.DEFER_UNTIL_IDLE).
Deferred == turn = "none" /\ command = "idle" /\ command' = "foreground"

ByCommand == UNCHANGED <<plane, view, turn, then, handoff, usage, ledger, disk,
                         troubles>>

\* mutation: the command does not wait for the turn to end
UserCreatesAtOnce(o, b) ==
    Commanded /\ Create(o, b) /\ ByCommand

\* /goal create, deferred until no turn runs
UserCreates(o, b) ==
    /\ Deferred
    /\ Create(o, b)
    /\ ByCommand

\* /goal edit
UserEdits(o) ==
    /\ Commanded
    /\ goal # None /\ goal.status # "complete"
    /\ UpdateGoal(o, goal.status, goal.budget)
    /\ ByCommand /\ UNCHANGED goals

\* /goal budget
UserBudgets(b) ==
    /\ Commanded
    /\ goal # None
    /\ UpdateGoal(goal.objective, goal.status, b)
    /\ ByCommand /\ UNCHANGED goals

\* /goal pause
UserPauses ==
    /\ Commanded
    /\ goal # None /\ goal.status # "complete"
    /\ UpdateGoal(goal.objective, "paused", goal.budget)
    /\ ByCommand /\ UNCHANGED goals

\* /goal resume, deferred until no turn runs
UserResumes ==
    /\ Deferred
    /\ goal # None /\ goal.status # "complete"
    /\ UpdateGoal(goal.objective, "active", goal.budget)
    /\ ByCommand /\ UNCHANGED goals

\* runtime.stop and an interrupt pause the goal.
Interrupt ==
    /\ Commanded
    /\ Active /\ StopGoal("paused")
    /\ ByCommand /\ UNCHANGED goals

\* /goal clear
UserClears ==
    /\ Commanded
    /\ CommitGoal(None)
    /\ ByCommand /\ UNCHANGED goals

\* Agent.reset, between turns: a new generation with nothing in it
Reset ==
    /\ Deferred
    /\ Trouble
    /\ gen' = gen + 1
    /\ board' = NoBoards /\ committed' = {} /\ own' = NoBoards
    /\ CommitGoal(None)
    /\ recovery' = FALSE
    /\ since' = Len(ledger)
    /\ UNCHANGED <<view, turn, then, handoff, usage, ledger, disk, goals>>

\* GoalController._publish of the command, and the snapshot that ends reset
PublishCommand ==
    /\ command # "idle" /\ command' = "idle"
    /\ Persist
    /\ UNCHANGED <<plane, goalState, view, turn, then, handoff, usage, ledger,
                   goals>>

-----------------------------------------------------------------------------
(* A new process                                                           *)

\* GoalController.restore: the last goal of the ledger.  The goal in the
\* snapshot counts only when it is that very commit, or when the ledger has
\* none, and no goal was ever committed then.
RestoredGoal == goalRecord

\* The process dies and another one resumes the session: apply_session_runtime_state
\* resets the fresh agent to generation 1 and reads both images.
Crash ==
    /\ Trouble
    /\ gen' = 1
    /\ board' = disk /\ committed' = {} /\ own' = NoBoards
    /\ goal' = RestoredGoal
    /\ recovery' = FALSE
    /\ seen' = None /\ made' = None /\ turn' = "none" /\ then' = "none"
    /\ handoff' = FALSE /\ command' = "idle"
    /\ owner' = None /\ recorder' = None /\ child' = None
    /\ since' = Len(ledger)
    /\ UNCHANGED <<goalRecord, ledger, disk, goals>>

-----------------------------------------------------------------------------
Init ==
    /\ gen = 0
    /\ board = NoBoards /\ committed = {} /\ own = NoBoards
    /\ goal = None /\ goalRecord = None
    /\ recovery = FALSE
    /\ seen = None /\ made = None /\ turn = "none" /\ then = "none"
    /\ handoff = FALSE /\ command = "idle"
    /\ owner = None /\ recorder = None /\ child = None
    /\ ledger = <<>>
    /\ disk = NoBoards
    /\ since = 0
    /\ goals = 0 /\ troubles = 0

Turn ==
    \/ StartTurn \/ EndRound \/ EndSummary \/ TurnFails
    \/ Recover \/ BuildRequest \/ BuildSummary \/ Dispatch
    \/ \E n \in Costs : Respond(n)
    \/ \E k \in Kinds, c \in Calls : Commit(k, c)
    \/ PersistOrRequireRecovery
    \/ \E o \in Objectives, b \in Budgets \cup {None} : ModelCreates(o, b)
    \/ CreateReturns
    \/ \E s \in {"complete", "blocked"} : ModelUpdates(s)
    \/ ModelReads
    \/ Spawn
    \/ PublishTurn

Commands ==
    \/ \E o \in Objectives, b \in Budgets \cup {None} : UserCreates(o, b)
    \/ \E o \in Objectives : UserEdits(o)
    \/ \E b \in Budgets \cup {None} : UserBudgets(b)
    \/ UserPauses \/ UserResumes \/ UserClears
    \/ Interrupt
    \/ Reset
    \/ PublishCommand

Next ==
    \/ Turn
    \/ Commands
    \/ \E n \in Costs : ChildReports(n)
    \/ Crash

Spec == Init /\ [][Next]_vars

-----------------------------------------------------------------------------
(* Properties                                                              *)

Boards == [rev : Nat, by : Calls \cup {None}]
Goals == [id : Nat, objective : Objectives, status : Statuses,
          budget : Budgets \cup {None}, used : Nat]
GoalIds == Nat \cup {None}

ASSUME NoGoalAssumption == None \notin Goals

\* Type correctness of the controllers and of their durable images.
TypeOK ==
    /\ gen \in Nat
    /\ board \in [Kinds -> Boards] /\ own \in [Kinds -> Boards]
    /\ committed \subseteq Calls /\ since \in 0 .. Len(ledger)
    /\ goal \in Goals \cup {None} /\ goalRecord \in Goals \cup {None}
    /\ recovery \in BOOLEAN
    /\ \A x \in {seen, made} : x = None \/ x \in Nat \X Objectives
    /\ turn \in Stages /\ then \in {"none", "tools", "answered"}
    /\ handoff \in BOOLEAN
    /\ command \in {"idle", "save", "foreground"}
    /\ owner \in GoalIds /\ recorder \in GoalIds /\ child \in GoalIds
    /\ ledger \in Seq([gen : Nat, kind : Kinds, call : Calls, rev : Nat])
    /\ disk \in [Kinds -> Boards]
    /\ goals \in Nat /\ troubles \in Nat

\* A goal that has used up its budget is not active, whichever of the turn, a
\* subagent's late usage, an edit, a smaller budget, a resume or a restart
\* touched it last; nothing would stop its automatic turns otherwise.
BudgetStops ==
    goal # None /\ goal.status = "active" => ~Exhausted(goal)

\* A tool call changes the plan or the progress at most once in one process and
\* generation, however often it is executed again, across a failed snapshot and
\* the recovery that forgets and rebuilds the calls (update, report,
\* recover_from_ledger).  A reset and a restart forget the calls for good.
CommitsOnce ==
    \A i, j \in since + 1 .. Len(ledger) : ledger[i].call = ledger[j].call => i = j

\* What this process has committed in this generation is what it holds:
\* recovery from the ledger never brings back an older plan or progress.
OwnCommitsStand ==
    \A k \in Kinds : own[k] # NoBoard => board[k] = own[k]

Saved == \A k \in Kinds : board[k] # NoBoard => disk[k] = board[k]

\* No round's request is built on a plan or progress that a crash would take
\* back: whatever it shows has reached the snapshot from which a restart reads,
\* by the snapshot after the commit or by the recovery before the request.
RoundsShowSavedBoards ==
    [][turn = "boundary" /\ turn' = "built" /\ ~handoff => Saved]_vars

\* "recovery is required before the next model request"
\* (_persist_or_require_recovery): no request at all is built on boards that
\* were not saved.
RequestsShowSavedBoards ==
    [][turn = "boundary" /\ turn' = "built" => Saved]_vars

\* The model completes or blocks only the goal it was last shown, with the
\* objective it was shown, although the user may edit, clear or replace the
\* goal during the request, and update_goal accepts any goal when the model
\* was shown none.  The one other goal it may judge is a goal that its own
\* create_goal committed and failed to return because the snapshot raised.
JudgesWhatItSaw ==
    [][\A s \in {"complete", "blocked"} :
         ModelUpdates(s) =>
           seen = Shown(goal) \/ (made # None /\ made[1] = goal.id)]_vars
=============================================================================
