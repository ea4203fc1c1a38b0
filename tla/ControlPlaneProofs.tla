------------------------- MODULE ControlPlaneProofs -------------------------
(***************************************************************************)
(* Proofs about the control plane, for any calls, objectives, budgets and  *)
(* costs and any number of goals, failures, resets and crashes.  Each      *)
(* property has a small inductive invariant of its own; an action that     *)
(* changes none of its variables is covered by one step.                   *)
(***************************************************************************)
EXTENDS ControlPlane, TLAPS

(* The goal: it is recorded, and a spent budget has stopped it.            *)

GoalInv ==
    /\ goals \in Nat
    /\ goal \in Goals \cup {None}
    /\ goalRecord = goal
    /\ BudgetStops

\* The test of update and record_usage leaves no exhausted goal active, and
\* changes nothing but the status.
LEMMA LimitedStops ==
    ASSUME NEW g \in Goals
    PROVE  /\ Limited(g) \in Goals
           /\ Limited(g).status = "active" => ~Exhausted(Limited(g))
  <1>1. CASE g.status = "active" /\ Exhausted(g)
    <2>1. Limited(g) = [g EXCEPT !.status = "budget_limited"]
      BY <1>1 DEF Limited
    <2> QED BY <2>1 DEF Goals, Statuses
  <1>2. CASE ~(g.status = "active" /\ Exhausted(g))
    BY <1>2 DEF Limited
  <1> QED BY <1>1, <1>2

\* A new goal has used nothing, and budgets are positive (validate_budget).
LEMMA CreateKeeps ==
    ASSUME GoalInv, NEW o \in Objectives, NEW b \in Budgets \cup {None}, Create(o, b)
    PROVE  GoalInv'
  <1> DEFINE g == [id |-> goals + 1, objective |-> o, status |-> "active",
                   budget |-> b, used |-> 0]
  <1>1. goals' = goals + 1 /\ goal' = g /\ goalRecord' = g
    BY DEF Create, CommitGoal
  <1>2. g \in Goals /\ goals + 1 \in Nat
    BY DEF GoalInv, Goals, Statuses
  <1>3. ~Exhausted(g)
    BY BudgetsAssumption DEF Exhausted
  <1> QED BY <1>1, <1>2, <1>3 DEF GoalInv, BudgetStops, Exhausted

\* An update of the user or of the model looks at the budget again.
LEMMA UpdateKeeps ==
    ASSUME GoalInv, goal # None, NEW o \in Objectives, NEW s \in Statuses,
           NEW b \in Budgets \cup {None}, UpdateGoal(o, s, b), goals' = goals
    PROVE  GoalInv'
  <1> DEFINE g == [goal EXCEPT !.objective = o, !.status = s, !.budget = b]
  <1>1. g \in Goals
    BY DEF GoalInv, Goals
  <1>2. goal' = Limited(g) /\ goalRecord' = Limited(g)
    BY DEF UpdateGoal, CommitGoal
  <1>3. Limited(g) \in Goals /\ (Limited(g).status = "active" => ~Exhausted(Limited(g)))
    BY <1>1, LimitedStops
  <1> HIDE DEF g
  <1> QED BY <1>2, <1>3 DEF GoalInv, BudgetStops, Exhausted

\* So does the accounting of a response or of a subagent.
LEMMA UsageKeeps ==
    ASSUME GoalInv, goal # None, NEW n \in Costs, RecordUsage(n), goals' = goals
    PROVE  GoalInv'
  <1> DEFINE g == [goal EXCEPT !.used = @ + n]
  <1>1. g \in Goals
    BY CostsAssumption DEF GoalInv, Goals
  <1>2. goal' = Limited(g) /\ goalRecord' = Limited(g)
    BY DEF RecordUsage, CommitGoal
  <1>3. Limited(g) \in Goals /\ (Limited(g).status = "active" => ~Exhausted(Limited(g)))
    BY <1>1, LimitedStops
  <1> HIDE DEF g
  <1> QED BY <1>2, <1>3 DEF GoalInv, BudgetStops, Exhausted

\* A stopped goal is not active.
LEMMA StopKeeps ==
    ASSUME GoalInv, goal # None, NEW s \in {"paused", "blocked"}, StopGoal(s),
           goals' = goals
    PROVE  GoalInv'
  <1>1. goal \in Goals
    BY DEF GoalInv
  <1>2. goal' = [goal EXCEPT !.status = s] /\ goalRecord' = goal'
    BY DEF StopGoal, CommitGoal
  <1>3. goal' \in Goals /\ goal'.status = s
    BY <1>1, <1>2 DEF Goals, Statuses
  <1> QED BY <1>2, <1>3 DEF GoalInv, BudgetStops

\* Neither is a cleared one.
LEMMA ClearKeeps ==
    ASSUME GoalInv, CommitGoal(None), goals' = goals
    PROVE  GoalInv'
  BY DEF GoalInv, CommitGoal, BudgetStops

\* A failing turn stops the goal or leaves it.
LEMMA FailKeeps ==
    ASSUME GoalInv, FailTurn, goals' = goals
    PROVE  GoalInv'
  <1>1. CASE Active
    BY <1>1, StopKeeps DEF FailTurn, Active
  <1>2. CASE ~Active
    BY <1>2 DEF FailTurn, goalState, GoalInv, BudgetStops, Exhausted
  <1> QED BY <1>1, <1>2

\* Every step keeps the goal recorded and within its budget.
LEMMA GoalStep ==
    ASSUME GoalInv, [Next]_vars
    PROVE  GoalInv'
  <1>0. ASSUME UNCHANGED goalState, goals' = goals
        PROVE  GoalInv'
    BY <1>0 DEF goalState, GoalInv, BudgetStops, Exhausted
  <1>1. CASE StartTurn \/ EndRound \/ EndSummary \/ BuildRequest \/ BuildSummary
             \/ Dispatch \/ PersistOrRequireRecovery \/ CreateReturns \/ ModelReads
             \/ Spawn \/ PublishTurn \/ PublishCommand
    BY <1>0, <1>1 DEF StartTurn, EndRound, EndSummary, BuildRequest, BuildSummary,
       Build, Dispatch, PersistOrRequireRecovery, CreateReturns, ModelReads, Spawn,
       PublishTurn, PublishCommand, counts
  <1>2. CASE TurnFails
    BY <1>2, FailKeeps DEF TurnFails, counts
  <1>3. CASE Recover
    BY <1>0, <1>3, FailKeeps DEF Recover, counts
  <1>4. ASSUME NEW n \in Costs, Respond(n)
        PROVE  GoalInv'
    <2>1. CASE Owns(recorder)
      BY <1>4, <2>1, UsageKeeps DEF Respond, Owns, counts
    <2>2. CASE ~Owns(recorder)
      BY <1>0, <1>4, <2>2 DEF Respond, counts
    <2> QED BY <2>1, <2>2
  <1>5. ASSUME NEW k \in Kinds, NEW c \in Calls, Commit(k, c)
        PROVE  GoalInv'
    BY <1>0, <1>5 DEF Commit, counts
  <1>6. ASSUME NEW o \in Objectives, NEW b \in Budgets \cup {None},
               ModelCreates(o, b) \/ UserCreates(o, b)
        PROVE  GoalInv'
    BY <1>6, CreateKeeps DEF ModelCreates, UserCreates
  <1>7. ASSUME NEW s \in {"complete", "blocked"}, ModelUpdates(s)
        PROVE  GoalInv'
    <2>1. goal \in Goals /\ goal # None /\ goals' = goals
      BY <1>7 DEF ModelUpdates, GoalInv, counts
    <2>2. goal.objective \in Objectives /\ goal.budget \in Budgets \cup {None}
          /\ s \in Statuses
      BY <2>1 DEF Goals, Statuses
    <2>3. UpdateGoal(goal.objective, s, goal.budget)
      BY <1>7 DEF ModelUpdates
    <2> QED BY <2>1, <2>2, <2>3, UpdateKeeps
  <1>8. ASSUME NEW o \in Objectives, UserEdits(o)
        PROVE  GoalInv'
    <2>1. goal \in Goals /\ goal # None /\ goals' = goals
      BY <1>8 DEF UserEdits, GoalInv
    <2>2. goal.status \in Statuses /\ goal.budget \in Budgets \cup {None}
      BY <2>1 DEF Goals
    <2>3. UpdateGoal(o, goal.status, goal.budget)
      BY <1>8 DEF UserEdits
    <2> QED BY <2>1, <2>2, <2>3, UpdateKeeps
  <1>9. ASSUME NEW b \in Budgets \cup {None}, UserBudgets(b)
        PROVE  GoalInv'
    <2>1. goal \in Goals /\ goal # None /\ goals' = goals
      BY <1>9 DEF UserBudgets, GoalInv
    <2>2. goal.objective \in Objectives /\ goal.status \in Statuses
      BY <2>1 DEF Goals
    <2>3. UpdateGoal(goal.objective, goal.status, b)
      BY <1>9 DEF UserBudgets
    <2> QED BY <2>1, <2>2, <2>3, UpdateKeeps
  <1>10. CASE UserPauses \/ UserResumes
    <2>1. goal \in Goals /\ goal # None /\ goals' = goals
      BY <1>10 DEF UserPauses, UserResumes, GoalInv
    <2>2. goal.objective \in Objectives /\ goal.budget \in Budgets \cup {None}
      BY <2>1 DEF Goals
    <2>3. PICK s \in Statuses : UpdateGoal(goal.objective, s, goal.budget)
      BY <1>10 DEF UserPauses, UserResumes, Statuses
    <2> QED BY <2>1, <2>2, <2>3, UpdateKeeps
  <1>11. CASE Interrupt
    BY <1>11, StopKeeps DEF Interrupt, Active
  <1>12. CASE UserClears \/ Reset
    BY <1>12, ClearKeeps DEF UserClears, Reset
  <1>13. ASSUME NEW n \in Costs, ChildReports(n)
         PROVE  GoalInv'
    <2>1. CASE Owns(child)
      BY <1>13, <2>1, UsageKeeps DEF ChildReports, Owns
    <2>2. CASE ~Owns(child)
      BY <1>0, <1>13, <2>2 DEF ChildReports
    <2> QED BY <2>1, <2>2
  <1>14. CASE Crash
    BY <1>14 DEF Crash, RestoredGoal, GoalInv, BudgetStops, Exhausted
  <1>15. CASE UNCHANGED vars
    BY <1>0, <1>15 DEF vars, counts
  <1> QED
    BY <1>1, <1>2, <1>3, <1>4, <1>5, <1>6, <1>7, <1>8, <1>9, <1>10, <1>11, <1>12,
       <1>13, <1>14, <1>15 DEF Next, Turn, Commands

\* The goal's invariant, from the empty session on.
THEOREM GoalInvariant == Spec => []GoalInv
  <1>1. Init => GoalInv
    BY DEF Init, GoalInv, BudgetStops
  <1>2. GoalInv /\ [Next]_vars => GoalInv'
    BY GoalStep
  <1> QED BY <1>1, <1>2, PTL DEF Spec

\* A goal that has used up its budget is never active.
THEOREM BudgetIsKept == Spec => []BudgetStops
  <1>1. GoalInv => BudgetStops
    BY DEF GoalInv
  <1> QED BY <1>1, GoalInvariant, PTL

-----------------------------------------------------------------------------
(* The boards: what the request of a round shows has been saved.           *)

\* Between a commit and its snapshot the turn is in saveBoard; after a failed
\* one the recovery flag is up; otherwise every board is empty or saved.
SavedInv ==
    \/ turn = "saveBoard"
    \/ recovery
    \/ \A k \in Kinds : board[k] = NoBoard \/ disk[k] = board[k]

\* A step that changes no board and writes no other snapshot than the boards
\* keeps them saved.
LEMMA SnapshotKeeps ==
    ASSUME SavedInv, turn # "saveBoard", UNCHANGED plane, disk' = disk \/ Snapshot
    PROVE  SavedInv'
  BY DEF SavedInv, plane, Snapshot

\* Every step keeps the boards saved, or the turn or the flag says otherwise.
LEMMA SavedStep ==
    ASSUME SavedInv, [Next]_vars
    PROVE  SavedInv'
  <1>1. CASE StartTurn \/ EndRound \/ EndSummary \/ TurnFails \/ BuildRequest
             \/ BuildSummary \/ Dispatch \/ CreateReturns \/ ModelReads \/ Spawn
             \/ PublishTurn
    BY <1>1, SnapshotKeeps DEF StartTurn, EndRound, EndSummary, TurnFails, BuildRequest,
       BuildSummary, Build, Dispatch, CreateReturns, ModelReads, Spawn, PublishTurn,
       Persist, FailSnapshot
  <1>2. CASE Recover
    BY <1>2 DEF Recover, SavedInv
  <1>3. ASSUME NEW n \in Costs, Respond(n)
        PROVE  SavedInv'
    BY <1>3, SnapshotKeeps DEF Respond
  <1>4. ASSUME NEW k \in Kinds, NEW c \in Calls, Commit(k, c)
        PROVE  SavedInv'
    BY <1>4 DEF Commit, SavedInv
  <1>5. CASE PersistOrRequireRecovery
    BY <1>5 DEF PersistOrRequireRecovery, Snapshot, SavedInv
  <1>6. ASSUME NEW o \in Objectives, NEW b \in Budgets \cup {None}, ModelCreates(o, b)
        PROVE  SavedInv'
    BY <1>6, SnapshotKeeps DEF ModelCreates
  <1>7. ASSUME NEW s \in {"complete", "blocked"}, ModelUpdates(s)
        PROVE  SavedInv'
    BY <1>7, SnapshotKeeps DEF ModelUpdates
  <1>8. ASSUME ByCommand
        PROVE  SavedInv'
    BY <1>8 DEF ByCommand, plane, SavedInv
  <1>9. CASE Reset
    BY <1>9 DEF Reset, NoBoards, SavedInv
  <1>10. ASSUME turn' = turn, UNCHANGED plane, disk' = disk \/ Snapshot
         PROVE  SavedInv'
    BY <1>10 DEF SavedInv, plane, Snapshot
  <1>11. CASE PublishCommand
    BY <1>10, <1>11 DEF PublishCommand, Persist, FailSnapshot
  <1>12. ASSUME NEW n \in Costs, ChildReports(n)
         PROVE  SavedInv'
    BY <1>10, <1>12 DEF ChildReports, Persist, FailSnapshot
  <1>13. CASE Crash
    BY <1>13 DEF Crash, SavedInv
  <1>14. CASE UNCHANGED vars
    BY <1>10, <1>14 DEF vars
  <1>15. ASSUME Commands
         PROVE  SavedInv'
    BY <1>8, <1>9, <1>11, <1>15 DEF Commands, UserCreates, UserEdits, UserBudgets,
       UserPauses, UserResumes, UserClears, Interrupt
  <1> QED
    BY <1>1, <1>2, <1>3, <1>4, <1>5, <1>6, <1>7, <1>12, <1>13, <1>14, <1>15
       DEF Next, Turn

\* No round's request is built on a plan or progress that a restart would not
\* restore.
THEOREM RoundRequestsAreSaved == Spec => RoundsShowSavedBoards
  <1>1. Init => SavedInv
    BY DEF Init, SavedInv, NoBoards
  <1>2. SavedInv /\ [Next]_vars => SavedInv'
    BY SavedStep
  <1>3. SavedInv /\ [Next]_vars =>
          [turn = "boundary" /\ turn' = "built" /\ ~handoff => Saved]_vars
    <2> SUFFICES ASSUME SavedInv, Next, turn = "boundary", turn' = "built", ~handoff
                 PROVE  Saved
      OBVIOUS
    <2>1. ~recovery
      BY DEF Next, Turn, Commands, StartTurn, EndRound, EndSummary, TurnFails, FailTurn,
         SaveThen, Recover, BuildRequest, BuildSummary, Dispatch, Respond, Commit,
         PersistOrRequireRecovery, ModelCreates, CreateReturns, ModelUpdates, ModelReads,
         Spawn, PublishTurn, UserCreates, UserEdits, UserBudgets, UserPauses,
         UserResumes, UserClears, Interrupt, Reset, PublishCommand, ByCommand,
         ChildReports, Crash
    <2> QED BY <2>1 DEF SavedInv, Saved
  <1> QED BY <1>1, <1>2, <1>3, PTL DEF Spec, RoundsShowSavedBoards

-----------------------------------------------------------------------------
(* The model's judgement: update_goal accepts any goal from a model that   *)
(* was shown none, so while its response is handled no goal may appear but *)
(* one of its own making.                                                  *)

Outstanding ==
    \/ turn \in {"built", "flight", "tools", "saveBoard", "saveGoal"}
    \/ turn = "save" /\ then = "tools"

OwnGoal == made # None /\ made[1] = goal.id

JudgeInv ==
    /\ then \in {"none", "tools", "answered"}
    /\ turn = "saveGoal" => made # None
    /\ Outstanding /\ seen = None => goal = None \/ OwnGoal

\* What the model is shown of a goal is something.
LEMMA ShownIsSomething ==
    ASSUME NEW g \in Goals \cup {None}, Shown(g) = None
    PROVE  g = None
  BY NoneAssumption DEF Shown, Goals

\* A change to an existing goal, which keeps its id, or its end.
KeepsGoal == goal' = None \/ (goal # None /\ goal'.id = goal.id)

\* The updates, stops and charges are such changes.
LEMMA ChangesKeepGoal ==
    ASSUME GoalInv, goal # None, NEW o, NEW s, NEW b, NEW n,
           UpdateGoal(o, s, b) \/ StopGoal(s) \/ RecordUsage(n)
    PROVE  KeepsGoal
  BY DEF UpdateGoal, StopGoal, RecordUsage, CommitGoal, Limited, KeepsGoal, GoalInv, Goals

\* They may happen beside the turn.
LEMMA BesideTurn ==
    ASSUME JudgeInv, KeepsGoal, UNCHANGED <<view, turn, then>>
    PROVE  JudgeInv'
  BY DEF JudgeInv, Outstanding, OwnGoal, KeepsGoal, view

\* Every step keeps goals from appearing behind the model's back.
LEMMA JudgeStep ==
    ASSUME GoalInv, GoalInv', JudgeInv, [Next]_vars
    PROVE  JudgeInv'
  <1>1. CASE StartTurn \/ EndRound \/ EndSummary
    BY <1>1 DEF StartTurn, EndRound, EndSummary, JudgeInv, Outstanding
  <1>2. ASSUME FailTurn
        PROVE  JudgeInv'
    BY <1>2 DEF FailTurn, SaveThen, JudgeInv, Outstanding
  <1>3. CASE TurnFails
    BY <1>2, <1>3 DEF TurnFails
  <1>4. CASE Recover
    BY <1>2, <1>4 DEF Recover, JudgeInv, Outstanding
  <1>5. CASE BuildRequest \/ BuildSummary
    <2>1. seen' = Shown(goal) /\ goal' = goal /\ then' = then /\ turn' = "built"
      BY <1>5 DEF BuildRequest, BuildSummary, Build, goalState
    <2> QED BY <2>1, ShownIsSomething DEF JudgeInv, GoalInv
  <1>6. CASE Dispatch \/ PersistOrRequireRecovery
    BY <1>6 DEF Dispatch, PersistOrRequireRecovery, goalState, view, JudgeInv,
       Outstanding, OwnGoal
  <1>7. ASSUME NEW n \in Costs, Respond(n)
        PROVE  JudgeInv'
    <2>1. /\ UNCHANGED view
          /\ turn = "flight" /\ turn' \in {"tools", "answered", "save"}
          /\ then' \in {"none", "tools", "answered"}
      BY <1>7 DEF Respond, SaveThen, JudgeInv
    <2>2. KeepsGoal
      <3>1. CASE Owns(recorder)
        BY <1>7, <3>1, ChangesKeepGoal DEF Respond, Owns
      <3>2. CASE ~Owns(recorder)
        BY <1>7, <3>2 DEF Respond, goalState, KeepsGoal
      <3> QED BY <3>1, <3>2
    <2> QED BY <2>1, <2>2 DEF JudgeInv, Outstanding, OwnGoal, KeepsGoal, view
  <1>8. ASSUME NEW k \in Kinds, NEW c \in Calls, Commit(k, c)
        PROVE  JudgeInv'
    BY <1>8 DEF Commit, goalState, view, JudgeInv, Outstanding, OwnGoal
  <1>9. ASSUME NEW o \in Objectives, NEW b \in Budgets \cup {None}, ModelCreates(o, b)
        PROVE  JudgeInv'
    <2>1. made' = Shown(goal') /\ then' = then /\ goal' # None
      <3>1. goal' = [id |-> goals + 1, objective |-> o, status |-> "active",
                     budget |-> b, used |-> 0]
        BY <1>9 DEF ModelCreates, Create, CommitGoal
      <3>2. goal' # None
        BY <3>1, <1>9, NoGoalAssumption DEF GoalInv, Goals, Statuses
      <3> QED BY <1>9, <3>2 DEF ModelCreates
    <2>2. made' # None /\ made'[1] = goal'.id
      BY <2>1, ShownIsSomething DEF Shown, GoalInv
    <2> QED BY <2>1, <2>2 DEF JudgeInv, OwnGoal
  <1>10. CASE CreateReturns
    <2>1. /\ goal' = goal /\ then' = then /\ turn = "saveGoal" /\ turn' = "tools"
          /\ \/ seen' = made
             \/ UNCHANGED view
      BY <1>10 DEF CreateReturns, goalState
    <2> QED BY <2>1 DEF JudgeInv, Outstanding, OwnGoal, view
  <1>11. ASSUME NEW s \in {"complete", "blocked"}, ModelUpdates(s)
         PROVE  JudgeInv'
    <2>1. KeepsGoal
      BY <1>11, ChangesKeepGoal DEF ModelUpdates
    <2> QED BY <1>11, <2>1 DEF ModelUpdates, SaveThen, view, KeepsGoal, OwnGoal,
               JudgeInv, Outstanding
  <1>12. CASE ModelReads
    <2>1. seen' = Shown(goal) /\ goal' = goal /\ then' = then /\ turn' = "tools"
      BY <1>12 DEF ModelReads, goalState
    <2> QED BY <2>1, ShownIsSomething DEF JudgeInv, GoalInv
  <1>13. ASSUME UNCHANGED <<goalState, view, turn, then>>
         PROVE  JudgeInv'
    BY <1>13 DEF goalState, view, JudgeInv, Outstanding, OwnGoal
  <1>14. CASE Spawn \/ PublishCommand \/ UNCHANGED vars
    BY <1>13, <1>14 DEF Spawn, PublishCommand, vars
  <1>15. CASE PublishTurn
    BY <1>15 DEF PublishTurn, goalState, view, JudgeInv, Outstanding, OwnGoal
  <1>16. ASSUME NEW o \in Objectives, NEW b \in Budgets \cup {None}, UserCreates(o, b)
         PROVE  JudgeInv'
    BY <1>16 DEF UserCreates, Deferred, ByCommand, view, JudgeInv, Outstanding
  <1>17. CASE \/ \E o \in Objectives : UserEdits(o)
              \/ \E b \in Budgets \cup {None} : UserBudgets(b)
              \/ UserPauses \/ UserResumes \/ Interrupt
    <2>1. goal # None /\ UNCHANGED <<view, turn, then>>
      BY <1>17 DEF UserEdits, UserBudgets, UserPauses, UserResumes, Interrupt, Active,
         ByCommand
    <2>2. \E o, s, b : UpdateGoal(o, s, b) \/ StopGoal(s)
      BY <1>17 DEF UserEdits, UserBudgets, UserPauses, UserResumes, Interrupt
    <2> QED BY <2>1, <2>2, ChangesKeepGoal, BesideTurn
  <1>18. CASE UserClears \/ Reset
    BY <1>18, BesideTurn DEF UserClears, Reset, CommitGoal, ByCommand, KeepsGoal
  <1>19. ASSUME NEW n \in Costs, ChildReports(n)
         PROVE  JudgeInv'
    <2>1. CASE Owns(child)
      BY <1>19, <2>1, ChangesKeepGoal, BesideTurn DEF ChildReports, Owns
    <2>2. CASE ~Owns(child)
      BY <1>13, <1>19, <2>2 DEF ChildReports
    <2> QED BY <2>1, <2>2
  <1>20. CASE Crash
    BY <1>20 DEF Crash, JudgeInv, Outstanding
  <1> QED
    BY <1>1, <1>3, <1>4, <1>5, <1>6, <1>7, <1>8, <1>9, <1>10, <1>11, <1>12, <1>14,
       <1>15, <1>16, <1>17, <1>18, <1>19, <1>20 DEF Next, Turn, Commands

\* The model completes or blocks only the goal and objective it was last shown,
\* or a goal of its own whose creation raised.
THEOREM JudgementIsInformed == Spec => JudgesWhatItSaw
  <1>1. Init => JudgeInv
    BY DEF Init, JudgeInv, Outstanding
  <1>2. GoalInv /\ GoalInv' /\ JudgeInv /\ [Next]_vars => JudgeInv'
    BY JudgeStep
  <1>3. JudgeInv /\ [Next]_vars =>
          [\A s \in {"complete", "blocked"} :
             ModelUpdates(s) =>
               seen = Shown(goal) \/ (made # None /\ made[1] = goal.id)]_vars
    BY DEF ModelUpdates, JudgeInv, Outstanding, OwnGoal
  <1> QED BY <1>1, <1>2, <1>3, GoalInvariant, PTL DEF Spec, JudgesWhatItSaw

-----------------------------------------------------------------------------
(* The calls: one commit each in a process and generation.                 *)

IsLedger == \E S : ledger \in Seq(S)

\* A call that this process committed in this generation is remembered.
Remembered ==
    \A i \in DOMAIN ledger :
        i > since => ledger[i].gen = gen /\ ledger[i].call \in committed

CallsInv == IsLedger /\ since \in Nat /\ CommitsOnce /\ Remembered

\* A commit appends an event of a call that no event since then has.
LEMMA CommitKeeps ==
    ASSUME CallsInv, NEW k \in Kinds, NEW c \in Calls, Commit(k, c)
    PROVE  CallsInv'
  <1> DEFINE e == [gen |-> gen, kind |-> k, call |-> c, rev |-> board[k].rev + 1]
  <1>1. ledger' = Append(ledger, e) /\ gen' = gen /\ since' = since
        /\ committed' = committed \cup {c} /\ c \notin committed
    BY DEF Commit
  <1>2. PICK S : ledger \in Seq(S)
    BY DEF CallsInv, IsLedger
  <1>3. e.gen = gen /\ e.call = c
    OBVIOUS
  <1> HIDE DEF e
  <1>4. ledger' \in Seq(S \cup {e})
    BY <1>1, <1>2
  <1>5. /\ DOMAIN ledger' = 1 .. (Len(ledger) + 1) /\ DOMAIN ledger = 1 .. Len(ledger)
        /\ Len(ledger) \in Nat /\ Len(ledger') = Len(ledger) + 1
        /\ ledger'[Len(ledger) + 1] = e
        /\ \A i \in DOMAIN ledger : ledger'[i] = ledger[i]
    BY <1>1, <1>2
  <1>6. \A i \in DOMAIN ledger : i > since => ledger[i].call # c
    BY <1>1 DEF CallsInv, Remembered
  <1>7. \A i \in DOMAIN ledger' : i \in DOMAIN ledger \/ i = Len(ledger) + 1
    BY <1>5
  <1>8. CommitsOnce'
    <2> SUFFICES ASSUME NEW i \in since + 1 .. Len(ledger'),
                        NEW j \in since + 1 .. Len(ledger'),
                        ledger'[i].call = ledger'[j].call
                 PROVE  i = j
      BY <1>1 DEF CommitsOnce
    <2>1. since \in Nat /\ i > since /\ j > since /\ i \in DOMAIN ledger' /\ j \in DOMAIN ledger'
      BY <1>5 DEF CallsInv
    <2>2. CASE i \in DOMAIN ledger /\ j \in DOMAIN ledger
      <3>1. i \in since + 1 .. Len(ledger) /\ j \in since + 1 .. Len(ledger)
        BY <1>5, <2>1, <2>2
      <3>2. ledger[i].call = ledger[j].call
        BY <1>5, <2>2
      <3> QED BY <3>1, <3>2 DEF CallsInv, CommitsOnce
    <2>3. CASE i \in DOMAIN ledger /\ j = Len(ledger) + 1
      BY <1>3, <1>5, <1>6, <2>1, <2>3
    <2>4. CASE i = Len(ledger) + 1 /\ j \in DOMAIN ledger
      BY <1>3, <1>5, <1>6, <2>1, <2>4
    <2> QED BY <1>7, <2>1, <2>2, <2>3, <2>4
  <1>9. Remembered'
    BY <1>1, <1>3, <1>5, <1>7 DEF CallsInv, Remembered
  <1> QED BY <1>1, <1>4, <1>8, <1>9 DEF CallsInv, IsLedger

\* Every step remembers the calls of this process and generation.
LEMMA CallsStep ==
    ASSUME CallsInv, [Next]_vars
    PROVE  CallsInv'
  <1>1. ASSUME UNCHANGED <<gen, committed, ledger, since>>
        PROVE  CallsInv'
    BY <1>1 DEF CallsInv, IsLedger, CommitsOnce, Remembered
  <1>2. CASE StartTurn \/ EndRound \/ EndSummary \/ TurnFails \/ BuildRequest
             \/ BuildSummary \/ Dispatch \/ PersistOrRequireRecovery \/ CreateReturns
             \/ ModelReads \/ Spawn \/ PublishTurn \/ PublishCommand \/ UNCHANGED vars
    BY <1>1, <1>2 DEF StartTurn, EndRound, EndSummary, TurnFails, BuildRequest,
       BuildSummary, Build, Dispatch, PersistOrRequireRecovery, CreateReturns, ModelReads,
       Spawn, PublishTurn, PublishCommand, vars, plane
  <1>3. CASE Recover
    <2>1. committed' = RecoveredCalls /\ gen' = gen /\ since' = since /\ ledger' = ledger
      BY <1>3 DEF Recover
    <2>2. \A i \in DOMAIN ledger : ledger[i].gen = gen => ledger[i].call \in RecoveredCalls
      BY DEF RecoveredCalls
    <2>3. \A i \in DOMAIN ledger :
            i > since => ledger[i].gen = gen /\ ledger[i].call \in RecoveredCalls
      BY <2>2 DEF CallsInv, Remembered
    <2>4. Remembered'
      BY <2>1, <2>3, Zenon DEF Remembered
    <2> QED BY <2>1, <2>4 DEF CallsInv, IsLedger, CommitsOnce
  <1>4. ASSUME NEW n \in Costs, Respond(n) \/ ChildReports(n)
        PROVE  CallsInv'
    BY <1>1, <1>4 DEF Respond, ChildReports, plane
  <1>5. ASSUME NEW o \in Objectives, NEW b \in Budgets \cup {None}, ModelCreates(o, b)
        PROVE  CallsInv'
    BY <1>1, <1>5 DEF ModelCreates, plane
  <1>6. ASSUME NEW s \in {"complete", "blocked"}, ModelUpdates(s)
        PROVE  CallsInv'
    BY <1>1, <1>6 DEF ModelUpdates, plane
  <1>7. ASSUME ByCommand
        PROVE  CallsInv'
    BY <1>1, <1>7 DEF ByCommand, plane
  <1>8. CASE Reset \/ Crash
    <2>1. since' = Len(ledger) /\ ledger' = ledger
      BY <1>8 DEF Reset, Crash
    <2>2. Len(ledger) \in Nat /\ DOMAIN ledger = 1 .. Len(ledger)
      BY DEF CallsInv, IsLedger
    <2>3. CommitsOnce' /\ Remembered'
      BY <2>1, <2>2 DEF CommitsOnce, Remembered
    <2> QED BY <2>1, <2>2, <2>3 DEF CallsInv, IsLedger
  <1>9. ASSUME Commands
        PROVE  CallsInv'
    BY <1>2, <1>7, <1>8, <1>9 DEF Commands, UserCreates, UserEdits, UserBudgets,
       UserPauses, UserResumes, UserClears, Interrupt
  <1> QED
    BY <1>2, <1>3, <1>4, <1>5, <1>6, <1>8, <1>9, CommitKeeps DEF Next, Turn

\* In one process and generation a tool call commits at most once, through any
\* failed snapshots and recoveries.
THEOREM CallsCommitOnce == Spec => []CommitsOnce
  <1>1. Init => CallsInv
    <2>1. <<>> \in Seq({})
      OBVIOUS
    <2> QED BY <2>1 DEF Init, CallsInv, IsLedger, CommitsOnce, Remembered
  <1>2. CallsInv /\ [Next]_vars => CallsInv'
    BY CallsStep
  <1>3. CallsInv => CommitsOnce
    BY DEF CallsInv
  <1> QED BY <1>1, <1>2, <1>3, PTL DEF Spec
=============================================================================
