---------------------------- MODULE UserSteering ----------------------------
(***************************************************************************)
(* A turn of the Agent and the directions a user sends while it runs:      *)
(* admission to the ledger, application at the boundary of a model         *)
(* request, promotion (interrupt the current step to apply them now),      *)
(* stop, failure, shutdown and recovery (domain/agent/agent.py, loop.py).  *)
(*                                                                         *)
(* The turn worker runs AgentLoop; server threads admit and interrupt.     *)
(* The steering lock makes each method one step, which a ledger append may *)
(* end half way with an exception.  A direction is a number, given in the  *)
(* order of admission.  A change of the session, which discards the queue, *)
(* is not modelled, so no direction is of an older generation.             *)
(***************************************************************************)
EXTENDS Naturals, Sequences, SequencesExt

CONSTANTS
  MaxSteering,    \* bound on admissions
  MaxPromotions,  \* bound on promotions
  MaxTurns,       \* bound on turns
  MaxFailures,    \* bound on ledger writes that raise while directions are settled
  MaxCrashes      \* bound on process deaths

ASSUME BoundsAreNat ==
  /\ MaxSteering \in Nat /\ MaxPromotions \in Nat /\ MaxTurns \in Nat
  /\ MaxFailures \in Nat /\ MaxCrashes \in Nat

VARIABLES
  up,         \* the process is running
  pc,         \* where the turn worker is
  summary,    \* the rounds are used up and the closing summary is requested
  accepting,  \* _accepting_user_steering
  pending,    \* _pending_user_steering
  promoted,   \* _round_interrupt_pending
  epoch,      \* _round_interrupt_epoch
  baseline,   \* the epoch the request in flight compares with
  stop,       \* _stop_event
  closing,    \* the runtime is shutting down and admits nothing
  context,    \* the directions in agent.state.messages
  admitted,   \* ledger: number of steering_admitted events
  committed,  \* ledger: message_committed events with a steering_id, in order
  discarded,  \* ledger: steering_discarded events, in order
  lost,       \* history: directions a call took off the queue before it raised
  turns,      \* turns started
  failures,
  crashes

memory == <<accepting, pending, promoted, epoch, baseline, stop, closing>>
ledger == <<admitted, committed, discarded>>
vars == <<up, pc, summary, memory, context, ledger, lost, turns, failures,
          crashes>>

Ids == 1 .. MaxSteering

\* The worker waits for a turn, prepares one outside the try of _chat_turn,
\* enters the loop, is about to start a round, to start a request attempt, has
\* built a request, waits for the model, runs tools, has left the loop, or
\* unwinds an exception.
Stages == {"idle", "start", "enter", "round", "attempt", "built", "flight", "tools",
           "settle", "failing"}

-----------------------------------------------------------------------------

Init ==
  /\ up = TRUE /\ pc = "idle" /\ summary = FALSE
  /\ accepting = FALSE /\ pending = <<>> /\ promoted = FALSE
  /\ epoch = 0 /\ baseline = 0 /\ stop = FALSE /\ closing = FALSE
  /\ context = <<>>
  /\ admitted = 0 /\ committed = <<>> /\ discarded = <<>>
  /\ lost = {} /\ turns = 0 /\ failures = 0 /\ crashes = 0

\* The head of _chat_turn: directions are accepted from now on.  The server
\* clears the stop request of an earlier turn before it starts one.
StartTurn ==
  /\ up /\ pc = "idle" /\ ~closing /\ turns < MaxTurns
  /\ turns' = turns + 1
  /\ pc' = "start" /\ summary' = FALSE
  /\ accepting' = TRUE /\ promoted' = FALSE /\ stop' = FALSE
  /\ UNCHANGED <<up, pending, epoch, baseline, closing, context, ledger, lost,
                 failures, crashes>>

\* admit_user_steering: the ledger first, then the queue.
AdmitUserSteering ==
  /\ up /\ accepting /\ ~closing /\ admitted < MaxSteering
  /\ admitted' = admitted + 1
  /\ pending' = Append(pending, admitted + 1)
  /\ UNCHANGED <<up, pc, summary, accepting, promoted, epoch, baseline, stop,
                 closing, context, committed, discarded, lost, turns, failures,
                 crashes>>

\* _discard_pending_user_steering_locked, and the promotion its callers end.
DiscardPending ==
  /\ pending' = <<>> /\ promoted' = FALSE
  /\ discarded' = discarded \o pending
  /\ UNCHANGED <<lost, failures>>

\* The same when an append raises after k directions: the queue is already
\* empty and the promotion not yet ended.
DiscardRaises ==
  /\ pending # <<>> /\ pending' = <<>> /\ UNCHANGED promoted
  /\ failures < MaxFailures /\ failures' = failures + 1
  /\ \E k \in 0 .. Len(pending) - 1 :
       /\ discarded' = discarded \o SubSeq(pending, 1, k)
       /\ lost' = lost \cup ToSet(SubSeq(pending, k + 1, Len(pending)))

\* request_interrupt_intent: promote what is queued; without anything queued,
\* or when it was promoted before, an ordinary gesture stops the turn.
Promote ==
  /\ up /\ ~stop /\ ~promoted /\ pending # <<>> /\ epoch < MaxPromotions
  /\ epoch' = epoch + 1 /\ promoted' = TRUE
  /\ UNCHANGED <<up, pc, summary, accepting, pending, baseline, stop, closing,
                 context, ledger, lost, turns, failures, crashes>>

InterruptStops ==
  /\ up /\ ~stop
  /\ \/ promoted /\ DiscardPending /\ stop' = TRUE
     \/ promoted /\ DiscardRaises /\ UNCHANGED stop
     \/ ~promoted /\ pending = <<>> /\ stop' = TRUE
        /\ UNCHANGED <<pending, promoted, discarded, lost, failures>>
  /\ UNCHANGED <<up, pc, summary, accepting, epoch, baseline, closing, context,
                 admitted, committed, turns, crashes>>

\* request_stop by the server: the turn itself discards what is queued.
RequestStop ==
  /\ up /\ ~stop
  /\ stop' = TRUE
  /\ UNCHANGED <<up, pc, summary, accepting, pending, promoted, epoch, baseline,
                 closing, context, ledger, lost, turns, failures, crashes>>

\* RuntimeServer._shutdown: nothing more is admitted, the queue is discarded,
\* the turn is asked to stop.  A call that raised may be repeated.
Shutdown ==
  /\ up /\ closing' = TRUE
  /\ \/ DiscardPending /\ stop' = TRUE
     \/ DiscardRaises /\ UNCHANGED stop
  /\ UNCHANGED <<up, pc, summary, accepting, epoch, baseline, context, admitted,
                 committed, turns, crashes>>

-----------------------------------------------------------------------------
(* The worker.                                                             *)

Moves(from, to) == up /\ pc = from /\ pc' = to

\* The rest of _chat_turn before its try: the turn and its message are
\* recorded, sub-agent results injected, listeners told.
TurnStarted ==
  /\ Moves("start", "enter")
  /\ UNCHANGED <<up, summary, memory, context, ledger, lost, turns, failures, crashes>>

\* One of these raises: nothing undoes the head of _chat_turn, so directions
\* are still accepted although no turn runs.
StartRaises ==
  /\ Moves("start", "idle")
  /\ UNCHANGED <<up, summary, memory, context, ledger, lost, turns, failures, crashes>>

\* The head of AgentLoop.run.
EnterLoop ==
  /\ IF stop THEN Moves("enter", "settle") ELSE Moves("enter", "round")
  /\ UNCHANGED <<up, summary, memory, context, ledger, lost, turns, failures, crashes>>

\* _flush_runtime_issues fails on entry: the loop gives up although nobody
\* stopped it, and is run again while directions are queued.
EntryGivesUp ==
  /\ Moves("enter", "settle")
  /\ UNCHANGED <<up, summary, memory, context, ledger, lost, turns, failures, crashes>>

\* It fails after tools.
LeaveLoop ==
  /\ Moves("tools", "settle")
  /\ UNCHANGED <<up, summary, memory, context, ledger, lost, turns, failures, crashes>>

\* The head of a round.
BeginRound ==
  /\ IF stop THEN Moves("round", "settle") ELSE Moves("round", "attempt")
  /\ UNCHANGED <<up, summary, memory, context, ledger, lost, turns, failures, crashes>>

\* The rounds are used up: a summary is asked for, by the same attempts.
RequestSummary ==
  /\ ~stop /\ Moves("round", "attempt") /\ summary' = TRUE
  /\ UNCHANGED <<up, memory, context, ledger, lost, turns, failures, crashes>>

\* Mutant: the promotion survives the boundary that applied it.
DrainKeepsPromotion ==
  /\ Moves("attempt", "built")
  /\ pending' = <<>> /\ UNCHANGED promoted
  /\ committed' = committed \o pending
  /\ context' = context \o pending
  /\ UNCHANGED <<up, summary, accepting, epoch, baseline, stop, closing, admitted,
                 discarded, lost, turns, failures, crashes>>

\* _drain_user_steering, then the request is built from the context; the
\* snapshot of what was applied may raise.
DrainUserSteering ==
  /\ Moves("attempt", "built") \/ (pending # <<>> /\ Moves("attempt", "failing"))
  /\ pending' = <<>> /\ promoted' = FALSE
  /\ committed' = committed \o pending
  /\ context' = context \o pending
  /\ UNCHANGED <<up, summary, accepting, epoch, baseline, stop, closing, admitted,
                 discarded, lost, turns, failures, crashes>>

\* An append raises after some of the queue was committed: the queue is
\* already empty, the context not yet extended, the promotion not yet ended.
DrainRaises ==
  /\ failures < MaxFailures /\ failures' = failures + 1
  /\ Moves("attempt", "failing")
  /\ pending # <<>> /\ pending' = <<>>
  /\ \E k \in 0 .. Len(pending) - 1 : committed' = committed \o SubSeq(pending, 1, k)
  /\ lost' = lost \cup ToSet(pending)
  /\ UNCHANGED <<up, summary, accepting, promoted, epoch, baseline, stop, closing,
                 context, admitted, discarded, turns, crashes>>

\* Mutant: the baseline of the retried request counts the next promotion.
DispatchAhead ==
  /\ Moves("built", "flight")
  /\ baseline' = epoch + 1
  /\ UNCHANGED <<up, summary, accepting, pending, promoted, epoch, stop, closing,
                 context, ledger, lost, turns, failures, crashes>>

\* The epoch is read after the request was built, then the request is sent.
Dispatch ==
  /\ Moves("built", "flight")
  /\ baseline' = epoch
  /\ UNCHANGED <<up, summary, accepting, pending, promoted, epoch, stop, closing,
                 context, ledger, lost, turns, failures, crashes>>

\* CancellationView.is_set.
Cancelled == stop \/ epoch > baseline

\* The model answers: with tool calls, or finally; a final answer goes on when
\* directions are queued or sub-agents are active.
Respond ==
  /\ ~summary
  /\ \/ Moves("flight", "tools")
     \/ Moves("flight", "round")
     \/ pending = <<>> /\ Moves("flight", "settle")
  /\ UNCHANGED <<up, summary, memory, context, ledger, lost, turns, failures, crashes>>

\* The summary ends the loop whatever is queued.
SummaryDone ==
  /\ summary /\ Moves("flight", "settle")
  /\ UNCHANGED <<up, summary, memory, context, ledger, lost, turns, failures, crashes>>

\* LLMRequestCancelled: a stop leaves the loop, a promotion retries the round
\* at once.
RequestCancelled ==
  /\ Cancelled
  /\ \/ stop /\ Moves("flight", "settle")
     \/ ~stop /\ Moves("flight", "attempt")
  /\ UNCHANGED <<up, summary, memory, context, ledger, lost, turns, failures,
                 crashes>>

\* An exception leaves the loop: compaction or the control plane cannot be
\* saved, the request is refused before it is sent or fails, a tool raises.
RoundRaises ==
  /\ \E stage \in {"enter", "round", "built", "flight", "tools"} :
       Moves(stage, "failing")
  /\ UNCHANGED <<up, summary, memory, context, ledger, lost, turns, failures, crashes>>

\* Tools run to their end or are cancelled against the same baseline.
ToolsDone ==
  /\ Moves("tools", "round")
  /\ UNCHANGED <<up, summary, memory, context, ledger, lost, turns, failures, crashes>>

\* Mutant: the turn ends although directions were queued meanwhile.
SettleAnyway ==
  /\ Moves("settle", "idle") /\ accepting' = FALSE
  /\ IF stop THEN DiscardPending
             ELSE UNCHANGED <<pending, promoted, discarded, lost, failures>>
  /\ UNCHANGED <<up, summary, epoch, baseline, stop, closing, context, admitted,
                 committed, turns, crashes>>

\* The end of _chat_turn: under the steering lock either run the loop again or
\* stop accepting; a stopped turn then discards what is queued and records a
\* marker, and what raises there is handled like a failure of the loop.
Settle ==
  /\ \/ /\ pending # <<>> /\ ~stop
        /\ Moves("settle", "enter") /\ summary' = FALSE
        /\ UNCHANGED <<accepting, pending, promoted, discarded, lost, failures>>
     \/ /\ pending = <<>> /\ ~stop
        /\ Moves("settle", "idle") /\ accepting' = FALSE
        /\ UNCHANGED <<summary, pending, promoted, discarded, lost, failures>>
     \/ /\ stop /\ accepting' = FALSE
        /\ \/ DiscardPending /\ (Moves("settle", "idle") \/ Moves("settle", "failing"))
           \/ DiscardRaises /\ Moves("settle", "failing")
        /\ UNCHANGED summary
  /\ UNCHANGED <<up, epoch, baseline, stop, closing, context, admitted, committed,
                 turns, crashes>>

\* Mutant: a failed turn leaves the queue to the next one.
TurnFailsKeepsQueue ==
  /\ Moves("failing", "idle")
  /\ accepting' = FALSE
  /\ UNCHANGED <<up, summary, pending, promoted, discarded, lost, epoch, baseline,
                 stop, closing, context, admitted, committed, turns, failures,
                 crashes>>

\* The exception path of _chat_turn, whose discard may raise again.
TurnFails ==
  /\ Moves("failing", "idle")
  /\ accepting' = FALSE
  /\ DiscardPending \/ DiscardRaises
  /\ UNCHANGED <<up, summary, epoch, baseline, stop, closing, context, admitted,
                 committed, turns, crashes>>

-----------------------------------------------------------------------------
(* Death and recovery.                                                     *)

Crash ==
  /\ up /\ crashes < MaxCrashes
  /\ up' = FALSE /\ crashes' = crashes + 1 /\ pc' = "idle"
  /\ UNCHANGED <<summary, memory, context, ledger, lost, turns, failures>>

\* Death inside _drain_user_steering: part of the queue is in the ledger.
CrashInDrain ==
  /\ pc = "attempt" /\ up /\ crashes < MaxCrashes
  /\ up' = FALSE /\ crashes' = crashes + 1 /\ pc' = "idle"
  /\ \E k \in 1 .. Len(pending) : committed' = committed \o SubSeq(pending, 1, k)
  /\ UNCHANGED <<summary, memory, context, admitted, discarded, lost, turns, failures>>

\* Death inside a discard, whichever thread made it.
CrashInDiscard ==
  /\ up /\ crashes < MaxCrashes
  /\ up' = FALSE /\ crashes' = crashes + 1 /\ pc' = "idle"
  /\ \E k \in 1 .. Len(pending) : discarded' = discarded \o SubSeq(pending, 1, k)
  /\ UNCHANGED <<summary, memory, context, admitted, committed, lost, turns, failures>>

\* Admissions without a terminal event in the ledger.
Orphans ==
  {i \in 1 .. admitted : ~Contains(committed, i) /\ ~Contains(discarded, i)}

\* Mutant: every admission without a commit is discarded again.
RestartDiscardsTwice ==
  /\ ~up /\ up' = TRUE
  /\ discarded' = discarded \o
       SelectSeq([i \in 1 .. admitted |-> i], LAMBDA i : ~Contains(committed, i))
  /\ context' = committed /\ lost' = {}
  /\ accepting' = FALSE /\ pending' = <<>> /\ promoted' = FALSE
  /\ epoch' = 0 /\ baseline' = 0 /\ stop' = FALSE /\ closing' = FALSE
  /\ UNCHANGED <<pc, summary, admitted, committed, turns, failures, crashes>>

\* _discard_recovered_steering_admissions; the context is rebuilt from the
\* committed messages (SessionRecovery).
Restart ==
  /\ ~up /\ up' = TRUE
  /\ discarded' = discarded \o
       SelectSeq([i \in 1 .. admitted |-> i], LAMBDA i : i \in Orphans)
  /\ context' = committed /\ lost' = {}
  /\ accepting' = FALSE /\ pending' = <<>> /\ promoted' = FALSE
  /\ epoch' = 0 /\ baseline' = 0 /\ stop' = FALSE /\ closing' = FALSE
  /\ UNCHANGED <<pc, summary, admitted, committed, turns, failures, crashes>>

-----------------------------------------------------------------------------

Worker ==
  \/ TurnStarted \/ StartRaises
  \/ EnterLoop \/ EntryGivesUp \/ BeginRound \/ RequestSummary
  \/ DrainUserSteering \/ DrainRaises \/ Dispatch
  \/ Respond \/ SummaryDone \/ RequestCancelled \/ RoundRaises
  \/ ToolsDone \/ LeaveLoop \/ Settle \/ TurnFails

Server ==
  \/ StartTurn \/ AdmitUserSteering \/ Promote \/ InterruptStops \/ RequestStop
  \/ Shutdown

Next == Worker \/ Server \/ Crash \/ CrashInDrain \/ CrashInDiscard \/ Restart

Spec == Init /\ [][Next]_vars

\* The worker thread runs; a provider request ends (it has timeouts); a dead
\* process is started again.
Fairness == WF_vars(Worker) /\ WF_vars(Restart)

FairSpec == Spec /\ Fairness

-----------------------------------------------------------------------------
(* Properties.                                                             *)

\* Type invariant: every queue and ledger projection holds admitted directions.
TypeOK ==
  /\ up \in BOOLEAN /\ pc \in Stages /\ summary \in BOOLEAN
  /\ accepting \in BOOLEAN /\ promoted \in BOOLEAN /\ stop \in BOOLEAN
  /\ closing \in BOOLEAN
  /\ epoch \in 0 .. MaxPromotions /\ baseline \in 0 .. epoch
  /\ admitted \in 0 .. MaxSteering
  /\ \A q \in {pending, context, committed, discarded} : q \in Seq(1 .. admitted)
  /\ turns \in Nat /\ failures \in Nat /\ crashes \in Nat

\* The ledger settles a direction at most once: it is applied or discarded,
\* never both and never twice, whoever settles it (a request boundary, a stop,
\* a failed turn, a shutdown or the recovery after a death inside any of them);
\* and directions become model-visible in the order the user sent them.
SettledOnce ==
  /\ IsInjective(committed \o discarded)
  /\ \A i, j \in 1 .. Len(committed) : i < j => committed[i] < committed[j]

\* Memory and ledger agree but for the directions a raising call took off the
\* queue: the model-visible context holds exactly the other committed ones, an
\* admission without a terminal event is in the queue, and the queue is empty
\* between turns, unless the last one raised before its try and goes on
\* accepting.  No stop, failed request, shutdown, recovery or late admission
\* strands a direction.
MemoryMatchesLedger ==
  up =>
    /\ context = SelectSeq(committed, LAMBDA i : i \notin lost)
    /\ Orphans \ lost = ToSet(pending)
    /\ pc = "idle" /\ ~accepting => pending = <<>>

\* Every admitted direction is applied or discarded in the end, across stops,
\* failed turns, shutdown and restarts.  The exceptions are the code's: a call
\* that raised took it off the queue, the turn raised before its try and left
\* it queued, or the loop gives up at its entry for ever because runtime issues
\* cannot be published.
AdmittedIsSettled ==
  \/ []<><<EntryGivesUp>>_vars
  \/ \A i \in Ids :
       (admitted >= i)
         ~> (\/ Contains(committed, i) \/ Contains(discarded, i) \/ i \in lost
             \/ pc = "idle" /\ accepting)

\* An interrupt gesture takes effect.  A stop ends the turn whatever is queued,
\* promoted or failing at that moment, also one whose loop is run again and
\* again because runtime issues cannot be published.  A promotion does not
\* outlive its turn: unless the loop gives up at its entry for ever, the
\* boundary, the stop or the recovery it waits for comes, so no later gesture
\* goes on being answered "already promoted".
InterruptTakesEffect ==
  /\ stop ~> (~stop \/ pc = "idle")
  /\ \/ []<><<EntryGivesUp>>_vars
     \/ promoted ~> (~promoted \/ pc = "idle")

=============================================================================
