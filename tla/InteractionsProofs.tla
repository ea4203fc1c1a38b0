------------------------- MODULE InteractionsProofs -------------------------
(***************************************************************************)
(* Who owns the interface, for any number of requests and of cancelling    *)
(* threads.  Ownership is inductive once it is stated for every stage at   *)
(* which a thread can hold the slot, together with the registrations.      *)
(***************************************************************************)
EXTENDS Interactions, TLAPS

\* The part of the type invariant that ownership depends on.
Types ==
    /\ stage \in [Requests -> Stages]
    /\ result = [r \in Requests |-> result[r]]
    /\ cancelling \in [Cancellers -> {"idle", "shut", "one", "oneActive",
                                      "adapter", "notify", "done"}]
    /\ cancellations \subseteq Requests

\* A request is registered exactly while its thread is between the two critical
\* sections of _invoke that enter and remove it.
Registered ==
    \A r \in Requests :
        r \in cancellations <=> stage[r] \in InAdapter \union {"slot", "owner", "leave"}

IInv == Types /\ Registered /\ OneOwner /\ ShutdownSweeps

\* The coordinator starts with no owner and nothing registered.
LEMMA InitIInv == Init => IInv
BY RequestsAssumption
   DEF Init, IInv, Types, Registered, OneOwner, ShutdownSweeps, Stages, InAdapter

\* A thread that moves from one stage in the adapter to another keeps what it
\* owns: the slot, the active request and the registrations are not touched.
LEMMA MoveInAdapter ==
    ASSUME IInv, NEW r \in Requests, NEW s \in InAdapter,
           stage[r] \in InAdapter, Goto(r, s),
           UNCHANGED <<result, coordinator, threads>>
    PROVE  IInv'
<1> USE DEF IInv, coordinator, threads, Goto
<1>1. Types'
  BY DEF Types, Stages
<1>2. Registered'
  BY DEF Types, Registered
<1>3. OneOwner'
  BY DEF Types, OneOwner
<1>4. ShutdownSweeps'
  BY DEF ShutdownSweeps
<1> QED
  BY <1>1, <1>2, <1>3, <1>4

\* The stages are different strings, and the adapter's are not the coordinator's.
LEMMA StageFacts ==
    /\ {"ask", "open", "check", "send", "await", "timeout", "unask", "back"} \subseteq InAdapter
    /\ InAdapter \intersect {"new", "slot", "owner", "leave", "release", "done"} = {}
    /\ InAdapter \subseteq Stages
    /\ {"new", "slot", "owner", "leave", "release", "done"} \subseteq Stages
BY DEF InAdapter, Stages

\* The calling thread, from the adapter's entry to its exit.
LEMMA AdapterStep ==
    ASSUME IInv, NEW r \in Requests,
           \/ Ask(r) \/ OpenCall(r) \/ CheckCancelled(r) \/ SendRequest(r)
           \/ AwaitCancelled(r) \/ AwaitDeadline(r) \/ AwaitFuture(r) \/ TimeOut(r)
           \/ Unask(r)
    PROVE  IInv'
<1>1. PICK s \in InAdapter : Goto(r, s)
  BY StageFacts DEF Ask, OpenCall, CheckCancelled, SendRequest, AwaitCancelled,
     AwaitDeadline, AwaitFuture, TimeOut, Unask, EndCall
<1>2. stage[r] \in InAdapter
  BY StageFacts DEF Ask, OpenCall, CheckCancelled, SendRequest, AwaitCancelled,
     AwaitDeadline, AwaitFuture, TimeOut, Unask
<1>3. UNCHANGED <<result, coordinator, threads>>
  BY DEF Ask, OpenCall, CheckCancelled, SendRequest, AwaitCancelled, AwaitDeadline,
     AwaitFuture, TimeOut, Unask
<1> QED
  BY <1>1, <1>2, <1>3, MoveInAdapter

\* Entering: registration, the queue, the slot, and becoming active.
LEMMA EnterStep ==
    ASSUME IInv, NEW r \in Requests,
           Register(r) \/ GiveUp(r) \/ AcquireSlot(r) \/ Activate(r)
    PROVE  IInv'
<1> USE DEF IInv, Goto, coordinator, threads
<1>1. CASE Register(r)
  <2>1. Types' /\ Registered'
    BY <1>1, StageFacts DEF Register, Types, Registered
  <2>2. OneOwner'
    BY <1>1, StageFacts DEF Register, Types, OneOwner
  <2>3. ShutdownSweeps'
    BY <1>1 DEF Register, ShutdownSweeps
  <2> QED
    BY <2>1, <2>2, <2>3
<1>2. CASE GiveUp(r)
  <2>1. Types' /\ Registered'
    BY <1>2, StageFacts DEF GiveUp, Types, Registered
  <2>2. OneOwner'
    BY <1>2, StageFacts DEF GiveUp, Types, OneOwner
  <2>3. ShutdownSweeps'
    BY <1>2 DEF GiveUp, ShutdownSweeps
  <2> QED
    BY <2>1, <2>2, <2>3
<1>3. CASE AcquireSlot(r)
  <2>1. Types' /\ Registered'
    BY <1>3, StageFacts DEF AcquireSlot, Types, Registered
  <2>2. OneOwner'
    BY <1>3, StageFacts, RequestsAssumption DEF AcquireSlot, Types, OneOwner
  <2>3. ShutdownSweeps'
    BY <1>3 DEF AcquireSlot, ShutdownSweeps
  <2> QED
    BY <2>1, <2>2, <2>3
<1>4. CASE Activate(r)
  <2>1. Types' /\ Registered'
    BY <1>4, StageFacts DEF Activate, Types, Registered
  <2>2. OneOwner'
    BY <1>4, StageFacts DEF Activate, Types, OneOwner
  <2>3. ShutdownSweeps'
    BY <1>4 DEF Activate, ShutdownSweeps
  <2> QED
    BY <2>1, <2>2, <2>3
<1> QED
  BY <1>1, <1>2, <1>3, <1>4

\* Leaving: the outcome, the finally block, and the slot.
LEMMA LeaveStep ==
    ASSUME IInv, NEW r \in Requests, Settle(r) \/ Leave(r) \/ Release(r)
    PROVE  IInv'
<1> USE DEF IInv, Goto, coordinator, threads
<1>1. CASE Settle(r)
  <2>1. Types' /\ Registered'
    BY <1>1, StageFacts DEF Settle, SettleAs, Types, Registered
  <2>2. OneOwner'
    BY <1>1, StageFacts DEF Settle, SettleAs, Types, OneOwner
  <2>3. ShutdownSweeps'
    BY <1>1 DEF Settle, SettleAs, ShutdownSweeps
  <2> QED
    BY <2>1, <2>2, <2>3
<1>2. CASE Leave(r)
  <2>1. Types' /\ Registered'
    BY <1>2, StageFacts DEF Leave, LeaveTo, Types, Registered
  <2>2. OneOwner'
    BY <1>2, StageFacts, RequestsAssumption DEF Leave, LeaveTo, Types, OneOwner
  <2>3. ShutdownSweeps'
    BY <1>2 DEF Leave, LeaveTo, ShutdownSweeps
  <2> QED
    BY <2>1, <2>2, <2>3
<1>3. CASE Release(r)
  <2>1. Types' /\ Registered'
    BY <1>3, StageFacts DEF Release, Types, Registered
  <2>2. OneOwner'
    BY <1>3, StageFacts, RequestsAssumption DEF Release, Types, OneOwner
  <2>3. ShutdownSweeps'
    BY <1>3 DEF Release, ShutdownSweeps
  <2> QED
    BY <2>1, <2>2, <2>3
<1> QED
  BY <1>1, <1>2, <1>3

\* The cancelling threads: they set events and close the coordinator, and never
\* touch the slot, the active request or a registration.
LEMMA CancelStep ==
    ASSUME IInv, NEW c \in Cancellers, Cancel(c)
    PROVE  IInv'
<1> USE DEF IInv, callers, coordinator
<1>1. UNCHANGED <<stage, result, slot, active, cancellations>>
  BY DEF Cancel, CancelAll, Shutdown, FindOne, SetOne, CancelAdapter, Notify
<1>2. Registered' /\ OneOwner'
  BY <1>1 DEF Registered, OneOwner
<1>3. Types'
  BY <1>1 DEF Types, Cancel, CancelAll, Shutdown, FindOne, SetOne, CancelAdapter, Notify
<1>4. ShutdownSweeps'
  <2>1. CASE CancelAll(c)
    BY <2>1 DEF CancelAll, ShutdownSweeps
  <2>2. CASE Shutdown(c)
    BY <2>2 DEF Shutdown, ShutdownSweeps, Types
  <2>3. CASE \/ \E r \in Requests : FindOne(c, r)
             \/ SetOne(c) \/ CancelAdapter(c) \/ Notify(c)
    <3>1. cancelling[c] # "shut" /\ event \subseteq event' /\ closed' = closed
      BY <2>3 DEF FindOne, SetOne, CancelAdapter, Notify
    <3>2. \A d \in Cancellers \ {c} : cancelling'[d] = cancelling[d]
      BY <2>3 DEF FindOne, SetOne, CancelAdapter, Notify, Types
    <3> QED
      BY <1>1, <3>1, <3>2 DEF ShutdownSweeps
  <2> QED
    BY <2>1, <2>2, <2>3 DEF Cancel
<1> QED
  BY <1>2, <1>3, <1>4

\* Time, the connection and the frontend do not touch the coordinator.
LEMMA OutsideStep ==
    ASSUME IInv, UNCHANGED <<stage, result, coordinator, threads>>
    PROVE  IInv'
BY DEF IInv, Types, Registered, OneOwner, ShutdownSweeps, coordinator, threads

\* Ownership and registration hold at every step of every thread.
THEOREM Inductive == Spec => []IInv
<1>1. IInv /\ [Next]_vars => IInv'
  <2> SUFFICES ASSUME IInv, [Next]_vars
               PROVE  IInv'
    OBVIOUS
  <2>1. ASSUME NEW r \in Requests, Register(r) \/ Call(r)
        PROVE  IInv'
    BY <2>1, EnterStep, AdapterStep, LeaveStep DEF Call
  <2>2. ASSUME NEW c \in Cancellers, Cancel(c)
        PROVE  IInv'
    BY <2>2, CancelStep
  <2>3. ASSUME NEW r \in Requests, Frontend(r) \/ Answer(r) \/ ReadReply(r) \/ Expire(r)
        PROVE  IInv'
    <3>1. UNCHANGED <<stage, result, coordinator, threads>>
      BY <2>3 DEF Frontend, Interact, CancelInteraction, PromptExpires, Answer,
         ReadReply, Expire, callers
    <3> QED
      BY <3>1, OutsideStep
  <2>4. CASE CloseBackend \/ CloseFront \/ Disconnected \/ UNCHANGED vars
    <3>1. UNCHANGED <<stage, result, coordinator, threads>>
      BY <2>4 DEF CloseBackend, CloseFront, Disconnected, vars, callers
    <3> QED
      BY <3>1, OutsideStep
  <2> QED
    BY <2>1, <2>2, <2>3, <2>4 DEF Next
<1> QED
  BY InitIInv, <1>1, PTL DEF Spec

\* At most one interaction owns the interface, and every way out of _invoke
\* returns exactly what it took, for any number of requests.
THEOREM SingleOwner == Spec => []OneOwner
BY Inductive, PTL DEF IInv

\* After InteractionCoordinator.shutdown has swept the queue no registered
\* request is left uncancelled, for any number of requests and cancels.
THEOREM ShutdownIsComplete == Spec => []ShutdownSweeps
BY Inductive, PTL DEF IInv

\* The second look at the cancellation decides: a request cancelled before its
\* outcome is recorded is not reported as answered.
THEOREM CancellationWins == Spec => CancelledIsNotAnswered
<1> DEFINE Step == \A r \in Requests :
        r \in event /\ result[r] = "none" => result'[r] # "response"
<1>1. IInv /\ [Next]_vars => [Step]_vars
  <2> SUFFICES ASSUME IInv, Next, NEW q \in Requests, q \in event, result[q] = "none"
               PROVE  result'[q] # "response"
    BY DEF vars
  <2>1. ASSUME NEW r \in Requests, Settle(r)
        PROVE  result'[q] # "response"
    <3>1. result' = [result EXCEPT ![r] =
                        IF CancelReason(r) /\ got[r] # "error" THEN "cancelled" ELSE got[r]]
      BY <2>1 DEF Settle, SettleAs
    <3>2. CASE r = q
      BY <3>1, <3>2 DEF IInv, Types, CancelReason
    <3>3. CASE r # q
      BY <3>1, <3>3 DEF IInv, Types
    <3> QED
      BY <3>2, <3>3
  <2>2. ASSUME NEW r \in Requests, Register(r) \/ GiveUp(r) \/ Activate(r)
        PROVE  result'[q] # "response"
    BY <2>2 DEF Register, GiveUp, Activate, IInv, Types
  <2>3. ASSUME UNCHANGED result
        PROVE  result'[q] # "response"
    BY <2>3
  <2>4. ASSUME NEW r \in Requests,
               \/ AcquireSlot(r) \/ Ask(r) \/ OpenCall(r) \/ CheckCancelled(r)
               \/ SendRequest(r) \/ AwaitCancelled(r) \/ AwaitDeadline(r)
               \/ AwaitFuture(r) \/ TimeOut(r) \/ Unask(r) \/ Leave(r) \/ Release(r)
        PROVE  UNCHANGED result
    BY <2>4 DEF AcquireSlot, Ask, OpenCall, CheckCancelled, SendRequest,
       AwaitCancelled, AwaitDeadline, AwaitFuture, TimeOut, Unask, Leave, LeaveTo,
       Release
  <2>5. ASSUME NEW r \in Requests, Frontend(r) \/ Answer(r) \/ ReadReply(r) \/ Expire(r)
        PROVE  UNCHANGED result
    BY <2>5 DEF Frontend, Interact, CancelInteraction, PromptExpires, Answer,
       ReadReply, Expire, callers
  <2>6. ASSUME NEW c \in Cancellers, Cancel(c)
        PROVE  UNCHANGED result
    BY <2>6 DEF Cancel, CancelAll, Shutdown, FindOne, SetOne, CancelAdapter, Notify,
       callers
  <2>7. CloseBackend \/ CloseFront \/ Disconnected => UNCHANGED result
    BY DEF CloseBackend, CloseFront, Disconnected, callers
  <2> QED
    BY <2>1, <2>2, <2>3, <2>4, <2>5, <2>6, <2>7 DEF Next, Call
<1> QED
  BY Inductive, <1>1, PTL DEF Spec, CancelledIsNotAnswered
=============================================================================
