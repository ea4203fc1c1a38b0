---------------------------- MODULE Interactions ----------------------------
(***************************************************************************)
(* One approval, choice or text prompt asked of the user across processes. *)
(*                                                                         *)
(* Backend: every thread that needs an answer calls InteractionCoordinator *)
(* (app/runtime/interactions.py), which serialises the requests on a slot; *)
(* the owner of the slot goes through RemoteInteractor                     *)
(* (app/rpc/remote_interactor.py) and RpcPeer.request                      *)
(* (infrastructure/rpc/peer.py) to the frontend.  Interrupts, stops and    *)
(* the shutdown cancel requests from other threads.                        *)
(*                                                                         *)
(* Frontend (app/rpc/client.py; reuleauxcoder-client/src/interactions.ts): *)
(* requests run on a worker pool and cancellations on the notification     *)
(* thread, so the two arrive in either order.                              *)
(*                                                                         *)
(* A step of the model is one critical section, or one read or send made   *)
(* outside a lock.  Request ids are unique, so a thread is its request.    *)
(***************************************************************************)
EXTENDS Naturals, Sequences, SequencesExt

CONSTANTS
    Requests,     \* the interaction requests, one calling thread each
    Timed,        \* the requests that have a deadline
    Reviews,      \* the requests that are reviews with documents
    Cancellers,   \* backend threads that cancel, one call each
    EarlyLimit,   \* early cancellations a side remembers (1024 in the code)
    None

ASSUME RequestsAssumption ==
    Timed \subseteq Requests /\ Reviews \subseteq Requests /\ None \notin Requests
ASSUME EarlyLimitAssumption == EarlyLimit \in Nat \ {0}

VARIABLES
    stage,          \* where each calling thread is
    result,         \* what InteractionCoordinator._invoke gave its caller
    got,            \* what the adapter returned to _invoke
    expired,        \* requests whose deadline has passed
    \* InteractionCoordinator
    slot, active, closed,
    cancellations,  \* registered requests
    event,          \* requests whose cancellation event is set
    \* the cancelling threads
    cancelling, target,
    \* RemoteInteractor
    remoteActive, remoteEvent, remoteCancelled, reviewRequest,
    \* RpcPeer of the backend, and the messages in flight
    peerClosed, pending, future, requestsOut, cancelsOut, replies,
    \* RuntimeClient
    front, prompts, frontCancelled

callers == <<stage, result, got, expired>>
coordinator == <<slot, active, closed, cancellations, event>>
threads == <<cancelling, target>>
remote == <<remoteActive, remoteEvent, remoteCancelled, reviewRequest>>
peer == <<peerClosed, pending, future>>
wire == <<requestsOut, cancelsOut, replies>>
client == <<front, prompts, frontCancelled>>
vars == <<callers, coordinator, threads, remote, peer, wire, client>>

\* The stages between setting the active request and leaving the adapter.
InAdapter == {"ask", "open", "check", "send", "await", "timeout", "unask", "back"}
Stages == {"new", "slot", "owner", "leave", "release", "done"} \union InAdapter
Outcomes == {"none", "response", "cancelled", "error"}

\* Type invariant of the callers, both sides of the connection and the wire.
TypeOK ==
    /\ stage \in [Requests -> Stages]
    /\ result \in [Requests -> Outcomes] /\ got \in [Requests -> Outcomes]
    /\ expired \subseteq Timed
    /\ {slot, active, reviewRequest} \subseteq Requests \union {None}
    /\ closed \in BOOLEAN /\ peerClosed \in BOOLEAN
    /\ cancellations \subseteq Requests /\ event \subseteq Requests
    /\ cancelling \in [Cancellers -> {"idle", "shut", "one", "oneActive",
                                      "adapter", "notify", "done"}]
    /\ target \in [Cancellers -> Requests \union {None}]
    /\ remoteActive \subseteq Requests /\ remoteEvent \subseteq Requests
    /\ remoteCancelled \in Seq(Requests) /\ frontCancelled \in Seq(Requests)
    /\ pending \subseteq Requests /\ future \in [Requests -> Outcomes]
    /\ requestsOut \subseteq Requests /\ cancelsOut \in [Requests -> Nat]
    /\ replies \in [Requests -> Outcomes]
    /\ front \in {"open", "closing", "closed"} /\ prompts \subseteq Requests

Init ==
    /\ stage = [r \in Requests |-> "new"]
    /\ result = [r \in Requests |-> "none"]
    /\ got = [r \in Requests |-> "none"]
    /\ expired = {}
    /\ slot = None /\ active = None /\ closed = FALSE
    /\ cancellations = {} /\ event = {}
    /\ cancelling = [c \in Cancellers |-> "idle"]
    /\ target = [c \in Cancellers |-> None]
    /\ remoteActive = {} /\ remoteEvent = {} /\ remoteCancelled = <<>>
    /\ reviewRequest = None
    /\ peerClosed = FALSE /\ pending = {}
    /\ future = [r \in Requests |-> "none"]
    /\ requestsOut = {} /\ cancelsOut = [r \in Requests |-> 0]
    /\ replies = [r \in Requests |-> "none"]
    /\ front = "open" /\ prompts = {} /\ frontCancelled = <<>>

-----------------------------------------------------------------------------
(* Early cancellations: insertion-ordered dicts that forget the oldest id. *)

Remembers(ids, r) == r \in ToSet(ids)

Remember(ids, r) ==
    IF Remembers(ids, r) THEN ids
    ELSE IF Len(ids) = EarlyLimit THEN Append(Tail(ids), r)
    ELSE Append(ids, r)

Forget(ids, r) == SelectSeq(ids, LAMBDA i : i # r)

-----------------------------------------------------------------------------
(* InteractionCoordinator._invoke, up to the adapter. *)

\* _cancel_reason
CancelReason(r) == r \in event \/ r \in expired

Goto(r, s) == stage' = [stage EXCEPT ![r] = s]

\* Mutant: _closed is not looked at when a request is registered.
RegisterAlways(r) ==
    /\ stage[r] = "new"
    /\ Goto(r, "slot")
    /\ cancellations' = cancellations \union {r}
    /\ UNCHANGED <<result, got, expired, slot, active, closed, event, threads, remote,
                   peer, wire, client>>

Register(r) ==
    /\ stage[r] = "new"
    /\ IF closed
       THEN /\ Goto(r, "done")
            /\ result' = [result EXCEPT ![r] = "cancelled"]
            /\ UNCHANGED cancellations
       ELSE /\ Goto(r, "slot")
            /\ cancellations' = cancellations \union {r}
            /\ UNCHANGED result
    /\ UNCHANGED <<got, expired, slot, active, closed, event, threads, remote,
                   peer, wire, client>>

GiveUp(r) ==
    /\ stage[r] = "slot"
    /\ CancelReason(r)
    /\ Goto(r, "leave")
    /\ result' = [result EXCEPT ![r] = "cancelled"]
    /\ UNCHANGED <<got, expired, coordinator, threads, remote, peer, wire, client>>

\* The reason was checked before the lock was tried, so it is no guard here.
AcquireSlot(r) ==
    /\ stage[r] = "slot"
    /\ slot = None
    /\ slot' = r
    /\ Goto(r, "owner")
    /\ UNCHANGED <<result, got, expired, active, closed, cancellations, event,
                   threads, remote, peer, wire, client>>

Activate(r) ==
    /\ stage[r] = "owner"
    /\ IF CancelReason(r)
       THEN /\ Goto(r, "leave")
            /\ result' = [result EXCEPT ![r] = "cancelled"]
            /\ UNCHANGED active
       ELSE /\ Goto(r, "ask")
            /\ active' = r
            /\ UNCHANGED result
    /\ UNCHANGED <<got, expired, slot, closed, cancellations, event, threads,
                   remote, peer, wire, client>>

-----------------------------------------------------------------------------
(* RemoteInteractor._ask and RpcPeer.request. *)

Ask(r) ==
    /\ stage[r] = "ask"
    /\ IF Remembers(remoteCancelled, r)
       THEN /\ Goto(r, "back")
            /\ got' = [got EXCEPT ![r] = "cancelled"]
            /\ remoteCancelled' = Forget(remoteCancelled, r)
            /\ UNCHANGED <<remoteActive, reviewRequest>>
       ELSE /\ Goto(r, "open")
            /\ remoteActive' = remoteActive \union {r}
            /\ reviewRequest' = IF r \in Reviews THEN r ELSE reviewRequest
            /\ UNCHANGED <<got, remoteCancelled>>
    /\ UNCHANGED <<result, expired, coordinator, threads, remoteEvent, peer, wire,
                   client>>

\* RpcPeer.request ends with outcome o and drops its future.
EndCall(r, o, s) ==
    /\ got' = [got EXCEPT ![r] = o]
    /\ pending' = pending \ {r}
    /\ future' = [future EXCEPT ![r] = "none"]
    /\ Goto(r, s)

OpenCall(r) ==
    /\ stage[r] = "open"
    /\ IF peerClosed
       THEN EndCall(r, "error", "unask")
       ELSE /\ pending' = pending \union {r}
            /\ Goto(r, "check")
            /\ UNCHANGED <<got, future>>
    /\ UNCHANGED <<result, expired, coordinator, threads, remote, peerClosed, wire,
                   client>>

CheckCancelled(r) ==
    /\ stage[r] = "check"
    /\ IF r \in remoteEvent
       THEN EndCall(r, "cancelled", "unask")
       ELSE Goto(r, "send") /\ UNCHANGED <<got, pending, future>>
    /\ UNCHANGED <<result, expired, coordinator, threads, remote, peerClosed, wire,
                   client>>

SendRequest(r) ==
    /\ stage[r] = "send"
    /\ IF peerClosed
       THEN EndCall(r, "error", "unask") /\ UNCHANGED requestsOut
       ELSE /\ requestsOut' = IF front = "open" THEN requestsOut \union {r} ELSE requestsOut
            /\ Goto(r, "await")
            /\ UNCHANGED <<got, pending, future>>
    /\ UNCHANGED <<result, expired, coordinator, threads, remote, peerClosed,
                   cancelsOut, replies, client>>

\* The loop polls the event, then the deadline, then waits for the future; a
\* later test may succeed although an earlier condition has become true since.
AwaitCancelled(r) ==
    /\ stage[r] = "await"
    /\ r \in remoteEvent
    /\ EndCall(r, "cancelled", "unask")
    /\ UNCHANGED <<result, expired, coordinator, threads, remote, peerClosed, wire,
                   client>>

AwaitDeadline(r) ==
    /\ stage[r] = "await"
    /\ r \in expired
    /\ EndCall(r, "cancelled", "timeout")
    /\ UNCHANGED <<result, expired, coordinator, threads, remote, peerClosed, wire,
                   client>>

AwaitFuture(r) ==
    /\ stage[r] = "await"
    /\ future[r] # "none"
    /\ EndCall(r, future[r], "unask")
    /\ UNCHANGED <<result, expired, coordinator, threads, remote, peerClosed, wire,
                   client>>

\* Mutant: the frontend is not told.
NotifyNobody(r) == UNCHANGED cancelsOut

\* interaction.cancel is sent if the peer is open, and reaches an open frontend.
NotifyCancel(r) ==
    cancelsOut' = IF peerClosed \/ front # "open" THEN cancelsOut
                  ELSE [cancelsOut EXCEPT ![r] = @ + 1]

\* RemoteInteractor.cancel from _ask's own deadline; it raises if the peer closes
\* between its test and the send.
TimeOut(r) ==
    /\ stage[r] = "timeout"
    /\ remoteEvent' = remoteEvent \union {r}
    /\ NotifyCancel(r)
    /\ \/ UNCHANGED got
       \/ peerClosed /\ got' = [got EXCEPT ![r] = "error"]
    /\ Goto(r, "unask")
    /\ UNCHANGED <<result, expired, coordinator, threads, remoteActive,
                   remoteCancelled, reviewRequest, peer, requestsOut, replies, client>>

\* The finally blocks of _ask and review.
Unask(r) ==
    /\ stage[r] = "unask"
    /\ remoteActive' = remoteActive \ {r}
    /\ remoteEvent' = remoteEvent \ {r}
    /\ reviewRequest' = IF r \in Reviews THEN None ELSE reviewRequest
    /\ Goto(r, "back")
    /\ UNCHANGED <<result, got, expired, coordinator, threads, remoteCancelled, peer,
                   wire, client>>

\* Mutant: the document reader does not look at the cancellation.
ReadableWhileActive(r) == reviewRequest = r /\ r \in remoteActive

\* RemoteInteractor.document answers for r.
Readable(r) == reviewRequest = r /\ r \in remoteActive \ remoteEvent

-----------------------------------------------------------------------------
(* InteractionCoordinator._invoke, after the adapter. *)

SettleAs(r, o) ==
    /\ stage[r] = "back"
    /\ result' = [result EXCEPT ![r] = o]
    /\ got' = [got EXCEPT ![r] = "none"]
    /\ Goto(r, "leave")
    /\ UNCHANGED <<expired, coordinator, threads, remote, peer, wire, client>>

\* Mutant: the adapter's answer is final.
SettleBlindly(r) == SettleAs(r, got[r])

\* An exception of the adapter skips the second look at the reason.
Settle(r) ==
    SettleAs(r, IF CancelReason(r) /\ got[r] # "error" THEN "cancelled" ELSE got[r])

\* The finally block of _invoke; the request's event goes with its entry.
LeaveTo(r, s) ==
    /\ stage[r] = "leave"
    /\ active' = IF active = r THEN None ELSE active
    /\ cancellations' = cancellations \ {r}
    /\ event' = event \ {r}
    /\ Goto(r, s)
    /\ UNCHANGED <<result, got, expired, slot, closed, threads, remote, peer, wire,
                   client>>

\* Mutant: the slot is released although it was never acquired.
LeaveAndRelease(r) == LeaveTo(r, "release")

Leave(r) == LeaveTo(r, IF slot = r THEN "release" ELSE "done")

Release(r) ==
    /\ stage[r] = "release"
    /\ slot' = None
    /\ Goto(r, "done")
    /\ UNCHANGED <<result, got, expired, active, closed, cancellations, event,
                   threads, remote, peer, wire, client>>

-----------------------------------------------------------------------------
(* InteractionCoordinator.cancel, cancel_all and shutdown. *)

\* Mutant: the adapter is cancelled also when no request is active.
CancelAllBlindly(c) ==
    /\ cancelling[c] \in {"idle", "shut"}
    /\ event' = event \union cancellations
    /\ target' = [target EXCEPT ![c] = active]
    /\ cancelling' = [cancelling EXCEPT ![c] = "adapter"]
    /\ UNCHANGED <<callers, slot, active, closed, cancellations, remote, peer, wire,
                   client>>

CancelAll(c) ==
    /\ cancelling[c] \in {"idle", "shut"}
    /\ event' = event \union cancellations
    /\ target' = [target EXCEPT ![c] = active]
    /\ cancelling' = [cancelling EXCEPT ![c] = IF active = None THEN "done" ELSE "adapter"]
    /\ UNCHANGED <<callers, slot, active, closed, cancellations, remote, peer, wire,
                   client>>

Shutdown(c) ==
    /\ cancelling[c] = "idle"
    /\ closed' = TRUE
    /\ cancelling' = [cancelling EXCEPT ![c] = IF closed THEN "done" ELSE "shut"]
    /\ UNCHANGED <<callers, slot, active, cancellations, event, target, remote, peer,
                   wire, client>>

\* cancel looks the request up under the lock and sets its event outside it,
\* when the request may have become active, or have returned.
FindOne(c, r) ==
    /\ cancelling[c] = "idle"
    /\ r \in cancellations
    /\ target' = [target EXCEPT ![c] = r]
    /\ cancelling' = [cancelling EXCEPT ![c] = IF active = r THEN "oneActive" ELSE "one"]
    /\ UNCHANGED <<callers, coordinator, remote, peer, wire, client>>

SetOne(c) ==
    /\ event' = event \union ({target[c]} \intersect cancellations)
    /\ \/ /\ cancelling[c] = "oneActive"
          /\ cancelling' = [cancelling EXCEPT ![c] = "adapter"]
          /\ UNCHANGED target
       \/ /\ cancelling[c] = "one"
          /\ cancelling' = [cancelling EXCEPT ![c] = "done"]
          /\ target' = [target EXCEPT ![c] = None]
    /\ UNCHANGED <<callers, slot, active, closed, cancellations, remote, peer, wire,
                   client>>

\* RemoteInteractor.cancel: the event of an active request, else a note.
CancelAdapter(c) ==
    /\ cancelling[c] = "adapter"
    /\ IF target[c] \in remoteActive
       THEN /\ remoteEvent' = remoteEvent \union {target[c]}
            /\ UNCHANGED remoteCancelled
       ELSE /\ remoteCancelled' = Remember(remoteCancelled, target[c])
            /\ UNCHANGED remoteEvent
    /\ cancelling' = [cancelling EXCEPT ![c] = "notify"]
    /\ UNCHANGED <<callers, coordinator, target, remoteActive, reviewRequest, peer,
                   wire, client>>

Notify(c) ==
    /\ cancelling[c] = "notify"
    /\ NotifyCancel(target[c])
    /\ cancelling' = [cancelling EXCEPT ![c] = "done"]
    /\ UNCHANGED <<callers, coordinator, target, remote, peer, requestsOut, replies,
                   client>>

-----------------------------------------------------------------------------
(* Time and the connection. *)

Expire(r) ==
    /\ r \in Timed \ expired
    /\ stage[r] \notin {"new", "done"}
    /\ expired' = expired \union {r}
    /\ UNCHANGED <<stage, result, got, coordinator, threads, remote, peer, wire, client>>

\* Mutant: calls in progress are not told.
CloseQuietly ==
    /\ ~peerClosed
    /\ peerClosed' = TRUE
    /\ replies' = [r \in Requests |-> "none"]
    /\ UNCHANGED <<callers, coordinator, threads, remote, pending, future, requestsOut,
                   cancelsOut, client>>

\* RpcPeer.close of the backend fails every pending future; replies that were
\* not read are lost.
CloseBackend ==
    /\ ~peerClosed
    /\ peerClosed' = TRUE
    /\ future' = [r \in Requests |->
            IF r \in pending /\ future[r] = "none" THEN "error" ELSE future[r]]
    /\ replies' = [r \in Requests |-> "none"]
    /\ UNCHANGED <<callers, coordinator, threads, remote, pending, requestsOut,
                   cancelsOut, client>>

\* RpcPeer.close of the frontend: what it has not handled is lost, and the early
\* cancellations it remembers no longer matter.  on_close then runs
\* RuntimeClient._disconnected.
CloseFront ==
    /\ front = "open"
    /\ front' = "closing"
    /\ requestsOut' = {} /\ cancelsOut' = [r \in Requests |-> 0]
    /\ frontCancelled' = <<>>
    /\ UNCHANGED <<callers, coordinator, threads, remote, peer, replies, prompts>>

Disconnected ==
    /\ front = "closing"
    /\ front' = "closed"
    /\ prompts' = {}
    /\ UNCHANGED <<callers, coordinator, threads, remote, peer, wire, frontCancelled>>

\* RpcPeer._read of the backend: a reply completes a future still pending.
ReadReply(r) ==
    /\ replies[r] # "none"
    /\ replies' = [replies EXCEPT ![r] = "none"]
    /\ future' = IF r \in pending /\ future[r] = "none"
                 THEN [future EXCEPT ![r] = replies[r]] ELSE future
    /\ UNCHANGED <<callers, coordinator, threads, remote, peerClosed, pending,
                   requestsOut, cancelsOut, client>>

-----------------------------------------------------------------------------
(* The frontend: RuntimeClient, and InteractionInbox of the TypeScript client. *)

\* RpcPeer._respond; nothing is sent, or read, once either side is closed.
Reply(r, o) ==
    replies' = IF front = "open" /\ ~peerClosed THEN [replies EXCEPT ![r] = o] ELSE replies

\* _interact on a worker thread
Interact(r) ==
    /\ r \in requestsOut
    /\ requestsOut' = requestsOut \ {r}
    /\ IF Remembers(frontCancelled, r)
       THEN /\ frontCancelled' = Forget(frontCancelled, r)
            /\ Reply(r, "cancelled")
            /\ UNCHANGED prompts
       ELSE /\ prompts' = prompts \union {r}
            /\ UNCHANGED <<frontCancelled, replies>>
    /\ UNCHANGED <<callers, coordinator, threads, remote, peer, cancelsOut, front>>

\* _cancel_interaction on the notification thread
CancelInteraction(r) ==
    /\ cancelsOut[r] > 0
    /\ cancelsOut' = [cancelsOut EXCEPT ![r] = @ - 1]
    /\ IF r \in prompts
       THEN /\ prompts' = prompts \ {r}
            /\ Reply(r, "cancelled")
            /\ UNCHANGED frontCancelled
       ELSE /\ frontCancelled' = Remember(frontCancelled, r)
            /\ UNCHANGED <<prompts, replies>>
    /\ UNCHANGED <<callers, coordinator, threads, remote, peer, requestsOut, front>>

\* The user answers, or the interface fails.
Answer(r) ==
    /\ r \in prompts
    /\ prompts' = prompts \ {r}
    /\ \E o \in {"response", "error"} : Reply(r, o)
    /\ UNCHANGED <<callers, coordinator, threads, remote, peer, requestsOut, cancelsOut,
                   front, frontCancelled>>

\* The prompt's own deadline, which starts when the request arrives.
PromptExpires(r) ==
    /\ r \in prompts \intersect expired
    /\ prompts' = prompts \ {r}
    /\ Reply(r, "cancelled")
    /\ UNCHANGED <<callers, coordinator, threads, remote, peer, requestsOut, cancelsOut,
                   front, frontCancelled>>

-----------------------------------------------------------------------------
Call(r) ==
    \/ GiveUp(r) \/ AcquireSlot(r) \/ Activate(r)
    \/ Ask(r) \/ OpenCall(r) \/ CheckCancelled(r) \/ SendRequest(r)
    \/ AwaitCancelled(r) \/ AwaitDeadline(r) \/ AwaitFuture(r) \/ TimeOut(r)
    \/ Unask(r) \/ Settle(r) \/ Leave(r) \/ Release(r)

Cancel(c) ==
    \/ CancelAll(c) \/ Shutdown(c) \/ (\E r \in Requests : FindOne(c, r))
    \/ SetOne(c) \/ CancelAdapter(c) \/ Notify(c)

Frontend(r) == Interact(r) \/ CancelInteraction(r) \/ PromptExpires(r)

Next ==
    \/ \E r \in Requests :
        Register(r) \/ Call(r) \/ Frontend(r) \/ Answer(r) \/ ReadReply(r) \/ Expire(r)
    \/ \E c \in Cancellers : Cancel(c)
    \/ CloseBackend \/ CloseFront \/ Disconnected

Spec == Init /\ [][Next]_vars

\* Threads that are inside a call run; a message in flight is handled; time
\* passes; the end of the connection reaches both sides.  No request has to be
\* made, nobody has to cancel, and above all the user never has to answer.
Fairness ==
    /\ \A r \in Requests :
        WF_vars(Call(r)) /\ WF_vars(Frontend(r)) /\ WF_vars(ReadReply(r)) /\ WF_vars(Expire(r))
    /\ \A c \in Cancellers : WF_vars(cancelling[c] # "idle" /\ Cancel(c))
    /\ WF_vars(peerClosed /\ CloseFront)
    /\ WF_vars(front # "open" /\ CloseBackend)
    /\ WF_vars(Disconnected)

FairSpec == Spec /\ Fairness

-----------------------------------------------------------------------------
(* Properties *)

\* "Ensure at most one foreground interaction owns an interface": a thread in
\* the adapter holds the slot and is the active request, and every way out of
\* _invoke (cancelled in the queue, cancelled at the slot, answered, failed)
\* gives back exactly what it took.
OneOwner ==
    /\ \A r \in Requests :
        /\ stage[r] \in InAdapter => active = r
        /\ active = r => slot = r /\ stage[r] \in InAdapter \union {"leave"}
        /\ stage[r] \in InAdapter \union {"owner", "release"} => slot = r
        /\ slot = r => stage[r] \in InAdapter \union {"owner", "leave", "release"}

\* Once the shutdown has swept the queue, every request still inside _invoke is
\* cancelled, so none can become active and no prompt is asked any more:
\* _closed is tested in the critical section that registers a request.
ShutdownSweeps ==
    (closed /\ \A c \in Cancellers : cancelling[c] # "shut") => cancellations \subseteq event

\* A request cancelled before its answer was accepted is never reported as
\* answered, whatever the frontend replies meanwhile.
CancelledIsNotAnswered ==
    [][\A r \in Requests :
        r \in event /\ result[r] = "none" => result'[r] # "response"]_vars

\* "Read the active proposal only": review documents are served only for the
\* review that owns the interface, and never again once its cancellation has
\* reached the adapter.
CancelEndsDocuments ==
    \A r \in Requests : Readable(r) =>
        /\ active = r
        /\ \A c \in Cancellers : target[c] = r => cancelling[c] \notin {"notify", "done"}

\* "Let backend cancellation settle without a frontend reply": a request that
\* cancel_all found queued or active returns to its caller, and so does every
\* request in progress when the connection ends.
CancelledReturns ==
    \A r \in Requests :
        (\/ \E c \in Cancellers : cancelling[c] = "adapter" /\ target[c] = r
         \/ r \in event /\ stage[r] \in {"slot", "owner"}
         \/ front # "open" /\ stage[r] # "new") ~> (stage[r] = "done")

\* No orphan prompt: once a request has returned to its caller its prompt is
\* gone for good, also when the cancellation overtook the request on the way to
\* the frontend.
PromptCloses ==
    \A r \in Requests : (stage[r] = "done") ~> [](r \notin prompts)
=============================================================================
