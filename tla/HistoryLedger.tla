---------------------------- MODULE HistoryLedger ----------------------------
(***************************************************************************)
(* HistoryLedger (domain/history.py), the append-only events.jsonl it      *)
(* writes, and what SessionStore reads back after a restart.               *)
(*                                                                         *)
(* An event is its uuid and its sequence number.  The file is the sequence *)
(* of its lines; a line that no longer decodes is Unreadable.  eol says    *)
(* whether the file ends with a newline: a write that stopped early leaves *)
(* a last line without one, and whatever is written next joins that line.  *)
(* The ledger lock makes every public operation one step.                  *)
(***************************************************************************)
EXTENDS Naturals, Sequences, FiniteSets

CONSTANTS
  MaxEvents,    \* bound on the events created in one behaviour
  MaxFailures,  \* bound on writes that raise while the process lives on
  MaxRestarts   \* bound on process deaths

ASSUME BoundsAreNat ==
  MaxEvents \in Nat /\ MaxFailures \in Nat /\ MaxRestarts \in Nat

VARIABLES
  up,         \* the process is running
  bound,      \* _sink_path is set
  nextSeq,    \* _next_seq
  events,     \* _events: the events held in memory
  pending,    \* _pending_sink_events: a batch whose write raised stays here
  unbound,    \* _unbound_events: appended while no sink was bound
  file,       \* the lines of events.jsonl
  eol,        \* the file is empty or ends with a newline
  manifest,   \* event_count and last_event_seq of the newest manifest.json
  acked,      \* events whose bound append returned to its caller, except those
              \* written behind a tail that a raising write tore (history)
  ids,        \* uuids used so far
  failures,   \* writes that raised so far
  restarts    \* deaths so far

vars == <<up, bound, nextSeq, events, pending, unbound, file, eol, manifest,
          acked, ids, failures, restarts>>

Event == [id : Nat, seq : Nat]

Unreadable == [id |-> 0, seq |-> 0]

\* The n-th event created from here on.
Fresh(n) == [id |-> ids + n, seq |-> nextSeq + n - 1]

-----------------------------------------------------------------------------
(* The file.                                                               *)

\* How the piece after the last complete record ends: nothing was written, a
\* fragment, or a whole record that lacks only its newline.
Tails == {"none", "fragment", "noNewline"}

\* Events es reach a file with lines f: the first k completely, then a tail.
Lines(f, atEol, es, k, tail) ==
  LET joined == IF ~atEol /\ (k > 0 \/ tail # "none")
                  THEN [f EXCEPT ![Len(f)] = Unreadable] ELSE f
      whole  == SubSeq(es, IF atEol THEN 1 ELSE 2, k)
      rest   == IF tail = "none" \/ (~atEol /\ k = 0) THEN <<>>
                ELSE <<IF tail = "noNewline" THEN es[k + 1] ELSE Unreadable>>
  IN  joined \o whole \o rest

EndsLine(atEol, k, tail) == IF tail # "none" THEN FALSE ELSE atEol \/ k > 0

Written(es, atEol, k, tail) ==
  /\ file' = Lines(file, atEol, es, k, tail)
  /\ eol' = EndsLine(atEol, k, tail)

WrittenAll(es, atEol) == Written(es, atEol, Len(es), "none")

\* Any part of es may have reached the file when a write stops early; an
\* fsync that raises leaves all of it there.
WrittenPart(es, atEol) ==
  \E k \in 0 .. Len(es), tail \in Tails :
    (tail # "none" => k < Len(es)) /\ Written(es, atEol, k, tail)

\* _load_history_events keeps the lines that decode and follow their
\* predecessors in sequence.
Kept(f) ==
  LET Keep[i \in 0 .. Len(f)] ==
        IF i = 0 THEN <<>>
        ELSE LET before == Keep[i - 1]
             IN  IF /\ f[i] # Unreadable
                    /\ before = <<>> \/ before[Len(before)].seq < f[i].seq
                   THEN Append(before, f[i]) ELSE before
  IN  Keep[Len(f)]

KeptSet(f) == {Kept(f)[i] : i \in 1 .. Len(Kept(f))}

\* What a restart knows of used sequence numbers.
FloorFacts ==
  {manifest.last, Len(file)} \cup {file[i].seq : i \in 1 .. Len(file)}

\* Mutant: the floor is the number of lines.
IsFloorLineCount(n) == n = Len(file)

\* The floor a restart takes: the largest of the manifest's last sequence, any
\* decoded sequence and the number of physical lines.
IsFloor(n) == \A m \in FloorFacts : m <= n

\* Restoring from the file and the manifest is degraded: some line was not
\* kept, or the manifest promises more than the file holds.
Degraded ==
  \/ Len(Kept(file)) < Len(file)
  \/ manifest.count > Len(Kept(file))
  \/ manifest.last > 0 /\ \A e \in KeptSet(file) : e.seq < manifest.last

-----------------------------------------------------------------------------

Init ==
  /\ up = TRUE /\ bound = FALSE /\ nextSeq = 1 /\ events = {}
  /\ pending = <<>> /\ unbound = <<>> /\ file = <<>> /\ eol = TRUE
  /\ manifest = [count |-> 0, last |-> 0]
  /\ acked = {} /\ ids = 0 /\ failures = 0 /\ restarts = 0

\* The events es are created and added to memory.
Create(es) ==
  /\ up /\ ids + Len(es) <= MaxEvents
  /\ nextSeq' = nextSeq + Len(es)
  /\ ids' = ids + Len(es)
  /\ events' = events \cup {es[i] : i \in 1 .. Len(es)}

\* append or append_message before a sink is bound.
AppendUnbound(es) ==
  /\ ~bound /\ Create(es)
  /\ unbound' = unbound \o es
  /\ UNCHANGED <<up, bound, pending, file, eol, manifest, acked, failures,
                 restarts>>

\* The append of es returns.
Acknowledge(es) ==
  acked' = IF eol THEN acked \cup {es[i] : i \in 1 .. Len(es)} ELSE acked

\* append: one event, written at once.
Append1 ==
  LET es == <<Fresh(1)>>
  IN  /\ bound /\ Create(es)
      /\ \/ WrittenAll(es, eol) /\ Acknowledge(es) /\ UNCHANGED failures
         \/ /\ failures < MaxFailures /\ failures' = failures + 1
            /\ WrittenPart(es, eol) /\ UNCHANGED acked
      /\ UNCHANGED <<up, bound, pending, unbound, manifest, restarts>>

\* append_message and append_context_view: a batch of one event or of two,
\* written together with what an earlier failed batch left behind.
AppendBatch ==
  \E n \in {1, 2} :
    LET es == [i \in 1 .. n |-> Fresh(i)]
        out == pending \o es
    IN  /\ bound /\ Create(es)
        /\ \/ /\ WrittenAll(out, eol) /\ pending' = <<>>
              /\ Acknowledge(es) /\ UNCHANGED failures
           \/ /\ failures < MaxFailures /\ failures' = failures + 1
              /\ WrittenPart(out, eol) /\ pending' = out
              /\ UNCHANGED acked
        /\ UNCHANGED <<up, bound, unbound, manifest, restarts>>

\* Mutant: bind_jsonl does not end a torn last line.
BindJsonlKeepsTear ==
  /\ up
  /\ WrittenAll(unbound, eol)
  /\ bound' = TRUE /\ unbound' = <<>>
  /\ acked' = acked \cup {unbound[i] : i \in 1 .. Len(unbound)}
  /\ UNCHANGED <<up, nextSeq, events, pending, manifest, ids, failures, restarts>>

\* bind_jsonl: end a torn last line, then write what was appended unbound.  A
\* raise restores the previous sink and keeps the unbound events for a retry.
BindJsonl ==
  /\ up
  /\ \/ /\ WrittenAll(unbound, TRUE)
        /\ bound' = TRUE /\ unbound' = <<>>
        /\ acked' = acked \cup {unbound[i] : i \in 1 .. Len(unbound)}
        /\ UNCHANGED failures
     \/ /\ unbound # <<>> /\ WrittenPart(unbound, TRUE)
        /\ failures < MaxFailures /\ failures' = failures + 1
        /\ UNCHANGED <<bound, unbound, acked>>
  /\ UNCHANGED <<up, nextSeq, events, pending, manifest, ids, restarts>>

\* unbind_jsonl: what a failed batch left behind is dropped.
UnbindJsonl ==
  /\ up /\ bound
  /\ bound' = FALSE /\ pending' = <<>>
  /\ UNCHANGED <<up, nextSeq, events, unbound, file, eol, manifest, acked, ids,
                 failures, restarts>>

\* Mutant: the manifest promises the next sequence number.
SaveManifestNext ==
  /\ up /\ bound
  /\ manifest' = [count |-> Cardinality(events), last |-> nextSeq]
  /\ UNCHANGED <<up, bound, nextSeq, events, pending, unbound, file, eol, acked,
                 ids, failures, restarts>>

\* The manifest of a live snapshot describes the ledger in memory.
SaveManifest ==
  /\ up /\ bound
  /\ manifest' = [count |-> Cardinality(events), last |-> nextSeq - 1]
  /\ UNCHANGED <<up, bound, nextSeq, events, pending, unbound, file, eol, acked,
                 ids, failures, restarts>>

\* The process dies: between operations, inside the write of new events, or
\* inside bind_jsonl.
Crash ==
  /\ up /\ restarts < MaxRestarts
  /\ up' = FALSE /\ restarts' = restarts + 1
  /\ \/ UNCHANGED <<file, eol, ids>>
     \/ \E n \in {1, 2}, before \in {<<>>, pending} :
          /\ bound /\ ids + n <= MaxEvents
          /\ ids' = ids + n
          /\ WrittenPart(before \o [i \in 1 .. n |-> Fresh(i)], eol)
     \/ ~bound /\ WrittenPart(unbound, TRUE) /\ UNCHANGED ids
  /\ UNCHANGED <<bound, nextSeq, events, pending, unbound, manifest, acked,
                 failures>>

\* Mutant: a restored ledger numbers on from the count of its events.
RestartCountsEvents ==
  /\ ~up
  /\ nextSeq' = Cardinality(KeptSet(file)) + 1
  /\ up' = TRUE /\ bound' = FALSE
  /\ events' = KeptSet(file)
  /\ pending' = <<>> /\ unbound' = <<>>
  /\ UNCHANGED <<file, eol, manifest, acked, ids, failures, restarts>>

\* SessionStore.load and Agent.restore_history_runtime: a new, unbound ledger
\* over the kept events; BindJsonl follows.
Restart ==
  /\ ~up
  /\ \E n \in FloorFacts : IsFloor(n) /\ nextSeq' = n + 1
  /\ up' = TRUE /\ bound' = FALSE
  /\ events' = KeptSet(file)
  /\ pending' = <<>> /\ unbound' = <<>>
  /\ UNCHANGED <<file, eol, manifest, acked, ids, failures, restarts>>

Next ==
  \/ \E n \in {1, 2} : AppendUnbound([i \in 1 .. n |-> Fresh(i)])
  \/ Append1 \/ AppendBatch \/ BindJsonl \/ UnbindJsonl \/ SaveManifest
  \/ Crash \/ Restart

Spec == Init /\ [][Next]_vars

-----------------------------------------------------------------------------
(* Properties.                                                             *)

\* Type invariant: an unterminated file has a last line, and the ledger in
\* memory is numbered below _next_seq, restored events included.
TypeOK ==
  /\ up \in BOOLEAN /\ bound \in BOOLEAN /\ eol \in BOOLEAN
  /\ nextSeq \in Nat \ {0} /\ ids \in Nat /\ failures \in Nat /\ restarts \in Nat
  /\ events \subseteq Event /\ acked \subseteq Event
  /\ pending \in Seq(Event) /\ unbound \in Seq(Event) /\ file \in Seq(Event)
  /\ manifest \in [count : Nat, last : Nat]
  /\ ~eol => file # <<>>
  /\ \A e \in events : e.seq < nextSeq

\* Two different events never carry the same sequence number in one ledger
\* file, whatever appends failed and however often the process died: the floor
\* that _load_history_events computes and HistoryLedger.__init__ applies is
\* above everything the file still shows.
SequenceNeverReused ==
  \A i, j \in 1 .. Len(file) :
    file[i] # Unreadable /\ file[i].seq = file[j].seq => file[i] = file[j]

\* An event whose append returned is kept by every later load: the fsync in
\* _write_sink_events precedes the return, bind_jsonl separates a torn tail
\* before the next record, and a retried batch never displaces a newer event.
\* Excepted is what follows a write that raised half way in the same process:
\* _write_sink_events does not separate that tail, and the record joins it.
AcknowledgedSurvives == acked \subseteq KeptSet(file)

\* Deaths between writes never degrade a restore: as long as every line was
\* written whole and no write raised, the manifest promises no event that the
\* file lacks (events reach the file before the manifest that counts them).
CleanCrashIsNotDegraded ==
  (failures = 0 /\ \A i \in 1 .. Len(file) : file[i] # Unreadable) => ~Degraded

=============================================================================
