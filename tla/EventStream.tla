---------------------------- MODULE EventStream ----------------------------
(***************************************************************************)
(* How an event of one run reaches its watchers: RunRepository.CommitAsync *)
(* appends it to the log with the row it explains and, after the commit    *)
(* and outside the database gate, EventStore.PublishAsync calls the        *)
(* listeners it finds; RunService.WatchAsync subscribes a channel, reads   *)
(* the log, replays it and goes on with the channel, skipping what it has  *)
(* already given.                                                          *)
(*                                                                         *)
(* An event is its position in the log (its seq); the only content that    *)
(* matters is whether the run stops in it (StopsStream).  A writer is one  *)
(* task that moves the run: the engine, or a CancelAsync that closes it.   *)
(***************************************************************************)
EXTENDS Naturals, Sequences

CONSTANTS
  Writers,
  Watchers,
  MaxEvents   \* bound on the events of the run

ASSUME EventAssumption == MaxEvents \in Nat

VARIABLES
  log,        \* events in commit order; TRUE for one in which the run stops
  unpublished,\* the event each writer committed and still has to hand out: {} or {i}
  calls,      \* the listeners PublishAsync has copied and not called yet
  listeners,  \* EventStore._listeners
  wpc,        \* where each watcher is
  recorded,   \* how many events its ListForRunAsync returned
  live,       \* its channel
  delivered,  \* the ids it has given
  out         \* the events it has given, in order

vars == <<log, unpublished, calls, listeners, wpc, recorded, live, delivered, out>>

writing  == <<log, unpublished, calls>>
watching == <<wpc, recorded, delivered, out>>

Init ==
  /\ log = <<>>
  /\ unpublished = [p \in Writers |-> {}]
  /\ calls = [p \in Writers |-> {}]
  /\ listeners = {}
  /\ wpc = [w \in Watchers |-> "off"]
  /\ recorded = [w \in Watchers |-> 0]
  /\ live = [w \in Watchers |-> <<>>]
  /\ delivered = [w \in Watchers |-> {}]
  /\ out = [w \in Watchers |-> <<>>]

-----------------------------------------------------------------------------
(* RunRepository.CommitAsync and EventStore.PublishAsync *)

Stopped == \E i \in 1..Len(log) : log[i]

\* A writer awaits the publication of its event before it makes another.  A
\* lone writer is the engine, which records nothing after it has stopped.
Commit(p, stop) ==
  /\ unpublished[p] = {} /\ calls[p] = {}
  /\ Len(log) < MaxEvents
  /\ Writers = {p} => ~Stopped
  /\ log' = Append(log, stop)
  /\ unpublished' = [unpublished EXCEPT ![p] = {Len(log) + 1}]
  /\ UNCHANGED <<calls, listeners, live, watching>>

\* Mutant: a watcher becomes a listener only once it has replayed the log.
TargetsReplayed == {w \in listeners : wpc[w] = "live"}

Targets == listeners

\* The listeners are copied under the lock and called outside it.  Every copied
\* call names the event the writer holds.
CopyListeners(p) ==
  /\ \E i \in unpublished[p] : calls' = [calls EXCEPT ![p] = {<<w, i>> : w \in Targets}]
  /\ unpublished' = [unpublished EXCEPT ![p] = {}]
  /\ UNCHANGED <<log, listeners, live, watching>>

\* TryWrite on an unbounded channel never refuses.  A watcher that has gone
\* may still be called; nobody reads its channel.
CallListener(p, w) ==
  \E call \in calls[p] :
    /\ call[1] = w
    /\ calls' = [calls EXCEPT ![p] = @ \ {call}]
    /\ live' = [live EXCEPT ![w] = IF wpc[w] \in {"complete", "left"}
                                   THEN @ ELSE Append(@, call[2])]
    /\ UNCHANGED <<log, unpublished, listeners, watching>>

-----------------------------------------------------------------------------
(* RunService.WatchAsync *)

Subscribe(w) ==
  /\ wpc[w] = "off"
  /\ listeners' = listeners \cup {w}
  /\ wpc' = [wpc EXCEPT ![w] = "list"]
  /\ UNCHANGED <<writing, recorded, live, delivered, out>>

ListForRun(w) ==
  /\ wpc[w] = "list"
  /\ recorded' = [recorded EXCEPT ![w] = Len(log)]
  /\ wpc' = [wpc EXCEPT ![w] = "replay"]
  /\ UNCHANGED <<writing, listeners, live, delivered, out>>

\* Mutants: the end is read from the run's state and not from the event; the
\* stream goes on after the event in which the run stops.
YieldUntilStopped(w, i) ==
  /\ delivered' = [delivered EXCEPT ![w] = @ \cup {i}]
  /\ out' = [out EXCEPT ![w] = Append(@, i)]
  /\ IF Stopped
     THEN /\ wpc' = [wpc EXCEPT ![w] = "complete"]
          /\ listeners' = listeners \ {w}
     ELSE UNCHANGED <<wpc, listeners>>
YieldForever(w, i) ==
  /\ delivered' = [delivered EXCEPT ![w] = @ \cup {i}]
  /\ out' = [out EXCEPT ![w] = Append(@, i)]
  /\ UNCHANGED <<wpc, listeners>>

\* Yields event i; the enumerator ends, and the subscription with it, when
\* the run stops in it.
Yield(w, i) ==
  /\ delivered' = [delivered EXCEPT ![w] = @ \cup {i}]
  /\ out' = [out EXCEPT ![w] = Append(@, i)]
  /\ IF log[i]
     THEN /\ wpc' = [wpc EXCEPT ![w] = "complete"]
          /\ listeners' = listeners \ {w}
     ELSE UNCHANGED <<wpc, listeners>>

Replay(w) ==
  /\ wpc[w] = "replay"
  /\ Len(out[w]) < recorded[w]
  /\ Yield(w, Len(out[w]) + 1)
  /\ UNCHANGED <<writing, recorded, live>>

GoLive(w) ==
  /\ wpc[w] = "replay"
  /\ Len(out[w]) = recorded[w]
  /\ wpc' = [wpc EXCEPT ![w] = "live"]
  /\ UNCHANGED <<writing, listeners, recorded, live, delivered, out>>

\* Mutant: what was replayed is given again when it comes through the channel.
IsAlwaysNew(w, i) == w \in Watchers /\ i \in 1..Len(log)

IsNew(w, i) == i \notin delivered[w]

Receive(w) ==
  /\ wpc[w] = "live"
  /\ live[w] # <<>>
  /\ live' = [live EXCEPT ![w] = Tail(@)]
  /\ IF IsNew(w, Head(live[w]))
     THEN Yield(w, Head(live[w]))
     ELSE UNCHANGED <<listeners, wpc, delivered, out>>
  /\ UNCHANGED <<writing, recorded>>

\* Mutant: a watcher that left has no state of its own.
LeaveUnnamed(w) ==
  /\ wpc[w] \in {"list", "replay", "live"}
  /\ wpc' = [wpc EXCEPT ![w] = "gone"]
  /\ listeners' = listeners \ {w}
  /\ UNCHANGED <<writing, recorded, live, delivered, out>>

\* The view goes elsewhere and cancels its enumeration.
Leave(w) ==
  /\ wpc[w] \in {"list", "replay", "live"}
  /\ wpc' = [wpc EXCEPT ![w] = "left"]
  /\ listeners' = listeners \ {w}
  /\ UNCHANGED <<writing, recorded, live, delivered, out>>

WatcherStep(w) == ListForRun(w) \/ Replay(w) \/ GoLive(w) \/ Receive(w)

Publish(p) == CopyListeners(p) \/ \E w \in Watchers : CallListener(p, w)

Next ==
  \/ \E p \in Writers : Publish(p) \/ \E stop \in BOOLEAN : Commit(p, stop)
  \/ \E w \in Watchers : Subscribe(w) \/ WatcherStep(w) \/ Leave(w)

\* Publication is part of the writer's own call and listeners return at once;
\* a watcher that stays keeps reading.  Nothing promises another event.
Fairness ==
  /\ \A p \in Writers : WF_vars(Publish(p))
  /\ \A w \in Watchers : WF_vars(WatcherStep(w))

Spec == Init /\ [][Next]_vars /\ Fairness

-----------------------------------------------------------------------------
Events == 1..MaxEvents

TypeOK ==
  /\ log \in Seq(BOOLEAN) /\ Len(log) <= MaxEvents
  /\ unpublished \in [Writers -> SUBSET Events]
  /\ calls \in [Writers -> SUBSET (Watchers \X Events)]
  /\ listeners \in SUBSET Watchers
  /\ wpc \in [Watchers -> {"off", "list", "replay", "live", "complete", "left"}]
  /\ recorded \in [Watchers -> 0..MaxEvents]
  /\ live \in [Watchers -> Seq(Events)]
  /\ delivered \in [Watchers -> SUBSET Events]
  /\ out \in [Watchers -> Seq(Events)]

\* No event is given twice, although replay and channel overlap.
NoRepetition ==
  \A w \in Watchers : \A i, j \in 1..Len(out[w]) : out[w][i] = out[w][j] => i = j

\* Whoever reads the log first and the channel second misses nothing: every
\* event is given already, among those still to be replayed, in the channel,
\* or on its way through a publication.
NothingSlipsBetween ==
  \A w \in Watchers : wpc[w] \in {"replay", "live"} =>
    \A i \in 1..Len(log) :
      \/ i \in delivered[w]
      \/ i \in (Len(out[w]) + 1)..recorded[w] /\ wpc[w] = "replay"
      \/ \E k \in 1..Len(live[w]) : live[w][k] = i
      \/ \E p \in Writers : i \in unpublished[p] \/ <<w, i>> \in calls[p]

\* A stream that completed gave an event in which the run stops, last.
CompleteMeansStopped ==
  \A w \in Watchers : wpc[w] = "complete" =>
    out[w] # <<>> /\ log[out[w][Len(out[w])]]

\* A stream has every event on its way to it, and completes at the right one.
StreamIsWhole == TypeOK /\ NothingSlipsBetween /\ CompleteMeansStopped

\* A watcher that stays is told that the run stopped.
WatchersComplete ==
  \A w \in Watchers :
    (Stopped /\ wpc[w] \in {"list", "replay", "live"})
      ~> wpc[w] \in {"complete", "left"}

\* With one writer, the whole path from commit to yield implements the feed.
Feed == INSTANCE EventFeed
  WITH state <- [w \in Watchers |-> IF wpc[w] \in {"list", "replay", "live"}
                                    THEN "open" ELSE wpc[w]]
FeedSpec == Feed!Spec

\* RunService.WatchAsync: "Recorded events first, then live ones, with nothing
\* lost in between."
NothingLost ==
  \A w \in Watchers : \A k \in 1..Len(out[w]) :
    wpc[w] = "complete" => 1..out[w][k] \subseteq delivered[w]
=============================================================================
