----------------------------- MODULE EventFeed -----------------------------
(***************************************************************************)
(* What IRunService.WatchAsync promises: a watcher that attaches at any    *)
(* time is given the events of the run one by one, in the order they were  *)
(* recorded, without a gap or a repetition, and is told the stream is over *)
(* right after the event in which the run stops.                           *)
(***************************************************************************)
EXTENDS Naturals, Sequences

CONSTANTS Watchers

VARIABLES
  log,        \* the recorded events; TRUE for one in which the run stops
  out,        \* the positions in log each watcher was given
  state       \* each watcher's stream: "off", "open", "complete" or "left"

vars == <<log, out, state>>

Init ==
  /\ log = <<>>
  /\ out = [w \in Watchers |-> <<>>]
  /\ state = [w \in Watchers |-> "off"]

Record ==
  /\ \E stop \in BOOLEAN : log' = Append(log, stop)
  /\ UNCHANGED <<out, state>>

Open(w) ==
  /\ state[w] = "off"
  /\ state' = [state EXCEPT ![w] = "open"]
  /\ UNCHANGED <<log, out>>

\* The next event, and the end of the stream when the run stops in it.
Give(w) ==
  LET n == Len(out[w]) + 1 IN
  /\ state[w] = "open"
  /\ n <= Len(log)
  /\ out' = [out EXCEPT ![w] = Append(@, n)]
  /\ state' = [state EXCEPT ![w] = IF log[n] THEN "complete" ELSE "open"]
  /\ UNCHANGED log

Leave(w) ==
  /\ state[w] = "open"
  /\ state' = [state EXCEPT ![w] = "left"]
  /\ UNCHANGED <<log, out>>

Next == Record \/ \E w \in Watchers : Open(w) \/ Give(w) \/ Leave(w)

\* A watcher that stays is given every recorded event.
Spec == Init /\ [][Next]_vars /\ \A w \in Watchers : WF_vars(Give(w))
=============================================================================
