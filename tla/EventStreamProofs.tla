-------------------------- MODULE EventStreamProofs --------------------------
(***************************************************************************)
(* What a stream gives for any number of writers, watchers and events, and, *)
(* with the engine as the only writer, that it implements the feed.         *)
(***************************************************************************)
EXTENDS EventStream, SequenceTheorems, TLAPS

Open == {"list", "replay", "live"}
Recorded == 1..Len(log)

(* TypeOK, with every event that is on its way one of the log.              *)
TypeInv ==
  /\ log \in Seq(BOOLEAN) /\ Len(log) <= MaxEvents
  /\ unpublished \in [Writers -> SUBSET Recorded]
  /\ calls \in [Writers -> SUBSET (Watchers \X Recorded)]
  /\ listeners \in SUBSET Watchers
  /\ wpc \in [Watchers -> {"off", "list", "replay", "live", "complete", "left"}]
  /\ recorded \in [Watchers -> 0..Len(log)]
  /\ live \in [Watchers -> Seq(Recorded)]
  /\ delivered \in [Watchers -> SUBSET Recorded]
  /\ out \in [Watchers -> Seq(Recorded)]

(* What a watcher has given is what it remembers; while it replays it has      *)
(* given the first events of the log, and it is a listener while it is open. *)
WatchInv ==
  /\ \A w \in Watchers : w \in listeners <=> wpc[w] \in Open
  /\ \A w \in Watchers : \A i \in Recorded :
       i \in delivered[w] <=> \E k \in 1..Len(out[w]) : out[w][k] = i
  /\ \A w \in Watchers : wpc[w] \in {"off", "list"} => Len(out[w]) = 0
  /\ \A w \in Watchers : wpc[w] = "replay" =>
       /\ Len(out[w]) <= recorded[w]
       /\ \A k \in 1..Len(out[w]) : out[w][k] = k
  /\ NoRepetition

(* A writer hands out one event at a time.                                  *)
OneAtATime ==
  \A p \in Writers :
    /\ \A i, j \in unpublished[p] : i = j
    /\ unpublished[p] # {} => calls[p] = {}

WholeInv == OneAtATime /\ NothingSlipsBetween /\ CompleteMeansStopped

(* With one writer the event on its way is the newest, and channels are in     *)
(* order: what a watcher gives is the log from its start.                   *)
OrderInv ==
  /\ \A p \in Writers : \A i \in unpublished[p] : i = Len(log)
  /\ \A p \in Writers : \A call \in calls[p] : call[2] = Len(log)
  /\ \A w \in Watchers : \A k, l \in 1..Len(live[w]) : k < l => live[w][k] < live[w][l]
  /\ \A w \in Watchers, p \in Writers : unpublished[p] # {} \/ (\E call \in calls[p] : call[1] = w) =>
       \A k \in 1..Len(live[w]) : live[w][k] < Len(log)
  /\ \A w \in Watchers : \A k \in 1..Len(out[w]) : out[w][k] = k

LEMMA TypeInvIsType == TypeInv => TypeOK
<1> SUFFICES ASSUME TypeInv PROVE TypeOK
  OBVIOUS
<1>1. Len(log) \in Nat /\ Recorded \subseteq Events
  BY EventAssumption DEF TypeInv, Recorded, Events
<1>2. \A S : S \in SUBSET Recorded => S \in SUBSET Events
  BY <1>1
<1>3. \A s : s \in Seq(Recorded) => s \in Seq(Events)
  BY <1>1
<1>4. \A S : S \in SUBSET (Watchers \X Recorded) => S \in SUBSET (Watchers \X Events)
  BY <1>1
<1>5. 0..Len(log) \subseteq 0..MaxEvents
  BY <1>1, EventAssumption DEF TypeInv
<1> QED  BY <1>1, <1>2, <1>3, <1>4, <1>5 DEF TypeInv, TypeOK

LEMMA AppendIs ==
  ASSUME NEW S, NEW q \in Seq(S), NEW x \in S
  PROVE  /\ Append(q, x) \in Seq(S) /\ Len(q) \in Nat /\ Len(Append(q, x)) = Len(q) + 1
         /\ Append(q, x)[Len(q) + 1] = x
         /\ \A i \in 1..Len(q) : Append(q, x)[i] = q[i]
OBVIOUS

LEMMA TailIs ==
  ASSUME NEW S, NEW q \in Seq(S), q # <<>>
  PROVE  /\ Len(q) \in Nat \ {0} /\ Head(q) = q[1] /\ q[1] \in S
         /\ Tail(q) \in Seq(S) /\ Len(Tail(q)) = Len(q) - 1
         /\ \A i \in 1..(Len(q) - 1) : Tail(q)[i] = q[i + 1]
OBVIOUS

(* A watcher gives one event.                                               *)
LEMMA YieldIs ==
  ASSUME TypeInv, NEW w \in Watchers, NEW i \in Recorded, Yield(w, i), UNCHANGED log
  PROVE  /\ out' \in [Watchers -> Seq(Recorded)]
         /\ \A v \in Watchers : v # w => out'[v] = out[v] /\ delivered'[v] = delivered[v]
                                         /\ wpc'[v] = wpc[v] /\ (v \in listeners' <=> v \in listeners)
         /\ Len(out[w]) \in Nat /\ Len(out'[w]) = Len(out[w]) + 1
         /\ out'[w][Len(out[w]) + 1] = i
         /\ \A k \in 1..Len(out[w]) : out'[w][k] = out[w][k]
         /\ delivered' \in [Watchers -> SUBSET Recorded] /\ delivered'[w] = delivered[w] \cup {i}
         /\ listeners' \subseteq Watchers
         /\ log[i] => wpc' = [wpc EXCEPT ![w] = "complete"] /\ w \notin listeners'
         /\ ~log[i] => UNCHANGED <<wpc, listeners>>
<1>1. out[w] \in Seq(Recorded)
  BY DEF TypeInv
<1>2. /\ Append(out[w], i) \in Seq(Recorded) /\ Len(out[w]) \in Nat
      /\ Len(Append(out[w], i)) = Len(out[w]) + 1 /\ Append(out[w], i)[Len(out[w]) + 1] = i
      /\ \A k \in 1..Len(out[w]) : Append(out[w], i)[k] = out[w][k]
  BY <1>1, AppendIs
<1>3. out' = [out EXCEPT ![w] = Append(out[w], i)] /\ delivered' = [delivered EXCEPT ![w] = delivered[w] \cup {i}]
  BY DEF Yield
<1>4. out' \in [Watchers -> Seq(Recorded)] /\ out'[w] = Append(out[w], i)
      /\ \A v \in Watchers : v # w => out'[v] = out[v]
  BY <1>2, <1>3 DEF TypeInv
<1>5. delivered' \in [Watchers -> SUBSET Recorded] /\ delivered'[w] = delivered[w] \cup {i}
      /\ \A v \in Watchers : v # w => delivered'[v] = delivered[v]
  BY <1>3 DEF TypeInv
<1>6. /\ listeners' \subseteq Watchers
      /\ \A v \in Watchers : v # w => wpc'[v] = wpc[v] /\ (v \in listeners' <=> v \in listeners)
      /\ log[i] => wpc' = [wpc EXCEPT ![w] = "complete"] /\ w \notin listeners'
      /\ ~log[i] => UNCHANGED <<wpc, listeners>>
  BY DEF Yield, TypeInv
<1> QED  BY <1>2, <1>4, <1>5, <1>6

LEMMA TypeInit == Init => TypeInv
BY EventAssumption DEF Init, TypeInv, Recorded

LEMMA TypeStep == TypeInv /\ [Next]_vars => TypeInv'
<1> SUFFICES ASSUME TypeInv, [Next]_vars PROVE TypeInv'
  OBVIOUS
<1> USE DEF writing, watching
<1>1. ASSUME NEW p \in Writers, NEW stop \in BOOLEAN, Commit(p, stop) PROVE TypeInv'
  <2>1. /\ log' \in Seq(BOOLEAN) /\ Len(log') = Len(log) + 1 /\ Len(log) \in Nat
    BY <1>1, AppendIs DEF Commit, TypeInv
  <2>2. Recorded \subseteq Recorded' /\ Len(log) + 1 \in Recorded' /\ 0..Len(log) \subseteq 0..Len(log')
    BY <2>1 DEF Recorded
  <2>3. Len(log') <= MaxEvents
    BY <1>1, <2>1, EventAssumption DEF Commit
  <2>4. \A s : s \in Seq(Recorded) => s \in Seq(Recorded')
    BY <2>2
  <2>5. live' \in [Watchers -> Seq(Recorded')] /\ out' \in [Watchers -> Seq(Recorded')]
    BY <1>1, <2>4 DEF Commit, TypeInv
  <2>6. unpublished' \in [Writers -> SUBSET Recorded']
    BY <1>1, <2>2 DEF Commit, TypeInv
  <2>7. calls' \in [Writers -> SUBSET (Watchers \X Recorded')]
        /\ delivered' \in [Watchers -> SUBSET Recorded']
        /\ recorded' \in [Watchers -> 0..Len(log')]
    BY <1>1, <2>2 DEF Commit, TypeInv
  <2> QED  BY <1>1, <2>1, <2>3, <2>5, <2>6, <2>7 DEF Commit, TypeInv
<1>2. ASSUME NEW p \in Writers, CopyListeners(p) PROVE TypeInv'
  <2>1. PICK i \in unpublished[p] : calls' = [calls EXCEPT ![p] = {<<w, i>> : w \in Targets}]
    BY <1>2 DEF CopyListeners
  <2>2. i \in Recorded
    BY <2>1 DEF TypeInv
  <2>3. {<<w, i>> : w \in Targets} \in SUBSET (Watchers \X Recorded)
    BY <2>2 DEF Targets, TypeInv
  <2>4. calls' \in [Writers -> SUBSET (Watchers \X Recorded)]
    BY <2>1, <2>3 DEF TypeInv
  <2>5. unpublished' \in [Writers -> SUBSET Recorded]
    BY <1>2 DEF CopyListeners, TypeInv
  <2> QED  BY <1>2, <2>4, <2>5 DEF CopyListeners, TypeInv, Recorded
<1>3. ASSUME NEW p \in Writers, NEW w \in Watchers, CallListener(p, w) PROVE TypeInv'
  <2>1. PICK call \in calls[p] :
          /\ call[1] = w /\ calls' = [calls EXCEPT ![p] = calls[p] \ {call}]
          /\ live' = [live EXCEPT ![w] = IF wpc[w] \in {"complete", "left"}
                                         THEN live[w] ELSE Append(live[w], call[2])]
    BY <1>3 DEF CallListener
  <2>2. call[2] \in Recorded
    BY <2>1 DEF TypeInv
  <2>3. Append(live[w], call[2]) \in Seq(Recorded)
    BY <2>2, AppendIs DEF TypeInv
  <2>4. live' \in [Watchers -> Seq(Recorded)] /\ calls' \in [Writers -> SUBSET (Watchers \X Recorded)]
    BY <2>1, <2>3 DEF TypeInv
  <2> QED  BY <1>3, <2>4 DEF CallListener, TypeInv, Recorded
<1>4. ASSUME NEW w \in Watchers, Subscribe(w) \/ GoLive(w) \/ Leave(w) PROVE TypeInv'
  BY <1>4 DEF Subscribe, GoLive, Leave, TypeInv, Recorded
<1>5. ASSUME NEW w \in Watchers, ListForRun(w) PROVE TypeInv'
  <2>1. Len(log) \in 0..Len(log)
    BY DEF TypeInv
  <2> QED  BY <1>5, <2>1 DEF ListForRun, TypeInv, Recorded
<1>6. ASSUME NEW w \in Watchers, NEW i \in Recorded, Yield(w, i), UNCHANGED writing,
             UNCHANGED recorded, live' \in [Watchers -> Seq(Recorded)]
      PROVE  TypeInv'
  <2>1. /\ out' \in [Watchers -> Seq(Recorded)] /\ delivered' \in [Watchers -> SUBSET Recorded]
        /\ listeners' \subseteq Watchers
        /\ wpc' \in [Watchers -> {"off", "list", "replay", "live", "complete", "left"}]
    BY <1>6, YieldIs DEF TypeInv
  <2> QED  BY <1>6, <2>1 DEF TypeInv, Recorded
<1>7. ASSUME NEW w \in Watchers, Replay(w) PROVE TypeInv'
  <2>1. Len(out[w]) + 1 \in Recorded
    <3>1. Len(out[w]) \in Nat /\ recorded[w] \in 0..Len(log) /\ Len(log) \in Nat
      BY DEF TypeInv
    <3> QED  BY <1>7, <3>1 DEF Replay, Recorded
  <2> QED  BY <1>6, <1>7, <2>1 DEF Replay, TypeInv
<1>8. ASSUME NEW w \in Watchers, Receive(w) PROVE TypeInv'
  <2>1. Head(live[w]) \in Recorded /\ Tail(live[w]) \in Seq(Recorded)
    BY <1>8, TailIs DEF Receive, TypeInv
  <2>2. live' \in [Watchers -> Seq(Recorded)]
    BY <1>8, <2>1 DEF Receive, TypeInv
  <2>3. CASE UNCHANGED <<listeners, wpc, delivered, out>>
    BY <1>8, <2>2, <2>3 DEF Receive, TypeInv, Recorded
  <2> QED  BY <1>6, <1>8, <2>1, <2>2, <2>3 DEF Receive
<1>9. CASE UNCHANGED vars
  BY <1>9 DEF vars, TypeInv, Recorded
<1> QED  BY <1>1, <1>2, <1>3, <1>4, <1>5, <1>7, <1>8, <1>9 DEF Next, Publish, WatcherStep

----------------------------------------------------------------------------
(* No repetition *)

LEMMA WatchInit == Init => WatchInv
BY DEF Init, WatchInv, Open, NoRepetition, Recorded

(* Steps that give nothing and open or close no stream.                     *)
LEMMA WatchQuiet ==
  ASSUME TypeInv, WatchInv, UNCHANGED <<listeners, wpc, recorded, delivered, out>>,
         Recorded \subseteq Recorded'
  PROVE  WatchInv'
<1>1. ASSUME NEW w \in Watchers, NEW i \in Recorded'
      PROVE  i \in delivered[w] <=> \E k \in 1..Len(out[w]) : out[w][k] = i
  <2>1. CASE i \in Recorded
    BY <2>1 DEF WatchInv
  <2>2. CASE i \notin Recorded
    <3>1. i \notin delivered[w]
      BY <2>2 DEF TypeInv
    <3>2. \A k \in 1..Len(out[w]) : out[w][k] \in Recorded
      BY DEF TypeInv
    <3> QED  BY <2>2, <3>1, <3>2
  <2> QED  BY <2>1, <2>2
<1>2. NoRepetition'
  BY DEF WatchInv, NoRepetition
<1> QED  BY <1>1, <1>2 DEF WatchInv, Open

(* A watcher gives an event it has not given: the next one of the log while it *)
(* replays, any other one while it is live.                                 *)
LEMMA WatchYield ==
  ASSUME TypeInv, WatchInv, NEW w \in Watchers, NEW i \in Recorded, Yield(w, i),
         UNCHANGED <<log, recorded>>, i \notin delivered[w],
         \/ wpc[w] = "replay" /\ i = Len(out[w]) + 1 /\ i <= recorded[w]
         \/ wpc[w] = "live"
  PROVE  WatchInv'
<1>1. /\ \A v \in Watchers : v # w => out'[v] = out[v] /\ delivered'[v] = delivered[v]
                                      /\ wpc'[v] = wpc[v] /\ (v \in listeners' <=> v \in listeners)
      /\ Len(out[w]) \in Nat /\ Len(out'[w]) = Len(out[w]) + 1
      /\ out'[w][Len(out[w]) + 1] = i
      /\ \A k \in 1..Len(out[w]) : out'[w][k] = out[w][k]
      /\ delivered'[w] = delivered[w] \cup {i} /\ listeners' \subseteq Watchers
  BY YieldIs
<1>2. \/ wpc'[w] = "complete" /\ w \notin listeners'
      \/ wpc'[w] = wpc[w] /\ listeners' = listeners
  <2>1. CASE log[i]
    <3>1. wpc' = [wpc EXCEPT ![w] = "complete"] /\ w \notin listeners'
      BY <2>1, YieldIs
    <3> QED  BY <3>1 DEF TypeInv
  <2>2. CASE ~log[i]
    BY <2>2, YieldIs
  <2> QED  BY <2>1, <2>2
<1>3. \A k \in 1..Len(out'[w]) : k \in 1..Len(out[w]) \/ k = Len(out[w]) + 1
  BY <1>1
<1>4. \A k \in 1..Len(out[w]) : out[w][k] \in Recorded /\ out[w][k] # i
  <2>1. \A k \in 1..Len(out[w]) : out[w][k] \in Recorded
    BY DEF TypeInv
  <2> QED  BY <2>1 DEF WatchInv
<1>5. \A v \in Watchers : v \in listeners' <=> wpc'[v] \in Open
  BY <1>1, <1>2 DEF WatchInv, Open
<1>6. ASSUME NEW v \in Watchers, NEW j \in Recorded
      PROVE  j \in delivered'[v] <=> \E k \in 1..Len(out'[v]) : out'[v][k] = j
  <2>1. CASE v # w
    BY <1>1, <2>1 DEF WatchInv
  <2>2. CASE v = w /\ j = i
    <3>1. Len(out[w]) + 1 \in 1..Len(out'[w])
      BY <1>1
    <3> QED  BY <1>1, <2>2, <3>1
  <2>3. CASE v = w /\ j # i
    <3>1. j \in delivered'[v] <=> \E k \in 1..Len(out[w]) : out[w][k] = j
      BY <1>1, <2>3 DEF WatchInv
    <3>2. 1..Len(out[w]) \subseteq 1..Len(out'[w])
      BY <1>1
    <3> QED  BY <1>1, <1>3, <2>3, <3>1, <3>2
  <2> QED  BY <2>1, <2>2, <2>3
<1>7. NoRepetition'
  <2> SUFFICES ASSUME NEW v \in Watchers, NEW j \in 1..Len(out'[v]), NEW k \in 1..Len(out'[v]),
                      out'[v][j] = out'[v][k]
               PROVE  j = k
    BY DEF NoRepetition
  <2>1. CASE v # w
    BY <1>1, <2>1 DEF WatchInv, NoRepetition
  <2>2. CASE v = w
    <3>1. CASE j \in 1..Len(out[w]) /\ k \in 1..Len(out[w])
      BY <1>1, <2>2, <3>1 DEF WatchInv, NoRepetition
    <3>2. CASE ~(j \in 1..Len(out[w]) /\ k \in 1..Len(out[w]))
      BY <1>1, <1>3, <1>4, <2>2, <3>2
    <3> QED  BY <3>1, <3>2
  <2> QED  BY <2>1, <2>2
<1>8. ASSUME NEW v \in Watchers, wpc'[v] = "replay"
      PROVE  Len(out'[v]) <= recorded[v] /\ \A k \in 1..Len(out'[v]) : out'[v][k] = k
  <2>1. CASE v # w
    BY <1>1, <1>8, <2>1 DEF WatchInv
  <2>2. CASE v = w
    <3>1. wpc[w] = "replay" /\ i = Len(out[w]) + 1 /\ i <= recorded[w]
      BY <1>2, <1>8, <2>2
    <3>2. \A k \in 1..Len(out[w]) : out[w][k] = k
      BY <3>1 DEF WatchInv
    <3> QED  BY <1>1, <1>3, <2>2, <3>1, <3>2
  <2> QED  BY <2>1, <2>2
<1>9. \A v \in Watchers : wpc'[v] \in {"off", "list"} => Len(out'[v]) = 0
  BY <1>1, <1>2 DEF WatchInv
<1>10. Recorded' = Recorded
  BY DEF Recorded
<1> QED  BY <1>5, <1>6, <1>7, <1>8, <1>9, <1>10 DEF WatchInv

LEMMA WatchStep == TypeInv /\ WatchInv /\ [Next]_vars => WatchInv'
<1> SUFFICES ASSUME TypeInv, WatchInv, [Next]_vars PROVE WatchInv'
  OBVIOUS
<1> USE DEF writing, watching
<1>1. ASSUME NEW p \in Writers, NEW stop \in BOOLEAN, Commit(p, stop) PROVE WatchInv'
  <2>1. Len(log') = Len(log) + 1 /\ Len(log) \in Nat
    BY <1>1, AppendIs DEF Commit, TypeInv
  <2>2. Recorded \subseteq Recorded'
    BY <2>1 DEF Recorded
  <2> QED  BY <1>1, <2>2, WatchQuiet DEF Commit
<1>2. ASSUME NEW p \in Writers, CopyListeners(p) \/ \E w \in Watchers : CallListener(p, w)
      PROVE  WatchInv'
  BY <1>2, WatchQuiet DEF CopyListeners, CallListener, Recorded
<1>3. ASSUME NEW w \in Watchers, Subscribe(w) \/ ListForRun(w) \/ GoLive(w) \/ Leave(w)
      PROVE  WatchInv'
  <2>1. UNCHANGED <<log, delivered, out>> /\ Recorded' = Recorded
    BY <1>3 DEF Subscribe, ListForRun, GoLive, Leave, Recorded
  <2>2. NoRepetition'
    BY <2>1 DEF WatchInv, NoRepetition
  <2>3. \A v \in Watchers : v # w => wpc'[v] = wpc[v] /\ recorded'[v] = recorded[v]
    BY <1>3 DEF Subscribe, ListForRun, GoLive, Leave, TypeInv
  <2>4. /\ wpc'[w] = "list" => Len(out[w]) = 0
        /\ wpc'[w] # "off"
        /\ wpc'[w] = "replay" => Len(out[w]) = 0 /\ recorded'[w] \in Nat
    BY <1>3 DEF Subscribe, ListForRun, GoLive, Leave, TypeInv, WatchInv
  <2>5. \A v \in Watchers : v \in listeners' <=> wpc'[v] \in Open
    <3>1. CASE Subscribe(w)
      BY <3>1 DEF Subscribe, TypeInv, WatchInv, Open
    <3>2. CASE ListForRun(w) \/ GoLive(w)
      <4>1. UNCHANGED listeners /\ wpc[w] \in Open /\ wpc'[w] \in Open
        BY <3>2 DEF ListForRun, GoLive, TypeInv, Open
      <4> QED  BY <2>3, <4>1 DEF WatchInv
    <3>3. CASE Leave(w)
      BY <3>3 DEF Leave, TypeInv, WatchInv, Open
    <3> QED  BY <1>3, <3>1, <3>2, <3>3
  <2>6. \A v \in Watchers : wpc'[v] \in {"off", "list"} => Len(out[v]) = 0
    BY <2>3, <2>4 DEF WatchInv
  <2>7. ASSUME NEW v \in Watchers, wpc'[v] = "replay"
        PROVE  Len(out[v]) <= recorded'[v] /\ \A k \in 1..Len(out[v]) : out[v][k] = k
    BY <2>3, <2>4, <2>7 DEF WatchInv
  <2>8. ASSUME NEW v \in Watchers, NEW i \in Recorded
        PROVE  i \in delivered[v] <=> \E k \in 1..Len(out[v]) : out[v][k] = i
    BY DEF WatchInv
  <2> QED  BY <2>1, <2>2, <2>5, <2>6, <2>7, <2>8 DEF WatchInv
<1>4. ASSUME NEW w \in Watchers, Replay(w) PROVE WatchInv'
  <2>1. /\ Len(out[w]) \in Nat /\ recorded[w] \in 0..Len(log) /\ Len(log) \in Nat
        /\ wpc[w] = "replay" /\ Len(out[w]) < recorded[w]
    BY <1>4 DEF TypeInv, Replay
  <2>2. Len(out[w]) + 1 \in Recorded /\ Len(out[w]) + 1 <= recorded[w]
    BY <2>1 DEF Recorded
  <2>3. \A k \in 1..Len(out[w]) : out[w][k] = k /\ k # Len(out[w]) + 1
    BY <2>1 DEF WatchInv
  <2>4. Len(out[w]) + 1 \notin delivered[w]
    BY <2>2, <2>3 DEF WatchInv
  <2> QED  BY <1>4, <2>1, <2>2, <2>4, WatchYield DEF Replay
<1>5. ASSUME NEW w \in Watchers, Receive(w) PROVE WatchInv'
  <2>1. Head(live[w]) \in Recorded
    BY <1>5, TailIs DEF Receive, TypeInv
  <2>2. CASE UNCHANGED <<listeners, wpc, delivered, out>>
    BY <1>5, <2>2, WatchQuiet DEF Receive, Recorded
  <2>3. CASE IsNew(w, Head(live[w])) /\ Yield(w, Head(live[w]))
    BY <1>5, <2>1, <2>3, WatchYield DEF Receive, IsNew
  <2> QED  BY <1>5, <2>2, <2>3 DEF Receive
<1>6. CASE UNCHANGED vars
  BY <1>6, WatchQuiet DEF vars, Recorded
<1> QED  BY <1>1, <1>2, <1>3, <1>4, <1>5, <1>6 DEF Next, Publish, WatcherStep

(* A watcher is given no event twice, although what it replays may be in its   *)
(* channel too, whatever is committed, published and left meanwhile           *)
(* (WatchAsync).                                                             *)
THEOREM RepetitionCorrect == Spec => []NoRepetition
<1>1. Init => TypeInv /\ WatchInv
  BY TypeInit, WatchInit
<1>2. TypeInv /\ WatchInv /\ [Next]_vars => (TypeInv /\ WatchInv)'
  BY TypeStep, WatchStep
<1>3. TypeInv /\ WatchInv => NoRepetition
  BY DEF WatchInv
<1> QED  BY <1>1, <1>2, <1>3, PTL DEF Spec

----------------------------------------------------------------------------
(* Nothing slips between *)

(* Where an event of the log is, for a watcher that has listed the log.      *)
Somewhere(w, i) ==
  \/ i \in delivered[w]
  \/ i \in (Len(out[w]) + 1)..recorded[w] /\ wpc[w] = "replay"
  \/ \E k \in 1..Len(live[w]) : live[w][k] = i
  \/ \E p \in Writers : i \in unpublished[p] \/ <<w, i>> \in calls[p]

LEMMA WholeInit == Init => WholeInv
BY DEF Init, WholeInv, OneAtATime, NothingSlipsBetween, CompleteMeansStopped

(* Steps of a watcher that leave the channels and the publications alone.    *)
LEMMA EndsStay ==
  ASSUME TypeInv, CompleteMeansStopped, UNCHANGED out,
         log' = log \/ \E stop \in BOOLEAN : log' = Append(log, stop),
         \A w \in Watchers : wpc'[w] = "complete" => wpc[w] = "complete"
  PROVE  CompleteMeansStopped'
<1> SUFFICES ASSUME NEW w \in Watchers, wpc[w] = "complete"
             PROVE  out[w] # <<>> /\ log'[out[w][Len(out[w])]]
  BY DEF CompleteMeansStopped
<1>1. out[w] # <<>> /\ log[out[w][Len(out[w])]]
  BY DEF CompleteMeansStopped
<1>2. out[w] \in Seq(Recorded) /\ Len(out[w]) \in 1..Len(out[w])
  <2>1. out[w] \in Seq(Recorded)
    BY DEF TypeInv
  <2>2. Len(out[w]) \in Nat /\ Len(out[w]) # 0
    BY <1>1, <2>1, EmptySeq
  <2> QED  BY <2>1, <2>2
<1>3. out[w][Len(out[w])] \in 1..Len(log)
  BY <1>2 DEF Recorded
<1>4. log'[out[w][Len(out[w])]] = log[out[w][Len(out[w])]]
  BY <1>3, AppendIs DEF TypeInv
<1> QED  BY <1>1, <1>4

(* A watcher gives an event, and nothing that is still on its way moves.      *)
LEMMA WholeYield ==
  ASSUME TypeInv, WholeInv, NEW w \in Watchers, NEW i \in Recorded, Yield(w, i),
         wpc[w] # "complete", UNCHANGED <<writing, recorded>>,
         \A v \in Watchers : v # w => live'[v] = live[v],
         \A j \in Recorded : Somewhere(w, j) => j = i \/ Somewhere(w, j)' \/ wpc'[w] = "complete"
  PROVE  WholeInv'
<1> USE DEF writing
<1>1. /\ \A v \in Watchers : v # w => out'[v] = out[v] /\ delivered'[v] = delivered[v]
                                      /\ wpc'[v] = wpc[v]
      /\ Len(out[w]) \in Nat /\ Len(out'[w]) = Len(out[w]) + 1
      /\ out'[w][Len(out[w]) + 1] = i
      /\ delivered'[w] = delivered[w] \cup {i}
  BY YieldIs
<1>2. /\ log[i] => wpc'[w] = "complete"
      /\ ~log[i] => wpc'[w] = wpc[w]
  <2>1. log[i] => wpc' = [wpc EXCEPT ![w] = "complete"]
    BY YieldIs
  <2>2. ~log[i] => wpc' = wpc
    BY YieldIs
  <2> QED  BY <2>1, <2>2 DEF TypeInv
<1>3. ASSUME NEW v \in Watchers, wpc'[v] \in {"replay", "live"}, NEW j \in 1..Len(log)
      PROVE  Somewhere(v, j)'
  <2>1. CASE v # w
    BY SMTT(30), <1>1, <1>3, <2>1 DEF WholeInv, NothingSlipsBetween, Somewhere
  <2>2. CASE v = w
    <3>1. wpc'[w] = wpc[w]
      BY <1>2, <1>3, <2>2
    <3>2. Somewhere(w, j)
      BY <1>3, <2>2, <3>1 DEF WholeInv, NothingSlipsBetween, Somewhere
    <3>3. j = i \/ Somewhere(w, j)'
      BY <1>3, <2>2, <3>2 DEF Recorded
    <3> QED  BY <1>1, <2>2, <3>3 DEF Somewhere
  <2> QED  BY <2>1, <2>2
<1>4. NothingSlipsBetween'
  BY <1>3 DEF NothingSlipsBetween, Somewhere
<1>5. ASSUME NEW v \in Watchers, wpc'[v] = "complete"
      PROVE  out'[v] # <<>> /\ log'[out'[v][Len(out'[v])]]
  <2>1. CASE v # w
    BY <1>1, <1>5, <2>1 DEF WholeInv, CompleteMeansStopped
  <2>2. CASE v = w
    <3>1. log[i]
      <4>1. wpc[w] # "complete"
        OBVIOUS
      <4> QED  BY <1>2, <1>5, <2>2, <4>1
    <3>2. out'[w] # <<>>
      BY <1>1
    <3> QED  BY <1>1, <2>2, <3>1, <3>2
  <2> QED  BY <2>1, <2>2
<1>6. OneAtATime'
  BY DEF WholeInv, OneAtATime
<1>7. CompleteMeansStopped'
  BY <1>5 DEF CompleteMeansStopped
<1> QED  BY <1>4, <1>6, <1>7 DEF WholeInv

LEMMA WholeStep == TypeInv /\ WatchInv /\ WholeInv /\ [Next]_vars => WholeInv'
<1> SUFFICES ASSUME TypeInv, WatchInv, WholeInv, [Next]_vars PROVE WholeInv'
  OBVIOUS
<1> USE DEF writing, watching
<1>0. \A w \in Watchers : wpc[w] \in {"replay", "live"} => \A i \in 1..Len(log) : Somewhere(w, i)
  BY DEF WholeInv, NothingSlipsBetween, Somewhere
<1>1. ASSUME NEW p \in Writers, NEW stop \in BOOLEAN, Commit(p, stop) PROVE WholeInv'
  <2>1. /\ Len(log') = Len(log) + 1 /\ Len(log) \in Nat
    BY <1>1, AppendIs DEF Commit, TypeInv
  <2>2. /\ unpublished[p] = {} /\ calls[p] = {}
        /\ \A q \in Writers : unpublished'[q] = IF q = p THEN {Len(log) + 1} ELSE unpublished[q]
        /\ UNCHANGED <<calls, live, wpc, recorded, delivered, out>>
    BY <1>1 DEF Commit, TypeInv
  <2>3. OneAtATime'
    BY <2>2 DEF WholeInv, OneAtATime
  <2>4. ASSUME NEW w \in Watchers, wpc[w] \in {"replay", "live"}, NEW i \in 1..Len(log')
        PROVE  Somewhere(w, i)'
    <3>1. CASE i = Len(log) + 1
      BY <2>2, <3>1 DEF Somewhere
    <3>2. CASE i \in 1..Len(log)
      <4>1. Somewhere(w, i)
        BY <1>0, <2>4, <3>2
      <4> QED  BY <2>2, <4>1 DEF Somewhere
    <3> QED  BY <2>1, <3>1, <3>2
  <2>5. NothingSlipsBetween'
    BY <2>2, <2>4 DEF NothingSlipsBetween, Somewhere
  <2>6. CompleteMeansStopped'
    BY <1>1, <2>2, EndsStay DEF WholeInv, Commit
  <2> QED  BY <2>3, <2>5, <2>6 DEF WholeInv
<1>2. ASSUME NEW p \in Writers, CopyListeners(p) PROVE WholeInv'
  <2>1. PICK n \in unpublished[p] : calls' = [calls EXCEPT ![p] = {<<v, n>> : v \in Targets}]
    BY <1>2 DEF CopyListeners
  <2>2. /\ \A q \in Writers : unpublished'[q] = IF q = p THEN {} ELSE unpublished[q]
        /\ \A q \in Writers : q # p => calls'[q] = calls[q]
        /\ calls'[p] = {<<v, n>> : v \in listeners}
        /\ UNCHANGED <<log, live, wpc, recorded, delivered, out>>
    BY <1>2, <2>1 DEF CopyListeners, TypeInv, Targets
  <2>3. unpublished[p] = {n} /\ calls[p] = {}
    BY <2>1 DEF WholeInv, OneAtATime
  <2>4. OneAtATime'
    BY <2>2 DEF WholeInv, OneAtATime
  <2>5. ASSUME NEW w \in Watchers, wpc[w] \in {"replay", "live"}, NEW i \in 1..Len(log)
        PROVE  Somewhere(w, i)'
    <3>1. w \in listeners /\ Somewhere(w, i)
      BY <1>0, <2>5 DEF WatchInv, Open
    <3>2. CASE \E q \in Writers : i \in unpublished[q] \/ <<w, i>> \in calls[q]
      <4>1. PICK q \in Writers : i \in unpublished[q] \/ <<w, i>> \in calls[q]
        BY <3>2
      <4>2. i \in unpublished'[q] \/ <<w, i>> \in calls'[q]
        BY <2>2, <2>3, <3>1, <4>1
      <4> QED  BY <4>2 DEF Somewhere
    <3>3. CASE ~\E q \in Writers : i \in unpublished[q] \/ <<w, i>> \in calls[q]
      BY <2>2, <3>1, <3>3 DEF Somewhere
    <3> QED  BY <3>2, <3>3
  <2>6. NothingSlipsBetween'
    BY <2>2, <2>5 DEF NothingSlipsBetween, Somewhere
  <2>7. CompleteMeansStopped'
    BY <2>2, EndsStay DEF WholeInv
  <2> QED  BY <2>4, <2>6, <2>7 DEF WholeInv
<1>3. ASSUME NEW p \in Writers, NEW w \in Watchers, CallListener(p, w) PROVE WholeInv'
  <2>1. PICK call \in calls[p] :
          /\ call[1] = w /\ calls' = [calls EXCEPT ![p] = calls[p] \ {call}]
          /\ live' = [live EXCEPT ![w] = IF wpc[w] \in {"complete", "left"}
                                         THEN live[w] ELSE Append(live[w], call[2])]
    BY <1>3 DEF CallListener
  <2>2. call[2] \in Recorded /\ call = <<w, call[2]>>
    BY <2>1 DEF TypeInv
  <2>3. /\ \A q \in Writers : calls'[q] = IF q = p THEN calls[p] \ {call} ELSE calls[q]
        /\ \A v \in Watchers : v # w => live'[v] = live[v]
        /\ UNCHANGED <<log, unpublished, wpc, recorded, delivered, out>>
    BY <1>3, <2>1 DEF CallListener, TypeInv
  <2>4. OneAtATime'
    BY <2>3 DEF WholeInv, OneAtATime
  <2>5. ASSUME NEW v \in Watchers, wpc[v] \in {"replay", "live"}, NEW i \in 1..Len(log)
        PROVE  Somewhere(v, i)'
    <3>1. Somewhere(v, i)
      BY <1>0, <2>5
    <3>2. CASE v # w
      <4>1. <<v, i>> # call
        BY <2>2, <3>2
      <4> QED  BY <2>3, <3>1, <3>2, <4>1 DEF Somewhere
    <3>3. CASE v = w
      <4>1. live'[w] = Append(live[w], call[2])
        BY <2>1, <2>5, <3>3 DEF TypeInv
      <4>2. /\ Len(live[w]) \in Nat /\ Len(live'[w]) = Len(live[w]) + 1
            /\ live'[w][Len(live[w]) + 1] = call[2]
            /\ \A k \in 1..Len(live[w]) : live'[w][k] = live[w][k]
        BY <2>2, <4>1, AppendIs DEF TypeInv
      <4>3. CASE i = call[2]
        <5>1. Len(live[w]) + 1 \in 1..Len(live'[w])
          BY <4>2
        <5> QED  BY <3>3, <4>2, <4>3, <5>1 DEF Somewhere
      <4>4. CASE i # call[2]
        <5>1. <<w, i>> # call /\ 1..Len(live[w]) \subseteq 1..Len(live'[w])
          BY <2>2, <4>2, <4>4
        <5> QED  BY <2>3, <3>1, <3>3, <4>2, <5>1 DEF Somewhere
      <4> QED  BY <4>3, <4>4
    <3> QED  BY <3>2, <3>3
  <2>6. NothingSlipsBetween'
    BY <2>3, <2>5 DEF NothingSlipsBetween, Somewhere
  <2>7. CompleteMeansStopped'
    BY <2>3, EndsStay DEF WholeInv
  <2> QED  BY <2>4, <2>6, <2>7 DEF WholeInv
<1>4. ASSUME NEW w \in Watchers, Subscribe(w) \/ ListForRun(w) \/ GoLive(w) \/ Leave(w)
      PROVE  WholeInv'
  <2>1. /\ UNCHANGED <<log, unpublished, calls, live, delivered, out>>
        /\ \A v \in Watchers : v # w => wpc'[v] = wpc[v] /\ recorded'[v] = recorded[v]
        /\ \A v \in Watchers : wpc'[v] = "complete" => wpc[v] = "complete"
    BY <1>4 DEF Subscribe, ListForRun, GoLive, Leave, TypeInv
  <2>2. OneAtATime' /\ CompleteMeansStopped'
    BY <2>1, EndsStay DEF WholeInv, OneAtATime
  <2>3. ASSUME wpc'[w] \in {"replay", "live"}, NEW i \in 1..Len(log) PROVE Somewhere(w, i)'
    <3>1. CASE ListForRun(w)
      <4>1. Len(out[w]) = 0 /\ recorded'[w] = Len(log) /\ wpc'[w] = "replay"
        BY <3>1 DEF ListForRun, TypeInv, WatchInv
      <4>2. i \in (Len(out'[w]) + 1)..recorded'[w]
        BY <2>1, <4>1
      <4> QED  BY <4>1, <4>2 DEF Somewhere
    <3>2. CASE GoLive(w)
      <4>1. wpc[w] = "replay" /\ Len(out[w]) = recorded[w] /\ Len(out[w]) \in Nat
        BY <3>2 DEF GoLive, TypeInv
      <4>2. Somewhere(w, i) /\ i \notin (Len(out[w]) + 1)..recorded[w]
        BY <1>0, <4>1
      <4> QED  BY <2>1, <4>2 DEF Somewhere
    <3>3. CASE Subscribe(w) \/ Leave(w)
      BY <2>3, <3>3 DEF Subscribe, Leave, TypeInv
    <3> QED  BY <1>4, <3>1, <3>2, <3>3
  <2>4. ASSUME NEW v \in Watchers, v # w, wpc'[v] \in {"replay", "live"}, NEW i \in 1..Len(log)
        PROVE  Somewhere(v, i)'
    <3>1. Somewhere(v, i)
      BY <1>0, <2>1, <2>4
    <3> QED  BY <2>1, <2>4, <3>1 DEF Somewhere
  <2>5. NothingSlipsBetween'
    BY <2>1, <2>3, <2>4 DEF NothingSlipsBetween, Somewhere
  <2> QED  BY <2>2, <2>5 DEF WholeInv
<1>5. ASSUME NEW w \in Watchers, Replay(w) PROVE WholeInv'
  <2>1. /\ Len(out[w]) \in Nat /\ recorded[w] \in 0..Len(log) /\ Len(log) \in Nat
        /\ wpc[w] = "replay" /\ Len(out[w]) < recorded[w]
        /\ UNCHANGED <<writing, recorded, live>> /\ Yield(w, Len(out[w]) + 1)
    BY <1>5 DEF TypeInv, Replay
  <2>2. Len(out[w]) + 1 \in Recorded
    BY <2>1 DEF Recorded
  <2>3. /\ Len(out'[w]) = Len(out[w]) + 1 /\ delivered'[w] = delivered[w] \cup {Len(out[w]) + 1}
        /\ wpc'[w] = "complete" \/ wpc'[w] = wpc[w]
    <3>1. /\ Len(out'[w]) = Len(out[w]) + 1 /\ delivered'[w] = delivered[w] \cup {Len(out[w]) + 1}
          /\ wpc' = [wpc EXCEPT ![w] = "complete"] \/ wpc' = wpc
      BY <2>1, <2>2, YieldIs
    <3> QED  BY <3>1 DEF TypeInv
  <2>4. ASSUME NEW j \in Recorded, Somewhere(w, j), j # Len(out[w]) + 1, wpc'[w] # "complete"
        PROVE  Somewhere(w, j)'
    <3>1. CASE j \in (Len(out[w]) + 1)..recorded[w]
      <4>1. j \in (Len(out'[w]) + 1)..recorded'[w] /\ wpc'[w] = "replay"
        BY <2>1, <2>3, <2>4, <3>1
      <4> QED  BY <4>1 DEF Somewhere
    <3>2. CASE j \notin (Len(out[w]) + 1)..recorded[w]
      BY <2>1, <2>3, <2>4, <3>2 DEF Somewhere
    <3> QED  BY <3>1, <3>2
  <2> QED  BY <2>1, <2>2, <2>4, WholeYield
<1>6. ASSUME NEW w \in Watchers, Receive(w) PROVE WholeInv'
  <2>1. /\ wpc[w] = "live" /\ live[w] \in Seq(Recorded) /\ live[w] # <<>>
        /\ UNCHANGED <<writing, recorded>>
        /\ live'[w] = Tail(live[w]) /\ \A v \in Watchers : v # w => live'[v] = live[v]
    BY <1>6 DEF Receive, TypeInv
  <2>2. /\ Len(live[w]) \in Nat \ {0} /\ Head(live[w]) = live[w][1] /\ live[w][1] \in Recorded
        /\ Len(live'[w]) = Len(live[w]) - 1
        /\ \A k \in 1..(Len(live[w]) - 1) : live'[w][k] = live[w][k + 1]
    BY <2>1, TailIs
  <2>3. ASSUME NEW k \in 1..Len(live[w])
        PROVE  live[w][k] = Head(live[w]) \/ \E l \in 1..Len(live'[w]) : live'[w][l] = live[w][k]
    <3>1. CASE k = 1
      BY <2>2, <3>1
    <3>2. CASE k # 1
      <4>1. k - 1 \in 1..Len(live'[w]) /\ (k - 1) + 1 = k
        BY <2>2, <3>2
      <4>2. live'[w][k - 1] = live[w][k]
        BY <2>2, <4>1
      <4> QED  BY <4>1, <4>2
    <3> QED  BY <3>1, <3>2
  <2>4. CASE UNCHANGED <<listeners, wpc, delivered, out>> /\ Head(live[w]) \in delivered[w]
    <3>1. ASSUME NEW v \in Watchers, wpc[v] \in {"replay", "live"}, NEW j \in 1..Len(log)
          PROVE  Somewhere(v, j)'
      <4>1. Somewhere(v, j)
        BY <1>0, <3>1
      <4>2. CASE v # w
        BY <2>1, <2>4, <4>1, <4>2 DEF Somewhere
      <4>3. CASE v = w
        BY <2>1, <2>3, <2>4, <4>1, <4>3 DEF Somewhere
      <4> QED  BY <4>2, <4>3
    <3>2. NothingSlipsBetween'
      BY <2>1, <2>4, <3>1 DEF NothingSlipsBetween, Somewhere
    <3>3. OneAtATime' /\ CompleteMeansStopped'
      BY <2>1, <2>4, EndsStay DEF WholeInv, OneAtATime
    <3> QED  BY <3>2, <3>3 DEF WholeInv
  <2>5. CASE Yield(w, Head(live[w]))
    <3>1. /\ delivered'[w] = delivered[w] \cup {Head(live[w])}
          /\ wpc'[w] = "complete" \/ wpc'[w] = wpc[w]
      <4>1. /\ delivered'[w] = delivered[w] \cup {Head(live[w])}
            /\ wpc' = [wpc EXCEPT ![w] = "complete"] \/ wpc' = wpc
        BY <2>1, <2>2, <2>5, YieldIs
      <4> QED  BY <4>1 DEF TypeInv
    <3>2. ASSUME NEW j \in Recorded, Somewhere(w, j), j # Head(live[w])
          PROVE  Somewhere(w, j)'
      <4>1. CASE \E k \in 1..Len(live[w]) : live[w][k] = j
        BY <2>3, <3>2, <4>1 DEF Somewhere
      <4>2. CASE ~\E k \in 1..Len(live[w]) : live[w][k] = j
        BY <2>1, <3>1, <3>2, <4>2 DEF Somewhere
      <4> QED  BY <4>1, <4>2
    <3> QED  BY <2>1, <2>2, <2>5, <3>2, WholeYield
  <2> QED  BY <1>6, <2>4, <2>5 DEF Receive, IsNew
<1>7. CASE UNCHANGED vars
  <2>1. OneAtATime' /\ CompleteMeansStopped'
    BY <1>7, EndsStay DEF vars, WholeInv, OneAtATime
  <2>2. NothingSlipsBetween'
    BY <1>7 DEF vars, WholeInv, NothingSlipsBetween
  <2> QED  BY <2>1, <2>2 DEF WholeInv
<1> QED  BY <1>1, <1>2, <1>3, <1>4, <1>5, <1>6, <1>7 DEF Next, Publish, WatcherStep

StreamInv == TypeInv /\ WatchInv /\ WholeInv

LEMMA StreamHolds == Spec => []StreamInv
<1>1. Init => StreamInv
  BY TypeInit, WatchInit, WholeInit DEF StreamInv
<1>2. StreamInv /\ [Next]_vars => StreamInv'
  BY TypeStep, WatchStep, WholeStep DEF StreamInv
<1> QED  BY <1>1, <1>2, PTL DEF Spec

(* Between the replay of the log and the channel nothing is lost, and a stream *)
(* that is over ended with an event in which the run stops, for any number of *)
(* writers (PublishAsync, WatchAsync).                                       *)
THEOREM WholeCorrect == Spec => []StreamIsWhole
<1>1. StreamInv => StreamIsWhole
  BY TypeInvIsType DEF StreamInv, WholeInv, StreamIsWhole
<1> QED  BY <1>1, StreamHolds, PTL

----------------------------------------------------------------------------
(* The engine as the only writer *)

(* What a live watcher takes from its channel is old, or the next of the log. *)
LEMMA NextInChannel ==
  ASSUME StreamInv, OrderInv, NEW w \in Watchers, wpc[w] = "live", live[w] # <<>>,
         IsNew(w, Head(live[w]))
  PROVE  Head(live[w]) = Len(out[w]) + 1
<1> USE DEF StreamInv
<1>1. /\ Len(live[w]) \in Nat \ {0} /\ Head(live[w]) = live[w][1] /\ live[w][1] \in 1..Len(log)
      /\ 1 \in 1..Len(live[w])
  BY TailIs DEF TypeInv, Recorded
<1>2. Len(out[w]) \in Nat /\ Len(log) \in Nat
  BY DEF TypeInv
<1>3. \A i \in 1..Len(log) : i \in delivered[w] <=> i \in 1..Len(out[w])
  <2>1. \A k \in 1..Len(out[w]) : out[w][k] = k
    BY DEF OrderInv
  <2> QED  BY <2>1 DEF WatchInv, Recorded
<1>4. Head(live[w]) > Len(out[w])
  BY <1>1, <1>2, <1>3 DEF IsNew
<1>5. SUFFICES ASSUME Head(live[w]) # Len(out[w]) + 1 PROVE FALSE
  OBVIOUS
<1>6. /\ Len(out[w]) + 1 \in 1..Len(log) /\ Len(out[w]) + 1 < Head(live[w])
      /\ Len(out[w]) + 1 < Len(log) /\ Len(out[w]) + 1 \notin 1..Len(out[w])
  BY <1>1, <1>2, <1>4, <1>5
<1>7. Somewhere(w, Len(out[w]) + 1)
  BY <1>6 DEF WholeInv, NothingSlipsBetween, Somewhere
<1>8. Len(out[w]) + 1 \notin delivered[w]
  BY <1>3, <1>6
<1>9. ASSUME NEW k \in 1..Len(live[w]) PROVE live[w][k] # Len(out[w]) + 1
  <2>1. CASE k = 1
    BY <1>1, <1>6, <2>1
  <2>2. CASE k # 1
    <3>1. live[w][1] < live[w][k]
      BY <1>1, <2>2 DEF OrderInv
    <3>2. live[w][k] \in 1..Len(log)
      BY DEF TypeInv, Recorded
    <3> QED  BY <1>1, <1>2, <1>6, <3>1, <3>2
  <2> QED  BY <2>1, <2>2
<1>10. \A p \in Writers : Len(out[w]) + 1 \notin unpublished[p] /\ <<w, Len(out[w]) + 1>> \notin calls[p]
  <2>1. \A p \in Writers : \A call \in calls[p] : call[2] # Len(out[w]) + 1
    BY <1>2, <1>6 DEF OrderInv
  <2>2. \A p \in Writers : Len(out[w]) + 1 \notin unpublished[p]
    <3>1. Len(out[w]) + 1 # Len(log)
      BY <1>2, <1>6
    <3> QED  BY <3>1 DEF OrderInv
  <2> QED  BY <2>1, <2>2
<1> QED  BY <1>7, <1>8, <1>9, <1>10 DEF Somewhere

LEMMA OrderInit == Init => OrderInv
BY DEF Init, OrderInv

(* A watcher gives the next event.                                          *)
LEMMA OrderYield ==
  ASSUME TypeInv, OrderInv, NEW w \in Watchers, Len(out[w]) + 1 \in Recorded,
         Yield(w, Len(out[w]) + 1), UNCHANGED writing,
         \A v \in Watchers :
           \/ live'[v] = live[v]
           \/ live[v] \in Seq(Recorded) /\ live[v] # <<>> /\ live'[v] = Tail(live[v])
  PROVE  OrderInv'
<1> USE DEF writing
<1>1. /\ \A v \in Watchers : v # w => out'[v] = out[v]
      /\ Len(out[w]) \in Nat /\ Len(out'[w]) = Len(out[w]) + 1
      /\ out'[w][Len(out[w]) + 1] = Len(out[w]) + 1
      /\ \A k \in 1..Len(out[w]) : out'[w][k] = out[w][k]
  BY YieldIs
<1>2. \A k \in 1..Len(out'[w]) : k \in 1..Len(out[w]) \/ k = Len(out[w]) + 1
  BY <1>1
<1>3. \A v \in Watchers : \A k \in 1..Len(out'[v]) : out'[v][k] = k
  BY <1>1, <1>2 DEF OrderInv
<1>4. ASSUME NEW v \in Watchers, NEW k \in 1..Len(live'[v])
      PROVE  \/ live'[v] = live[v]
             \/ k + 1 \in 1..Len(live[v]) /\ live'[v][k] = live[v][k + 1]
  <2>1. CASE live[v] \in Seq(Recorded) /\ live[v] # <<>> /\ live'[v] = Tail(live[v])
    BY <2>1, TailIs
  <2> QED  BY <2>1
<1>5. \A v \in Watchers : \A k, l \in 1..Len(live'[v]) : k < l => live'[v][k] < live'[v][l]
  <2> TAKE v \in Watchers
  <2> TAKE k, l \in 1..Len(live'[v])
  <2> HAVE k < l
  <2>1. CASE live'[v] = live[v]
    BY <2>1 DEF OrderInv
  <2>2. CASE live'[v] # live[v]
    <3>1. /\ k + 1 \in 1..Len(live[v]) /\ live'[v][k] = live[v][k + 1]
          /\ l + 1 \in 1..Len(live[v]) /\ live'[v][l] = live[v][l + 1]
      BY <1>4, <2>2
    <3>2. k + 1 < l + 1
      OBVIOUS
    <3> QED  BY <3>1, <3>2 DEF OrderInv
  <2> QED  BY <2>1, <2>2
<1>6. ASSUME NEW v \in Watchers, NEW p \in Writers,
             unpublished[p] # {} \/ (\E call \in calls[p] : call[1] = v),
             NEW k \in 1..Len(live'[v])
      PROVE  live'[v][k] < Len(log)
  BY <1>4, <1>6 DEF OrderInv
<1> QED  BY <1>3, <1>5, <1>6 DEF OrderInv

(* A step that leaves the log, what is on its way and what was given alone.   *)
LEMMA OrderQuiet ==
  ASSUME OrderInv, UNCHANGED <<log, unpublished, calls, live, out>>
  PROVE  OrderInv'
BY DEF OrderInv

LEMMA OrderStep ==
  ASSUME StreamInv, OrderInv, [Next]_vars, NEW p, Writers = {p}
  PROVE  OrderInv'
<1> USE DEF writing, watching, StreamInv
<1>1. ASSUME NEW stop \in BOOLEAN, Commit(p, stop) PROVE OrderInv'
  <2>1. /\ Len(log') = Len(log) + 1 /\ Len(log) \in Nat
    BY <1>1, AppendIs DEF Commit, TypeInv
  <2>2. /\ calls'[p] = {} /\ unpublished'[p] = {Len(log) + 1}
        /\ UNCHANGED <<live, out>>
    BY <1>1 DEF Commit, TypeInv
  <2>3. \A w \in Watchers : \A k \in 1..Len(live[w]) : live[w][k] < Len(log')
    <3>1. \A w \in Watchers : \A k \in 1..Len(live[w]) : live[w][k] \in 1..Len(log)
      BY DEF TypeInv, Recorded
    <3> QED  BY <2>1, <3>1
  <2> QED  BY <2>1, <2>2, <2>3 DEF OrderInv
<1>2. CASE CopyListeners(p)
  <2>1. PICK n \in unpublished[p] : calls' = [calls EXCEPT ![p] = {<<v, n>> : v \in Targets}]
    BY <1>2 DEF CopyListeners
  <2>2. /\ unpublished'[p] = {} /\ unpublished[p] # {} /\ calls'[p] = {<<v, n>> : v \in Targets}
        /\ n = Len(log) /\ UNCHANGED <<log, live, out>>
    BY <1>2, <2>1 DEF CopyListeners, TypeInv, OrderInv
  <2>3. \A call \in calls'[p] : call[2] = Len(log)
    BY <2>2
  <2> QED  BY <2>2, <2>3 DEF OrderInv
<1>3. ASSUME NEW w \in Watchers, CallListener(p, w) PROVE OrderInv'
  <2>1. PICK call \in calls[p] :
          /\ call[1] = w /\ calls' = [calls EXCEPT ![p] = calls[p] \ {call}]
          /\ live' = [live EXCEPT ![w] = IF wpc[w] \in {"complete", "left"}
                                         THEN live[w] ELSE Append(live[w], call[2])]
    BY <1>3 DEF CallListener
  <2>2. /\ call[2] = Len(log) /\ call[2] \in Recorded /\ call = <<w, Len(log)>>
        /\ unpublished[p] = {}
    BY <2>1 DEF TypeInv, OrderInv, WholeInv, OneAtATime
  <2>3. /\ calls'[p] = calls[p] \ {call} /\ UNCHANGED <<log, unpublished, out>>
        /\ \A v \in Watchers : v # w => live'[v] = live[v]
        /\ live'[w] = live[w] \/ live'[w] = Append(live[w], Len(log))
    BY <1>3, <2>1, <2>2 DEF CallListener, TypeInv
  <2>4. \A other \in calls'[p] : other[1] # w
    <3>1. \A other \in calls[p] : other = <<other[1], other[2]>> /\ other[2] = Len(log)
      BY DEF TypeInv, OrderInv
    <3> QED  BY <2>2, <2>3, <3>1
  <2>5. \A k \in 1..Len(live[w]) : live[w][k] < Len(log)
    BY <2>1 DEF OrderInv
  <2>6. \A k, l \in 1..Len(live'[w]) : k < l => live'[w][k] < live'[w][l]
    <3>1. CASE live'[w] = live[w]
      BY <3>1 DEF OrderInv
    <3>2. CASE live'[w] = Append(live[w], Len(log))
      <4>1. live[w] \in Seq(Recorded) /\ Len(log) \in Recorded
        BY <2>2 DEF TypeInv
      <4>2. /\ Len(live[w]) \in Nat /\ Len(live'[w]) = Len(live[w]) + 1
            /\ live'[w][Len(live[w]) + 1] = Len(log)
            /\ \A k \in 1..Len(live[w]) : live'[w][k] = live[w][k]
        BY <3>2, <4>1, AppendIs
      <4> TAKE k, l \in 1..Len(live'[w])
      <4> HAVE k < l
      <4>3. k \in 1..Len(live[w]) /\ (l \in 1..Len(live[w]) \/ l = Len(live[w]) + 1)
        BY <4>2
      <4>4. CASE l \in 1..Len(live[w])
        BY <4>2, <4>3, <4>4 DEF OrderInv
      <4>5. CASE l = Len(live[w]) + 1
        BY <2>5, <4>2, <4>3, <4>5
      <4> QED  BY <4>3, <4>4, <4>5
    <3> QED  BY <2>3, <3>1, <3>2
  <2>7. \A v \in Watchers : \A k, l \in 1..Len(live'[v]) : k < l => live'[v][k] < live'[v][l]
    BY <2>3, <2>6 DEF OrderInv
  <2>8. ASSUME NEW v \in Watchers, \E other \in calls'[p] : other[1] = v, NEW k \in 1..Len(live'[v])
        PROVE  live'[v][k] < Len(log)
    <3>1. v # w /\ \E other \in calls[p] : other[1] = v
      BY <2>3, <2>4, <2>8
    <3> QED  BY <2>3, <2>8, <3>1 DEF OrderInv
  <2> QED  BY <2>2, <2>3, <2>7, <2>8 DEF OrderInv
<1>4. ASSUME NEW w \in Watchers, Subscribe(w) \/ ListForRun(w) \/ GoLive(w) \/ Leave(w)
      PROVE  OrderInv'
  BY <1>4, OrderQuiet DEF Subscribe, ListForRun, GoLive, Leave
<1>5. ASSUME NEW w \in Watchers, Replay(w) PROVE OrderInv'
  <2>1. Len(out[w]) + 1 \in Recorded
    <3>1. Len(out[w]) \in Nat /\ recorded[w] \in 0..Len(log) /\ Len(log) \in Nat
      BY DEF TypeInv
    <3> QED  BY <1>5, <3>1 DEF Replay, Recorded
  <2> QED  BY <1>5, <2>1, OrderYield DEF Replay
<1>6. ASSUME NEW w \in Watchers, Receive(w) PROVE OrderInv'
  <2>1. /\ wpc[w] = "live" /\ live[w] # <<>> /\ live[w] \in Seq(Recorded)
        /\ live'[w] = Tail(live[w]) /\ \A v \in Watchers : v # w => live'[v] = live[v]
        /\ UNCHANGED writing
    BY <1>6 DEF Receive, TypeInv
  <2>2. CASE IsNew(w, Head(live[w])) /\ Yield(w, Head(live[w]))
    <3>1. Head(live[w]) = Len(out[w]) + 1 /\ Head(live[w]) \in Recorded
      BY <2>1, <2>2, NextInChannel, TailIs
    <3> QED  BY <2>1, <2>2, <3>1, OrderYield
  <2>3. CASE UNCHANGED <<listeners, wpc, delivered, out>>
    <3>1. \A k \in 1..Len(live'[w]) : k + 1 \in 1..Len(live[w]) /\ live'[w][k] = live[w][k + 1]
      BY <2>1, TailIs
    <3>2. \A k, l \in 1..Len(live'[w]) : k < l => live'[w][k] < live'[w][l]
      <4> TAKE k, l \in 1..Len(live'[w])
      <4> HAVE k < l
      <4>1. k + 1 < l + 1
        OBVIOUS
      <4> QED  BY <3>1, <4>1 DEF OrderInv
    <3>3. ASSUME unpublished[p] # {} \/ (\E call \in calls[p] : call[1] = w),
                 NEW k \in 1..Len(live'[w])
          PROVE  live'[w][k] < Len(log)
      BY <3>1, <3>3 DEF OrderInv
    <3> QED  BY <2>1, <2>3, <3>2, <3>3 DEF OrderInv
  <2> QED  BY <1>6, <2>2, <2>3 DEF Receive
<1>7. CASE UNCHANGED vars
  BY <1>7, OrderQuiet DEF vars
<1> QED  BY <1>1, <1>2, <1>3, <1>4, <1>5, <1>6, <1>7 DEF Next, Publish, WatcherStep

(* Every step of the stream is one of the feed, or nothing the feed tells of.  *)
LEMMA FeedInit == Init => Feed!Init
BY DEF Init, Feed!Init

LEMMA FeedStep ==
  ASSUME StreamInv, OrderInv, [Next]_vars, NEW p, Writers = {p}
  PROVE  [Feed!Next]_Feed!vars
<1> USE DEF writing, watching, StreamInv
<1> DEFINE Stream(pcs) == [w \in Watchers |-> IF pcs[w] \in {"list", "replay", "live"}
                                              THEN "open" ELSE pcs[w]]
<1>1. ASSUME NEW stop \in BOOLEAN, Commit(p, stop) PROVE Feed!Record
  BY <1>1 DEF Commit, Feed!Record
<1>2. ASSUME UNCHANGED <<log, out, wpc>> PROVE UNCHANGED Feed!vars
  BY <1>2 DEF Feed!vars
<1>3. CASE CopyListeners(p) \/ \E w \in Watchers : CallListener(p, w)
  BY <1>2, <1>3 DEF CopyListeners, CallListener
<1>4. ASSUME NEW w \in Watchers, Subscribe(w) PROVE Feed!Open(w)
  <2>1. wpc' = [wpc EXCEPT ![w] = "list"] /\ wpc[w] = "off" /\ UNCHANGED <<log, out>>
    BY <1>4 DEF Subscribe
  <2>2. Stream(wpc)[w] = "off" /\ Stream(wpc') = [Stream(wpc) EXCEPT ![w] = "open"]
    BY <2>1 DEF TypeInv
  <2> QED  BY <2>1, <2>2 DEF Feed!Open
<1>5. ASSUME NEW w \in Watchers, ListForRun(w) \/ GoLive(w) PROVE UNCHANGED Feed!vars
  <2>1. /\ UNCHANGED <<log, out>> /\ \A v \in Watchers : v # w => wpc'[v] = wpc[v]
        /\ {wpc[w], wpc'[w]} \subseteq {"list", "replay", "live"}
    BY <1>5 DEF ListForRun, GoLive, TypeInv
  <2>2. Stream(wpc') = Stream(wpc)
    BY <2>1
  <2> QED  BY <2>1, <2>2 DEF Feed!vars
<1>6. ASSUME NEW w \in Watchers, Leave(w) PROVE Feed!Leave(w)
  <2>1. wpc' = [wpc EXCEPT ![w] = "left"] /\ wpc[w] \in {"list", "replay", "live"} /\ UNCHANGED <<log, out>>
    BY <1>6 DEF Leave
  <2>2. Stream(wpc)[w] = "open" /\ Stream(wpc') = [Stream(wpc) EXCEPT ![w] = "left"]
    BY <2>1 DEF TypeInv
  <2> QED  BY <2>1, <2>2 DEF Feed!Leave
<1>7. ASSUME NEW w \in Watchers, wpc[w] \in {"replay", "live"}, UNCHANGED log,
             Len(out[w]) + 1 \in Recorded, Yield(w, Len(out[w]) + 1)
      PROVE  Feed!Give(w)
  <2>1. /\ out' = [out EXCEPT ![w] = Append(out[w], Len(out[w]) + 1)]
        /\ log[Len(out[w]) + 1] => wpc' = [wpc EXCEPT ![w] = "complete"]
        /\ ~log[Len(out[w]) + 1] => wpc' = wpc
    BY <1>7 DEF Yield
  <2>2. Stream(wpc)[w] = "open" /\ Len(out[w]) + 1 <= Len(log)
    BY <1>7 DEF TypeInv, Recorded
  <2>3. Stream(wpc') = [Stream(wpc) EXCEPT ![w] = IF log[Len(out[w]) + 1] THEN "complete" ELSE "open"]
    <3>1. CASE log[Len(out[w]) + 1]
      BY <1>7, <2>1, <3>1 DEF TypeInv
    <3>2. CASE ~log[Len(out[w]) + 1]
      BY <1>7, <2>1, <2>2, <3>2 DEF TypeInv
    <3> QED  BY <3>1, <3>2
  <2> QED  BY <1>7, <2>1, <2>2, <2>3 DEF Feed!Give
<1>8. ASSUME NEW w \in Watchers, Replay(w) PROVE Feed!Give(w)
  <2>1. Len(out[w]) + 1 \in Recorded
    <3>1. Len(out[w]) \in Nat /\ recorded[w] \in 0..Len(log) /\ Len(log) \in Nat
      BY DEF TypeInv
    <3> QED  BY <1>8, <3>1 DEF Replay, Recorded
  <2> QED  BY <1>7, <1>8, <2>1 DEF Replay
<1>9. ASSUME NEW w \in Watchers, Receive(w) PROVE Feed!Give(w) \/ UNCHANGED Feed!vars
  <2>1. wpc[w] = "live" /\ live[w] # <<>> /\ live[w] \in Seq(Recorded) /\ UNCHANGED log
    BY <1>9 DEF Receive, TypeInv
  <2>2. CASE IsNew(w, Head(live[w])) /\ Yield(w, Head(live[w]))
    <3>1. Head(live[w]) = Len(out[w]) + 1 /\ Head(live[w]) \in Recorded
      BY <2>1, <2>2, NextInChannel, TailIs
    <3> QED  BY <1>7, <2>1, <2>2, <3>1
  <2>3. CASE UNCHANGED <<listeners, wpc, delivered, out>>
    BY <1>2, <2>1, <2>3
  <2> QED  BY <1>9, <2>2, <2>3 DEF Receive
<1>10. CASE UNCHANGED vars
  BY <1>2, <1>10 DEF vars
<1> QED  BY <1>1, <1>3, <1>4, <1>5, <1>6, <1>8, <1>9, <1>10
         DEF Next, Publish, WatcherStep, Feed!Next

(* With the engine as the only writer, whatever the number of watchers and     *)
(* events, a stream is the log from its start, one event at a time, and ends   *)
(* at the first one in which the run stops (IRunService.WatchAsync).          *)
THEOREM FeedCorrect ==
  ASSUME NEW CONSTANT p, Writers = {p}
  PROVE  Spec => Feed!Init /\ [][Feed!Next]_Feed!vars
<1>1. Init => StreamInv /\ OrderInv /\ Feed!Init
  BY TypeInit, WatchInit, WholeInit, OrderInit, FeedInit DEF StreamInv
<1>2. StreamInv /\ OrderInv /\ [Next]_vars => (StreamInv /\ OrderInv)'
  BY TypeStep, WatchStep, WholeStep, OrderStep DEF StreamInv
<1>3. StreamInv /\ OrderInv /\ [Next]_vars => [Feed!Next]_Feed!vars
  BY FeedStep
<1> QED  BY <1>1, <1>2, <1>3, PTL DEF Spec
=============================================================================
