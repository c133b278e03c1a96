----------------------------- MODULE Wmux_proofs -----------------------------
(* The reporter and the client, for any number of callback threads, runs,    *)
(* waits, attempts and faults: the count of the human-waits is right, the    *)
(* pane never goes back to an older state, and at rest it shows the facts.   *)
EXTENDS Wmux, SequenceTheorems, FiniteSetTheorems, TLAPS

----------------------------------------------------------------------------
(* The inductive invariant.                                                 *)

Item == [slot : Slots \cup {"state"}, report : Report]

\* What the reporter knows, and the report it has made of it last: a sweep
\* that makes one evicts a run that a callback had brought.
FactsTrue ==
    /\ started \in BOOLEAN
    /\ live \subseteq Runs /\ stale \subseteq live
    /\ inflight \in 0..MaxTools
    /\ depth \in Nat /\ reason \in Reasons
    /\ wait \in [Waits -> {"new", "counted", "suppressed", "answered", "unseen"}]
    /\ calls \in 0..MaxCalls
    /\ last \in Report
    /\ last.gen + Cardinality(live) <= 2 * calls
    /\ started => last.gen > 0 /\ last.payload = PayloadOf(live, depth, reason)
    /\ ~started => /\ last = NoReport /\ live = {} /\ depth = 0
                   /\ \A w \in Waits : wait[w] = "new"
    /\ AwaitingIsCounted

\* What is still to be handed over was computed, and a generation is computed
\* once; the sweep hands over before the worker goes on.
HandedOver ==
    /\ todo \in [Publishers -> Seq(Item)]
    /\ \A p \in Publishers : \A i \in 1..Len(todo[p]) :
          LET item == todo[p][i]
          IN  item.slot = "state" =>
                  /\ item.report.gen <= last.gen
                  /\ item.report.gen = last.gen => item.report = last
    /\ worker = "sweep" => started /\ todo[Worker] = <<>>

\* The client's slots, its worker and the pane: every report was admitted, and
\* each is newer than the ones that went before it.
ClientOrdered ==
    /\ state \in Report /\ hwm \in 0..last.gen
    /\ extras \subseteq Slots /\ closing \in BOOLEAN
    /\ worker \in {"take", "sweep", "send", "done"}
    /\ wire \in Envelope /\ seq \in Nat
    /\ pane \in Report /\ released \in BOOLEAN /\ lastSeq \in 0..seq
    /\ gaveUp \subseteq 0..last.gen
    /\ faults \in 0..MaxFaults
    /\ worker # "send" => wire = NoEnvelope
    /\ pane.gen <= hwm /\ wire.report.gen <= hwm /\ wire.seq <= seq
    /\ state # NoReport =>
          state.gen = hwm /\ state.gen > pane.gen /\ state.gen > wire.report.gen
    /\ wire.method = "state" =>
          \/ pane.gen < wire.report.gen /\ wire.seq > lastSeq
          \/ pane = wire.report

\* The last report is on its way, shown, or given up on.
OnItsWay ==
    \/ /\ hwm < last.gen
       /\ \E p \in Publishers : \E i \in 1..Len(todo[p]) :
             todo[p][i] = [slot |-> "state", report |-> last]
    \/ /\ hwm = last.gen
       /\ \/ state = last
          \/ wire.method = "state" /\ wire.report = last
          \/ pane = last
          \/ last.gen \in gaveUp

WmuxInv ==
    /\ FactsTrue /\ HandedOver /\ ClientOrdered
    /\ started /\ ~closing => OnItsWay

\* At the beginning nothing is known, and nothing is on its way.
LEMMA WmuxInvInit == Init => WmuxInv
<1> SUFFICES ASSUME Init PROVE WmuxInv
  OBVIOUS
<1> USE WmuxAssumption DEF Init
<1>1. /\ Cardinality({}) = 0 /\ IsFiniteSet({}) /\ Cardinality(Runs) \in Nat
      /\ Cardinality(Waits) \in Nat
  BY FS_EmptySet, FS_CardinalityType
<1>2. NoReport \in Report
  BY <1>1 DEF NoReport, Report, Nothing, Payload, Reasons
<1>3. FactsTrue
  <2>1. Counted = 0
    <3>1. {w \in Waits : wait[w] = "counted"} = {}
      OBVIOUS
    <3> QED
      BY <1>1, <3>1 DEF Counted
  <2>2. AwaitingIsCounted
    BY <2>1 DEF AwaitingIsCounted
  <2>3. last.gen + Cardinality(live) <= 2 * calls
    BY <1>1 DEF NoReport
  <2>4. 0 \in 0..MaxTools /\ 0 \in 0..MaxCalls /\ reason \in Reasons
    BY DEF Reasons
  <2> QED
    BY <1>2, <2>2, <2>3, <2>4 DEF FactsTrue
<1>4. HandedOver
  <2>1. todo \in [Publishers -> Seq(Item)]
    OBVIOUS
  <2>2. \A q \in Publishers : todo[q] = <<>> /\ Len(todo[q]) = 0
    OBVIOUS
  <2> QED
    BY <2>1, <2>2 DEF HandedOver
<1>5. ClientOrdered
  <2>1. wire \in Envelope
    BY <1>2 DEF Envelope, NoEnvelope
  <2>2. wire.method = "none" /\ wire.report.gen = 0 /\ wire.seq <= seq /\ pane.gen = 0 /\ state = NoReport
    BY DEF NoReport, NoEnvelope
  <2>3. hwm \in 0..last.gen /\ lastSeq \in 0..seq /\ faults \in 0..MaxFaults /\ seq \in Nat
        /\ gaveUp \subseteq 0..last.gen /\ extras \subseteq Slots
    BY DEF NoReport
  <2>4. state \in Report /\ pane \in Report
    BY <1>2
  <2>5. worker = "take" /\ wire = NoEnvelope /\ closing = FALSE /\ released = FALSE /\ hwm = 0
    OBVIOUS
  <2>6. closing \in BOOLEAN /\ released \in BOOLEAN
    BY <2>5
  <2>7. pane.gen <= hwm /\ wire.report.gen <= hwm
    BY <2>2, <2>5
  <2> HIDE DEF Init
  <2> QED
    BY <2>1, <2>2, <2>3, <2>4, <2>5, <2>6, <2>7 DEF ClientOrdered
<1> QED
  BY <1>3, <1>4, <1>5 DEF WmuxInv

----------------------------------------------------------------------------
(* The reporter.                                                            *)

\* A set of runs can be counted, and so can a set of waits.
LEMMA Countable ==
  ASSUME NEW S, NEW T, S \subseteq T, IsFiniteSet(T)
  PROVE  /\ IsFiniteSet(S) /\ Cardinality(S) \in Nat /\ Cardinality(T) \in Nat
         /\ Cardinality(S) <= Cardinality(T)
BY FS_Subset, FS_CardinalityType

\* A payload has its type.
LEMMA PayloadTyped ==
  ASSUME NEW runs, runs \subseteq Runs, NEW waiting \in Nat, NEW why \in Reasons
  PROVE  PayloadOf(runs, waiting, why) \in Payload
<1>1. Cardinality(runs) \in 0..Cardinality(Runs)
  BY Countable, WmuxAssumption
<1>2. (IF waiting > 0 THEN why ELSE "none") \in Reasons
  BY DEF Reasons
<1>3. (waiting > 0) \in BOOLEAN
  OBVIOUS
<1>4. ASSUME NEW a \in BOOLEAN, NEW n \in 0..Cardinality(Runs), NEW y \in Reasons
      PROVE  [awaiting |-> a, runDepth |-> n, reason |-> y] \in Payload
  BY DEF Payload
<1> HIDE DEF Reasons
<1> QED
  BY <1>1, <1>2, <1>3, <1>4, Zenon DEF PayloadOf

\* What a callback or a sweep computes is the facts, in a report of its own
\* if they are news.
LEMMA ComputedIsTrue ==
  ASSUME FactsTrue, NEW force \in BOOLEAN, last' = Computed(force),
         live' \subseteq Runs, depth' \in Nat, reason' \in Reasons
  PROVE  /\ last'.payload = PayloadOf(live', depth', reason')
         /\ last'.payload \in Payload
         /\ last'.gen > 0
         /\ last' = [gen |-> last'.gen, payload |-> last'.payload]
         /\ last' = last \/ last'.gen = last.gen + 1
<1> DEFINE payload == PayloadOf(live', depth', reason')
<1>1. payload \in Payload
  BY PayloadTyped
<1>2. last' = IF payload = last.payload /\ last.gen > 0 /\ ~force
                THEN last ELSE [gen |-> last.gen + 1, payload |-> payload]
  BY DEF Computed
<1>3. last \in Report /\ last.gen \in Nat /\ last = [gen |-> last.gen, payload |-> last.payload]
  BY DEF FactsTrue, Report
<1> HIDE DEF payload
<1>4. CASE last' = last /\ payload = last.payload /\ last.gen > 0
  BY <1>1, <1>3, <1>4 DEF payload
<1>5. CASE last' = [gen |-> last.gen + 1, payload |-> payload]
  BY <1>1, <1>3, <1>5 DEF payload
<1> QED
  BY <1>2, <1>4, <1>5

\* The facts change, and the report with them.
LEMMA FactsKept ==
  ASSUME FactsTrue, NEW force \in BOOLEAN, last' = Computed(force),
         started' = TRUE, live' \subseteq Runs, stale' \subseteq live',
         inflight' \in 0..MaxTools, depth' \in Nat, reason' \in Reasons,
         wait' \in [Waits -> {"new", "counted", "suppressed", "answered", "unseen"}],
         calls' \in 0..MaxCalls, AwaitingIsCounted',
         last'.gen + Cardinality(live') <= 2 * calls'
  PROVE  FactsTrue'
<1>1. /\ last'.payload = PayloadOf(live', depth', reason') /\ last'.payload \in Payload
      /\ last'.gen > 0
      /\ last' = [gen |-> last'.gen, payload |-> last'.payload]
      /\ last' = last \/ last'.gen = last.gen + 1
  BY ComputedIsTrue
<1>2. last.gen \in Nat
  BY DEF FactsTrue, Report
<1>3. last'.gen \in Nat
  BY <1>1, <1>2
<1>4. Cardinality(live') \in Nat
  BY Countable, WmuxAssumption
<1>5. last'.gen \in 0..(2 * MaxCalls)
  BY <1>3, <1>4, WmuxAssumption
<1>6. last' \in Report
  BY <1>1, <1>5 DEF Report
<1> QED
  BY <1>1, <1>6 DEF FactsTrue

\* The waits that are counted can be counted.
LEMMA CountedTyped ==
  /\ Counted \in Nat /\ Counted <= Cardinality(Waits)
  /\ IsFiniteSet({w \in Waits : wait[w] = "counted"})
BY Countable, WmuxAssumption DEF Counted

\* A wait begins: counted, or suppressed because nothing is running.
LEMMA BeginCounts ==
  ASSUME FactsTrue, NEW w \in Waits, wait[w] = "new",
         \/ wait' = [wait EXCEPT ![w] = "suppressed"] /\ depth' = depth
         \/ wait' = [wait EXCEPT ![w] = "counted"] /\ depth' = Deeper(depth)
  PROVE  AwaitingIsCounted' /\ depth' \in Nat
<1> DEFINE open == {v \in Waits : wait[v] = "counted"}
           opened == {v \in Waits : wait'[v] = "counted"}
<1>1. depth \in Nat /\ AwaitingIsCounted /\ Counted \in Nat
  BY CountedTyped DEF FactsTrue
<1>2. IsFiniteSet(open) /\ Counted = Cardinality(open) /\ Counted' = Cardinality(opened)
  BY CountedTyped DEF Counted
<1>3. DOMAIN wait = Waits /\ \A v \in Waits : wait'[v] = "unseen" <=> wait[v] = "unseen"
  BY DEF FactsTrue
<1>4. CASE wait' = [wait EXCEPT ![w] = "suppressed"] /\ depth' = depth
  <2>1. \A v \in Waits : wait'[v] = "counted" <=> wait[v] = "counted"
    BY <1>3, <1>4
  <2>2. opened = open
    BY <2>1
  <2> HIDE DEF open, opened
  <2> QED
    BY <1>1, <1>2, <1>3, <1>4, <2>2 DEF AwaitingIsCounted
<1>5. CASE wait' = [wait EXCEPT ![w] = "counted"] /\ depth' = Deeper(depth)
  <2>1. \A v \in Waits : wait'[v] = "counted" <=> wait[v] = "counted" \/ v = w
    BY <1>3, <1>5
  <2>2. opened = open \cup {w} /\ w \notin open
    BY <2>1
  <2> HIDE DEF open, opened
  <2>3. Counted' = Counted + 1
    BY <1>2, <2>2, FS_AddElement
  <2> QED
    BY <1>1, <1>3, <1>5, <2>3 DEF AwaitingIsCounted, Deeper
<1> QED
  BY <1>4, <1>5

\* A wait ends: the count goes down by one, be it its own or another's.
LEMMA EndCounts ==
  ASSUME FactsTrue, NEW w \in Waits, wait[w] \in {"counted", "suppressed"},
         wait' = [wait EXCEPT ![w] = IF @ = "counted" THEN "answered" ELSE "unseen"],
         depth' = Shallower(depth)
  PROVE  AwaitingIsCounted' /\ depth' \in Nat
<1> DEFINE open == {v \in Waits : wait[v] = "counted"}
           opened == {v \in Waits : wait'[v] = "counted"}
<1>1. depth \in Nat /\ AwaitingIsCounted /\ Counted \in Nat
  BY CountedTyped DEF FactsTrue
<1>2. IsFiniteSet(open) /\ Counted = Cardinality(open) /\ Counted' = Cardinality(opened)
  BY CountedTyped DEF Counted
<1>3. DOMAIN wait = Waits
  BY DEF FactsTrue
<1>4. CASE wait[w] = "counted"
  <2>1. \A v \in Waits : wait'[v] = "counted" <=> wait[v] = "counted" /\ v # w
    BY <1>3, <1>4
  <2>2. opened = open \ {w} /\ w \in open
    BY <1>4, <2>1
  <2>3. \A v \in Waits : wait'[v] = "unseen" <=> wait[v] = "unseen"
    BY <1>3, <1>4
  <2> HIDE DEF open, opened
  <2>4. Counted' = Counted - 1 /\ Counted > 0
    BY <1>1, <1>2, <2>2, FS_RemoveElement, FS_EmptySet
  <2> QED
    BY <1>1, <2>3, <2>4 DEF AwaitingIsCounted, Shallower
<1>5. CASE wait[w] = "suppressed"
  <2>1. \A v \in Waits : wait'[v] = "counted" <=> wait[v] = "counted"
    BY <1>3, <1>5
  <2>2. opened = open
    BY <2>1
  <2>3. wait'[w] = "unseen"
    BY <1>3, <1>5
  <2> HIDE DEF open, opened
  <2> QED
    BY <1>1, <1>2, <2>2, <2>3 DEF AwaitingIsCounted, Shallower
<1> QED
  BY <1>4, <1>5

\* A callback is counted.
LEMMA CallCounts ==
  ASSUME FactsTrue, NEW h, Call(h)
  PROVE  calls' = calls + 1 /\ calls' \in 0..MaxCalls /\ calls \in Nat /\ calls' >= calls
<1>1. calls \in 0..MaxCalls /\ calls' = calls + 1 /\ calls < MaxCalls
  BY DEF FactsTrue, Call
<1> QED
  BY <1>1, WmuxAssumption

\* The steps that make a report, with what each makes it of.
LEMMA FactsSteps ==
  ASSUME FactsTrue, NEW h \in Hooks,
         \/ Startup(h) \/ TurnOver(h)
         \/ \E r \in Runs : RunStart(h, r) \/ RunTerminal(h, r)
         \/ \E w \in Waits : WaitEnds(h, w) \/ (WaitBegins(h, w) /\ Reason # "none")
  PROVE  FactsTrue'
<1>1. /\ calls' = calls + 1 /\ calls' \in 0..MaxCalls /\ calls \in Nat
  <2>1. Call(h)
    BY DEF Startup, TurnOver, RunStart, RunTerminal, WaitEnds, WaitBegins
  <2> QED
    BY <2>1, CallCounts
<1>2. /\ depth \in Nat /\ reason \in Reasons /\ live \subseteq Runs /\ stale \subseteq live
      /\ inflight \in 0..MaxTools /\ last.gen \in Nat
      /\ last.gen + Cardinality(live) <= 2 * calls
  BY DEF FactsTrue, Report
<1>3. PICK force \in BOOLEAN : last' = Computed(force)
  BY DEF Startup, TurnOver, RunStart, RunTerminal, WaitEnds, WaitBegins, Sync
<1>4. Cardinality(live) \in Nat /\ IsFiniteSet(live)
  BY <1>2, Countable, WmuxAssumption
<1>5. /\ live' \subseteq Runs /\ stale' \subseteq live'
      /\ Cardinality(live') \in Nat /\ Cardinality(live') <= Cardinality(live) + 1
  <2>1. CASE UNCHANGED <<live, stale>>
    BY <1>2, <1>4, <2>1
  <2>2. ASSUME NEW r \in Runs, RunStart(h, r)
        PROVE  /\ live' \subseteq Runs /\ stale' \subseteq live'
               /\ Cardinality(live') \in Nat /\ Cardinality(live') <= Cardinality(live) + 1
    <3>1. live' = live \cup {r} /\ stale' = stale \ {r}
      BY <2>2 DEF RunStart
    <3>2. Cardinality(live') = IF r \in live THEN Cardinality(live) ELSE Cardinality(live) + 1
      BY <1>4, <3>1, FS_AddElement
    <3>3. live' \subseteq Runs /\ stale' \subseteq live'
      BY <1>2, <3>1
    <3> QED
      BY <1>4, <3>2, <3>3
  <2>3. ASSUME NEW r \in Runs, RunTerminal(h, r)
        PROVE  /\ live' \subseteq Runs /\ stale' \subseteq live'
               /\ Cardinality(live') \in Nat /\ Cardinality(live') <= Cardinality(live) + 1
    <3>1. live' = live \ {r} /\ stale' = stale \ {r} /\ r \in live
      BY <2>3 DEF RunTerminal
    <3>2. live' \subseteq live
      BY <3>1
    <3>3. Cardinality(live') \in Nat /\ Cardinality(live') <= Cardinality(live)
      BY <1>4, <3>2, Countable
    <3>4. live' \subseteq Runs /\ stale' \subseteq live'
      BY <1>2, <3>1
    <3> QED
      BY <1>4, <3>3, <3>4
  <2> QED
    BY <2>1, <2>2, <2>3 DEF Startup, TurnOver, WaitEnds, WaitBegins
<1>6. started' = TRUE
  <2>1. CASE Startup(h)
    BY <2>1 DEF Startup
  <2>2. CASE ~Startup(h)
    BY <2>2 DEF FactsTrue, TurnOver, RunStart, RunTerminal, WaitEnds, WaitBegins
  <2> QED
    BY <2>1, <2>2
<1>7. /\ depth' \in Nat /\ AwaitingIsCounted'
      /\ wait' \in [Waits -> {"new", "counted", "suppressed", "answered", "unseen"}]
  <2>1. CASE UNCHANGED <<depth, wait>>
    BY <2>1 DEF FactsTrue, AwaitingIsCounted, Counted
  <2>2. ASSUME NEW w \in Waits, WaitEnds(h, w)
        PROVE  <1>7
    BY <2>2, EndCounts DEF WaitEnds, FactsTrue
  <2>3. ASSUME NEW w \in Waits, WaitBegins(h, w), Reason # "none"
        PROVE  <1>7
    BY <2>3, BeginCounts DEF WaitBegins, FactsTrue
  <2> QED
    BY <2>1, <2>2, <2>3 DEF Startup, TurnOver, RunStart, RunTerminal
<1>8. reason' \in Reasons /\ inflight' \in 0..MaxTools
  BY <1>2 DEF Startup, TurnOver, RunStart, RunTerminal, WaitEnds, WaitBegins, Reason, Reasons
<1>9. last'.gen \in {last.gen, last.gen + 1}
  BY <1>3, <1>5, <1>7, <1>8, ComputedIsTrue
<1>10. last'.gen + Cardinality(live') <= 2 * calls'
  BY <1>1, <1>2, <1>4, <1>5, <1>9
<1> QED
  BY <1>1, <1>3, <1>5, <1>6, <1>7, <1>8, <1>10, FactsKept

\* The steps that make none.
LEMMA QuietFacts ==
  ASSUME FactsTrue, UNCHANGED <<started, live, depth, reason, last>>,
         stale' \subseteq live, inflight' \in 0..MaxTools, AwaitingIsCounted',
         wait' \in [Waits -> {"new", "counted", "suppressed", "answered", "unseen"}],
         ~started => wait' = wait,
         calls' \in 0..MaxCalls, calls' >= calls
  PROVE  FactsTrue'
<1>1. last.gen \in Nat /\ Cardinality(live) \in Nat /\ calls \in Nat
  <2>1. live \subseteq Runs /\ last \in Report /\ calls \in 0..MaxCalls
    BY DEF FactsTrue
  <2>2. Cardinality(live) \in Nat
    BY <2>1, Countable, WmuxAssumption
  <2> QED
    BY <2>1, <2>2 DEF Report
<1>2. last.gen + Cardinality(live) <= 2 * calls /\ calls' \in Nat
  BY WmuxAssumption DEF FactsTrue
<1>3. last'.gen + Cardinality(live') <= 2 * calls'
  BY <1>1, <1>2
<1> QED
  BY <1>3 DEF FactsTrue

\* Tools, prompts, the end of the session and a suppressed wait.
LEMMA QuietSteps ==
  ASSUME FactsTrue, NEW h \in Hooks,
         \/ ToolStart(h) \/ ToolComplete(h) \/ UserPrompt(h) \/ Shutdown(h)
         \/ \E w \in Waits : WaitBegins(h, w) /\ Reason = "none"
  PROVE  FactsTrue' /\ last' = last
<1>1. /\ calls' \in 0..MaxCalls /\ calls' >= calls
  <2>1. Call(h)
    BY DEF ToolStart, ToolComplete, UserPrompt, Shutdown, WaitBegins
  <2> QED
    BY <2>1, CallCounts
<1>2. UNCHANGED <<started, live, depth, reason, last>> /\ started = TRUE
  BY DEF ToolStart, ToolComplete, UserPrompt, Shutdown, WaitBegins, facts, FactsTrue
<1>3. stale' \subseteq live
  BY DEF ToolStart, ToolComplete, UserPrompt, Shutdown, WaitBegins, facts, FactsTrue
<1>4. inflight' \in 0..MaxTools
  <2>1. inflight \in 0..MaxTools /\ MaxTools \in Nat
    BY WmuxAssumption DEF FactsTrue
  <2>2. CASE ToolStart(h)
    BY <2>1, <2>2 DEF ToolStart
  <2>3. CASE ToolComplete(h)
    BY <2>1, <2>3 DEF ToolComplete
  <2>4. CASE UNCHANGED inflight
    BY <2>1, <2>4
  <2> QED
    BY <2>2, <2>3, <2>4 DEF UserPrompt, Shutdown, WaitBegins, facts
<1>5. /\ AwaitingIsCounted'
      /\ wait' \in [Waits -> {"new", "counted", "suppressed", "answered", "unseen"}]
  <2>1. CASE wait' = wait
    BY <1>2, <2>1 DEF FactsTrue, AwaitingIsCounted, Counted
  <2>2. ASSUME NEW w \in Waits, WaitBegins(h, w), Reason = "none"
        PROVE  <1>5
    BY <2>2, BeginCounts DEF WaitBegins, FactsTrue
  <2> QED
    BY <2>1, <2>2 DEF ToolStart, ToolComplete, UserPrompt, Shutdown, facts
<1> QED
  BY <1>1, <1>2, <1>3, <1>4, <1>5, QuietFacts

\* Time passes.
LEMMA TimeSteps ==
  ASSUME FactsTrue, Expire \/ AnHourPasses
  PROVE  FactsTrue' /\ last' = last
<1>1. UNCHANGED <<started, live, depth, reason, last, wait, calls>>
  BY DEF Expire, AnHourPasses
<1>2. stale' \subseteq live /\ inflight' \in 0..MaxTools
  BY WmuxAssumption DEF Expire, AnHourPasses, FactsTrue
<1>3. AwaitingIsCounted' /\ calls \in 0..MaxCalls
  BY <1>1 DEF FactsTrue, AwaitingIsCounted, Counted
<1> QED
  BY <1>1, <1>2, <1>3, QuietFacts, WmuxAssumption DEF FactsTrue

\* The sweep makes a report only of a run less.
LEMMA SweepFacts ==
  ASSUME FactsTrue, Sweep, started
  PROVE  FactsTrue'
<1>1. /\ depth \in Nat /\ reason \in Reasons /\ live \subseteq Runs /\ stale \subseteq live
      /\ inflight \in 0..MaxTools /\ last.gen \in Nat /\ calls \in 0..MaxCalls
      /\ last.gen + Cardinality(live) <= 2 * calls
  BY DEF FactsTrue, Report
<1>2. UNCHANGED <<started, inflight, depth, reason, wait, calls>> /\ last' = Computed(FALSE)
  BY DEF Sweep, Sync
<1>3. live' \subseteq live /\ stale' \subseteq live'
  BY <1>1 DEF Sweep
<1>4. AwaitingIsCounted'
  BY <1>2 DEF FactsTrue, AwaitingIsCounted, Counted
<1>5. /\ IsFiniteSet(live) /\ Cardinality(live) \in Nat
      /\ Cardinality(live') \in Nat /\ Cardinality(live') <= Cardinality(live)
  <2>1. IsFiniteSet(live)
    BY <1>1, Countable, WmuxAssumption
  <2> QED
    BY <1>3, <2>1, Countable
<1>6. CASE started = TRUE
  <2>1. last'.gen + Cardinality(live') <= 2 * calls
    <3>1. CASE last' = last
      BY <1>1, <1>5, <3>1
    <3>2. CASE last' # last
      <4>1. last'.gen = last.gen + 1
        BY <1>1, <1>2, <1>3, <3>2, ComputedIsTrue
      <4>2. PayloadOf(live', depth, reason) # PayloadOf(live, depth, reason)
        BY <1>2, <1>6, <3>2 DEF Computed, FactsTrue
      <4>3. Cardinality(live') # Cardinality(live)
        BY <4>2 DEF PayloadOf
      <4> QED
        BY <1>1, <1>5, <4>1, <4>3
    <3> QED
      BY <3>1, <3>2
  <2> QED
    BY <1>1, <1>2, <1>3, <1>4, <1>6, <2>1, FactsKept DEF FactsTrue
<1> QED
  BY <1>6 DEF FactsTrue

----------------------------------------------------------------------------
(* From the reporter to the client.                                         *)

\* What a callback leaves to be handed over: its report, if it made one, first.
Batch(q) ==
    /\ q \in Seq(Item)
    /\ \A i \in 1..Len(q) : q[i].slot = "state" => q[i].report = last'
    /\ last' # last =>
          Len(q) > 0 /\ q[1] = [slot |-> "state", report |-> last']

\* The report that says nothing has its type.
LEMMA NoReportTyped == NoReport \in Report
<1>1. Cardinality(Runs) \in Nat
  BY FS_CardinalityType, WmuxAssumption
<1> QED
  BY <1>1, WmuxAssumption DEF NoReport, Report, Nothing, Payload, Reasons

\* Other slots carry no state.
LEMMA PutIsBatch ==
  ASSUME NEW slot \in Slots
  PROVE  /\ Put(slot) \in Seq(Item) /\ Len(Put(slot)) = 1
         /\ Put(slot)[1].slot # "state"
<1>1. [slot |-> slot, report |-> NoReport] \in Item
  BY NoReportTyped DEF Item
<1>2. slot # "state"
  BY DEF Slots
<1> QED
  BY <1>1, <1>2 DEF Put

\* A callback that computes a report hands it over before the rest.
LEMMA ThenIsBatch ==
  ASSUME last' \in Report, NEW p \in Publishers, NEW after \in Seq(Item),
         \A i \in 1..Len(after) : after[i].slot # "state", Then(p, after)
  PROVE  \E q : Batch(q) /\ todo' = [todo EXCEPT ![p] = q]
<1> DEFINE item == [slot |-> "state", report |-> last']
<1>1. item \in Item
  BY DEF Item
<1> HIDE DEF item
<1>2. CASE last' = last
  <2>1. <<>> \o after = after
    BY ConcatEmptySeq
  <2>2. todo' = [todo EXCEPT ![p] = after]
    BY <1>2, <2>1 DEF Then
  <2> QED
    BY <1>2, <2>2 DEF Batch
<1>3. CASE last' # last
  <2> DEFINE q == <<item>> \o after
  <2>1. todo' = [todo EXCEPT ![p] = q]
    BY <1>3 DEF Then, item
  <2>2. <<item>> \in Seq(Item) /\ Len(<<item>>) = 1 /\ <<item>>[1] = item
    BY <1>1
  <2>3. /\ q \in Seq(Item) /\ Len(q) = 1 + Len(after)
        /\ \A i \in 1..Len(q) : q[i] = IF i <= 1 THEN <<item>>[i] ELSE after[i - 1]
    BY <2>2, ConcatProperties
  <2> HIDE DEF q
  <2>4. Len(after) \in Nat
    BY LenProperties
  <2>5. Len(q) > 0 /\ 1 \in 1..Len(q)
    BY <2>3, <2>4
  <2>6. q[1] = item
    BY <2>2, <2>3, <2>5
  <2>7. ASSUME NEW i \in 1..Len(q), q[i].slot = "state" PROVE q[i].report = last'
    <3>1. CASE i = 1
      BY <2>6, <3>1 DEF item
    <3>2. CASE i # 1
      <4>1. i - 1 \in 1..Len(after) /\ ~(i <= 1)
        BY <2>3, <2>4, <3>2
      <4>2. q[i] = after[i - 1]
        BY <2>3, <4>1
      <4> QED
        BY <2>7, <4>1, <4>2
    <3> QED
      BY <3>1, <3>2
  <2> QED
    BY <1>3, <2>1, <2>3, <2>5, <2>6, <2>7 DEF Batch, item
<1> QED
  BY <1>2, <1>3

\* A batch is left by a thread that had none: whoever computed it.
LEMMA BatchLeft ==
  ASSUME WmuxInv, NEW p \in Publishers, todo[p] = <<>>,
         NEW q, Batch(q), todo' = [todo EXCEPT ![p] = q],
         last' \in Report, last' = last \/ last'.gen = last.gen + 1,
         started \/ last' # last, started' = TRUE,
         UNCHANGED <<slots, wire, seq, shown, gaveUp, faults>>,
         (worker' = worker /\ p # Worker) \/ (worker = "sweep" /\ worker' = "take")
  PROVE  HandedOver' /\ ClientOrdered' /\ (~closing' => OnItsWay')
<1>1. last.gen \in Nat /\ last'.gen \in Nat /\ last'.gen >= last.gen
  BY DEF WmuxInv, FactsTrue, Report
<1>2. todo \in [Publishers -> Seq(Item)] /\ q \in Seq(Item)
  BY DEF WmuxInv, HandedOver, Batch
<1>3. \A r \in Publishers : todo'[r] = IF r = p THEN q ELSE todo[r]
  BY <1>2
<1>4. \A r \in Publishers : \A i \in 1..Len(todo[r]) : todo[r][i] \in Item
  BY <1>2, ElementOfSeq
<1>5. HandedOver'
  <2>1. ASSUME NEW r \in Publishers, NEW i \in 1..Len(todo'[r]), todo'[r][i].slot = "state"
        PROVE  /\ todo'[r][i].report.gen <= last'.gen
               /\ todo'[r][i].report.gen = last'.gen => todo'[r][i].report = last'
    <3>1. CASE r = p
      BY <1>1, <1>3, <2>1, <3>1 DEF Batch
    <3>2. CASE r # p
      <4>1. todo'[r] = todo[r] /\ todo[r][i] \in Item
        BY <1>3, <1>4, <2>1, <3>2
      <4>2. todo[r][i].report.gen \in Nat
        BY <4>1 DEF Item, Report
      <4>3. todo[r][i].report.gen <= last.gen
            /\ (todo[r][i].report.gen = last.gen => todo[r][i].report = last)
        BY <2>1, <4>1 DEF WmuxInv, HandedOver
      <4> QED
        BY <1>1, <4>1, <4>2, <4>3
    <3> QED
      BY <3>1, <3>2
  <2>2. worker' = "sweep" => started' /\ todo'[Worker] = <<>>
    <3>1. Worker \in Publishers
      BY DEF Publishers
    <3> QED
      BY <1>3, <3>1 DEF WmuxInv, HandedOver
  <2>3. todo' \in [Publishers -> Seq(Item)]
    BY <1>2
  <2> QED
    BY <2>1, <2>2, <2>3 DEF HandedOver
<1>6. ClientOrdered'
  <2>1. hwm \in 0..last'.gen /\ gaveUp \subseteq 0..last'.gen
    BY <1>1 DEF WmuxInv, ClientOrdered
  <2>2. worker' \in {"take", "sweep", "send", "done"} /\ (worker' # "send" => wire = NoEnvelope)
    BY DEF WmuxInv, ClientOrdered
  <2> QED
    BY <2>1, <2>2 DEF WmuxInv, ClientOrdered, slots, shown
<1>7. ASSUME ~closing' PROVE OnItsWay'
  <2>1. CASE last' = last
    <3>1. OnItsWay
      BY <1>7, <2>1 DEF WmuxInv, slots
    <3>2. UNCHANGED <<hwm, state, wire, pane, gaveUp, last>>
      BY <2>1 DEF slots, shown
    <3>3. ASSUME NEW r \in Publishers, NEW i \in 1..Len(todo[r]),
                 todo[r][i] = [slot |-> "state", report |-> last]
          PROVE  i \in 1..Len(todo'[r]) /\ todo'[r][i] = todo[r][i]
      <4>1. r # p
        BY <3>3
      <4> QED
        BY <1>3, <4>1
    <3> QED
      BY <3>1, <3>2, <3>3 DEF OnItsWay
  <2>2. CASE last' # last
    <3>1. hwm' < last'.gen
      BY <1>1, <2>2 DEF WmuxInv, ClientOrdered, slots
    <3>2. 1 \in 1..Len(todo'[p]) /\ todo'[p][1] = [slot |-> "state", report |-> last']
      <4>1. Len(q) \in Nat /\ Len(q) > 0
        BY <1>2, <2>2, LenProperties DEF Batch
      <4> QED
        BY <1>3, <2>2, <4>1 DEF Batch
    <3> QED
      BY <3>1, <3>2 DEF OnItsWay
  <2> QED
    BY <2>1, <2>2
<1> QED
  BY <1>5, <1>6, <1>7

\* Every callback, and the sweep, leaves such a batch.
LEMMA CallbackSteps ==
  ASSUME WmuxInv, NEW h \in Hooks, Callback(h)
  PROVE  WmuxInv'
<1>1. h \in Publishers /\ h # Worker /\ Call(h)
  BY WmuxAssumption DEF Publishers, Callback, Startup, ToolStart, ToolComplete, RunStart,
     RunTerminal, WaitBegins, WaitEnds, TurnOver, UserPrompt, Shutdown
<1>2. todo[h] = <<>> /\ UNCHANGED <<slots, sending, shown, gaveUp, faults>>
  BY <1>1 DEF Call
<1>3. <<>> \in Seq(Item) /\ Len(<<>>) = 0
  OBVIOUS
<1>4. /\ FactsTrue'
      /\ last' = last \/ last'.gen = last.gen + 1
      /\ started' = TRUE /\ (started \/ last' # last)
      /\ \E q : Batch(q) /\ todo' = [todo EXCEPT ![h] = q]
  <2>1. CASE \/ Startup(h) \/ TurnOver(h)
             \/ \E r \in Runs : RunStart(h, r) \/ RunTerminal(h, r)
             \/ \E w \in Waits : WaitEnds(h, w) \/ (WaitBegins(h, w) /\ Reason # "none")
    <3>1. FactsTrue'
      BY <2>1, FactsSteps DEF WmuxInv
    <3>2. PICK force \in BOOLEAN, after \in {<<>>, Put("metadata")} :
            last' = Computed(force) /\ Then(h, after) /\ (Startup(h) => force)
      BY <2>1 DEF Startup, TurnOver, RunStart, RunTerminal, WaitEnds, WaitBegins, Sync
    <3>3. last' = last \/ last'.gen = last.gen + 1
      BY <3>1, <3>2, ComputedIsTrue DEF FactsTrue, WmuxInv
    <3>4. started' = TRUE /\ (started \/ last' # last)
      <4>1. CASE Startup(h)
        <5>1. last'.gen = last.gen + 1 /\ last.gen \in Nat
          BY <3>2, <4>1 DEF Computed, WmuxInv, FactsTrue, Report
        <5> QED
          BY <4>1, <5>1 DEF Startup
      <4>2. CASE ~Startup(h)
        BY <2>1, <4>2 DEF TurnOver, RunStart, RunTerminal, WaitEnds, WaitBegins, FactsTrue, WmuxInv
      <4> QED
        BY <4>1, <4>2
    <3>5. after \in Seq(Item) /\ \A i \in 1..Len(after) : after[i].slot # "state"
      <4>1. CASE after = <<>>
        BY <1>3, <4>1
      <4>2. CASE after = Put("metadata")
        <5>1. "metadata" \in Slots
          BY DEF Slots
        <5> QED
          BY <4>2, <5>1, PutIsBatch
      <4> QED
        BY <4>1, <4>2
    <3>6. \E q : Batch(q) /\ todo' = [todo EXCEPT ![h] = q]
      BY <1>1, <3>1, <3>2, <3>5, ThenIsBatch DEF FactsTrue
    <3> QED
      BY <3>1, <3>3, <3>4, <3>6
  <2>2. CASE \/ ToolStart(h) \/ ToolComplete(h) \/ UserPrompt(h) \/ Shutdown(h)
             \/ \E w \in Waits : WaitBegins(h, w) /\ Reason = "none"
    <3>1. FactsTrue' /\ last' = last
      BY <2>2, QuietSteps DEF WmuxInv
    <3>2. started' = TRUE /\ started
      BY <2>2 DEF ToolStart, ToolComplete, UserPrompt, Shutdown, WaitBegins, facts, FactsTrue, WmuxInv
    <3>3. PICK slot \in Slots : \/ todo' = [todo EXCEPT ![h] = Put(slot)]
                                \/ todo' = todo
      BY <2>2 DEF ToolStart, ToolComplete, UserPrompt, Shutdown, WaitBegins, Slots
    <3>4. CASE todo' = [todo EXCEPT ![h] = Put(slot)]
      <4>1. Batch(Put(slot))
        BY <3>1, PutIsBatch DEF Batch
      <4> QED
        BY <3>1, <3>2, <3>4, <4>1
    <3>5. CASE todo' = todo
      <4>1. todo' = [todo EXCEPT ![h] = <<>>]
        BY <1>1, <1>2, <3>5 DEF WmuxInv, HandedOver
      <4>2. Batch(<<>>)
        BY <1>3, <3>1 DEF Batch
      <4> QED
        BY <3>1, <3>2, <4>1, <4>2
    <3> QED
      BY <3>3, <3>4, <3>5
  <2> QED
    BY <2>1, <2>2 DEF Callback
<1>5. PICK q : Batch(q) /\ todo' = [todo EXCEPT ![h] = q]
  BY <1>4
<1>6. UNCHANGED <<slots, wire, seq, shown, gaveUp, faults>> /\ worker' = worker
  BY <1>2 DEF sending
<1>7. HandedOver' /\ ClientOrdered' /\ (~closing' => OnItsWay')
  BY <1>1, <1>2, <1>4, <1>5, <1>6, BatchLeft DEF FactsTrue
<1> QED
  BY <1>4, <1>7 DEF WmuxInv

\* The worker sweeps, and has handed over what it computed before it sends.
LEMMA SweepSteps ==
  ASSUME WmuxInv, Sweep
  PROVE  WmuxInv'
<1>1. Worker \in Publishers /\ started /\ todo[Worker] = <<>>
  BY DEF Publishers, WmuxInv, HandedOver, Sweep
<1>2. FactsTrue'
  BY <1>1, SweepFacts DEF WmuxInv
<1>3. last' = Computed(FALSE) /\ Then(Worker, <<>>)
  BY DEF Sweep, Sync
<1>4. last' = last \/ last'.gen = last.gen + 1
  BY <1>2, <1>3, ComputedIsTrue DEF FactsTrue, WmuxInv
<1>5. <<>> \in Seq(Item) /\ Len(<<>>) = 0 /\ \A i \in 1..Len(<<>>) : <<>>[i].slot # "state"
  OBVIOUS
<1>6. PICK q : Batch(q) /\ todo' = [todo EXCEPT ![Worker] = q]
  BY <1>1, <1>2, <1>3, <1>5, ThenIsBatch DEF FactsTrue
<1>7. /\ UNCHANGED <<slots, wire, seq, shown, gaveUp, faults>>
      /\ worker = "sweep" /\ worker' = "take" /\ started' = TRUE
  BY <1>1 DEF Sweep, WmuxInv, FactsTrue
<1>8. HandedOver' /\ ClientOrdered' /\ (~closing' => OnItsWay')
  BY <1>1, <1>2, <1>4, <1>6, <1>7, BatchLeft DEF FactsTrue
<1> QED
  BY <1>2, <1>8 DEF WmuxInv

\* Time passes over what is on its way.
LEMMA TimePasses ==
  ASSUME WmuxInv, Expire \/ AnHourPasses \/ IdleTick \/ UNCHANGED vars
  PROVE  WmuxInv'
<1>1. UNCHANGED <<started, last, todo, slots, wire, seq, shown, gaveUp, faults>>
  BY DEF Expire, AnHourPasses, IdleTick, facts, sending, vars
<1>2. FactsTrue'
  <2>1. CASE Expire \/ AnHourPasses
    BY <2>1, TimeSteps DEF WmuxInv
  <2>2. CASE UNCHANGED <<facts, calls>>
    BY <2>2 DEF WmuxInv, facts, FactsTrue, AwaitingIsCounted, Counted
  <2> QED
    BY <2>1, <2>2 DEF IdleTick, vars
<1>3. \/ worker' = worker
      \/ worker' = "sweep" /\ worker = "take" /\ started /\ todo[Worker] = <<>>
  BY DEF Expire, AnHourPasses, IdleTick, sending, vars, WmuxInv, FactsTrue
<1>4. HandedOver'
  BY <1>1, <1>3 DEF WmuxInv, HandedOver
<1>5. ClientOrdered'
  BY <1>1, <1>3 DEF WmuxInv, ClientOrdered, slots, shown
<1>6. OnItsWay => OnItsWay'
  BY <1>1 DEF OnItsWay, slots, shown
<1> QED
  BY <1>1, <1>2, <1>4, <1>5, <1>6 DEF WmuxInv, slots

\* What one item of a thread does to the client's slots.
LEMMA ItemSteps ==
  ASSUME WmuxInv, NEW p \in Publishers, HandOver(p)
  PROVE  \E item \in Item :
            /\ item = todo[p][1] /\ 1 \in 1..Len(todo[p])
            /\ \/ item.slot = "state" /\ PutState(item.report)
               \/ item.slot = "release" /\ PutRelease
               \/ item.slot \notin {"state", "release"} /\ PutExtra(item.slot)
<1>1. todo[p] \in Seq(Item) /\ todo[p] # <<>>
  BY DEF HandOver, WmuxInv, HandedOver
<1>2. Head(todo[p]) = todo[p][1] /\ Head(todo[p]) \in Item /\ Len(todo[p]) \in Nat /\ Len(todo[p]) > 0
  BY <1>1, HeadTailProperties, LenProperties, EmptySeq
<1>3. 1 \in 1..Len(todo[p])
  BY <1>2
<1> QED
  BY <1>2, <1>3 DEF HandOver

\* What is left to hand over moves up by one.
LEMMA MovesUp ==
  ASSUME WmuxInv, NEW p \in Publishers, HandOver(p)
  PROVE  /\ todo' \in [Publishers -> Seq(Item)]
         /\ \A r \in Publishers : r # p => todo'[r] = todo[r]
         /\ \A i \in 1..Len(todo'[p]) :
               i + 1 \in 1..Len(todo[p]) /\ todo'[p][i] = todo[p][i + 1]
         /\ \A i \in 1..Len(todo[p]) :
               i # 1 => i - 1 \in 1..Len(todo'[p]) /\ todo'[p][i - 1] = todo[p][i]
<1>1. todo \in [Publishers -> Seq(Item)] /\ todo[p] \in Seq(Item) /\ todo[p] # <<>>
  BY DEF HandOver, WmuxInv, HandedOver
<1>2. /\ Tail(todo[p]) \in Seq(Item) /\ Len(Tail(todo[p])) = Len(todo[p]) - 1
      /\ \A i \in 1..Len(Tail(todo[p])) : Tail(todo[p])[i] = todo[p][i + 1]
  BY <1>1, HeadTailProperties
<1>3. todo' = [todo EXCEPT ![p] = Tail(todo[p])]
  BY DEF HandOver
<1>4. todo'[p] = Tail(todo[p]) /\ Len(todo[p]) \in Nat
  BY <1>1, <1>3, LenProperties
<1>5. \A i \in 1..Len(todo'[p]) : i + 1 \in 1..Len(todo[p]) /\ todo'[p][i] = todo[p][i + 1]
  BY <1>2, <1>4
<1>6. ASSUME NEW i \in 1..Len(todo[p]), i # 1
      PROVE  i - 1 \in 1..Len(todo'[p]) /\ todo'[p][i - 1] = todo[p][i]
  <2>1. i - 1 \in 1..Len(Tail(todo[p])) /\ (i - 1) + 1 = i
    BY <1>2, <1>4, <1>6
  <2> QED
    BY <1>2, <1>4, <2>1
<1> QED
  BY <1>1, <1>2, <1>3, <1>5, <1>6

\* A report is admitted if it is newer than any before it, or dropped.
LEMMA HandOverSteps ==
  ASSUME WmuxInv, NEW p \in Publishers, HandOver(p)
  PROVE  WmuxInv'
<1>1. PICK item \in Item :
            /\ item = todo[p][1] /\ 1 \in 1..Len(todo[p])
            /\ \/ item.slot = "state" /\ PutState(item.report)
               \/ item.slot = "release" /\ PutRelease
               \/ item.slot \notin {"state", "release"} /\ PutExtra(item.slot)
  BY ItemSteps
<1>2. UNCHANGED <<facts, sending, shown, gaveUp, calls, faults>>
  BY DEF HandOver
<1>3. UNCHANGED <<started, last, worker, wire, seq, pane, released, lastSeq, gaveUp, faults>>
  BY <1>2 DEF facts, sending, shown
<1>4. /\ item.slot \in Slots \cup {"state"} /\ item.report \in Report /\ item.report.gen \in Nat
      /\ last.gen \in Nat /\ hwm \in Nat /\ hwm <= last.gen
  <2>1. item.slot \in Slots \cup {"state"} /\ item.report \in Report /\ item.report.gen \in Nat
    BY DEF Item, Report
  <2>2. last.gen \in Nat /\ hwm \in 0..last.gen
    BY DEF WmuxInv, FactsTrue, ClientOrdered, Report
  <2> QED
    BY <2>1, <2>2
<1>5. item.slot = "state" =>
         item.report.gen <= last.gen /\ (item.report.gen = last.gen => item.report = last)
  BY <1>1 DEF WmuxInv, HandedOver
<1>6. FactsTrue'
  BY <1>2 DEF WmuxInv, facts, FactsTrue, AwaitingIsCounted, Counted
<1>7. HandedOver'
  <2>1. ASSUME NEW r \in Publishers, NEW i \in 1..Len(todo'[r]), todo'[r][i].slot = "state"
        PROVE  /\ todo'[r][i].report.gen <= last'.gen
               /\ todo'[r][i].report.gen = last'.gen => todo'[r][i].report = last'
    <3>1. PICK j \in 1..Len(todo[r]) : todo'[r][i] = todo[r][j]
      BY MovesUp
    <3> QED
      BY <1>3, <2>1, <3>1 DEF WmuxInv, HandedOver
  <2>2. worker' = "sweep" => started' /\ todo'[Worker] = <<>>
    <3>1. Worker \in Publishers /\ todo[p] # <<>>
      BY DEF Publishers, HandOver
    <3> QED
      BY <1>3, <3>1, MovesUp DEF WmuxInv, HandedOver
  <2> QED
    BY <2>1, <2>2, MovesUp DEF HandedOver
<1>8. ClientOrdered'
  <2>1. CASE UNCHANGED <<state, hwm>> /\ extras' \subseteq Slots /\ closing' \in BOOLEAN
    BY <1>3, <2>1 DEF WmuxInv, ClientOrdered
  <2>2. CASE /\ item.report.gen > hwm /\ item.slot = "state"
             /\ state' = item.report /\ hwm' = item.report.gen /\ UNCHANGED <<extras, closing>>
    <3>1. hwm' \in 0..last.gen /\ state' \in Report
      BY <1>4, <1>5, <2>2
    <3>2. pane.gen \in Nat /\ wire.report.gen \in Nat /\ pane.gen <= hwm /\ wire.report.gen <= hwm
      BY DEF WmuxInv, ClientOrdered, Report, Envelope
    <3>3. /\ pane.gen <= hwm' /\ wire.report.gen <= hwm'
          /\ state'.gen = hwm' /\ state'.gen > pane.gen /\ state'.gen > wire.report.gen
      BY <1>4, <2>2, <3>2
    <3> QED
      BY <1>3, <2>2, <3>1, <3>3 DEF WmuxInv, ClientOrdered
  <2>3. extras \subseteq Slots /\ closing \in BOOLEAN /\ "release" \in Slots
    BY DEF WmuxInv, ClientOrdered, Slots
  <2> QED
    BY <1>1, <1>4, <2>1, <2>2, <2>3 DEF PutState, PutRelease, PutExtra, Newer
<1>9. ASSUME started', ~closing' PROVE OnItsWay'
  <2>1. ~closing /\ started
    BY <1>1, <1>3, <1>9 DEF PutState, PutRelease, PutExtra, WmuxInv, ClientOrdered
  <2>2. OnItsWay
    BY <2>1 DEF WmuxInv
  <2>3. CASE hwm = last.gen
    <3>1. UNCHANGED <<state, hwm>>
      BY <1>1, <1>4, <1>5, <2>3 DEF PutState, PutRelease, PutExtra, Newer
    <3> QED
      BY <1>3, <1>4, <2>2, <2>3, <3>1 DEF OnItsWay
  <2>4. CASE hwm < last.gen /\ hwm' = last.gen
    <3>1. state' = last
      BY <1>1, <1>4, <1>5, <2>4 DEF PutState, PutRelease, PutExtra, Newer
    <3> QED
      BY <1>3, <2>4, <3>1 DEF OnItsWay
  <2>5. CASE hwm < last.gen /\ hwm' # last.gen
    <3>0. PICK r \in Publishers : \E i \in 1..Len(todo[r]) :
             todo[r][i] = [slot |-> "state", report |-> last]
      BY <1>4, <2>2, <2>5 DEF OnItsWay
    <3>1. PICK i \in 1..Len(todo[r]) : todo[r][i] = [slot |-> "state", report |-> last]
      BY <3>0
    <3>2. hwm' < last.gen
      BY <1>1, <1>4, <1>5, <2>5 DEF PutState, PutRelease, PutExtra, Newer
    <3>3. r # p \/ i # 1
      <4> SUFFICES ASSUME r = p, i = 1 PROVE FALSE
        OBVIOUS
      <4>1. item.slot = "state" /\ item.report = last
        BY <1>1, <3>1
      <4>2. PutState(last)
        BY <1>1, <4>1
      <4>3. last.gen > hwm
        BY <1>4, <2>5
      <4> QED
        BY <2>1, <2>5, <4>2, <4>3 DEF PutState, Newer
    <3>4. \E j \in 1..Len(todo'[r]) : todo'[r][j] = [slot |-> "state", report |-> last]
      <4>1. CASE r # p
        <5>1. todo'[r] = todo[r]
          BY <4>1, MovesUp
        <5> QED
          BY <3>1, <5>1
      <4>2. CASE r = p
        <5>1. i - 1 \in 1..Len(todo'[p]) /\ todo'[p][i - 1] = todo[p][i]
          BY <3>3, <4>2, MovesUp
        <5> QED
          BY <3>1, <4>2, <5>1
      <4> QED
        BY <4>1, <4>2
    <3> QED
      BY <1>3, <3>2, <3>4 DEF OnItsWay
  <2> QED
    BY <1>4, <2>3, <2>4, <2>5
<1> QED
  BY <1>6, <1>7, <1>8, <1>9 DEF WmuxInv

----------------------------------------------------------------------------
(* The worker.                                                              *)

\* A job leaves its slot for the wire; the report is the last one admitted.
LEMMA TakeSteps ==
  ASSUME WmuxInv, TakeNext
  PROVE  WmuxInv'
<1> DEFINE method == Next_method
<1>1. /\ worker = "take" /\ worker' = "send" /\ method # "none"
      /\ seq' = IF method = "activity" THEN seq ELSE seq + 1
      /\ wire' = [method |-> method, seq |-> seq', tries |-> 0,
                  report |-> IF method = "state" THEN state ELSE NoReport]
      /\ state' = NoReport /\ extras' = extras \ {method}
      /\ UNCHANGED <<facts, todo, hwm, closing, shown, gaveUp, calls, faults>>
  BY DEF TakeNext
<1>2. method \in Slots \cup {"state"} /\ (method = "state" <=> state # NoReport)
  BY <1>1 DEF Next_method, Slots
<1>3. /\ state \in Report /\ pane \in Report /\ NoReport \in Report
      /\ hwm \in 0..last.gen /\ last.gen \in Nat /\ seq \in Nat /\ lastSeq \in 0..seq
      /\ wire.method # "state"
  BY <1>1, NoReportTyped DEF WmuxInv, FactsTrue, ClientOrdered, Report, NoEnvelope
<1> HIDE DEF method
<1>4. /\ wire'.method = method /\ wire'.seq = seq'
      /\ wire'.report = IF method = "state" THEN state ELSE NoReport
  BY <1>1
<1>5. FactsTrue' /\ HandedOver'
  <2>1. FactsTrue'
    BY <1>1 DEF WmuxInv, facts, FactsTrue, AwaitingIsCounted, Counted
  <2> QED
    BY <1>1, <2>1 DEF WmuxInv, HandedOver, facts
<1>6. ClientOrdered'
  <2>1. seq' \in Nat /\ lastSeq \in 0..seq' /\ (method = "state" => seq' > lastSeq) /\ seq' <= seq'
    BY <1>1, <1>3
  <2>2. wire'.report \in Report /\ NoReport.gen = 0
    BY <1>3, <1>4 DEF NoReport
  <2>3. wire' \in Envelope
    <3>1. 0 \in 0..SendAttempts
      BY WmuxAssumption
    <3> QED
      BY <1>1, <1>2, <1>4, <2>1, <2>2, <3>1 DEF Envelope
  <2>4. /\ wire'.report.gen <= hwm
        /\ method = "state" => pane.gen < wire'.report.gen
    <3>1. pane.gen \in Nat /\ hwm \in Nat /\ state.gen \in Nat
      BY <1>3 DEF Report
    <3> QED
      BY <1>2, <1>4, <2>2, <3>1 DEF WmuxInv, ClientOrdered
  <2>5. UNCHANGED <<last, hwm, closing, pane, released, lastSeq, gaveUp, faults>>
    BY <1>1 DEF facts, shown
  <2>6. extras' \subseteq Slots
    BY <1>1 DEF WmuxInv, ClientOrdered
  <2> QED
    BY <1>1, <1>3, <1>4, <2>1, <2>3, <2>4, <2>5, <2>6 DEF WmuxInv, ClientOrdered
<1>7. ASSUME OnItsWay PROVE OnItsWay'
  <2>1. UNCHANGED <<last, todo, hwm, pane, gaveUp>>
    BY <1>1 DEF facts, shown
  <2>2. CASE hwm < last.gen
    BY <1>3, <1>7, <2>1, <2>2 DEF OnItsWay
  <2>3. CASE hwm = last.gen /\ (pane = last \/ last.gen \in gaveUp)
    BY <2>1, <2>3 DEF OnItsWay
  <2>4. CASE hwm = last.gen /\ state = last
    <3>1. CASE state # NoReport
      BY <1>2, <1>4, <2>1, <2>4, <3>1 DEF OnItsWay
    <3>2. CASE state = NoReport
      BY <1>1, <2>1, <2>4, <3>2 DEF OnItsWay
    <3> QED
      BY <3>1, <3>2
  <2> QED
    BY <1>3, <1>7, <2>2, <2>3, <2>4 DEF OnItsWay
<1> QED
  BY <1>1, <1>5, <1>6, <1>7 DEF WmuxInv, facts

\* The pane shows what it applies: the report on the wire, unless it has seen it.
LEMMA ApplyShows ==
  ASSUME WmuxInv, Apply(wire), worker = "send"
  PROVE  /\ pane' \in Report /\ released' \in BOOLEAN /\ lastSeq' \in 0..seq
         /\ pane' = pane \/ (wire.method = "state" /\ pane' = wire.report)
         /\ pane'.gen >= pane.gen /\ pane'.gen <= hwm
         /\ wire.method = "state" => pane' = wire.report
         /\ state # NoReport => state.gen > pane'.gen
<1>1. /\ pane \in Report /\ wire \in Envelope /\ released \in BOOLEAN /\ seq \in Nat
      /\ lastSeq \in 0..seq /\ state \in Report
      /\ pane.gen <= hwm /\ wire.report.gen <= hwm
      /\ wire.method = "state" => \/ pane.gen < wire.report.gen /\ wire.seq > lastSeq
                                  \/ pane = wire.report
      /\ wire.seq <= seq
      /\ state # NoReport => state.gen > pane.gen /\ state.gen > wire.report.gen
  BY DEF WmuxInv, ClientOrdered
<1>2. wire.report \in Report /\ pane.gen \in Nat /\ wire.report.gen \in Nat /\ wire.seq \in Nat
  BY <1>1 DEF Envelope, Report
<1>3. /\ lastSeq' = IF Fresh(wire) /\ wire.seq > lastSeq THEN wire.seq ELSE lastSeq
      /\ pane' = IF Fresh(wire) /\ wire.method = "state" THEN wire.report ELSE pane
      /\ released' = (released \/ (Fresh(wire) /\ wire.method = "release"))
  BY DEF Apply
<1>4. lastSeq' \in 0..seq
  BY <1>1, <1>2, <1>3
<1>5. released' \in BOOLEAN
  BY <1>1, <1>3
<1>6. /\ pane' = pane \/ (wire.method = "state" /\ pane' = wire.report)
      /\ wire.method = "state" => pane' = wire.report
  BY <1>1, <1>3 DEF Fresh
<1>7. pane'.gen >= pane.gen /\ pane'.gen <= hwm
  BY <1>1, <1>2, <1>6
<1> QED
  BY <1>1, <1>2, <1>4, <1>5, <1>6, <1>7

\* Whether an attempt was answered or not, what it did to the pane is in order.
LEMMA AttemptSteps ==
  ASSUME WmuxInv, Delivered \/ Unanswered
  PROVE  WmuxInv' /\ pane'.gen >= pane.gen
<1>1. /\ worker = "send" /\ wire \in Envelope
      /\ UNCHANGED <<facts, todo, slots, seq, calls>>
      /\ Apply(wire) \/ UNCHANGED shown
  BY DEF Delivered, Unanswered, Unconfirmed, WmuxInv, ClientOrdered
<1>2. /\ pane \in Report /\ released \in BOOLEAN /\ lastSeq \in 0..seq
      /\ hwm \in 0..last.gen /\ last.gen \in Nat /\ pane.gen <= hwm
      /\ wire.report.gen <= hwm /\ state \in Report
      /\ state # NoReport =>
            state.gen = hwm /\ state.gen > pane.gen /\ state.gen > wire.report.gen
      /\ pane.gen \in Nat /\ wire.report.gen \in Nat /\ wire.report \in Report
  BY <1>1 DEF WmuxInv, ClientOrdered, FactsTrue, Report, Envelope
<1>3. /\ pane' \in Report /\ released' \in BOOLEAN /\ lastSeq' \in 0..seq
      /\ pane'.gen >= pane.gen /\ pane'.gen <= hwm
      /\ state # NoReport => state.gen > pane'.gen
      /\ pane' = pane \/ (wire.method = "state" /\ pane' = wire.report)
      /\ Apply(wire) /\ wire.method = "state" => pane' = wire.report
  <2>1. CASE Apply(wire)
    BY <1>1, <2>1, ApplyShows
  <2>2. CASE UNCHANGED shown /\ ~Apply(wire)
    BY <1>2, <2>2 DEF shown
  <2> QED
    BY <1>1, <2>1, <2>2
<1>4. UNCHANGED <<started, last, todo, state, hwm, extras, closing, seq>>
  BY <1>1 DEF facts, slots
<1>5. FactsTrue'
  BY <1>1 DEF WmuxInv, facts, FactsTrue, AwaitingIsCounted, Counted
<1>6. worker' # "sweep"
  BY <1>1 DEF Delivered, Unanswered, SendEnds
<1>7. HandedOver'
  BY <1>4, <1>6 DEF WmuxInv, HandedOver
<1>8. faults' \in 0..MaxFaults
  <2>1. faults \in 0..MaxFaults /\ MaxFaults \in Nat
    BY WmuxAssumption DEF WmuxInv, ClientOrdered
  <2>2. faults' = faults \/ (faults < MaxFaults /\ faults' = faults + 1)
    BY DEF Delivered, Unanswered
  <2> QED
    BY <2>1, <2>2
<1>9. gaveUp' \subseteq 0..last.gen /\ gaveUp \subseteq gaveUp'
  <2>1. wire.report.gen \in 0..last.gen
    BY <1>2
  <2> QED
    BY <2>1 DEF Delivered, Unanswered, WmuxInv, ClientOrdered
<1>10. CASE wire' = [wire EXCEPT !.tries = wire.tries + 1] /\ worker' = "send"
            /\ wire.tries + 1 < SendAttempts
  <2>1. /\ wire'.method = wire.method /\ wire'.seq = wire.seq /\ wire'.report = wire.report
        /\ wire'.tries = wire.tries + 1
    BY <1>1, <1>10 DEF Envelope
  <2>2. wire' \in Envelope
    <3>1. wire.tries \in Nat /\ wire.tries + 1 \in 0..SendAttempts
      BY <1>1, <1>10, WmuxAssumption DEF Envelope
    <3> QED
      BY <1>1, <1>10, <3>1 DEF Envelope
  <2>3. wire.method = "state" =>
           \/ pane'.gen < wire.report.gen /\ wire.seq > lastSeq'
           \/ pane' = wire.report
    <3>1. CASE Apply(wire)
      BY <1>3, <3>1
    <3>2. CASE UNCHANGED shown
      BY <3>2 DEF WmuxInv, ClientOrdered, shown
    <3> QED
      BY <1>1, <3>1, <3>2
  <2>4. ClientOrdered'
    BY <1>2, <1>3, <1>4, <1>8, <1>9, <1>10, <2>1, <2>2, <2>3 DEF WmuxInv, ClientOrdered
  <2>5. OnItsWay => OnItsWay'
    <3> SUFFICES ASSUME OnItsWay PROVE OnItsWay'
      OBVIOUS
    <3>1. CASE hwm < last.gen
      BY <1>2, <1>4, <3>1 DEF OnItsWay
    <3>2. CASE hwm = last.gen /\ pane = last
      <4>1. wire.method = "state" => wire.report = last
        BY <1>2, <3>2 DEF WmuxInv, ClientOrdered
      <4> QED
        BY <1>3, <1>4, <3>2, <4>1 DEF OnItsWay
    <3>3. CASE hwm = last.gen /\ pane # last
      BY <1>2, <1>4, <1>9, <2>1, <3>3 DEF OnItsWay
    <3> QED
      BY <1>2, <3>1, <3>2, <3>3
  <2> QED
    BY <1>3, <1>4, <1>5, <1>7, <2>4, <2>5 DEF WmuxInv
<1>11. CASE /\ wire' = NoEnvelope /\ worker' \in {"take", "done"}
            /\ Apply(wire) \/ (wire.method = "state" => wire.report.gen \in gaveUp')
  <2>1. /\ wire' \in Envelope /\ wire'.method = "none" /\ wire'.report.gen = 0 /\ wire'.seq = 0
    <3>1. 0 \in 0..SendAttempts
      BY WmuxAssumption
    <3> QED
      BY <1>11, <3>1, NoReportTyped DEF Envelope, NoEnvelope, NoReport
  <2>2. wire'.seq <= seq /\ wire'.report.gen <= hwm
        /\ (state # NoReport => state.gen > wire'.report.gen)
    BY <1>2, <2>1 DEF WmuxInv, ClientOrdered
  <2>3. ClientOrdered'
    BY <1>2, <1>3, <1>4, <1>8, <1>9, <1>11, <2>1, <2>2 DEF WmuxInv, ClientOrdered
  <2>4. OnItsWay => OnItsWay'
    <3> SUFFICES ASSUME OnItsWay PROVE OnItsWay'
      OBVIOUS
    <3>1. CASE hwm < last.gen
      BY <1>2, <1>4, <3>1 DEF OnItsWay
    <3>2. CASE hwm = last.gen /\ pane = last
      <4>1. wire.method = "state" => wire.report = last
        BY <1>2, <3>2 DEF WmuxInv, ClientOrdered
      <4> QED
        BY <1>3, <1>4, <3>2, <4>1 DEF OnItsWay
    <3>3. CASE hwm = last.gen /\ wire.method = "state" /\ wire.report = last
      BY <1>3, <1>4, <1>11, <3>3 DEF OnItsWay
    <3>4. CASE hwm = last.gen /\ (state = last \/ last.gen \in gaveUp)
      BY <1>4, <1>9, <3>4 DEF OnItsWay
    <3> QED
      BY <1>2, <3>1, <3>2, <3>3, <3>4 DEF OnItsWay
  <2> QED
    BY <1>3, <1>4, <1>5, <1>7, <2>3, <2>4 DEF WmuxInv
<1> QED
  BY <1>3, <1>10, <1>11 DEF Delivered, Unanswered, SendEnds

\* The invariant is inductive.
LEMMA WmuxInvNext == WmuxInv /\ [Next]_vars => WmuxInv'
BY CallbackSteps, SweepSteps, TimePasses, HandOverSteps, TakeSteps, AttemptSteps
   DEF Next, WorkerStep

----------------------------------------------------------------------------
(* What it implies.                                                         *)

(* The count of the waits on the human never says more than those that are  *)
(* open, and says exactly those until a suppressed one has ended; and every *)
(* variable keeps its type (on_awaiting_user_input of wmux/reporter.py).    *)
THEOREM TheWaitsAreTrue == Spec => []WaitsAreTrue
<1>1. ASSUME WmuxInv PROVE WaitsAreTrue
  <2>1. depth \in 0..Cardinality(Waits)
    BY <1>1, CountedTyped, WmuxAssumption, Countable DEF WmuxInv, FactsTrue, AwaitingIsCounted
  <2>2. ASSUME NEW p \in Publishers, NEW i \in DOMAIN todo[p] PROVE todo[p][i] \in Item
    <3>1. todo[p] \in Seq(Item)
      BY <1>1 DEF WmuxInv, HandedOver
    <3> QED
      BY <3>1, ElementOfSeq, LenProperties
  <2>3. TypeOK
    BY <1>1, <2>1, <2>2 DEF WmuxInv, FactsTrue, ClientOrdered, TypeOK, Item
  <2> QED
    BY <1>1, <2>3 DEF WaitsAreTrue, WmuxInv, FactsTrue
<1> QED
  BY <1>1, WmuxInvInit, WmuxInvNext, PTL DEF Spec

(* The pane never goes back to an older report, whatever the order in which *)
(* callbacks hand over what they computed, and whatever answers are lost    *)
(* (report_state and _send of wmux/client.py).                              *)
THEOREM ThePaneMovesForward == Spec => NeverOlder
<1>1. ASSUME WmuxInv, [Next]_vars PROVE pane'.gen >= pane.gen
  <2>1. CASE Delivered \/ Unanswered
    BY <1>1, <2>1, AttemptSteps
  <2>2. CASE ~(Delivered \/ Unanswered)
    <3>1. UNCHANGED shown
      BY <1>1, <2>2 DEF Next, vars, WorkerStep, Callback, Call, Startup, ToolStart, ToolComplete,
         RunStart, RunTerminal, WaitBegins, WaitEnds, TurnOver, UserPrompt, Shutdown, HandOver,
         TakeNext, Sweep, IdleTick, Expire, AnHourPasses
    <3>2. pane.gen \in Nat
      BY <1>1 DEF WmuxInv, ClientOrdered, Report
    <3> QED
      BY <3>1, <3>2 DEF shown
  <2> QED
    BY <2>1, <2>2
<1>2. WmuxInv /\ [Next]_vars => [pane'.gen >= pane.gen]_vars
  BY <1>1
<1> QED
  BY <1>2, WmuxInvInit, WmuxInvNext, PTL DEF Spec, NeverOlder

(* When nothing is on its way the pane shows the facts as they are, unless  *)
(* the last report was given up on after all its attempts (the hand-over of *)
(* wmux/reporter.py and the slots of wmux/client.py).                       *)
THEOREM ThePaneIsTrue == Spec => []PaneIsTrue
<1>1. ASSUME WmuxInv PROVE PaneIsTrue
  <2> SUFFICES ASSUME AtRest, last.gen \notin gaveUp
               PROVE  pane.payload = PayloadOf(live, depth, reason)
    BY DEF PaneIsTrue
  <2>1. OnItsWay /\ last.payload = PayloadOf(live, depth, reason) /\ last.gen > 0
    BY <1>1 DEF AtRest, WmuxInv, FactsTrue
  <2>2. \A p \in Publishers : Len(todo[p]) = 0
    BY DEF AtRest
  <2>3. state # last
    BY <2>1 DEF AtRest, NoReport
  <2>4. wire.method # "state"
    BY <1>1 DEF AtRest, WmuxInv, ClientOrdered, NoEnvelope
  <2>5. pane = last
    BY <2>1, <2>2, <2>3, <2>4 DEF OnItsWay
  <2> QED
    BY <2>1, <2>5
<1> QED
  BY <1>1, WmuxInvInit, WmuxInvNext, PTL DEF Spec
=============================================================================
