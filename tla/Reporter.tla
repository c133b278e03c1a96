------------------------------ MODULE Reporter ------------------------------
(***************************************************************************)
(* What the session does, in one word, and its reports                     *)
(* (cp_discord/reporter.py, collector.py).                                 *)
(*                                                                         *)
(* Core hooks fire on several threads.  Each changes a fact under the      *)
(* reporter's lock, then derives the state under the lock again, and only  *)
(* then, with no lock held, flushes the collector and drops the edge into  *)
(* a slot of the mailbox.  One worker empties the slots into the sink.     *)
(***************************************************************************)
EXTENDS Naturals, FiniteSets, FiniteSetsExt

CONSTANTS
  Loop,       \* the thread of the agent's event loop: runs, tools and text
  Approvals,  \* threads that raise one approval after the other
  Prompts,    \* threads that open a menu or prompt at the terminal
  Streaming,  \* mode "stream" rather than "report"
  MaxEntries, \* MAX_ENTRIES of the collector
  MaxRuns,    \* bound on agent runs at a time
  MaxTools,   \* bound on tool lines
  MaxHooks    \* bound on hooks fired

Threads == {Loop} \cup Approvals \cup Prompts

ASSUME ReporterAssumption ==
  /\ Loop \notin Approvals \cup Prompts /\ Approvals \cap Prompts = {}
  /\ Streaming \in BOOLEAN /\ MaxEntries \in Nat \ {0}
  /\ MaxRuns \in Nat /\ MaxTools \in Nat /\ MaxHooks \in Nat
  /\ IsFiniteSet(Threads)

VARIABLES
  runDepth, gateDepth, awaiting, notify, text, \* StateReporter
  lastState, lastMessage,
  opened,    \* the approvals that told C3 of an open gate
  hook,      \* what each thread still has to do, and for which event
  buffer,    \* ReportCollector._entries: the tool lines not reported yet
  omitted,   \* those the ring dropped; the report will count them
  body,      \* the report each thread has rendered
  slots,     \* the four slots of the mailbox
  closing,   \* Mailbox._closing
  worker,    \* "ready", "asleep", "holding", "gone"
  event,     \* what the worker took
  said,      \* the last state handed to the sink
  saidEdge,  \* the last of them that came as an edge
  reported,  \* tool lines handed to the sink, shown or counted
  points,    \* number of wait points so far
  tools, hooks, \* tool lines recorded and hooks fired so far
  raced,     \* two hooks once overlapped between deriving and posting
  overwritten \* tool lines of reports a newer one, or the close, replaced

factVars  == <<runDepth, gateDepth, awaiting, notify, text, opened>>
edgeVars  == <<lastState, lastMessage>>
ringVars  == <<buffer, omitted, tools>>
boxVars   == <<slots, closing, worker, event>>
saidVars  == <<said, saidEdge, reported>>
pastVars  == <<points, hooks, raced, overwritten>>
vars == <<factVars, edgeVars, hook, ringVars, body, boxVars, saidVars, pastVars>>

-----------------------------------------------------------------------------
(* Events, and what C3 says of the session.                                *)

None == [kind |-> "none"]
Idle == [kind |-> "state", state |-> "idle", message |-> "none", remote |-> FALSE,
         edge |-> FALSE, point |-> 0]
NoBody == [kind |-> "report", items |-> {}, more |-> {}, point |-> 0]
Resting == [pc |-> "rest", event |-> Idle]

Init ==
  /\ runDepth = 0 /\ gateDepth = 0 /\ awaiting = FALSE /\ notify = TRUE
  /\ text = FALSE
  /\ lastState = "idle" /\ lastMessage = "none" /\ opened = {}
  /\ hook = [t \in Threads |-> Resting]
  /\ buffer = {} /\ omitted = {} /\ tools = 0
  /\ body = [t \in Threads |-> NoBody]
  /\ slots = [report |-> None, state |-> None, activity |-> None, release |-> None]
  /\ closing = FALSE /\ worker = "ready" /\ event = None
  /\ said = Idle /\ saidEdge = Idle /\ reported = {}
  /\ points = 0 /\ hooks = 0 /\ raced = FALSE /\ overwritten = {}

State == IF awaiting \/ gateDepth > 0 THEN "blocked"
         ELSE IF runDepth > 0 THEN "working" ELSE "idle"

Message ==
  CASE State = "blocked" -> IF gateDepth > 0 THEN "gate" ELSE "local"
    [] State = "working" -> IF Streaming /\ text THEN "text" ELSE "coding"
    [] State = "idle"    -> "none"

\* A menu the user opened himself.
QuietMenu == State = "blocked" /\ gateDepth = 0 /\ ~notify

\* The threads between deriving an edge and having posted it.
Posting == {t \in Threads : hook[t].pc \notin {"rest", "sync"}}

-----------------------------------------------------------------------------
(* The hooks: a fact changes under the lock, then _sync() is called.       *)

Fire(t) ==
  /\ hook[t].pc = "rest" /\ hooks < MaxHooks /\ ~closing
  /\ hooks' = hooks + 1
  /\ hook' = [hook EXCEPT ![t] = [Resting EXCEPT !.pc = "sync"]]
  /\ UNCHANGED <<edgeVars, ringVars, body, boxVars, saidVars, points, raced>>
  /\ UNCHANGED overwritten

OnRunStart ==
  /\ Fire(Loop) /\ runDepth < MaxRuns
  /\ runDepth' = runDepth + 1
  /\ UNCHANGED <<gateDepth, awaiting, notify, text, opened>>

OnRunEnd ==
  /\ Fire(Loop) /\ runDepth > 0
  /\ runDepth' = runDepth - 1
  /\ UNCHANGED <<gateDepth, awaiting, notify, text, opened>>

ResetAll ==  \* mutant
  /\ runDepth' = 0 /\ awaiting' = FALSE /\ notify' = TRUE /\ text' = FALSE
  /\ gateDepth' = 0
\* on_run_cancel(), on_turn_end(): a gate is the backend's, and stays.
ResetToIdle ==
  /\ runDepth' = 0 /\ awaiting' = FALSE /\ notify' = TRUE /\ text' = FALSE
  /\ UNCHANGED gateDepth

OnRunCancel == Fire(Loop) /\ ResetToIdle /\ UNCHANGED opened

\* on_activity(): C7's live text, posted in mode "stream" only.
OnActivity ==
  /\ Fire(Loop) /\ Streaming /\ runDepth > 0
  /\ text' = TRUE
  /\ UNCHANGED <<runDepth, gateDepth, awaiting, notify, opened>>

\* An open gate silences the core's hook.
OnAwaitingUserInput(t, on, loud) ==
  /\ IF gateDepth > 0
     THEN /\ hook[t].pc = "rest" /\ hooks < MaxHooks /\ ~closing
          /\ hooks' = hooks + 1
          /\ UNCHANGED <<awaiting, notify, hook, edgeVars, ringVars, body, boxVars>>
          /\ UNCHANGED <<saidVars, points, raced, overwritten>>
     ELSE Fire(t) /\ awaiting' = on /\ notify' = loud
  /\ UNCHANGED <<runDepth, gateDepth, text, opened>>

GateOpened(t) ==
  /\ Fire(t) /\ t \notin opened
  /\ gateDepth' = gateDepth + 1 /\ awaiting' = FALSE /\ notify' = TRUE
  /\ opened' = opened \cup {t}
  /\ UNCHANGED <<runDepth, text>>

GateClosed(t) ==
  /\ Fire(t) /\ t \in opened
  /\ gateDepth' = gateDepth - 1
  /\ opened' = opened \ {t}
  /\ UNCHANGED <<runDepth, awaiting, notify, text>>

\* _sync() up to the end of the lock: nothing for a quiet menu, nothing for
\* what was already said, and else an edge or a new message.
Sync(t) ==
  /\ hook[t].pc = "sync"
  /\ LET edge  == State # lastState
         point == edge /\ lastState = "working"
         new   == [kind |-> "state", state |-> State, message |-> Message,
                   remote |-> gateDepth > 0, edge |-> edge,
                   point |-> IF point THEN points + 1 ELSE 0]
     IN  IF QuietMenu \/ (~edge /\ Message = lastMessage)
         THEN /\ hook' = [hook EXCEPT ![t] = Resting]
              /\ UNCHANGED <<edgeVars, points, raced>>
         ELSE /\ hook' = [hook EXCEPT ![t] =
                            [pc |-> IF point THEN "render" ELSE "post", event |-> new]]
              /\ lastState' = State /\ lastMessage' = Message
              /\ points' = IF point THEN points + 1 ELSE points
              /\ raced' = (raced \/ Posting # {})
  /\ UNCHANGED <<factVars, ringVars, body, boxVars, saidVars, hooks, overwritten>>

-----------------------------------------------------------------------------
(* The collector: a ring without a lock, flushed at every wait point.      *)

\* _append_entry(): a full ring drops its oldest line, and counts it.
AppendEntry ==
  IF Cardinality(buffer) < MaxEntries
  THEN buffer' = buffer \cup {tools + 1} /\ UNCHANGED omitted
  ELSE /\ buffer' = (buffer \ {Min(buffer)}) \cup {tools + 1}
       /\ omitted' = omitted \cup {Min(buffer)}

OnPreToolCall ==
  /\ hook[Loop].pc = "rest" /\ tools < MaxTools /\ ~closing
  /\ AppendEntry /\ tools' = tools + 1
  /\ raced' = (raced \/ \E t \in Threads : hook[t].pc = "clear")
  /\ UNCHANGED <<factVars, edgeVars, hook, body, boxVars, saidVars>>
  /\ UNCHANGED <<points, hooks, overwritten>>

\* flush(), in its three steps: _render, _clear, post_report.
Render(t) ==
  /\ hook[t].pc = "render"
  /\ body' = [body EXCEPT ![t] = [kind |-> "report", items |-> buffer,
                                  more |-> omitted, point |-> hook[t].event.point]]
  /\ hook' = [hook EXCEPT ![t].pc = "clear"]
  /\ UNCHANGED <<factVars, edgeVars, ringVars, boxVars, saidVars, pastVars>>

EmptyRing == buffer' = {} /\ omitted' = {}

Clear(t) ==
  /\ hook[t].pc = "clear" /\ EmptyRing
  /\ hook' = [hook EXCEPT ![t].pc =
       IF body[t].items = {} THEN "post" ELSE "report"]
  /\ UNCHANGED <<factVars, edgeVars, tools, body, boxVars, saidVars, pastVars>>

-----------------------------------------------------------------------------
(* The mailbox: slots rather than a queue.                                 *)

PostQuietly(slot, e) ==  \* mutant
  /\ slots' = IF closing THEN slots ELSE [slots EXCEPT ![slot] = e]
  /\ UNCHANGED worker
PostOver(slot, e) ==  \* mutant
  IF closing \/ slots[slot] # None THEN UNCHANGED <<slots, worker>>
  ELSE /\ slots' = [slots EXCEPT ![slot] = e]
       /\ worker' = IF worker = "asleep" THEN "ready" ELSE worker
\* _post(): the newer value replaces the older; notify() wakes the worker.
Post(slot, e) ==
  IF closing THEN UNCHANGED <<slots, worker>>
  ELSE /\ slots' = [slots EXCEPT ![slot] = e]
       /\ worker' = IF worker = "asleep" THEN "ready" ELSE worker

Lines(e) == IF e.kind = "report" THEN e.items \cup e.more ELSE {}

PostReport(t) ==
  /\ hook[t].pc = "report"
  /\ Post("report", body[t])
  /\ overwritten' = overwritten \cup
       (IF closing THEN Lines(body[t]) ELSE Lines(slots.report))
  /\ body' = [body EXCEPT ![t] = NoBody]
  /\ hook' = [hook EXCEPT ![t].pc = "post"]
  /\ UNCHANGED <<factVars, edgeVars, ringVars, closing, event, saidVars>>
  /\ UNCHANGED <<points, hooks, raced>>

PostEvent(t) ==
  /\ hook[t].pc = "post"
  /\ Post(IF hook[t].event.edge THEN "state" ELSE "activity", hook[t].event)
  /\ hook' = [hook EXCEPT ![t] = Resting]
  /\ UNCHANGED <<factVars, edgeVars, ringVars, body, closing, event, saidVars, pastVars>>

\* _next_locked(): report, state, activity, release.
NextSlot ==
  IF slots.report # None THEN {"report"}
  ELSE IF slots.state # None THEN {"state"}
  ELSE IF slots.activity # None /\ ~closing THEN {"activity"}
  ELSE IF closing /\ slots.release # None THEN {"release"} ELSE {}

\* The throttle holds an activity back for a while, and then no longer.
WorkerTakes ==
  /\ worker = "ready"
  /\ \E slot \in NextSlot :
       /\ event' = slots[slot] /\ slots' = [slots EXCEPT ![slot] = None]
       /\ worker' = "holding"
  /\ UNCHANGED <<factVars, edgeVars, hook, ringVars, body, closing, saidVars, pastVars>>

\* Under the condition's lock: nothing to do, or not yet.
WorkerSleeps ==
  /\ worker = "ready" /\ (NextSlot = {} \/ NextSlot = {"activity"})
  /\ worker' = IF closing /\ slots.release = None THEN "gone" ELSE "asleep"
  /\ UNCHANGED <<factVars, edgeVars, hook, ringVars, body, slots, closing, event>>
  /\ UNCHANGED <<saidVars, pastVars>>

ThrottleOver ==
  /\ worker = "asleep" /\ slots.activity # None
  /\ worker' = "ready"
  /\ UNCHANGED <<factVars, edgeVars, hook, ringVars, body, slots, closing, event>>
  /\ UNCHANGED <<saidVars, pastVars>>

\* The sink has the event; only a release ends the worker.
WorkerDelivers ==
  /\ worker = "holding"
  /\ said' = IF event.kind = "state" THEN event ELSE said
  /\ saidEdge' = IF event.kind = "state" /\ event.edge THEN event ELSE saidEdge
  /\ reported' = reported \cup Lines(event)
  /\ event' = None
  /\ worker' = IF event.kind = "release" THEN "gone" ELSE "ready"
  /\ UNCHANGED <<factVars, edgeVars, hook, ringVars, body, slots, closing, pastVars>>

\* The critical lane is flushed, the decorative one dropped.
CloseSlots ==
  slots' = [slots EXCEPT !.activity = None, !.release = [kind |-> "release"]]

SleepOn == UNCHANGED worker  \* mutant
WakeAll == worker' = IF worker = "asleep" THEN "ready" ELSE worker

\* uninstall(): no more hooks, and the mailbox is closed.  A join that times
\* out leaves the worker at work.
Close ==
  /\ ~closing /\ closing' = TRUE
  /\ CloseSlots
  /\ WakeAll
  /\ UNCHANGED <<factVars, edgeVars, hook, ringVars, body, event, saidVars, pastVars>>

-----------------------------------------------------------------------------
Work(t) == Sync(t) \/ Render(t) \/ Clear(t) \/ PostReport(t) \/ PostEvent(t)
Worker == WorkerTakes \/ WorkerSleeps \/ ThrottleOver \/ WorkerDelivers

Next ==
  \/ OnRunStart \/ OnRunEnd \/ OnRunCancel \/ OnActivity \/ OnPreToolCall
  \/ \E t \in Approvals : GateOpened(t) \/ GateClosed(t)
  \/ \E t \in Prompts, on, loud \in BOOLEAN : OnAwaitingUserInput(t, on, loud)
  \/ \E t \in Threads : Work(t)
  \/ Worker \/ Close

Spec == Init /\ [][Next]_vars

\* A hook that began returns, and the worker thread runs.
FairSpec == Spec /\ WF_vars(Worker) /\ \A t \in Threads : WF_vars(Work(t))

-----------------------------------------------------------------------------
(* Properties.                                                             *)

States == [kind : {"state"}, state : {"idle", "working", "blocked"},
           message : {"none", "coding", "text", "gate", "local"},
           remote : BOOLEAN, edge : BOOLEAN, point : 0 .. points]
Reports == [kind : {"report"}, items : SUBSET (1 .. tools),
            more : SUBSET (1 .. tools), point : 0 .. points]

\* Facts, slots and the worker stay in their types; the ring within its bound.
TypeOK ==
  /\ runDepth \in 0 .. MaxRuns /\ gateDepth \in 0 .. Cardinality(Approvals)
  /\ awaiting \in BOOLEAN /\ notify \in BOOLEAN /\ text \in BOOLEAN
  /\ lastState \in {"idle", "working", "blocked"}
  /\ lastMessage \in {"none", "coding", "text", "gate", "local"}
  /\ opened \subseteq Approvals
  /\ hook \in [Threads -> [event : States,
       pc : {"rest", "sync", "render", "clear", "report", "post"}]]
  /\ buffer \subseteq 1 .. tools /\ Cardinality(buffer) <= MaxEntries
  /\ omitted \subseteq 1 .. tools /\ body \in [Threads -> Reports]
  /\ slots.report \in Reports \cup {None} /\ slots.state \in States \cup {None}
  /\ slots.activity \in States \cup {None}
  /\ slots.release \in {None, [kind |-> "release"]}
  /\ closing \in BOOLEAN /\ worker \in {"ready", "asleep", "holding", "gone"}
  /\ event \in States \cup Reports \cup {None, [kind |-> "release"]}
  /\ said \in States /\ saidEdge \in States
  /\ reported \subseteq 1 .. tools /\ overwritten \subseteq 1 .. tools
  /\ points \in 0 .. MaxHooks /\ tools \in 0 .. MaxTools
  /\ hooks \in 0 .. MaxHooks /\ raced \in BOOLEAN

AtRest == \A t \in Threads : hook[t].pc = "rest"

\* Once every hook has derived its state, the last one derived is the truth,
\* whatever order the threads came in: an open approval is never forgotten.
TrackerTrue ==
  (\A t \in Threads : hook[t].pc # "sync") /\ ~QuietMenu
    => lastState = IF opened # {} THEN "blocked" ELSE State

\* The newest edge is the one the sink gets last, as long as no two threads
\* derived and posted across each other (the edge is posted with no lock).
EdgeReachesSink ==
  ~raced /\ ~closing /\ AtRest /\ slots.state = None /\ worker # "holding"
    => saidEdge.state = lastState

\* The phone reads what happened before it is asked to decide: the report of
\* a wait point never comes after its edge.
ReportBeforeEdge ==
  worker = "holding" /\ event.kind = "state" /\ event.point > 0 /\ slots.report # None
    => slots.report.point # event.point

\* The worker never sleeps while critical work waits.
NeverSleepsOnWork ==
  worker = "asleep" => slots.report = None /\ slots.state = None

\* Nothing critical is left behind by the worker that ended.
FlushedBeforeRelease ==
  worker = "gone" => /\ slots.report = None /\ slots.state = None
                     /\ slots.release = None /\ slots.activity = None

\* A tool line is in one place, told or counted once, or in a report that was
\* replaced before the worker came; unless a hook fell into another's flush.
EntryInOnePlace ==
  ~raced =>
    /\ reported \cap (buffer \cup omitted \cup Lines(slots.report)) = {}
    /\ \A n \in 1 .. tools :
         \/ n \in buffer \cup omitted \cup reported \cup overwritten
         \/ n \in Lines(slots.report) \cup Lines(event)
         \/ \E t \in Threads : hook[t].pc = "report" /\ n \in Lines(body[t])

\* What the mailbox owes its users at every step: the order of report and
\* edge, a worker that is awake while there is work, nothing left behind, and
\* every tool line in its place.
MailboxSound ==
  /\ TypeOK /\ ReportBeforeEdge /\ NeverSleepsOnWork /\ FlushedBeforeRelease
  /\ EntryInOnePlace

\* After the close the worker tells the broker of the release and ends.
CloseReleases == closing ~> worker = "gone"
=============================================================================
