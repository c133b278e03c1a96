---------------------------- MODULE Session_proofs ----------------------------
(***************************************************************************)
(* Theorems about what a session tells its broker.  The state reporter:    *)
(* what the session is said to do is true, its newest edge is the last     *)
(* word, and its mailbox keeps order and loses nothing.  The connection    *)
(* underneath: no frame is applied twice and no receipt is false.  For any *)
(* threads, bounds, brokers and faults.                                    *)
(***************************************************************************)
EXTENDS Reporter, SessionLink, FiniteSetTheorems, WellFoundedInduction, TLAPS

-----------------------------------------------------------------------------
(* The reporter: what holds of its facts, hooks, ring and mailbox.          *)

Pcs == {"rest", "sync", "render", "clear", "report", "post"}
Release == [kind |-> "release"]
Syncing == {t \in Threads : hook[t].pc = "sync"}

FactsTyped ==
  /\ runDepth \in 0 .. MaxRuns /\ awaiting \in BOOLEAN /\ notify \in BOOLEAN
  /\ text \in BOOLEAN /\ opened \subseteq Approvals /\ gateDepth = Cardinality(opened)
  /\ lastState \in {"idle", "working", "blocked"}
  /\ lastMessage \in {"none", "coding", "text", "gate", "local"}
HooksTyped ==
  /\ hook \in [Threads -> [pc : Pcs, event : States]] /\ body \in [Threads -> Reports]
  /\ hooks \in 0 .. MaxHooks /\ points \in Nat /\ points + Cardinality(Syncing) <= hooks
  /\ raced \in BOOLEAN
RingTyped ==
  /\ tools \in 0 .. MaxTools /\ buffer \subseteq 1 .. tools /\ omitted \subseteq 1 .. tools
  /\ Cardinality(buffer) <= MaxEntries
  /\ buffer = {} => omitted = {}
  /\ reported \subseteq 1 .. tools /\ overwritten \subseteq 1 .. tools
BoxTyped ==
  /\ slots \in [report : Reports \cup {None}, state : States \cup {None},
                activity : States \cup {None}, release : {None, Release}]
  /\ closing \in BOOLEAN /\ worker \in {"ready", "asleep", "holding", "gone"}
  /\ event \in States \cup Reports \cup {None, Release}
  /\ said \in States /\ saidEdge \in States

\* A hook has an event exactly while it posts one, and a wait point's report
\* carries its number.
OwnPoint(t) ==
  /\ hook[t].pc \in {"rest", "sync"} => hook[t].event = Idle
  /\ hook[t].pc \in {"render", "clear", "report"} => hook[t].event.point # 0
  /\ hook[t].pc \in {"clear", "report"} => body[t].point = hook[t].event.point
\* No two places hold the same wait point, and a report on its way precedes
\* its edge.
Held == {hook[t].event.point : t \in Threads} \ {0}
Apart ==
  \A t, u \in Threads :
    t # u /\ hook[t].event.point # 0 => hook[u].event.point # hook[t].event.point
PointsApart ==
  /\ Apart
  /\ slots.state # None => slots.state.point \notin Held
  /\ slots.activity # None => slots.activity.point \notin Held
  /\ event.kind = "state" => event.point \notin Held
  /\ ReportBeforeEdge

\* The close drops the activity and lets in nothing more, and the release comes
\* after everything else.
AllEmpty ==
  /\ slots.report = None /\ slots.state = None
  /\ slots.activity = None /\ slots.release = None
BoxOrdered ==
  /\ NeverSleepsOnWork
  /\ closing => slots.activity = None
  /\ slots.release # None => closing
  /\ event.kind = "release" => closing /\ AllEmpty
  /\ worker = "gone" => closing /\ AllEmpty
  /\ event # None <=> worker = "holding"
  /\ slots.state # None => slots.state.edge
  /\ slots.activity # None => ~slots.activity.edge

\* The newest edge is in the hook that derived it, in its slot, with the worker
\* or said, and nothing newer is behind it.
AnEdge(e) == e.kind = "state" /\ e.edge
EdgeOnItsWay ==
  IF \E t \in Posting : hook[t].event.edge
  THEN \E t \in Posting : hook[t].event.edge /\ hook[t].event.state = lastState
  ELSE IF slots.state # None THEN slots.state.state = lastState
  ELSE IF AnEdge(event) THEN event.state = lastState
  ELSE saidEdge.state = lastState

\* A tool line is in one place only.
Rendered == UNION {Lines(body[t]) : t \in {u \in Threads : hook[u].pc = "report"}}
Ring == buffer \cup omitted
LinesApart ==
  /\ Ring \cap (Rendered \cup Lines(slots.report) \cup Lines(event) \cup reported) = {}
  /\ Rendered \cap (Lines(slots.report) \cup Lines(event) \cup reported) = {}
  /\ Lines(slots.report) \cap (Lines(event) \cup reported) = {}
  /\ 1 .. tools \subseteq Ring \cup Rendered \cup Lines(slots.report) \cup Lines(event)
                           \cup reported \cup overwritten
  /\ \A t \in Threads : hook[t].pc = "clear" => body[t].items = buffer /\ body[t].more = omitted

\* Once every hook has derived its state, it is what was said last.
Tracked == Syncing = {} /\ ~QuietMenu => lastState = State

\* What holds as long as no two threads derived and posted across each other.
OneAtATime == \A t, u \in Posting : t = u
Orderly ==
  ~raced => /\ OneAtATime
            /\ ~closing => EdgeOnItsWay
            /\ LinesApart

\* All types together.
AllTyped == FactsTyped /\ HooksTyped /\ RingTyped /\ BoxTyped

RepInv ==
  /\ AllTyped /\ Tracked
  /\ \A t \in Threads : OwnPoint(t)
  /\ PointsApart /\ BoxOrdered /\ Orderly

-----------------------------------------------------------------------------
(* The kinds of steps.                                                      *)

\* A hook that an open gate silences.
Silenced ==
  /\ hooks < MaxHooks /\ hooks' = hooks + 1
  /\ UNCHANGED <<factVars, edgeVars, hook, ringVars, body, boxVars, saidVars, points, raced>>
  /\ UNCHANGED overwritten

\* The hooks that change a fact or are silenced.
Hooks ==
  \/ OnRunStart \/ OnRunEnd \/ OnRunCancel \/ OnActivity
  \/ \E t \in Approvals : GateOpened(t) \/ GateClosed(t)
  \/ \E t \in Prompts, on, loud \in BOOLEAN : OnAwaitingUserInput(t, on, loud)

\* All hooks but the tool lines look the same to the mailbox.
LEMMA HooksFire ==
  ASSUME Hooks
  PROVE  (\E t \in Threads : Fire(t)) \/ Silenced
<1>1. CASE OnRunStart \/ OnRunEnd \/ OnRunCancel \/ OnActivity
  BY <1>1 DEF OnRunStart, OnRunEnd, OnRunCancel, OnActivity, Threads
<1>2. ASSUME NEW t \in Approvals, GateOpened(t) \/ GateClosed(t)
      PROVE  \E u \in Threads : Fire(u)
  BY <1>2 DEF GateOpened, GateClosed, Threads
<1>3. ASSUME NEW t \in Prompts, NEW on \in BOOLEAN, NEW loud \in BOOLEAN,
             OnAwaitingUserInput(t, on, loud)
      PROVE  (\E u \in Threads : Fire(u)) \/ Silenced
  <2>1. CASE gateDepth > 0
    BY <1>3, <2>1 DEF OnAwaitingUserInput, Silenced, factVars
  <2>2. CASE ~(gateDepth > 0)
    BY <1>3, <2>2 DEF OnAwaitingUserInput, Threads
  <2> QED
    BY <2>1, <2>2
<1> QED
  BY <1>1, <1>2, <1>3 DEF Hooks

\* What each step leaves alone.
LEMMA NextKinds ==
  ASSUME [Next]_vars
  PROVE  \/ Hooks \/ OnPreToolCall \/ (\E t \in Threads : Work(t)) \/ Worker \/ Close
         \/ UNCHANGED vars
  BY DEF Next, Hooks

-----------------------------------------------------------------------------
(* The facts and what was said of them.                                     *)

\* The open approvals can be counted.
LEMMA OpenedFinite ==
  ASSUME FactsTyped
  PROVE  /\ IsFiniteSet(opened) /\ gateDepth \in Nat /\ (gateDepth = 0 <=> opened = {})
         /\ gateDepth <= Cardinality(Approvals) /\ Cardinality(Approvals) \in Nat
<1>1. IsFiniteSet(Approvals)
  BY FS_Subset, ReporterAssumption DEF Threads
<1>2. IsFiniteSet(opened) /\ Cardinality(opened) <= Cardinality(Approvals)
  BY <1>1, FS_Subset DEF FactsTyped
<1> QED
  BY <1>1, <1>2, FS_CardinalityType, FS_EmptySet DEF FactsTyped

\* The state and the message derived are those the types allow.
LEMMA Derived ==
  /\ State \in {"idle", "working", "blocked"}
  /\ Message \in {"none", "coding", "text", "gate", "local"}
<1>1. State \in {"idle", "working", "blocked"}
  BY DEF State
<1> QED
  BY <1>1 DEF Message

\* Every step keeps the types of the facts.
LEMMA FactsStep ==
  ASSUME FactsTyped, [Next]_vars
  PROVE  FactsTyped'
<1> USE ReporterAssumption
<1>1. CASE OnRunStart \/ OnRunEnd \/ OnRunCancel \/ OnActivity
  <2>1. UNCHANGED <<opened, gateDepth, edgeVars>>
    BY <1>1 DEF OnRunStart, OnRunEnd, OnRunCancel, OnActivity, ResetToIdle, Fire
  <2>2. runDepth' \in 0 .. MaxRuns
    BY <1>1 DEF OnRunStart, OnRunEnd, OnRunCancel, OnActivity, ResetToIdle, FactsTyped
  <2>3. awaiting' \in BOOLEAN /\ notify' \in BOOLEAN /\ text' \in BOOLEAN
    BY <1>1 DEF OnRunStart, OnRunEnd, OnRunCancel, OnActivity, ResetToIdle, FactsTyped
  <2> QED
    BY <2>1, <2>2, <2>3 DEF FactsTyped, edgeVars
<1>2. ASSUME NEW t \in Approvals, GateOpened(t) \/ GateClosed(t) PROVE FactsTyped'
  <2>1. IsFiniteSet(opened) /\ gateDepth \in Nat
    BY OpenedFinite
  <2>2. CASE GateOpened(t)
    <3>1. Cardinality(opened \cup {t}) = gateDepth + 1
      BY <2>1, <2>2, FS_AddElement DEF GateOpened, FactsTyped
    <3> QED
      BY <2>2, <3>1 DEF GateOpened, Fire, FactsTyped, edgeVars
  <2>3. CASE GateClosed(t)
    <3>1. Cardinality(opened \ {t}) = gateDepth - 1
      BY <2>1, <2>3, FS_RemoveElement DEF GateClosed, FactsTyped
    <3> QED
      BY <2>3, <3>1 DEF GateClosed, Fire, FactsTyped, edgeVars
  <2> QED
    BY <1>2, <2>2, <2>3
<1>3. ASSUME NEW t \in Prompts, NEW on \in BOOLEAN, NEW loud \in BOOLEAN,
             OnAwaitingUserInput(t, on, loud)
      PROVE  FactsTyped'
  <2>1. UNCHANGED <<runDepth, gateDepth, text, opened, edgeVars>>
    BY <1>3 DEF OnAwaitingUserInput, Fire
  <2>2. awaiting' \in BOOLEAN /\ notify' \in BOOLEAN
    BY <1>3 DEF OnAwaitingUserInput, FactsTyped
  <2> QED
    BY <2>1, <2>2 DEF FactsTyped, edgeVars
<1>4. ASSUME NEW t \in Threads, Sync(t) PROVE FactsTyped'
  <2>1. UNCHANGED factVars
    BY <1>4 DEF Sync
  <2>2. \/ UNCHANGED edgeVars
        \/ lastState' = State /\ lastMessage' = Message
    BY <1>4 DEF Sync
  <2> QED
    BY <2>1, <2>2, Derived DEF FactsTyped, factVars, edgeVars
<1>5. CASE \/ OnPreToolCall \/ Worker \/ Close \/ UNCHANGED vars
           \/ \E t \in Threads : Render(t) \/ Clear(t) \/ PostReport(t) \/ PostEvent(t)
  <2>1. UNCHANGED <<factVars, edgeVars>>
    BY <1>5 DEF OnPreToolCall, Worker, WorkerTakes, WorkerSleeps, ThrottleOver, WorkerDelivers,
                Close, vars, Render, Clear, PostReport, PostEvent
  <2> QED
    BY <2>1 DEF FactsTyped, factVars, edgeVars
<1> QED
  BY <1>1, <1>2, <1>3, <1>4, <1>5, NextKinds DEF Hooks, Work

-----------------------------------------------------------------------------
(* The threads: which step moves which.                                     *)

\* One thread's hook goes on.
Moves(t, pc, e) == hook' = [hook EXCEPT ![t] = [pc |-> pc, event |-> e]]

\* Each step of a hook as what becomes of that thread's place and event.
LEMMA HookMoves ==
  ASSUME HooksTyped, NEW t \in Threads
  PROVE  /\ Fire(t) => hook[t].pc = "rest" /\ Moves(t, "sync", Idle)
         /\ Render(t) => hook[t].pc = "render" /\ Moves(t, "clear", hook[t].event)
         /\ Clear(t) => /\ hook[t].pc = "clear"
                        /\ Moves(t, IF body[t].items = {} THEN "post" ELSE "report", hook[t].event)
         /\ PostReport(t) => hook[t].pc = "report" /\ Moves(t, "post", hook[t].event)
         /\ PostEvent(t) => hook[t].pc = "post" /\ Moves(t, "rest", Idle)
<1>1. hook[t] \in [pc : Pcs, event : States] /\ hook \in [Threads -> [pc : Pcs, event : States]]
  BY DEF HooksTyped
<1>2. ASSUME NEW p PROVE [hook EXCEPT ![t].pc = p] = [hook EXCEPT ![t] = [pc |-> p, event |-> hook[t].event]]
  <2>1. [hook[t] EXCEPT !.pc = p] = [pc |-> p, event |-> hook[t].event]
    BY <1>1
  <2> QED
    BY <2>1
<1>3. [Resting EXCEPT !.pc = "sync"] = [pc |-> "sync", event |-> Idle]
  BY DEF Resting
<1> QED
  BY <1>2, <1>3 DEF Fire, Render, Clear, PostReport, PostEvent, Moves, Resting

\* What a move does to the functions.
LEMMA Moved ==
  ASSUME HooksTyped, NEW t \in Threads, NEW p, NEW e, Moves(t, p, e)
  PROVE  /\ hook'[t].pc = p /\ hook'[t].event = e
         /\ \A u \in Threads \ {t} : hook'[u] = hook[u]
         /\ Syncing' = IF p = "sync" THEN Syncing \cup {t} ELSE Syncing \ {t}
         /\ Posting' = IF p \in {"rest", "sync"} THEN Posting \ {t} ELSE Posting \cup {t}
<1>1. /\ hook'[t].pc = p /\ hook'[t].event = e
      /\ \A u \in Threads \ {t} : hook'[u] = hook[u]
  BY DEF HooksTyped, Moves
<1>2. \A u \in Threads : u \in Syncing' <=> u \in (IF p = "sync" THEN Syncing \cup {t} ELSE Syncing \ {t})
  BY <1>1 DEF Syncing
<1>3. \A u \in Threads : u \in Posting' <=>
        u \in (IF p \in {"rest", "sync"} THEN Posting \ {t} ELSE Posting \cup {t})
  BY <1>1 DEF Posting
<1> QED
  BY <1>1, <1>2, <1>3 DEF Syncing, Posting

\* What a hook says when it has derived its state: nothing, an event of the old
\* state or an edge without a wait point, or an edge with one of its own.
SaysNothing(t) ==
  Moves(t, "rest", Idle) /\ UNCHANGED <<edgeVars, points, raced>>
SaysEvent(t, e) ==
  /\ e.kind = "state" /\ e.state = State /\ (e.edge <=> State # lastState)
  /\ lastState' = State /\ raced' = (raced \/ Posting # {})
  /\ \/ e.point = points + 1 /\ points' = points + 1 /\ e.edge /\ Moves(t, "render", e)
     \/ e.point = 0 /\ points' = points /\ Moves(t, "post", e)

\* What is of a type stays so while the counters grow.
LEMMA TypesGrow ==
  ASSUME points \in Nat, points' \in {points, points + 1},
         tools \in Nat, tools' \in {tools, tools + 1}
  PROVE  /\ \A e \in States : e \in States'
         /\ \A e \in Reports : e \in Reports'
         /\ 1 .. tools \subseteq 1 .. tools'
<1>1. 0 .. points \subseteq 0 .. points' /\ 1 .. tools \subseteq 1 .. tools'
  OBVIOUS
<1>2. \A e \in States : e \in States'
  BY <1>1 DEF States
<1>3. SUBSET (1 .. tools) \subseteq SUBSET (1 .. tools')
  BY <1>1
<1>4. \A e \in Reports : e \in Reports'
  BY <1>1, <1>3 DEF Reports
<1> QED
  BY <1>1, <1>2, <1>4

\* The two outcomes of deriving the state.
LEMMA SyncKinds ==
  ASSUME HooksTyped, tools \in Nat, NEW t \in Threads, Sync(t)
  PROVE  /\ hook[t].pc = "sync" /\ points' \in {points, points + 1} /\ points' \in Nat
         /\ raced' \in BOOLEAN /\ (raced => raced')
         /\ UNCHANGED <<factVars, ringVars, body, boxVars, saidVars, hooks, overwritten>>
         /\ \/ SaysNothing(t) /\ (QuietMenu \/ State = lastState)
            \/ \E e \in States' : SaysEvent(t, e)
<1> DEFINE edge  == State # lastState
           point == edge /\ lastState = "working"
           new   == [kind |-> "state", state |-> State, message |-> Message,
                     remote |-> gateDepth > 0, edge |-> edge,
                     point |-> IF point THEN points + 1 ELSE 0]
<1>1. /\ hook[t].pc = "sync"
      /\ UNCHANGED <<factVars, ringVars, body, boxVars, saidVars, hooks, overwritten>>
  BY DEF Sync
<1>2. raced \in BOOLEAN /\ points \in Nat
  BY DEF HooksTyped
<1>3. CASE QuietMenu \/ (~edge /\ Message = lastMessage)
  <2>1. hook' = [hook EXCEPT ![t] = Resting] /\ UNCHANGED <<edgeVars, points, raced>>
    BY <1>3 DEF Sync
  <2>2. SaysNothing(t) /\ (QuietMenu \/ State = lastState)
    BY <1>3, <2>1 DEF SaysNothing, Moves, Resting
  <2> QED
    BY <1>1, <1>2, <2>1, <2>2
<1>4. CASE ~(QuietMenu \/ (~edge /\ Message = lastMessage))
  <2>1. /\ hook' = [hook EXCEPT ![t] = [pc |-> IF point THEN "render" ELSE "post", event |-> new]]
        /\ lastState' = State /\ points' = IF point THEN points + 1 ELSE points
        /\ raced' = (raced \/ Posting # {})
    BY <1>4 DEF Sync
  <2>2. points' \in Nat /\ points' \in {points, points + 1} /\ raced' \in BOOLEAN /\ (raced => raced')
    BY <1>2, <2>1
  <2>3. new \in States'
    <3>1. (IF point THEN points + 1 ELSE 0) \in 0 .. points'
      BY <1>2, <2>1
    <3> DEFINE remote == gateDepth > 0
               other  == State # lastState
               number == IF point THEN points + 1 ELSE 0
    <3>2. remote \in BOOLEAN /\ other \in BOOLEAN /\ number \in 0 .. points'
      BY <3>1
    <3> HIDE DEF remote, other, number
    <3>3. [kind |-> "state", state |-> State, message |-> Message, remote |-> remote,
           edge |-> other, point |-> number] \in States'
      BY <3>2, Derived DEF States
    <3> QED
      BY <3>3, Zenon DEF remote, other, number
  <2>4. /\ new.kind = "state" /\ new.state = State /\ (new.edge <=> State # lastState)
        /\ new.point = IF point THEN points + 1 ELSE 0
    OBVIOUS
  <2>5. SaysEvent(t, new)
    <3>1. CASE point
      BY <2>1, <2>4, <3>1 DEF SaysEvent, Moves
    <3>2. CASE ~point
      BY <2>1, <2>4, <3>2 DEF SaysEvent, Moves
    <3> QED
      BY <3>1, <3>2
  <2> QED
    BY <1>1, <2>2, <2>3, <2>5
<1> QED
  BY <1>3, <1>4

-----------------------------------------------------------------------------
(* Types.                                                                   *)

\* Hooks between firing and deriving can be counted.
LEMMA SyncingCounted ==
  ASSUME HooksTyped
  PROVE  /\ IsFiniteSet(Syncing) /\ Cardinality(Syncing) \in Nat
         /\ \A t : /\ t \notin Syncing => Cardinality(Syncing \cup {t}) = Cardinality(Syncing) + 1
                   /\ t \in Syncing => Cardinality(Syncing \ {t}) = Cardinality(Syncing) - 1
<1>1. IsFiniteSet(Syncing)
  BY FS_Subset, ReporterAssumption DEF Syncing
<1> QED
  BY <1>1, FS_CardinalityType, FS_AddElement, FS_RemoveElement

\* The lines of anything in the mailbox are lines that were recorded.
LEMMA LinesTyped ==
  ASSUME NEW e \in States \cup Reports \cup {None, Release}
  PROVE  Lines(e) \subseteq 1 .. tools
  BY DEF Lines, States, Reports, None, Release

\* Idle is a state, and an empty report is one.
LEMMA Constants ==
  ASSUME points \in Nat
  PROVE  /\ Idle \in States /\ NoBody \in Reports /\ Idle.point = 0 /\ ~Idle.edge
         /\ Idle.state = "idle" /\ Lines(NoBody) = {} /\ Lines(None) = {} /\ Lines(Release) = {}
  BY DEF Idle, NoBody, States, Reports, Lines, None, Release

\* The hooks, the points and the reports in hand keep their types.
LEMMA HooksStep ==
  ASSUME HooksTyped, RingTyped, [Next]_vars
  PROVE  HooksTyped' /\ points' \in {points, points + 1}
<1> USE ReporterAssumption
<1>1. /\ points \in Nat /\ hooks \in Nat /\ hooks <= MaxHooks /\ tools \in Nat
      /\ Idle \in States /\ NoBody \in Reports
  BY Constants DEF HooksTyped, RingTyped
<1>2. tools' = tools /\ points' = points => States' = States /\ Reports' = Reports
  BY DEF States, Reports
<1>3. ASSUME NEW t \in Threads, Fire(t) PROVE HooksTyped' /\ points' = points
  <2>1. /\ hooks < MaxHooks /\ hooks' = hooks + 1 /\ UNCHANGED <<points, raced, tools, body>>
        /\ hook[t].pc = "rest" /\ Moves(t, "sync", Idle)
    BY <1>3, HookMoves DEF Fire, ringVars
  <2>2. Syncing' = Syncing \cup {t} /\ t \notin Syncing
    BY <2>1, Moved DEF Syncing
  <2>3. Cardinality(Syncing') = Cardinality(Syncing) + 1 /\ Cardinality(Syncing) \in Nat
    BY <2>2, SyncingCounted
  <2>4. hook' \in [Threads -> [pc : Pcs, event : States]]
    BY <1>1, <2>1 DEF HooksTyped, Moves, Pcs
  <2> QED
    BY <1>1, <1>2, <2>1, <2>3, <2>4 DEF HooksTyped
<1>4. ASSUME Silenced PROVE HooksTyped' /\ points' = points
  <2>1. hooks < MaxHooks /\ hooks' = hooks + 1 /\ UNCHANGED <<points, raced, tools, body, hook>>
    BY <1>4 DEF Silenced, ringVars
  <2>2. Syncing' = Syncing /\ Cardinality(Syncing) \in Nat
    BY <2>1, SyncingCounted DEF Syncing
  <2> QED
    BY <1>1, <1>2, <2>1, <2>2 DEF HooksTyped
<1>5. ASSUME NEW t \in Threads, Sync(t) PROVE HooksTyped' /\ points' \in {points, points + 1}
  <2>1. /\ hook[t].pc = "sync" /\ points' \in {points, points + 1} /\ points' \in Nat
        /\ raced' \in BOOLEAN /\ UNCHANGED <<tools, body, hooks>>
        /\ \/ SaysNothing(t)
           \/ \E e \in States' : SaysEvent(t, e)
    BY <1>1, <1>5, SyncKinds DEF ringVars
  <2>2. /\ \A e \in States : e \in States'
        /\ \A e \in Reports : e \in Reports'
    BY <1>1, <2>1, TypesGrow
  <2>3. PICK p \in Pcs \ {"sync"}, e \in States' : Moves(t, p, e)
    BY <1>1, <2>1, <2>2 DEF SaysNothing, SaysEvent, Pcs
  <2>4. Syncing' = Syncing \ {t} /\ t \in Syncing
    BY <2>1, <2>3, Moved DEF Syncing
  <2>5. Cardinality(Syncing') = Cardinality(Syncing) - 1 /\ Cardinality(Syncing) \in Nat
    BY <2>4, SyncingCounted
  <2>6. hook' \in [Threads -> [pc : Pcs, event : States']]
    BY <2>2, <2>3 DEF HooksTyped, Moves
  <2>7. body' \in [Threads -> Reports']
    BY <2>1, <2>2 DEF HooksTyped
  <2> QED
    BY <1>1, <2>1, <2>5, <2>6, <2>7 DEF HooksTyped
<1>6. ASSUME NEW t \in Threads, Render(t) \/ Clear(t) \/ PostReport(t) \/ PostEvent(t)
      PROVE  HooksTyped' /\ points' = points
  <2>1. UNCHANGED <<points, raced, tools, hooks>>
    BY <1>6 DEF Render, Clear, PostReport, PostEvent, ringVars, pastVars
  <2>2. hook[t].event \in States
    BY DEF HooksTyped
  <2>3. PICK p \in Pcs \ {"sync"}, e \in States : Moves(t, p, e) /\ hook[t].pc # "sync"
    BY <1>1, <1>6, <2>2, HookMoves DEF Pcs
  <2>4. Syncing' = Syncing
    BY <2>3, Moved DEF Syncing
  <2>5. hook' \in [Threads -> [pc : Pcs, event : States]]
    BY <2>3 DEF HooksTyped, Moves
  <2>6. body' \in [Threads -> Reports]
    <3>1. [kind |-> "report", items |-> buffer, more |-> omitted, point |-> hook[t].event.point] \in Reports
      BY <2>2 DEF Reports, States, RingTyped
    <3>2. \/ body' = body \/ body' = [body EXCEPT ![t] = NoBody]
          \/ body' = [body EXCEPT ![t] = [kind |-> "report", items |-> buffer,
                                         more |-> omitted, point |-> hook[t].event.point]]
      BY <1>6 DEF Render, Clear, PostReport, PostEvent
    <3> QED
      BY <1>1, <3>1, <3>2 DEF HooksTyped
  <2> QED
    BY <1>1, <1>2, <2>1, <2>4, <2>5, <2>6 DEF HooksTyped
<1>7. ASSUME OnPreToolCall PROVE HooksTyped' /\ points' = points
  <2>1. /\ UNCHANGED <<points, hooks, hook, body>> /\ tools' = tools + 1 /\ raced' \in BOOLEAN
    BY <1>7 DEF OnPreToolCall, HooksTyped
  <2>2. /\ \A e \in States : e \in States'
        /\ \A e \in Reports : e \in Reports'
    BY <1>1, <2>1, TypesGrow
  <2>3. Syncing' = Syncing
    BY <2>1 DEF Syncing
  <2>4. hook' \in [Threads -> [pc : Pcs, event : States']] /\ body' \in [Threads -> Reports']
    BY <2>1, <2>2 DEF HooksTyped
  <2> QED
    BY <2>1, <2>3, <2>4 DEF HooksTyped
<1>8. ASSUME Worker \/ Close \/ UNCHANGED vars PROVE HooksTyped' /\ points' = points
  <2>1. UNCHANGED <<hook, body, hooks, points, raced, tools>>
    BY <1>8 DEF Worker, WorkerTakes, WorkerSleeps, ThrottleOver, WorkerDelivers, Close, vars,
                pastVars, ringVars
  <2>2. Syncing' = Syncing
    BY <2>1 DEF Syncing
  <2> QED
    BY <1>2, <2>1, <2>2 DEF HooksTyped
<1> QED
  BY <1>3, <1>4, <1>5, <1>6, <1>7, <1>8, HooksFire, NextKinds DEF Work

\* Every set of numbers that is not empty has a least one: of those without,
\* well-foundedness gives a member that nothing is below.
LEMMA LeastExists ==
  ASSUME NEW T \in SUBSET Nat, T # {}
  PROVE  \E x \in T : \A y \in T : x <= y
<1> DEFINE Less == OpToRel(<, Nat)
<1>1. IsWellFoundedOn(Less, Nat)
  BY NatLessThanWellFounded
<1>2. \A x, y \in Nat : y < x => <<y, x>> \in Less
  BY DEF OpToRel
<1> HIDE DEF Less
<1>3. PICK x \in T : \A y \in T : ~(<<y, x>> \in Less)
  BY <1>1, WFMin
<1>4. ASSUME NEW y \in T PROVE x <= y
  <2>1. ~(y < x)
    BY <1>2, <1>3
  <2> QED
    BY <2>1
<1> QED
  BY <1>4

\* A line more, and the ring keeps its bound: a full one drops its oldest line.
LEMMA RingAppends ==
  ASSUME RingTyped, AppendEntry, tools' = tools + 1
  PROVE  /\ buffer' \subseteq 1 .. tools' /\ omitted' \subseteq 1 .. tools'
         /\ Cardinality(buffer') <= MaxEntries /\ buffer' # {}
         /\ buffer' \cup omitted' = buffer \cup omitted \cup {tools + 1}
<1> USE ReporterAssumption
<1>1. /\ tools \in Nat /\ tools + 1 \in 1 .. tools' /\ 1 .. tools \subseteq 1 .. tools'
      /\ tools + 1 \notin buffer /\ buffer \subseteq Nat /\ buffer \subseteq 1 .. tools
      /\ omitted \subseteq 1 .. tools
  BY DEF RingTyped
<1>2. IsFiniteSet(buffer) /\ Cardinality(buffer) \in Nat /\ Cardinality(buffer) <= MaxEntries
  <2>1. IsFiniteSet(1 .. tools)
    BY <1>1, FS_Interval
  <2> QED
    BY <1>1, <2>1, FS_Subset, FS_CardinalityType DEF RingTyped
<1>3. CASE Cardinality(buffer) < MaxEntries
  <2>1. buffer' = buffer \cup {tools + 1} /\ omitted' = omitted
    BY <1>3 DEF AppendEntry
  <2>2. Cardinality(buffer') = Cardinality(buffer) + 1
    BY <1>1, <1>2, <2>1, FS_AddElement
  <2>3. buffer' \subseteq 1 .. tools' /\ omitted' \subseteq 1 .. tools'
    BY <1>1, <2>1
  <2> QED
    BY <1>2, <1>3, <2>1, <2>2, <2>3
<1>4. CASE ~(Cardinality(buffer) < MaxEntries)
  <2> DEFINE least == Min(buffer)
  <2>1. buffer # {}
    BY <1>2, <1>4, FS_EmptySet
  <2>2. least \in buffer
    BY <1>1, <2>1, LeastExists DEF Min
  <2>3. buffer' = (buffer \ {least}) \cup {tools + 1} /\ omitted' = omitted \cup {least}
    BY <1>4 DEF AppendEntry
  <2> HIDE DEF least
  <2>4. /\ IsFiniteSet(buffer \ {least}) /\ Cardinality(buffer \ {least}) = Cardinality(buffer) - 1
        /\ tools + 1 \notin buffer \ {least}
    BY <1>1, <1>2, <2>2, FS_RemoveElement
  <2>5. Cardinality(buffer') = Cardinality(buffer)
    <3>1. Cardinality(buffer') = Cardinality(buffer \ {least}) + 1
      BY <2>3, <2>4, FS_AddElement
    <3> QED
      BY <1>2, <2>4, <3>1
  <2>6. buffer' \subseteq 1 .. tools' /\ omitted' \subseteq 1 .. tools'
    BY <1>1, <2>2, <2>3
  <2>7. buffer' \cup omitted' = buffer \cup omitted \cup {tools + 1}
    BY <2>2, <2>3
  <2> QED
    BY <1>2, <2>3, <2>5, <2>6, <2>7
<1> QED
  BY <1>3, <1>4

\* What a line in the mailbox can come from.
LEMMA SlotLines ==
  ASSUME RingTyped, HooksTyped, BoxTyped
  PROVE  /\ Lines(slots.report) \subseteq 1 .. tools /\ Lines(event) \subseteq 1 .. tools
         /\ \A t \in Threads : Lines(body[t]) \subseteq 1 .. tools
<1>1. /\ slots.report \in States \cup Reports \cup {None, Release}
      /\ event \in States \cup Reports \cup {None, Release}
      /\ \A t \in Threads : body[t] \in States \cup Reports \cup {None, Release}
  BY DEF BoxTyped, HooksTyped
<1> QED
  BY <1>1, LinesTyped

\* The ring, and the lines told or given up, keep their types.
LEMMA RingStep ==
  ASSUME RingTyped, HooksTyped, BoxTyped, [Next]_vars
  PROVE  RingTyped' /\ tools' \in {tools, tools + 1}
<1> USE ReporterAssumption
<1>1. CASE OnPreToolCall
  <2>1. /\ tools < MaxTools /\ AppendEntry /\ tools' = tools + 1 /\ UNCHANGED <<reported, overwritten>>
    BY <1>1 DEF OnPreToolCall, saidVars
  <2>2. /\ buffer' \subseteq 1 .. tools' /\ omitted' \subseteq 1 .. tools'
        /\ Cardinality(buffer') <= MaxEntries /\ buffer' # {}
    BY <2>1, RingAppends
  <2>3. 1 .. tools \subseteq 1 .. tools' /\ tools' \in 0 .. MaxTools
    BY <2>1 DEF RingTyped
  <2>4. reported' \subseteq 1 .. tools' /\ overwritten' \subseteq 1 .. tools'
    BY <2>1, <2>3 DEF RingTyped
  <2> QED
    BY <2>1, <2>2, <2>3, <2>4 DEF RingTyped
<1>2. ASSUME NEW t \in Threads, Clear(t) PROVE RingTyped' /\ tools' = tools
  <2>1. buffer' = {} /\ omitted' = {} /\ UNCHANGED <<tools, reported, overwritten>>
    BY <1>2 DEF Clear, EmptyRing, saidVars, pastVars
  <2>2. Cardinality(buffer') <= MaxEntries
    BY <2>1, FS_EmptySet
  <2> QED
    BY <2>1, <2>2 DEF RingTyped
<1>3. ASSUME NEW t \in Threads, PostReport(t) PROVE RingTyped' /\ tools' = tools
  <2>1. /\ UNCHANGED <<ringVars, reported>>
        /\ overwritten' = overwritten \cup (IF closing THEN Lines(body[t]) ELSE Lines(slots.report))
    BY <1>3 DEF PostReport, saidVars
  <2>2. overwritten' \subseteq 1 .. tools
    BY <2>1, SlotLines DEF RingTyped
  <2> QED
    BY <2>1, <2>2 DEF RingTyped, ringVars
<1>4. CASE WorkerDelivers
  <2>1. UNCHANGED <<ringVars, overwritten>> /\ reported' = reported \cup Lines(event)
    BY <1>4 DEF WorkerDelivers, pastVars
  <2>2. reported' \subseteq 1 .. tools
    BY <2>1, SlotLines DEF RingTyped
  <2> QED
    BY <2>1, <2>2 DEF RingTyped, ringVars
<1>5. ASSUME UNCHANGED <<ringVars, reported, overwritten>> PROVE RingTyped' /\ tools' = tools
  BY <1>5 DEF RingTyped, ringVars
<1>6. ASSUME NEW t \in Threads, Fire(t) \/ Sync(t) \/ Render(t) \/ PostEvent(t)
      PROVE  UNCHANGED <<ringVars, reported, overwritten>>
  BY <1>6 DEF Fire, Sync, Render, PostEvent, saidVars, pastVars
<1>7. ASSUME Silenced \/ WorkerTakes \/ WorkerSleeps \/ ThrottleOver \/ Close \/ UNCHANGED vars
      PROVE  UNCHANGED <<ringVars, reported, overwritten>>
  BY <1>7 DEF Silenced, WorkerTakes, WorkerSleeps, ThrottleOver, Close, vars, saidVars, pastVars
<1> QED
  BY <1>1, <1>2, <1>3, <1>4, <1>5, <1>6, <1>7, HooksFire, NextKinds DEF Work, Worker

\* What a step puts into a slot, and what becomes of the worker.
Puts(slot, e) ==
  IF closing THEN slots' = slots /\ worker' = worker
  ELSE /\ slots' = [slots EXCEPT ![slot] = e]
       /\ worker' = IF worker = "asleep" THEN "ready" ELSE worker

\* The mailbox keeps its types.
LEMMA BoxStep ==
  ASSUME BoxTyped, HooksTyped, HooksTyped', RingTyped, [Next]_vars,
         points' \in {points, points + 1}, tools' \in {tools, tools + 1}
  PROVE  BoxTyped'
<1> DEFINE Slots(S, R) == [report : R \cup {None}, state : S \cup {None},
                           activity : S \cup {None}, release : {None, Release}]
<1>1. /\ \A e \in States : e \in States'
      /\ \A e \in Reports : e \in Reports'
      /\ points \in Nat /\ tools \in Nat
  <2>1. points \in Nat /\ tools \in Nat
    BY DEF HooksTyped, RingTyped
  <2> QED
    BY <2>1, TypesGrow
<1>2. /\ slots \in Slots(States, Reports) /\ None' = None /\ Release' = Release
      /\ closing \in BOOLEAN /\ worker \in {"ready", "asleep", "holding", "gone"}
      /\ event \in States \cup Reports \cup {None, Release} /\ said \in States /\ saidEdge \in States
  BY DEF BoxTyped, None, Release
<1>3. ASSUME UNCHANGED <<slots, closing, event, saidVars>>,
             worker' \in {"ready", "asleep", "holding", "gone"}
      PROVE  BoxTyped'
  <2>1. slots \in Slots(States', Reports')
    BY <1>1, <1>2
  <2> QED
    BY <1>1, <1>2, <1>3, <2>1 DEF BoxTyped, saidVars
<1>4. ASSUME NEW t \in Threads, PostReport(t) \/ PostEvent(t) PROVE BoxTyped'
  <2>1. /\ UNCHANGED <<closing, event, saidVars, points, tools>>
        /\ \/ Puts("report", body[t])
           \/ Puts("state", hook[t].event) \/ Puts("activity", hook[t].event)
    BY <1>4 DEF PostReport, PostEvent, Post, Puts, pastVars, ringVars
  <2>2. body[t] \in Reports /\ hook[t].event \in States
    BY DEF HooksTyped
  <2>3. slots' \in Slots(States, Reports) /\ worker' \in {"ready", "asleep", "holding", "gone"}
    BY <1>2, <2>1, <2>2 DEF Puts
  <2>4. States' = States /\ Reports' = Reports
    BY <2>1 DEF States, Reports
  <2> QED
    BY <1>2, <2>1, <2>3, <2>4 DEF BoxTyped, saidVars
<1>5. ASSUME WorkerTakes \/ WorkerDelivers \/ Close PROVE BoxTyped'
  <2>1. UNCHANGED <<points, tools>>
    BY <1>5 DEF WorkerTakes, WorkerDelivers, Close, pastVars, ringVars
  <2>2. States' = States /\ Reports' = Reports
    BY <2>1 DEF States, Reports
  <2>3. CASE WorkerTakes
    <3>1. PICK slot \in NextSlot : event' = slots[slot] /\ slots' = [slots EXCEPT ![slot] = None]
      BY <2>3 DEF WorkerTakes
    <3>2. slot \in {"report", "state", "activity", "release"}
      BY <3>1 DEF NextSlot
    <3>3. slots' \in Slots(States, Reports) /\ event' \in States \cup Reports \cup {None, Release}
      BY <1>2, <3>1, <3>2
    <3>4. worker' = "holding" /\ UNCHANGED <<closing, saidVars>>
      BY <2>3 DEF WorkerTakes
    <3> QED
      BY <1>2, <2>2, <3>3, <3>4 DEF BoxTyped, saidVars
  <2>4. CASE WorkerDelivers
    <3>1. event.kind = "state" => event \in States
      BY <1>2 DEF Reports, None, Release
    <3>2. /\ said' \in States /\ saidEdge' \in States /\ event' = None
          /\ worker' \in {"ready", "gone"} /\ UNCHANGED <<slots, closing>>
      BY <1>2, <2>4, <3>1 DEF WorkerDelivers
    <3> QED
      BY <1>2, <2>2, <3>2 DEF BoxTyped
  <2>5. CASE Close
    <3>1. /\ slots' = [slots EXCEPT !.activity = None, !.release = Release] /\ closing' = TRUE
          /\ worker' \in {"ready", "asleep", "holding", "gone"} /\ UNCHANGED <<event, saidVars>>
      BY <1>2, <2>5 DEF Close, CloseSlots, WakeAll, Release
    <3>2. slots' \in Slots(States, Reports)
      BY <1>2, <3>1
    <3> QED
      BY <1>2, <2>2, <3>1, <3>2 DEF BoxTyped, saidVars
  <2> QED
    BY <1>5, <2>3, <2>4, <2>5
<1>6. ASSUME NEW t \in Threads, Fire(t) \/ Sync(t) \/ Render(t) \/ Clear(t)
      PROVE  UNCHANGED <<slots, closing, event, saidVars, worker>>
  BY <1>6 DEF Fire, Sync, Render, Clear, boxVars
<1>7. ASSUME Silenced \/ OnPreToolCall \/ UNCHANGED vars
      PROVE  UNCHANGED <<slots, closing, event, saidVars, worker>>
  BY <1>7 DEF Silenced, OnPreToolCall, vars, boxVars
<1>8. ASSUME WorkerSleeps \/ ThrottleOver
      PROVE  /\ UNCHANGED <<slots, closing, event, saidVars>>
             /\ worker' \in {"ready", "asleep", "gone"}
  BY <1>8 DEF WorkerSleeps, ThrottleOver
<1> QED
  BY <1>2, <1>3, <1>4, <1>5, <1>6, <1>7, <1>8, HooksFire, NextKinds DEF Work, Worker

\* Every step keeps all the types.
LEMMA TypesStep ==
  ASSUME AllTyped, [Next]_vars
  PROVE  AllTyped' /\ points' \in {points, points + 1} /\ tools' \in {tools, tools + 1}
<1>1. HooksTyped' /\ points' \in {points, points + 1}
  BY HooksStep DEF AllTyped
<1>2. RingTyped' /\ tools' \in {tools, tools + 1}
  BY RingStep DEF AllTyped
<1> QED
  BY <1>1, <1>2, FactsStep, BoxStep DEF AllTyped

-----------------------------------------------------------------------------
(* Wait points: the report of each precedes its edge.                       *)

\* What the other threads hold stays with them.
LEMMA OwnPointStays ==
  ASSUME NEW u \in Threads, OwnPoint(u), hook'[u] = hook[u], body'[u] = body[u]
  PROVE  OwnPoint(u)'
  BY DEF OwnPoint, Idle

\* Each hook keeps the number of its wait point from the edge to the report.
LEMMA OwnPointStep ==
  ASSUME AllTyped, \A t \in Threads : OwnPoint(t), [Next]_vars, NEW u \in Threads
  PROVE  OwnPoint(u)'
<1> USE DEF AllTyped
<1>1. ASSUME UNCHANGED <<hook, body>> PROVE OwnPoint(u)'
  BY <1>1, OwnPointStays
<1>2. ASSUME NEW t \in Threads, Fire(t) PROVE OwnPoint(u)'
  <2>1. Moves(t, "sync", Idle) /\ body' = body
    BY <1>2, HookMoves DEF Fire
  <2>2. CASE u = t
    BY <2>1, <2>2, Moved DEF OwnPoint, Idle
  <2>3. CASE u # t
    BY <2>1, <2>3, Moved, OwnPointStays
  <2> QED
    BY <2>2, <2>3
<1>3. ASSUME NEW t \in Threads, Sync(t) PROVE OwnPoint(u)'
  <2>1. /\ points \in Nat /\ tools \in Nat /\ body' = body
        /\ \/ SaysNothing(t)
           \/ \E e \in States' : SaysEvent(t, e)
    BY <1>3, SyncKinds DEF HooksTyped, RingTyped
  <2>2. CASE SaysNothing(t)
    <3>1. CASE u = t
      BY <2>2, <3>1, Moved DEF OwnPoint, SaysNothing, Idle
    <3>2. CASE u # t
      BY <2>1, <2>2, <3>2, Moved, OwnPointStays DEF SaysNothing
    <3> QED
      BY <3>1, <3>2
  <2>3. ASSUME NEW e \in States', SaysEvent(t, e) PROVE OwnPoint(u)'
    <3>1. PICK p \in {"render", "post"} : Moves(t, p, e) /\ (p = "render" => e.point = points + 1)
      BY <2>3 DEF SaysEvent
    <3>2. CASE u = t
      BY <2>1, <3>1, <3>2, Moved DEF OwnPoint
    <3>3. CASE u # t
      BY <2>1, <3>1, <3>3, Moved, OwnPointStays
    <3> QED
      BY <3>2, <3>3
  <2> QED
    BY <2>1, <2>2, <2>3
<1>4. ASSUME NEW t \in Threads, Render(t) \/ Clear(t) \/ PostReport(t) \/ PostEvent(t)
      PROVE  OwnPoint(u)'
  <2>1. /\ body \in [Threads -> Reports] /\ OwnPoint(t) /\ OwnPoint(u)
        /\ \A v \in Threads \ {t} : body'[v] = body[v]
    BY <1>4 DEF HooksTyped, Render, Clear, PostReport, PostEvent
  <2>2. PICK p \in Pcs, e \in {hook[t].event, Idle} : Moves(t, p, e)
    BY <1>4, HookMoves DEF Pcs
  <2>3. CASE u # t
    BY <2>1, <2>2, <2>3, Moved, OwnPointStays
  <2>4. CASE u = t /\ Render(t)
    <3>1. Moves(t, "clear", hook[t].event) /\ hook[t].pc = "render"
      BY <2>4, HookMoves
    <3>2. body'[t].point = hook[t].event.point
      BY <2>1, <2>4 DEF Render
    <3> QED
      BY <2>1, <2>4, <3>1, <3>2, Moved DEF OwnPoint
  <2>5. CASE u = t /\ Clear(t)
    <3>1. body' = body /\ hook[t].pc = "clear"
      BY <2>5 DEF Clear
    <3>2. PICK q \in {"post", "report"} : Moves(t, q, hook[t].event)
      BY <2>5, HookMoves
    <3> QED
      BY <2>1, <2>5, <3>1, <3>2, Moved DEF OwnPoint
  <2>6. CASE u = t /\ PostReport(t)
    <3>1. Moves(t, "post", hook[t].event)
      BY <2>6, HookMoves
    <3> QED
      BY <2>6, <3>1, Moved DEF OwnPoint
  <2>7. CASE u = t /\ PostEvent(t)
    <3>1. Moves(t, "rest", Idle)
      BY <2>7, HookMoves
    <3> QED
      BY <2>7, <3>1, Moved DEF OwnPoint, Idle
  <2> QED
    BY <1>4, <2>3, <2>4, <2>5, <2>6, <2>7
<1>5. ASSUME Silenced \/ OnPreToolCall \/ Worker \/ Close \/ UNCHANGED vars
      PROVE  UNCHANGED <<hook, body>>
  BY <1>5 DEF Silenced, OnPreToolCall, Worker, WorkerTakes, WorkerSleeps, ThrottleOver,
              WorkerDelivers, Close, vars
<1> QED
  BY <1>1, <1>2, <1>3, <1>4, <1>5, HooksFire, NextKinds DEF Work

\* What the worker looks for is there, and in the order of the slots.
LEMMA NextSlotIs ==
  /\ \A slot \in NextSlot :
       /\ slot \in {"report", "state", "activity", "release"} /\ slots[slot] # None
       /\ slot # "report" => slots.report = None
       /\ slot \in {"activity", "release"} => slots.state = None
       /\ slot = "activity" => ~closing
       /\ slot = "release" => closing
  /\ NextSlot = {} \/ NextSlot = {"activity"} => slots.report = None /\ slots.state = None
<1>1. ASSUME NEW slot \in NextSlot
      PROVE  /\ slot \in {"report", "state", "activity", "release"} /\ slots[slot] # None
             /\ slot # "report" => slots.report = None
             /\ slot \in {"activity", "release"} => slots.state = None
             /\ slot = "activity" => ~closing
             /\ slot = "release" => closing
  BY DEF NextSlot
<1>2. ASSUME NextSlot = {} \/ NextSlot = {"activity"} PROVE slots.report = None /\ slots.state = None
  BY <1>2 DEF NextSlot
<1> QED
  BY <1>1, <1>2

\* A hook that goes on with its own point, or lets it go, brings no new one.
LEMMA HeldMoves ==
  ASSUME HooksTyped, Apart, NEW t \in Threads, NEW pc, NEW e, Moves(t, pc, e),
         e.point \in {hook[t].event.point, 0}
  PROVE  /\ Apart' /\ Held' \subseteq Held
         /\ e.point = 0 => hook[t].event.point \notin Held'
<1>1. /\ hook'[t].event = e /\ \A u \in Threads \ {t} : hook'[u] = hook[u]
  BY Moved
<1>2. \A u \in Threads : hook'[u].event.point \in {hook[u].event.point, 0}
  BY <1>1
<1>3. Apart'
  BY <1>1, <1>2 DEF Apart
<1>4. \A p : p \in Held' => p \in Held
  BY <1>2 DEF Held
<1>5. ASSUME e.point = 0, hook[t].event.point \in Held' PROVE FALSE
  <2>1. PICK u \in Threads : hook'[u].event.point = hook[t].event.point
    BY <1>5 DEF Held
  <2>2. hook[t].event.point # 0
    BY <1>5 DEF Held
  <2> QED
    BY <1>1, <1>5, <2>1, <2>2 DEF Apart
<1> QED
  BY <1>3, <1>4, <1>5

\* Every step keeps the points apart.
LEMMA PointsStep ==
  ASSUME AllTyped, \A t \in Threads : OwnPoint(t), PointsApart, [Next]_vars
  PROVE  PointsApart'
<1> USE DEF AllTyped
<1>1. Idle.point = 0 /\ None.kind = "none"
  BY DEF Idle, None
<1>2. ASSUME NEW t \in Threads, NEW pc, NEW e, Moves(t, pc, e),
             e.point \in {hook[t].event.point, 0}, UNCHANGED <<slots, event, worker>>
      PROVE  PointsApart'
  <2>1. Apart' /\ Held' \subseteq Held
    BY <1>2, HeldMoves DEF PointsApart
  <2> QED
    BY <1>2, <2>1 DEF PointsApart, ReportBeforeEdge, None
<1>3. ASSUME NEW t \in Threads, Fire(t) \/ Render(t) \/ Clear(t) PROVE PointsApart'
  <2>1. PICK pc \in Pcs, e \in {hook[t].event, Idle} : Moves(t, pc, e)
    BY <1>3, HookMoves DEF Pcs
  <2>2. UNCHANGED <<slots, event, worker>>
    BY <1>3 DEF Fire, Render, Clear, boxVars
  <2> QED
    BY <1>1, <1>2, <2>1, <2>2
<1>4. ASSUME NEW t \in Threads, Sync(t) PROVE PointsApart'
  <2>1. /\ points \in Nat /\ tools \in Nat /\ UNCHANGED <<slots, event, worker>>
        /\ \/ SaysNothing(t)
           \/ \E e \in States' : SaysEvent(t, e)
    BY <1>4, SyncKinds DEF HooksTyped, RingTyped, boxVars
  <2>2. ASSUME NEW e, Moves(t, "render", e), e.point = points + 1 PROVE PointsApart'
    <3>1. /\ hook'[t].event = e /\ \A u \in Threads \ {t} : hook'[u] = hook[u]
      BY <2>2, Moved
    <3>2. \A u \in Threads : hook[u].event.point \in 0 .. points
      BY DEF HooksTyped, States
    <3>3. Apart'
      BY <2>1, <2>2, <3>1, <3>2 DEF PointsApart, Apart
    <3>4. \A p : p \in Held' => p \in Held \/ p = points + 1
      BY <2>2, <3>1 DEF Held
    <3>5. /\ slots.state # None => slots.state.point \in 0 .. points
          /\ slots.activity # None => slots.activity.point \in 0 .. points
          /\ event.kind = "state" => event.point \in 0 .. points
      BY DEF BoxTyped, States, Reports, None, Release
    <3>6. points + 1 \notin 0 .. points
      BY <2>1
    <3> QED
      BY <2>1, <3>3, <3>4, <3>5, <3>6 DEF PointsApart, ReportBeforeEdge, None
  <2>3. CASE SaysNothing(t)
    BY <1>1, <1>2, <2>1, <2>3 DEF SaysNothing
  <2>4. ASSUME NEW e \in States', SaysEvent(t, e) PROVE PointsApart'
    BY <1>2, <2>1, <2>2, <2>4 DEF SaysEvent
  <2> QED
    BY <2>1, <2>3, <2>4
<1>5. ASSUME NEW t \in Threads, PostReport(t) PROVE PointsApart'
  <2>1. /\ hook[t].pc = "report" /\ Moves(t, "post", hook[t].event)
        /\ Puts("report", body[t]) /\ event' = event
    BY <1>5, HookMoves DEF PostReport, Post, Puts
  <2>2. Apart' /\ Held' \subseteq Held
    BY <2>1, HeldMoves DEF PointsApart
  <2>3. body[t].point \in Held
    BY <2>1 DEF OwnPoint, Held
  <2>4. slots'.state = slots.state /\ slots'.activity = slots.activity
    BY <2>1 DEF Puts, BoxTyped
  <2>5. slots'.report \in {slots.report, body[t]} /\ (worker' = "holding" => worker = "holding")
    BY <2>1 DEF Puts, BoxTyped
  <2>6. ReportBeforeEdge'
    BY <2>1, <2>3, <2>5 DEF ReportBeforeEdge, PointsApart, None
  <2> QED
    BY <2>1, <2>2, <2>4, <2>6 DEF PointsApart, None
<1>6. ASSUME NEW t \in Threads, PostEvent(t) PROVE PointsApart'
  <2>1. /\ Moves(t, "rest", Idle) /\ event' = event
        /\ Puts("state", hook[t].event) \/ Puts("activity", hook[t].event)
    BY <1>6, HookMoves DEF PostEvent, Post, Puts
  <2>2. Apart' /\ Held' \subseteq Held /\ hook[t].event.point \notin Held'
    BY <1>1, <2>1, HeldMoves DEF PointsApart
  <2>3. /\ slots'.report = slots.report /\ (worker' = "holding" => worker = "holding")
        /\ slots'.state \in {slots.state, hook[t].event}
        /\ slots'.activity \in {slots.activity, hook[t].event}
    BY <2>1 DEF Puts, BoxTyped
  <2> QED
    BY <2>1, <2>2, <2>3 DEF PointsApart, ReportBeforeEdge, None
<1>7. ASSUME WorkerTakes PROVE PointsApart'
  <2>1. PICK slot \in NextSlot : event' = slots[slot] /\ slots' = [slots EXCEPT ![slot] = None]
    BY <1>7 DEF WorkerTakes
  <2>2. /\ slot \in {"report", "state", "activity", "release"} /\ slots[slot] # None
        /\ slot # "report" => slots.report = None
    BY <2>1, NextSlotIs
  <2>3. hook' = hook
    BY <1>7 DEF WorkerTakes
  <2>4. Held' = Held /\ Apart' = Apart
    BY <2>3 DEF Held, Apart
  <2>5. /\ slots'.state \in {slots.state, None} /\ slots'.activity \in {slots.activity, None}
        /\ slots'.report = None
    BY <2>1, <2>2 DEF BoxTyped
  <2>6. event'.kind = "state" => slot \in {"state", "activity"}
    BY <2>1, <2>2 DEF BoxTyped, Reports, None, Release
  <2> QED
    BY <2>1, <2>2, <2>4, <2>5, <2>6 DEF PointsApart, ReportBeforeEdge, None
<1>8. ASSUME WorkerDelivers PROVE PointsApart'
  <2>1. event' = None /\ UNCHANGED <<hook, slots>>
    BY <1>8 DEF WorkerDelivers
  <2>2. Held' = Held /\ Apart' = Apart
    BY <2>1 DEF Held, Apart
  <2> QED
    BY <1>1, <2>1, <2>2 DEF PointsApart, ReportBeforeEdge, None
<1>9. ASSUME Close PROVE PointsApart'
  <2>1. /\ slots' = [slots EXCEPT !.activity = None, !.release = Release]
        /\ UNCHANGED <<hook, event>> /\ (worker' = "holding" => worker = "holding")
    BY <1>9 DEF Close, CloseSlots, WakeAll, Release
  <2>2. Held' = Held /\ Apart' = Apart
    BY <2>1 DEF Held, Apart
  <2>3. slots'.activity = None /\ slots'.state = slots.state /\ slots'.report = slots.report
    BY <2>1 DEF BoxTyped
  <2> QED
    BY <2>1, <2>2, <2>3 DEF PointsApart, ReportBeforeEdge, None
<1>10. ASSUME Silenced \/ OnPreToolCall \/ WorkerSleeps \/ ThrottleOver \/ UNCHANGED vars
       PROVE  PointsApart'
  <2>1. UNCHANGED <<hook, event, slots>> /\ (worker' = "holding" => worker = "holding")
    BY <1>10 DEF Silenced, OnPreToolCall, WorkerSleeps, ThrottleOver, vars, boxVars
  <2>2. Held' = Held /\ Apart' = Apart
    BY <2>1 DEF Held, Apart
  <2> QED
    BY <2>1, <2>2 DEF PointsApart, ReportBeforeEdge, None
<1> QED
  BY <1>3, <1>4, <1>5, <1>6, <1>7, <1>8, <1>9, <1>10, HooksFire, NextKinds DEF Work, Worker

-----------------------------------------------------------------------------
(* The state that was said is the state that is.                            *)

\* A hook that fires owes a derivation; a derivation says the truth.
LEMMA TrackedStep ==
  ASSUME AllTyped, Tracked, [Next]_vars
  PROVE  Tracked'
<1> USE DEF AllTyped
<1>1. ASSUME UNCHANGED <<factVars, edgeVars>>, Syncing' = Syncing PROVE Tracked'
  <2>1. State' = State /\ QuietMenu' = QuietMenu
    BY <1>1 DEF factVars, State, QuietMenu
  <2> QED
    BY <1>1, <2>1 DEF Tracked, edgeVars
<1>2. ASSUME NEW t \in Threads, Fire(t) PROVE Tracked'
  <2>1. t \in Syncing'
    BY <1>2, HookMoves, Moved
  <2> QED
    BY <2>1 DEF Tracked
<1>3. ASSUME NEW t \in Threads, Sync(t) PROVE Tracked'
  <2>1. /\ hook[t].pc = "sync" /\ UNCHANGED factVars
        /\ \/ SaysNothing(t) /\ (QuietMenu \/ State = lastState)
           \/ \E e \in States' : SaysEvent(t, e)
    BY <1>3, SyncKinds DEF RingTyped
  <2>2. State' = State /\ QuietMenu' = QuietMenu
    BY <2>1 DEF factVars, State, QuietMenu
  <2>3. QuietMenu \/ lastState' = State
    BY <2>1 DEF SaysNothing, SaysEvent, edgeVars
  <2> QED
    BY <2>2, <2>3 DEF Tracked
<1>4. ASSUME NEW t \in Threads, Render(t) \/ Clear(t) \/ PostReport(t) \/ PostEvent(t)
      PROVE  Tracked'
  <2>1. UNCHANGED <<factVars, edgeVars>>
    BY <1>4 DEF Render, Clear, PostReport, PostEvent
  <2>2. PICK p \in Pcs \ {"sync"}, e \in {hook[t].event, Idle} : Moves(t, p, e) /\ hook[t].pc # "sync"
    BY <1>4, HookMoves DEF Pcs
  <2>3. Syncing' = Syncing
    BY <2>2, Moved DEF Syncing
  <2> QED
    BY <1>1, <2>1, <2>3
<1>5. ASSUME Silenced \/ OnPreToolCall \/ Worker \/ Close \/ UNCHANGED vars PROVE Tracked'
  <2>1. UNCHANGED <<factVars, edgeVars, hook>>
    BY <1>5 DEF Silenced, OnPreToolCall, Worker, WorkerTakes, WorkerSleeps, ThrottleOver,
                WorkerDelivers, Close, vars
  <2>2. Syncing' = Syncing
    BY <2>1 DEF Syncing
  <2> QED
    BY <1>1, <2>1, <2>2
<1> QED
  BY <1>2, <1>3, <1>4, <1>5, HooksFire, NextKinds DEF Work

-----------------------------------------------------------------------------
(* The mailbox: the worker is awake while there is work, and ends after it. *)

\* Every step keeps the order of the mailbox.
LEMMA BoxOrderedStep ==
  ASSUME AllTyped, BoxOrdered, [Next]_vars
  PROVE  BoxOrdered'
<1> USE DEF AllTyped
<1>1. /\ None.kind = "none" /\ Release.kind = "release" /\ None # Release
      /\ \A e \in States : e.kind = "state" /\ e # None
      /\ \A e \in Reports : e.kind = "report" /\ e # None
  BY DEF None, Release, States, Reports
<1>2. ASSUME UNCHANGED <<slots, closing, event, worker>> PROVE BoxOrdered'
  BY <1>2 DEF BoxOrdered, NeverSleepsOnWork, AllEmpty, None
<1>3. ASSUME NEW slot \in {"report", "state", "activity"}, NEW e, Puts(slot, e),
             UNCHANGED <<closing, event>>,
             slot = "state" => e.edge, slot = "activity" => ~e.edge
      PROVE  BoxOrdered'
  <2>1. CASE closing
    BY <1>2, <1>3, <2>1 DEF Puts
  <2>2. CASE ~closing
    <3>1. /\ slots.release = None /\ event.kind # "release" /\ worker # "gone"
          /\ ~closing' /\ event' = event /\ worker' # "asleep" /\ worker' # "gone"
          /\ worker' = "holding" <=> worker = "holding"
      BY <1>1, <1>3, <2>2 DEF Puts, BoxOrdered
    <3>2. /\ slots'.release = slots.release
          /\ slots'.state = slots.state \/ slots'.state.edge
          /\ slots'.activity = slots.activity \/ ~slots'.activity.edge
      BY <1>3, <2>2 DEF Puts, BoxTyped
    <3> QED
      BY <3>1, <3>2 DEF BoxOrdered, NeverSleepsOnWork, None
  <2> QED
    BY <2>1, <2>2
<1>4. ASSUME NEW t \in Threads, PostReport(t) \/ PostEvent(t) PROVE BoxOrdered'
  <2>1. /\ UNCHANGED <<closing, event>>
        /\ \/ Puts("report", body[t])
           \/ Puts("state", hook[t].event) /\ hook[t].event.edge
           \/ Puts("activity", hook[t].event) /\ ~hook[t].event.edge
    BY <1>4 DEF PostReport, PostEvent, Post, Puts
  <2> QED
    BY <1>3, <2>1
<1>5. ASSUME WorkerTakes PROVE BoxOrdered'
  <2>1. PICK slot \in NextSlot : event' = slots[slot] /\ slots' = [slots EXCEPT ![slot] = None]
    BY <1>5 DEF WorkerTakes
  <2>2. /\ slot \in {"report", "state", "activity", "release"} /\ slots[slot] # None
        /\ slot # "report" => slots.report = None
        /\ slot \in {"activity", "release"} => slots.state = None
        /\ slot = "release" => closing
    BY <2>1, NextSlotIs
  <2>3. worker' = "holding" /\ closing' = closing /\ worker = "ready"
    BY <1>5 DEF WorkerTakes
  <2>4. /\ slots'.state \in {slots.state, None} /\ slots'.activity \in {slots.activity, None}
        /\ slots'.release \in {slots.release, None}
    BY <2>1, <2>2 DEF BoxTyped
  <2>5. event'.kind = "release" => slot = "release"
    BY <1>1, <2>1, <2>2 DEF BoxTyped
  <2>6. slot = "release" =>
          /\ slots'.report = None /\ slots'.state = None
          /\ slots'.activity = None /\ slots'.release = None
    BY <2>1, <2>2 DEF BoxTyped, BoxOrdered
  <2> QED
    BY <2>1, <2>2, <2>3, <2>4, <2>5, <2>6 DEF BoxOrdered, NeverSleepsOnWork, AllEmpty, None
<1>6. ASSUME WorkerSleeps PROVE BoxOrdered'
  <2>1. /\ worker = "ready" /\ UNCHANGED <<slots, closing, event>>
        /\ slots.report = None /\ slots.state = None
        /\ worker' = IF closing /\ slots.release = None THEN "gone" ELSE "asleep"
    BY <1>6, NextSlotIs DEF WorkerSleeps
  <2>2. worker' = "gone" => closing /\ AllEmpty
    BY <2>1 DEF BoxOrdered, AllEmpty
  <2>3. worker' # "holding" /\ event = None
    BY <2>1 DEF BoxOrdered
  <2> QED
    BY <2>1, <2>2, <2>3 DEF BoxOrdered, NeverSleepsOnWork, AllEmpty, None
<1>7. ASSUME ThrottleOver PROVE BoxOrdered'
  BY <1>7 DEF ThrottleOver, BoxOrdered, NeverSleepsOnWork, AllEmpty, None
<1>8. ASSUME WorkerDelivers PROVE BoxOrdered'
  <2>1. /\ event' = None /\ UNCHANGED <<slots, closing>>
        /\ worker' = IF event.kind = "release" THEN "gone" ELSE "ready"
    BY <1>8 DEF WorkerDelivers
  <2> QED
    BY <1>1, <2>1 DEF BoxOrdered, NeverSleepsOnWork, AllEmpty, None
<1>9. ASSUME Close PROVE BoxOrdered'
  <2>1. /\ ~closing /\ closing' = TRUE /\ event' = event
        /\ slots' = [slots EXCEPT !.activity = None, !.release = Release]
        /\ worker' = IF worker = "asleep" THEN "ready" ELSE worker
    BY <1>9 DEF Close, CloseSlots, WakeAll, Release
  <2>2. slots'.state = slots.state /\ slots'.activity = None
    BY <2>1 DEF BoxTyped
  <2>3. worker # "gone" /\ event.kind # "release"
    BY <2>1 DEF BoxOrdered
  <2> QED
    BY <2>1, <2>2, <2>3 DEF BoxOrdered, NeverSleepsOnWork, None
<1>10. ASSUME NEW t \in Threads, Fire(t) \/ Sync(t) \/ Render(t) \/ Clear(t)
       PROVE  UNCHANGED <<slots, closing, event, worker>>
  BY <1>10 DEF Fire, Sync, Render, Clear, boxVars
<1>11. ASSUME Silenced \/ OnPreToolCall \/ UNCHANGED vars
       PROVE  UNCHANGED <<slots, closing, event, worker>>
  BY <1>11 DEF Silenced, OnPreToolCall, vars, boxVars
<1> QED
  BY <1>2, <1>4, <1>5, <1>6, <1>7, <1>8, <1>9, <1>10, <1>11, HooksFire, NextKinds DEF Work, Worker

-----------------------------------------------------------------------------
(* One posting thread at a time.                                            *)

\* What overlapped stays overlapped.
LEMMA RacedStays ==
  ASSUME AllTyped, [Next]_vars, ~raced'
  PROVE  ~raced
<1>1. ASSUME NEW t \in Threads, Sync(t) PROVE raced => raced'
  BY <1>1, SyncKinds DEF AllTyped, RingTyped
<1>2. ASSUME OnPreToolCall PROVE raced => raced'
  BY <1>2 DEF OnPreToolCall
<1>3. ASSUME NEW t \in Threads,
             Fire(t) \/ Render(t) \/ Clear(t) \/ PostReport(t) \/ PostEvent(t)
      PROVE  raced' = raced
  BY <1>3 DEF Fire, Render, Clear, PostReport, PostEvent, pastVars
<1>4. ASSUME Silenced \/ Worker \/ Close \/ UNCHANGED vars PROVE raced' = raced
  BY <1>4 DEF Silenced, Worker, WorkerTakes, WorkerSleeps, ThrottleOver, WorkerDelivers, Close,
              vars, pastVars
<1> QED
  BY <1>1, <1>2, <1>3, <1>4, HooksFire, NextKinds DEF Work

\* How the posting threads change: one comes when none was there, one goes, or
\* they stay with their events.
LEMMA PostingMoves ==
  ASSUME AllTyped, [Next]_vars, ~raced'
  PROVE  \/ \E t \in Threads, e \in States' : Sync(t) /\ SaysEvent(t, e) /\ Posting = {} /\ Posting' = {t}
         \/ \E t \in Posting : PostEvent(t) /\ Posting' = Posting \ {t}
         \/ /\ Posting' = Posting /\ \A t \in Posting : hook'[t].event = hook[t].event
            /\ lastState' = lastState
            /\ ~(\E t \in Threads : PostEvent(t))
<1> USE DEF AllTyped
<1>1. ASSUME NEW t \in Threads, Fire(t)
      PROVE  /\ Posting' = Posting /\ \A u \in Posting : hook'[u].event = hook[u].event
             /\ lastState' = lastState
  <2>1. hook[t].pc = "rest" /\ Moves(t, "sync", Idle) /\ lastState' = lastState
    BY <1>1, HookMoves DEF Fire, edgeVars
  <2> QED
    BY <2>1, Moved DEF Posting
<1>2. ASSUME NEW t \in Threads, Sync(t)
      PROVE  \/ \E e \in States' : SaysEvent(t, e) /\ Posting = {} /\ Posting' = {t}
             \/ /\ Posting' = Posting /\ \A u \in Posting : hook'[u].event = hook[u].event
                /\ lastState' = lastState
  <2>1. /\ hook[t].pc = "sync"
        /\ SaysNothing(t) \/ \E e \in States' : SaysEvent(t, e)
    BY <1>2, SyncKinds DEF RingTyped
  <2>2. CASE SaysNothing(t)
    <3>1. Moves(t, "rest", Idle) /\ lastState' = lastState
      BY <2>2 DEF SaysNothing, edgeVars
    <3> QED
      BY <2>1, <3>1, Moved DEF Posting
  <2>3. ASSUME NEW e \in States', SaysEvent(t, e)
        PROVE  Posting = {} /\ Posting' = {t}
    <3>1. PICK p \in {"render", "post"} : Moves(t, p, e) /\ raced' = (raced \/ Posting # {})
      BY <2>3 DEF SaysEvent
    <3> QED
      BY <3>1, Moved
  <2> QED
    BY <2>1, <2>2, <2>3
<1>3. ASSUME NEW t \in Threads, Render(t) \/ Clear(t) \/ PostReport(t)
      PROVE  /\ Posting' = Posting /\ \A u \in Posting : hook'[u].event = hook[u].event
             /\ lastState' = lastState
  <2>1. lastState' = lastState
    BY <1>3 DEF Render, Clear, PostReport, edgeVars
  <2>2. PICK p \in Pcs \ {"rest", "sync"} :
          Moves(t, p, hook[t].event) /\ hook[t].pc \notin {"rest", "sync"}
    BY <1>3, HookMoves DEF Pcs
  <2> QED
    BY <2>1, <2>2, Moved DEF Posting
<1>4. ASSUME NEW t \in Threads, PostEvent(t) PROVE t \in Posting /\ Posting' = Posting \ {t}
  <2>1. hook[t].pc = "post" /\ Moves(t, "rest", Idle)
    BY <1>4, HookMoves
  <2> QED
    BY <2>1, Moved DEF Posting
<1>5. ASSUME Silenced \/ OnPreToolCall \/ Worker \/ Close \/ UNCHANGED vars
      PROVE  /\ Posting' = Posting /\ \A u \in Posting : hook'[u].event = hook[u].event
             /\ lastState' = lastState
  <2>1. UNCHANGED <<edgeVars, hook>>
    BY <1>5 DEF Silenced, OnPreToolCall, Worker, WorkerTakes, WorkerSleeps, ThrottleOver,
                WorkerDelivers, Close, vars
  <2> QED
    BY <2>1 DEF Posting, edgeVars
<1> QED
  BY <1>1, <1>2, <1>3, <1>4, <1>5, HooksFire, NextKinds DEF Work

\* Still one at a time.
LEMMA OneAtATimeStep ==
  ASSUME AllTyped, OneAtATime, [Next]_vars, ~raced'
  PROVE  OneAtATime'
BY PostingMoves DEF OneAtATime

\* The edge behind the posting threads.
Behind ==
  IF slots.state # None THEN slots.state.state = lastState
  ELSE IF AnEdge(event) THEN event.state = lastState
  ELSE saidEdge.state = lastState

\* A step of the worker carries the edge on, one of a hook that posts none
\* leaves it.
LEMMA EdgeCarried ==
  ASSUME AllTyped, BoxOrdered, [Next]_vars, ~closing', lastState' = lastState, Behind,
         ~(\E t \in Threads : PostEvent(t) /\ hook[t].event.edge)
  PROVE  Behind'
<1> USE DEF AllTyped
<1>1. ~AnEdge(None) /\ \A e \in Reports : ~AnEdge(e)
  BY DEF AnEdge, None, Reports
<1>2. ASSUME slots'.state = slots.state, UNCHANGED <<event, saidEdge>> PROVE Behind'
  BY <1>2 DEF Behind, AnEdge, None
<1>3. ASSUME NEW t \in Threads, PostReport(t) \/ PostEvent(t) PROVE Behind'
  <2>1. /\ UNCHANGED <<event, saidEdge>>
        /\ Puts("report", body[t]) \/ Puts("activity", hook[t].event)
    BY <1>3 DEF PostReport, PostEvent, Post, Puts, saidVars
  <2>2. slots'.state = slots.state
    BY <2>1 DEF Puts, BoxTyped
  <2> QED
    BY <1>2, <2>1, <2>2
<1>4. ASSUME WorkerTakes PROVE Behind'
  <2>1. PICK slot \in NextSlot : event' = slots[slot] /\ slots' = [slots EXCEPT ![slot] = None]
    BY <1>4 DEF WorkerTakes
  <2>2. /\ slot \in {"report", "state", "activity", "release"} /\ slots[slot] # None
        /\ slot = "release" => closing
    BY <2>1, NextSlotIs
  <2>3. /\ worker = "ready" /\ closing' = closing /\ saidEdge' = saidEdge /\ event = None
    BY <1>4 DEF WorkerTakes, saidVars, BoxOrdered
  <2>4. CASE slot = "state"
    <3>1. event' = slots.state /\ slots'.state = None /\ AnEdge(slots.state)
      BY <2>1, <2>2, <2>4 DEF BoxTyped, BoxOrdered, AnEdge, States
    <3> QED
      BY <2>2, <2>4, <3>1 DEF Behind, AnEdge, None
  <2>5. CASE slot = "report" \/ slot = "activity"
    <3>1. slots'.state = slots.state /\ event' = slots[slot]
      BY <2>1, <2>5 DEF BoxTyped
    <3>2. ~AnEdge(event')
      BY <1>1, <2>2, <2>5, <3>1 DEF BoxTyped, BoxOrdered, AnEdge
    <3> QED
      BY <1>1, <2>3, <3>1, <3>2 DEF Behind, None, AnEdge
  <2> QED
    BY <2>2, <2>3, <2>4, <2>5
<1>5. ASSUME WorkerDelivers PROVE Behind'
  <2>1. /\ event' = None /\ slots' = slots
        /\ saidEdge' = IF AnEdge(event) THEN event ELSE saidEdge
    BY <1>5 DEF WorkerDelivers, AnEdge
  <2> QED
    BY <1>1, <2>1 DEF Behind, None, AnEdge
<1>6. ASSUME NEW t \in Threads, Fire(t) \/ Sync(t) \/ Render(t) \/ Clear(t)
      PROVE  UNCHANGED <<slots, event, saidEdge>>
  BY <1>6 DEF Fire, Sync, Render, Clear, boxVars, saidVars
<1>7. ASSUME Silenced \/ OnPreToolCall \/ WorkerSleeps \/ ThrottleOver \/ UNCHANGED vars
      PROVE  UNCHANGED <<slots, event, saidEdge>>
  BY <1>7 DEF Silenced, OnPreToolCall, WorkerSleeps, ThrottleOver, vars, boxVars, saidVars
<1>8. ~Close
  BY DEF Close
<1> QED
  BY <1>2, <1>3, <1>4, <1>5, <1>6, <1>7, <1>8, HooksFire, NextKinds DEF Work, Worker

\* The newest edge stays on its way.
LEMMA EdgeStep ==
  ASSUME AllTyped, BoxOrdered, OneAtATime, EdgeOnItsWay, [Next]_vars, ~raced', ~closing'
  PROVE  EdgeOnItsWay'
<1> USE DEF AllTyped
<1> DEFINE Up == \E t \in Posting : hook[t].event.edge
<1>1. EdgeOnItsWay <=> IF Up THEN \E t \in Posting : hook[t].event.edge /\ hook[t].event.state = lastState
                       ELSE Behind
  BY DEF EdgeOnItsWay, Behind
<1>2. EdgeOnItsWay' <=> IF Up' THEN \E t \in Posting' : hook'[t].event.edge /\ hook'[t].event.state = lastState'
                        ELSE Behind'
  BY DEF EdgeOnItsWay, Behind
<1>3. ASSUME NEW t \in Threads, NEW e \in States',
             Sync(t), SaysEvent(t, e), Posting = {}, Posting' = {t}
      PROVE  EdgeOnItsWay'
  <2>1. hook'[t].event = e /\ lastState' = State /\ (e.edge <=> State # lastState) /\ e.state = State
    BY <1>3, Moved DEF SaysEvent
  <2>2. CASE e.edge
    BY <1>2, <1>3, <2>1, <2>2
  <2>3. CASE ~e.edge
    <3>1. hook[t].pc = "sync" /\ lastState' = lastState
      BY <1>3, <2>1, <2>3, SyncKinds DEF RingTyped
    <3>2. ~Up /\ ~Up'
      BY <1>3, <2>1, <2>3
    <3>3. UNCHANGED <<slots, event, saidEdge>>
      BY <1>3 DEF Sync, boxVars, saidVars
    <3>4. Behind'
      BY <1>1, <3>1, <3>2, <3>3 DEF Behind, AnEdge, None
    <3> QED
      BY <1>2, <3>2, <3>4
  <2> QED
    BY <2>2, <2>3
<1>4. ASSUME NEW t \in Posting, PostEvent(t), Posting' = Posting \ {t} PROVE EdgeOnItsWay'
  <2>1. ~Up' /\ Posting = {t} /\ lastState' = lastState /\ closing' = closing /\ t \in Threads
    BY <1>4 DEF OneAtATime, PostEvent, edgeVars, Posting
  <2>2. CASE hook[t].event.edge
    <3>1. hook[t].event.state = lastState
      BY <1>1, <2>1, <2>2
    <3>2. Puts("state", hook[t].event)
      BY <1>4, <2>2 DEF PostEvent, Post, Puts
    <3>3. slots'.state = hook[t].event
      BY <2>1, <3>2 DEF Puts, BoxTyped
    <3>4. hook[t].event # None
      BY <2>1 DEF HooksTyped, States, None
    <3>5. Behind'
      BY <2>1, <3>1, <3>3, <3>4 DEF Behind, None
    <3> QED
      BY <1>2, <2>1, <3>5
  <2>3. CASE ~hook[t].event.edge
    <3>1. Behind
      BY <1>1, <2>1, <2>3
    <3>2. \A u \in Threads : PostEvent(u) => u = t
      BY <2>1 DEF PostEvent, Posting
    <3>3. Behind'
      BY <2>1, <2>3, <3>1, <3>2, EdgeCarried
    <3> QED
      BY <1>2, <2>1, <3>3
  <2> QED
    BY <2>2, <2>3
<1>5. ASSUME Posting' = Posting, \A t \in Posting : hook'[t].event = hook[t].event,
             lastState' = lastState, ~(\E t \in Threads : PostEvent(t))
      PROVE  EdgeOnItsWay'
  <2>1. Up' <=> Up
    BY <1>5
  <2>2. CASE Up
    BY <1>1, <1>2, <1>5, <2>1, <2>2
  <2>3. CASE ~Up
    <3>1. Behind'
      BY <1>1, <1>5, <2>3, EdgeCarried
    <3> QED
      BY <1>2, <2>1, <2>3, <3>1
  <2> QED
    BY <2>2, <2>3
<1> QED
  BY <1>3, <1>4, <1>5, PostingMoves

-----------------------------------------------------------------------------
(* Every tool line is in one place.                                         *)

\* Whose lines are in hand.
LEMMA InHand ==
  \A n : n \in Rendered <=> \E t \in Threads : hook[t].pc = "report" /\ n \in Lines(body[t])
BY DEF Rendered

\* The same after a step.
LEMMA InHandNext ==
  \A n : n \in Rendered' <=> \E t \in Threads : hook'[t].pc = "report" /\ n \in Lines(body'[t])
BY DEF Rendered, Lines

\* A step that brings no thread to or from a report, and moves no line.
LEMMA LinesStay ==
  ASSUME LinesApart, UNCHANGED <<ringVars, body, reported, overwritten>>,
         \A t \in Threads : /\ hook'[t].pc = "report" <=> hook[t].pc = "report"
                            /\ hook'[t].pc = "clear" => hook[t].pc = "clear",
         Lines(slots'.report) = Lines(slots.report), Lines(event') = Lines(event)
  PROVE  LinesApart'
<1>1. \A n : n \in Rendered' <=> n \in Rendered
  BY InHand, InHandNext DEF Lines
<1>2. Rendered' = Rendered /\ Ring' = Ring /\ tools' = tools
  BY <1>1 DEF Ring, ringVars
<1>3. /\ Lines(slots.report)' = Lines(slots.report)
      /\ Lines(event)' = Lines(event)
  BY DEF Lines
<1>4. \A t \in Threads : hook'[t].pc = "clear" => body'[t].items = buffer' /\ body'[t].more = omitted'
  BY DEF LinesApart, ringVars
<1> QED
  BY <1>2, <1>3, <1>4 DEF LinesApart

\* A new line is in the ring only, if no thread is between rendering and
\* clearing it.
LEMMA LinesRecorded ==
  ASSUME AllTyped, LinesApart, OnPreToolCall, ~raced'
  PROVE  LinesApart'
<1> USE DEF AllTyped
<1>1. /\ tools' = tools + 1 /\ tools \in Nat /\ AppendEntry
      /\ UNCHANGED <<hook, body, slots, event, reported, overwritten>>
      /\ \A t \in Threads : hook[t].pc # "clear"
  <2>1. tools \in Nat
    BY DEF RingTyped
  <2>2. raced' = (raced \/ \E t \in Threads : hook[t].pc = "clear")
    BY DEF OnPreToolCall
  <2>3. \A t \in Threads : hook[t].pc # "clear"
    BY <2>2
  <2> QED
    BY <2>1, <2>3 DEF OnPreToolCall, boxVars, saidVars
<1>2. /\ Rendered' = Rendered /\ Lines(slots.report)' = Lines(slots.report)
      /\ Lines(event)' = Lines(event)
  BY <1>1 DEF Rendered, Lines
<1>3. \A n : n \in Ring' <=> n \in Ring \/ n = tools + 1
  BY <1>1, RingAppends DEF Ring
<1>4. \A n : n \in 1 .. tools' <=> n \in 1 .. tools \/ n = tools + 1
  BY <1>1
<1>5. tools + 1 \notin 1 .. tools
  BY <1>1
<1>6. \A n : n \in Rendered \cup Lines(slots.report) \cup Lines(event) \cup reported => n \in 1 .. tools
  BY SlotLines, InHand DEF RingTyped
<1>7. \A n : n \in Ring' => n \notin Rendered \cup Lines(slots.report) \cup Lines(event) \cup reported
  BY <1>3, <1>5, <1>6 DEF LinesApart
<1>8. \A n \in 1 .. tools' :
        n \in Ring' \cup Rendered \cup Lines(slots.report) \cup Lines(event) \cup reported \cup overwritten
  BY <1>3, <1>4 DEF LinesApart
<1> QED
  BY <1>1, <1>2, <1>7, <1>8 DEF LinesApart

\* The flush moves what it rendered from the ring into its hand.
LEMMA LinesFlushed ==
  ASSUME AllTyped, LinesApart, OneAtATime, NEW t \in Threads, Clear(t)
  PROVE  LinesApart'
<1> USE DEF AllTyped
<1>1. /\ hook[t].pc = "clear" /\ buffer' = {} /\ omitted' = {} /\ tools' = tools
      /\ UNCHANGED <<body, slots, event, reported, overwritten>>
  BY DEF Clear, EmptyRing, boxVars, saidVars, pastVars
<1>2. PICK p \in {"post", "report"} :
        Moves(t, p, hook[t].event) /\ (p = "post" <=> body[t].items = {})
  BY HookMoves
<1>3. /\ hook'[t].pc = p /\ \A u \in Threads \ {t} : hook'[u] = hook[u]
  BY <1>2, Moved
<1>4. \A u \in Threads \ {t} : hook[u].pc \in {"rest", "sync"}
  BY <1>1 DEF OneAtATime, Posting
<1>5. Lines(body[t]) = Ring
  BY <1>1 DEF LinesApart, HooksTyped, Reports, Lines, Ring
<1>6. \A n : n \notin Rendered
  BY <1>1, <1>4, InHand
<1>7. \A n : n \in Rendered' <=> n \in Ring
  <2>1. \A n : n \in Rendered' <=> p = "report" /\ n \in Ring
    BY <1>1, <1>3, <1>4, <1>5, InHandNext
  <2>2. p = "post" => Ring = {}
    BY <1>1, <1>2 DEF LinesApart, Ring, RingTyped
  <2> QED
    BY <1>2, <2>1, <2>2
<1>8. /\ Ring' = {} /\ Lines(slots.report)' = Lines(slots.report) /\ Lines(event)' = Lines(event)
  BY <1>1 DEF Ring, Lines
<1>9. \A u \in Threads : hook'[u].pc # "clear"
  BY <1>2, <1>3, <1>4
<1>10. \A n : n \in Rendered' => n \notin Lines(slots.report) \cup Lines(event) \cup reported
  BY <1>7 DEF LinesApart
<1>11. \A n \in 1 .. tools :
         n \in Rendered' \cup Lines(slots.report) \cup Lines(event) \cup reported \cup overwritten
  BY <1>6, <1>7 DEF LinesApart
<1> QED
  BY <1>1, <1>8, <1>9, <1>10, <1>11 DEF LinesApart

\* The report goes from the hand into the slot; the one it replaces is given up,
\* and so is this one when the mailbox is closed.
LEMMA LinesPosted ==
  ASSUME AllTyped, LinesApart, OneAtATime, NEW t \in Threads, PostReport(t)
  PROVE  LinesApart'
<1> USE DEF AllTyped
<1>1. /\ hook[t].pc = "report" /\ Moves(t, "post", hook[t].event) /\ Puts("report", body[t])
      /\ UNCHANGED <<buffer, omitted, tools, event, reported>>
      /\ overwritten' = overwritten \cup
           (IF closing THEN Lines(body[t]) ELSE Lines(slots.report))
  BY HookMoves DEF PostReport, Post, Puts, ringVars, saidVars
<1>2. hook'[t].pc = "post" /\ \A u \in Threads \ {t} : hook'[u] = hook[u]
  BY <1>1, Moved
<1>3. \A u \in Threads \ {t} : hook[u].pc \in {"rest", "sync"}
  BY <1>1 DEF OneAtATime, Posting
<1>4. \A n : n \in Rendered <=> n \in Lines(body[t])
  BY <1>1, <1>3, InHand
<1>5. \A n : n \notin Rendered'
  BY <1>2, <1>3, InHandNext
<1>6. slots'.report = IF closing THEN slots.report ELSE body[t]
  BY <1>1 DEF Puts, BoxTyped
<1>7. /\ Ring' = Ring /\ Lines(event)' = Lines(event)
      /\ Lines(slots.report)' = IF closing THEN Lines(slots.report) ELSE Lines(body[t])
  BY <1>1, <1>6 DEF Ring, Lines
<1>8. \A u \in Threads : hook'[u].pc # "clear"
  BY <1>2, <1>3
<1>9. \A n : n \in Lines(slots.report)' =>
        n \in Lines(slots.report) \/ n \in Rendered
  BY <1>4, <1>7
<1>10. \A n \in 1 .. tools :
         n \in Ring \cup Lines(slots.report)' \cup Lines(event) \cup reported \cup overwritten'
  BY <1>1, <1>4, <1>7 DEF LinesApart
<1>11. \A n : n \in Lines(slots.report)' => n \notin Ring \cup Lines(event) \cup reported
  BY <1>9 DEF LinesApart
<1>12. \A n \in Ring : n \notin Lines(event) \cup reported
  BY DEF LinesApart
<1> QED
  BY <1>1, <1>5, <1>7, <1>8, <1>10, <1>11, <1>12 DEF LinesApart

\* The worker takes the report, and tells it.
LEMMA LinesTold ==
  ASSUME AllTyped, BoxOrdered, LinesApart, WorkerTakes \/ WorkerDelivers
  PROVE  LinesApart'
<1> USE DEF AllTyped
<1>1. /\ UNCHANGED <<ringVars, body, overwritten, hook>> /\ Lines(None) = {}
      /\ \A e \in States \cup {Release} : Lines(e) = {}
  BY DEF WorkerTakes, WorkerDelivers, pastVars, Lines, None, States, Release
<1>2. Rendered' = Rendered /\ Ring' = Ring
  BY <1>1 DEF Rendered, Ring, Lines, ringVars
<1>3. CASE WorkerTakes
  <2>1. PICK slot \in NextSlot : event' = slots[slot] /\ slots' = [slots EXCEPT ![slot] = None]
    BY <1>3 DEF WorkerTakes
  <2>2. slot \in {"report", "state", "activity", "release"} /\ slots[slot] # None
    BY <2>1, NextSlotIs
  <2>3. event = None /\ reported' = reported
    BY <1>3 DEF WorkerTakes, BoxOrdered, saidVars
  <2>4. CASE slot = "report"
    <3>1. event' = slots.report /\ slots'.report = None
      BY <2>1, <2>4 DEF BoxTyped
    <3>2. /\ Lines(event)' = Lines(slots.report) /\ Lines(slots.report)' = {}
          /\ Lines(event) = {}
      BY <1>1, <2>3, <3>1 DEF Lines
    <3> QED
      BY <1>1, <1>2, <2>3, <3>2 DEF LinesApart, ringVars
  <2>5. CASE slot # "report"
    <3>1. event' \in States \cup {Release} /\ slots'.report = slots.report
      BY <2>1, <2>2, <2>5 DEF BoxTyped
    <3>2. Lines(event') = Lines(event) /\ Lines(slots'.report) = Lines(slots.report)
      BY <1>1, <2>3, <3>1
    <3> QED
      BY <1>1, <2>3, <3>2, LinesStay
  <2> QED
    BY <2>4, <2>5
<1>4. CASE WorkerDelivers
  <2>1. event' = None /\ slots' = slots /\ reported' = reported \cup Lines(event)
    BY <1>4 DEF WorkerDelivers
  <2>2. Lines(event)' = {} /\ Lines(slots.report)' = Lines(slots.report)
    BY <1>1, <2>1 DEF Lines
  <2> QED
    BY <1>1, <1>2, <2>1, <2>2 DEF LinesApart, ringVars
<1> QED
  BY <1>3, <1>4

\* The lines stay apart.
LEMMA LinesStep ==
  ASSUME AllTyped, BoxOrdered, OneAtATime, LinesApart, [Next]_vars, ~raced'
  PROVE  LinesApart'
<1> USE DEF AllTyped
<1>1. ASSUME NEW t \in Threads, NEW p, NEW q, NEW e, hook[t].pc = q, Moves(t, p, e),
             {p, q} \cap {"clear", "report"} = {},
             UNCHANGED <<ringVars, body, reported, overwritten, event>>,
             slots'.report = slots.report
      PROVE  LinesApart'
  <2>1. /\ hook'[t].pc = p /\ \A u \in Threads \ {t} : hook'[u] = hook[u]
    BY <1>1, Moved
  <2>2. \A u \in Threads : /\ hook'[u].pc = "report" <=> hook[u].pc = "report"
                           /\ hook'[u].pc = "clear" => hook[u].pc = "clear"
    BY <1>1, <2>1
  <2> QED
    BY <1>1, <2>2, LinesStay
<1>2. ASSUME NEW t \in Threads, Fire(t) PROVE LinesApart'
  <2>1. /\ hook[t].pc = "rest" /\ Moves(t, "sync", Idle)
        /\ UNCHANGED <<ringVars, body, reported, overwritten, event, slots>>
    BY <1>2, HookMoves DEF Fire, boxVars, saidVars
  <2> QED
    BY <1>1, <2>1
<1>3. ASSUME NEW t \in Threads, Sync(t) PROVE LinesApart'
  <2>1. /\ hook[t].pc = "sync" /\ UNCHANGED <<ringVars, body, reported, overwritten, event, slots>>
        /\ \E p \in {"rest", "render", "post"}, e \in States' \cup {Idle} : Moves(t, p, e)
    BY <1>3, SyncKinds DEF RingTyped, SaysNothing, SaysEvent, boxVars, saidVars
  <2> QED
    BY <1>1, <2>1
<1>4. ASSUME NEW t \in Threads, Render(t) PROVE LinesApart'
  <2>1. /\ hook[t].pc = "render" /\ Moves(t, "clear", hook[t].event)
        /\ UNCHANGED <<ringVars, reported, overwritten, event, slots>>
        /\ body' = [body EXCEPT ![t] = [kind |-> "report", items |-> buffer,
                                        more |-> omitted, point |-> hook[t].event.point]]
    BY <1>4, HookMoves DEF Render, boxVars, saidVars, pastVars
  <2>2. hook'[t].pc = "clear" /\ \A u \in Threads \ {t} : hook'[u] = hook[u]
    BY <2>1, Moved
  <2>3. /\ body'[t].items = buffer /\ body'[t].more = omitted
        /\ \A u \in Threads \ {t} : body'[u] = body[u]
    BY <2>1 DEF HooksTyped
  <2>4. \A n : n \in Rendered' <=> n \in Rendered
    <3>1. \A u \in Threads : hook'[u].pc = "report" <=> u # t /\ hook[u].pc = "report"
      BY <2>2
    <3> QED
      BY <2>1, <2>3, <3>1, InHand, InHandNext
  <2>5. \A u \in Threads : hook'[u].pc = "clear" => body'[u].items = buffer /\ body'[u].more = omitted
    BY <2>2, <2>3 DEF LinesApart
  <2>6. /\ Rendered' = Rendered /\ Ring' = Ring /\ Lines(slots.report)' = Lines(slots.report)
        /\ Lines(event)' = Lines(event)
    BY <2>1, <2>4 DEF Ring, Lines, ringVars
  <2> QED
    BY <2>1, <2>5, <2>6 DEF LinesApart, ringVars
<1>5. ASSUME NEW t \in Threads, PostEvent(t) PROVE LinesApart'
  <2>1. /\ hook[t].pc = "post" /\ Moves(t, "rest", Idle)
        /\ UNCHANGED <<ringVars, body, reported, overwritten, event>>
        /\ Puts("state", hook[t].event) \/ Puts("activity", hook[t].event)
    BY <1>5, HookMoves DEF PostEvent, Post, Puts, saidVars, pastVars
  <2>2. slots'.report = slots.report
    BY <2>1 DEF Puts, BoxTyped
  <2> QED
    BY <1>1, <2>1, <2>2
<1>6. ASSUME Close PROVE LinesApart'
  <2>1. /\ UNCHANGED <<ringVars, body, reported, overwritten, event, hook>>
        /\ slots'.report = slots.report
    BY <1>6 DEF Close, CloseSlots, saidVars, pastVars, BoxTyped
  <2> QED
    BY <2>1, LinesStay
<1>7. ASSUME Silenced \/ WorkerSleeps \/ ThrottleOver \/ UNCHANGED vars PROVE LinesApart'
  <2>1. UNCHANGED <<ringVars, body, reported, overwritten, event, hook, slots>>
    BY <1>7 DEF Silenced, WorkerSleeps, ThrottleOver, vars, boxVars, saidVars, pastVars
  <2> QED
    BY <2>1, LinesStay
<1> QED
  BY <1>2, <1>3, <1>4, <1>5, <1>6, <1>7, LinesRecorded, LinesFlushed, LinesPosted, LinesTold,
     HooksFire, NextKinds DEF Work, Worker

-----------------------------------------------------------------------------
(* The invariant of the reporter and what follows from it.                  *)

\* The session starts idle, with an empty mailbox and nothing to report.
LEMMA RepInit ==
  ASSUME Init
  PROVE  RepInv
<1> USE ReporterAssumption
<1>1. /\ Idle \in States /\ NoBody \in Reports /\ Idle.point = 0
  BY Constants DEF Init
<1>2. /\ Posting = {} /\ Syncing = {} /\ \A t \in Threads : hook[t] = Resting
  BY DEF Init, Posting, Syncing, Resting
<1>3. FactsTyped
  <2>1. Cardinality(opened) = 0 /\ 0 \in 0 .. MaxRuns
    BY FS_EmptySet DEF Init
  <2>2. /\ runDepth = 0 /\ gateDepth = 0 /\ awaiting \in BOOLEAN /\ notify \in BOOLEAN
        /\ text \in BOOLEAN /\ opened = {} /\ lastState = "idle" /\ lastMessage = "none"
    BY DEF Init
  <2> QED
    BY <2>1, <2>2 DEF FactsTyped
<1>4. HooksTyped
  <2>1. Cardinality(Syncing) = 0 /\ points = 0 /\ hooks = 0 /\ raced = FALSE
    BY <1>2, FS_EmptySet DEF Init
  <2>2. Resting \in [pc : Pcs, event : States]
    BY <1>1 DEF Resting, Pcs
  <2>3. hook \in [Threads -> [pc : Pcs, event : States]] /\ body \in [Threads -> Reports]
    BY <1>1, <2>2 DEF Init
  <2>4. hooks \in 0 .. MaxHooks /\ points \in Nat /\ points + Cardinality(Syncing) <= hooks
    BY <2>1
  <2>5. raced \in BOOLEAN
    BY <2>1
  <2> QED
    BY <2>3, <2>4, <2>5, Zenon DEF HooksTyped
<1>5. RingTyped
  <2>1. Cardinality({}) = 0 /\ 0 \in 0 .. MaxTools /\ 0 <= MaxEntries
    BY FS_EmptySet
  <2> QED
    BY <2>1 DEF Init, RingTyped
<1>6. BoxTyped
  <2>1. slots = [report |-> None, state |-> None, activity |-> None, release |-> None]
    BY DEF Init
  <2>2. slots \in [report : Reports \cup {None}, state : States \cup {None},
                   activity : States \cup {None}, release : {None, Release}]
    BY <2>1
  <2> QED
    BY <1>1, <2>2 DEF Init, BoxTyped
<1>7. Tracked
  BY DEF Init, Tracked, State
<1>8. \A t \in Threads : OwnPoint(t)
  BY <1>2 DEF OwnPoint, Resting
<1>9. PointsApart
  <2>1. \A t \in Threads : hook[t].event.point = 0
    BY <1>1, <1>2 DEF Resting
  <2> QED
    BY <2>1 DEF Init, PointsApart, Apart, ReportBeforeEdge, None
<1>10. BoxOrdered
  BY DEF Init, BoxOrdered, NeverSleepsOnWork, AllEmpty, None
<1>11. EdgeOnItsWay
  BY <1>2 DEF Init, EdgeOnItsWay, AnEdge, None, Idle
<1>12. LinesApart
  <2>1. \A n : n \notin Rendered
    BY <1>2, InHand DEF Resting
  <2>2. Lines(slots.report) = {} /\ Lines(event) = {} /\ Ring = {} /\ 1 .. tools = {}
    BY DEF Init, Lines, None, Ring
  <2>3. \A t \in Threads : hook[t].pc # "clear"
    BY <1>2 DEF Resting
  <2> QED
    BY <2>1, <2>2, <2>3 DEF Init, LinesApart
<1>13. Orderly
  BY <1>2, <1>11, <1>12 DEF Orderly, OneAtATime
<1> QED
  BY <1>3, <1>4, <1>5, <1>6, <1>7, <1>8, <1>9, <1>10, <1>13 DEF RepInv, AllTyped

\* Every step keeps the invariant.
LEMMA RepNext ==
  ASSUME RepInv, [Next]_vars
  PROVE  RepInv'
<1> USE DEF RepInv
<1>1. AllTyped'
  BY TypesStep
<1>2. Tracked' /\ BoxOrdered'
  BY TrackedStep, BoxOrderedStep
<1>3. (\A t \in Threads : OwnPoint(t))'
  BY OwnPointStep
<1>4. PointsApart'
  BY PointsStep
<1>5. Orderly'
  <2>1. ASSUME ~raced' PROVE OneAtATime' /\ LinesApart' /\ (~closing' => EdgeOnItsWay')
    <3>1. ~raced /\ OneAtATime /\ LinesApart
      BY <2>1, RacedStays DEF Orderly
    <3>2. OneAtATime' /\ LinesApart'
      BY <2>1, <3>1, OneAtATimeStep, LinesStep
    <3>3. ASSUME ~closing' PROVE EdgeOnItsWay'
      <4>1. closing => closing'
        BY DEF Next, Hooks, Fire, OnRunStart, OnRunEnd, OnRunCancel, OnActivity, OnAwaitingUserInput,
               GateOpened, GateClosed, Work, Sync, Render, Clear, PostReport, PostEvent,
               OnPreToolCall, Worker, WorkerTakes, WorkerSleeps, ThrottleOver, WorkerDelivers, Close,
               vars, boxVars
      <4>2. EdgeOnItsWay
        BY <3>1, <3>3, <4>1 DEF Orderly
      <4> QED
        BY <2>1, <3>1, <3>3, <4>2, EdgeStep
    <3> QED
      BY <3>2, <3>3
  <2> QED
    BY <2>1 DEF Orderly
<1> QED
  BY <1>1, <1>2, <1>3, <1>4, <1>5

\* With the truth said last, an open approval is what is said.
LEMMA RepTracker ==
  ASSUME RepInv
  PROVE  TrackerTrue
<1>1. ASSUME \A t \in Threads : hook[t].pc # "sync", ~QuietMenu
      PROVE  lastState = IF opened # {} THEN "blocked" ELSE State
  <2>1. lastState = State
    BY <1>1 DEF RepInv, Tracked, Syncing
  <2>2. gateDepth \in Nat /\ (gateDepth = 0 <=> opened = {})
    BY OpenedFinite DEF RepInv, AllTyped
  <2>3. opened # {} => State = "blocked"
    BY <2>2 DEF State
  <2> QED
    BY <2>1, <2>3
<1> QED
  BY <1>1 DEF TrackerTrue

\* With no hook at work and no event in hand, the newest edge has been said.
LEMMA RepEdge ==
  ASSUME RepInv
  PROVE  EdgeReachesSink
<1>1. ASSUME ~raced, ~closing, AtRest, slots.state = None, worker # "holding"
      PROVE  saidEdge.state = lastState
  <2>1. EdgeOnItsWay /\ event = None
    BY <1>1 DEF RepInv, Orderly, BoxOrdered
  <2>2. Posting = {}
    BY <1>1 DEF AtRest, Posting
  <2> QED
    BY <1>1, <2>1, <2>2 DEF EdgeOnItsWay, AnEdge, None
<1> QED
  BY <1>1 DEF EdgeReachesSink

\* The parts of the mailbox's promise are parts of the invariant.
LEMMA RepMailbox ==
  ASSUME RepInv
  PROVE  MailboxSound
<1> USE DEF RepInv
<1>1. TypeOK
  <2> USE DEF AllTyped
  <2>1. gateDepth \in 0 .. Cardinality(Approvals)
    BY OpenedFinite DEF FactsTyped
  <2>2. hook \in [Threads -> [event : States,
          pc : {"rest", "sync", "render", "clear", "report", "post"}]]
    BY DEF HooksTyped, Pcs
  <2>3. points \in 0 .. MaxHooks
    <3>1. Cardinality(Syncing) \in Nat /\ points \in Nat /\ hooks \in 0 .. MaxHooks
      BY SyncingCounted DEF HooksTyped
    <3>2. points + Cardinality(Syncing) <= hooks
      BY DEF HooksTyped
    <3> QED
      BY <3>1, <3>2, ReporterAssumption
  <2>4. /\ slots.report \in Reports \cup {None} /\ slots.state \in States \cup {None}
        /\ slots.activity \in States \cup {None} /\ slots.release \in {None, [kind |-> "release"]}
        /\ event \in States \cup Reports \cup {None, [kind |-> "release"]}
    BY DEF BoxTyped, Release
  <2> QED
    BY <2>1, <2>2, <2>3, <2>4 DEF TypeOK, FactsTyped, HooksTyped, RingTyped, BoxTyped
<1>2. ReportBeforeEdge /\ NeverSleepsOnWork
  BY DEF PointsApart, BoxOrdered
<1>3. FlushedBeforeRelease
  BY DEF BoxOrdered, AllEmpty, FlushedBeforeRelease
<1>4. ASSUME ~raced
      PROVE  /\ reported \cap (buffer \cup omitted \cup Lines(slots.report)) = {}
             /\ \A n \in 1 .. tools :
                  \/ n \in buffer \cup omitted \cup reported \cup overwritten
                  \/ n \in Lines(slots.report) \cup Lines(event)
                  \/ \E t \in Threads : hook[t].pc = "report" /\ n \in Lines(body[t])
  <2>1. LinesApart
    BY <1>4 DEF Orderly
  <2>2. \A n \in reported : n \notin Ring /\ n \notin Lines(slots.report)
    BY <2>1 DEF LinesApart
  <2>3. \A n \in 1 .. tools : \/ n \in Ring \cup reported \cup overwritten
                              \/ n \in Lines(slots.report) \cup Lines(event) \/ n \in Rendered
    BY <2>1 DEF LinesApart
  <2> QED
    BY <2>2, <2>3, InHand DEF Ring
<1> QED
  BY <1>1, <1>2, <1>3, <1>4 DEF MailboxSound, EntryInOnePlace

\* The invariant holds in every state of the reporter.
LEMMA RepAlways == Spec => []RepInv
<1>1. Init => RepInv
  BY RepInit
<1>2. RepInv /\ [Next]_vars => RepInv'
  BY RepNext
<1> QED
  BY <1>1, <1>2, PTL DEF Spec

\* Once every hook has derived its state, what was said last is the truth: an
\* open approval is never forgotten, whatever order the threads of
\* StateReporter._sync came in.
THEOREM TheTrackerIsTrue == Spec => []TrackerTrue
<1>1. RepInv => TrackerTrue
  BY RepTracker
<1> QED
  BY <1>1, RepAlways, PTL

\* The sink has the newest edge last, unless two threads derived and posted
\* across each other.
THEOREM TheLastEdgeArrives == Spec => []EdgeReachesSink
<1>1. RepInv => EdgeReachesSink
  BY RepEdge
<1> QED
  BY <1>1, RepAlways, PTL

\* The mailbox of the reporter keeps the order of report and edge, leaves
\* nothing behind, never sleeps on work, and no tool line is lost or told twice.
THEOREM TheMailboxIsSound == Spec => []MailboxSound
<1>1. RepInv => MailboxSound
  BY RepMailbox
<1> QED
  BY <1>1, RepAlways, PTL

-----------------------------------------------------------------------------
(* The connection: what holds of every thread and of every frame.           *)

Envelopes ==
  [method : Methods, frame : Frames \cup {NoFrame}, to : Ports \cup {Unread},
   with : Ports \cup {Unread}, tries : 0..(SendAttempts - 1), handled : BOOLEAN,
   healToken : BOOLEAN, healUnknown : BOOLEAN, resume : Methods \cup {"none"},
   resumeHeal : BOOLEAN]

\* The service, and what the session keeps of it.
ServiceTyped ==
  /\ portfile \in Address \cup {NoFile} /\ built \in 0..MaxBrokers
  /\ token \in [Ports -> Ports]
  /\ listening \subseteq 1..built /\ serving \subseteq 1..built
  /\ known \subseteq 1..built /\ onDisk \in BOOLEAN
CacheTyped ==
  /\ addr \in Ports \cup {Unread} /\ tok \in Ports \cup {Unread}
  /\ registered \in BOOLEAN /\ open \in BOOLEAN
ThreadsTyped ==
  /\ at \in [All -> Steps] /\ send \in [All -> Envelopes]
  /\ read \in [All -> Ports \cup {Unread}]
  /\ sent \in 0..MaxFrames /\ faults \in 0..MaxFaults
  /\ verdict \in [Frames -> {"none", "sent", "failed", "refused"}]
  /\ applied \in [Frames -> Nat]
LinkTyped == ServiceTyped /\ CacheTyped /\ ThreadsTyped

\* An envelope has an address, the cache has one by then, and a thread without
\* an address carries nothing.
OnWire == {"wire", "ok", "unauthorized", "unknown"}
Addressed(th) ==
  /\ send[th].to # Unread => addr # Unread
  /\ send[th].to = Unread => send[th] = Nothing
  /\ at[th] \in {"idle", "beat"} => send[th].to = Unread
  /\ at[th] \in OnWire => send[th].to # Unread

\* The broker that has handled an envelope will say "ok" to its copies.
Remembered(th) ==
  at[th] = "wire" /\ send[th].handled =>
    send[th].to \in known /\ send[th].with = token[send[th].to]

\* The frame a thread carries is on its way or in front of a registration, it
\* has no verdict yet, and it is applied exactly when its envelope was handled.
Landed(th) ==
  send[th].method = "frame" /\ (at[th] = "ok" \/ (at[th] = "wire" /\ send[th].handled))
InCarriage(e) ==
  \/ e.method = "frame" /\ e.resume = "none"
  \/ e.method = "register" /\ e.resume = "frame" /\ ~e.healUnknown
Cargo(th) ==
  /\ send[th].frame <= sent
  /\ InCarriage(send[th])
  /\ verdict[send[th].frame] = "none"
  /\ applied[send[th].frame] = IF Landed(th) THEN 1 ELSE 0
Carries(th) ==
  send[th].frame # NoFrame =>
    Cargo(th) /\ \A u \in All : send[u].frame = send[th].frame => u = th

\* A frame not begun is nowhere, and none is applied twice or falsely sent.
Recorded(f) ==
  /\ f > sent => applied[f] = 0 /\ verdict[f] = "none"
  /\ applied[f] \in {0, 1}
  /\ verdict[f] = "sent" => applied[f] = 1

LinkInv ==
  /\ LinkTyped
  /\ registered => addr # Unread
  /\ \A th \in All : Addressed(th) /\ Remembered(th) /\ Carries(th)
  /\ \A f \in Frames : Recorded(f)

-----------------------------------------------------------------------------
(* Steps of one thread.                                                     *)

\* What the step of th leaves to the others: their envelopes, their frames,
\* and everything they rely on.
Alone(th) ==
  /\ \A u \in All \ {th} : at'[u] = at[u] /\ send'[u] = send[u]
  /\ addr # Unread => addr' # Unread
  /\ known \subseteq known' /\ \A b \in known : token'[b] = token[b]
  /\ sent' \in {sent, sent + 1}
  /\ send'[th].frame \in {send[th].frame, NoFrame} \/ send'[th].frame > sent
  /\ \A f \in Frames \ {send[th].frame} :
       f <= sent => applied'[f] = applied[f] /\ verdict'[f] = verdict[f]

\* A thread keeps what it has while another one moves.
LEMMA OthersStay ==
  ASSUME LinkInv, NEW th \in All, Alone(th), NEW u \in All \ {th}
  PROVE  Addressed(u)' /\ Remembered(u)' /\ Carries(u)'
<1>1. at'[u] = at[u] /\ send'[u] = send[u]
  BY DEF Alone
<1>2. Addressed(u) /\ Remembered(u) /\ Carries(u) /\ Carries(th)
  BY DEF LinkInv
<1>3. Addressed(u)'
  BY <1>1, <1>2 DEF Addressed, Alone
<1>4. Remembered(u)'
  <2>1. send[u].to \in known => send[u].to \in known' /\ token'[send[u].to] = token[send[u].to]
    BY DEF Alone
  <2> QED
    BY <1>1, <1>2, <2>1 DEF Remembered
<1>5. ASSUME send[u].frame # NoFrame PROVE Carries(u)'
  <2> DEFINE f == send[u].frame
  <2>1. f \in Frames /\ f <= sent /\ f # send[th].frame
    BY <1>2, <1>5 DEF Carries, Cargo, LinkInv, LinkTyped, ThreadsTyped, Envelopes
  <2>2. applied'[f] = applied[f] /\ verdict'[f] = verdict[f] /\ sent' \in {sent, sent + 1}
    BY <2>1 DEF Alone
  <2>3. sent \in Nat /\ sent' \in Nat /\ sent' >= sent /\ f \in Nat
    BY <2>1, <2>2, LinkAssumption DEF LinkInv, LinkTyped, ThreadsTyped, Frames
  <2>4. Landed(u)' = Landed(u)
    BY <1>1 DEF Landed
  <2>5. Cargo(u)'
    <3>1. Cargo(u)
      BY <1>2, <1>5 DEF Carries
    <3>2. send'[u].frame = f /\ send'[u].frame <= sent' /\ verdict'[f] = verdict[f]
      BY <1>1, <2>1, <2>2, <2>3
    <3>3. InCarriage(send[u])'
      BY <1>1, <3>1 DEF Cargo, InCarriage
    <3>4. applied'[f] = IF Landed(u)' THEN 1 ELSE 0
      BY <2>2, <2>4, <3>1 DEF Cargo
    <3> QED
      BY <3>1, <3>2, <3>3, <3>4 DEF Cargo
  <2>6. ASSUME NEW v \in All, send'[v].frame = f PROVE v = u
    <3>1. CASE v = th
      BY <2>1, <2>3, <2>6, <3>1, <1>5 DEF Alone
    <3>2. CASE v # th
      BY <1>2, <1>5, <2>6, <3>2 DEF Alone, Carries
    <3> QED
      BY <3>1, <3>2
  <2> QED
    BY <1>1, <2>5, <2>6 DEF Carries
<1> QED
  BY <1>1, <1>3, <1>4, <1>5 DEF Carries

\* So the step of one thread has to be looked at only where that thread is.
LEMMA OneThreadMoves ==
  ASSUME LinkInv, NEW th \in All, Alone(th), LinkTyped', registered' => addr' # Unread,
         Addressed(th)', Remembered(th)', send'[th].frame # NoFrame => Cargo(th)',
         \A f \in Frames : Recorded(f)'
  PROVE  LinkInv'
<1>1. \A u \in All \ {th} : Addressed(u)' /\ Remembered(u)' /\ Carries(u)'
  BY OthersStay
<1>2. ASSUME send'[th].frame # NoFrame, NEW u \in All, send'[u].frame = send'[th].frame
      PROVE  u = th
  <2>1. SUFFICES ASSUME u # th PROVE FALSE
    OBVIOUS
  <2>2. send'[u] = send[u] /\ Carries(u) /\ send[u] \in Envelopes
    BY <2>1 DEF Alone, LinkInv, LinkTyped, ThreadsTyped
  <2>3. send[u].frame # NoFrame /\ send[u].frame <= sent /\ send[u].frame # send[th].frame
    BY <1>2, <2>1, <2>2 DEF Carries, Cargo
  <2>4. sent \in Nat /\ send[u].frame \in Nat
    BY <2>2, LinkAssumption DEF Envelopes, NoFrame, Frames, LinkInv, LinkTyped, ThreadsTyped
  <2> QED
    BY <1>2, <2>2, <2>3, <2>4 DEF Alone
<1>3. Carries(th)'
  BY <1>2 DEF Carries
<1> QED
  BY <1>1, <1>3 DEF LinkInv

\* A frame that is left alone stays as it is recorded.
LEMMA RecordStays ==
  ASSUME NEW f \in Frames, Recorded(f), applied'[f] = applied[f], verdict'[f] = verdict[f],
         sent' >= sent, sent \in Nat, sent' \in Nat
  PROVE  Recorded(f)'
  BY LinkAssumption DEF Recorded, Frames

\* A step that leaves threads, cache and frames alone, and the brokers what
\* they knew, keeps everything but the types.
LEMMA ThreadsStay ==
  ASSUME LinkInv, LinkTyped', UNCHANGED <<at, send, addr, registered, sent, verdict, applied>>,
         known \subseteq known', \A b \in known : token'[b] = token[b]
  PROVE  LinkInv'
<1>1. ASSUME NEW th \in All PROVE Addressed(th)' /\ Remembered(th)' /\ Carries(th)'
  <2>1. Addressed(th) /\ Remembered(th) /\ Carries(th)
    BY DEF LinkInv
  <2>2. Addressed(th)' /\ Carries(th)'
    BY <2>1 DEF Addressed, Carries, Cargo, Landed
  <2>3. Remembered(th)'
    BY <2>1 DEF Remembered
  <2> QED
    BY <2>2, <2>3
<1>2. ASSUME NEW f \in Frames PROVE Recorded(f)'
  BY DEF LinkInv, Recorded
<1> QED
  BY <1>1, <1>2 DEF LinkInv

-----------------------------------------------------------------------------
(* The service underneath.                                                  *)

\* Brokers and their tokens keep their types, and no token changes once its
\* broker is known.
LEMMA ServiceSteps ==
  ASSUME ServiceTyped, ServiceNext
  PROVE  /\ portfile' \in Address \cup {NoFile} /\ built' \in 0..MaxBrokers
         /\ token' \in [Ports -> Ports] /\ built <= built'
         /\ listening' \subseteq 1..built' /\ serving' \subseteq 1..built'
         /\ \A b \in 1..built : token'[b] = token[b]
<1> USE LinkAssumption DEF ServiceTyped, Ports
<1>1. CASE Appear
  <2> DEFINE b == built + 1
  <2>1. b \in Ports /\ built' = b /\ listening' = {b} /\ serving' = {b} /\ portfile' = portfile
    BY <1>1 DEF Appear
  <2>2. PICK t \in Ports : token' = [token EXCEPT ![b] = t]
    <3>1. portfile # NoFile => portfile.token \in Ports
      BY DEF Address
    <3> QED
      BY <1>1, <2>1, <3>1 DEF Appear
  <2>3. token' \in [Ports -> Ports]
    <3>1. ASSUME NEW S, token \in [S -> S], t \in S PROVE token' \in [S -> S]
      BY <2>2, <3>1
    <3> QED
      BY <2>2, <3>1
  <2>4. \A c \in 1..built : token'[c] = token[c]
    <3>1. \A c \in 1..built : c \in Ports /\ c # b
      BY <2>1
    <3> QED
      BY <2>2, <3>1
  <2> QED
    BY <2>1, <2>3, <2>4
<1>2. ASSUME NEW b \in Ports, Announce(b) PROVE portfile' \in Address
  BY <1>2 DEF Announce, Address
<1>3. CASE \E b \in Ports : Announce(b) \/ Wedge(b) \/ Vanish(b)
  <2>1. PICK b \in Ports : Announce(b) \/ Wedge(b) \/ Vanish(b)
    BY <1>3
  <2>2. portfile' \in Address \cup {NoFile}
    BY <1>2, <2>1 DEF Wedge, Vanish
  <2>3. built' = built /\ token' = token /\ listening' \subseteq listening /\ serving' \subseteq serving
    BY <2>1 DEF Announce, Wedge, Vanish
  <2> QED
    BY <2>2, <2>3
<1>4. CASE FileLost
  BY <1>4 DEF FileLost
<1> QED
  BY <1>1, <1>3, <1>4 DEF ServiceNext

\* A new broker knows the session only if the register said so; the others
\* know what they knew.
LEMMA BrokersMove ==
  ASSUME LinkInv, Elected \/ BrokerMoves \/ LoseFiles
  PROVE  LinkInv'
<1> USE LinkAssumption
<1>1. ServiceNext \/ UNCHANGED serviceVars
  BY DEF Elected, BrokerMoves, LoseFiles, ServiceNext, serviceVars
<1>2. ServiceTyped /\ CacheTyped /\ ThreadsTyped
  BY DEF LinkInv, LinkTyped
<1>3. /\ portfile' \in Address \cup {NoFile} /\ built' \in 0..MaxBrokers
      /\ token' \in [Ports -> Ports] /\ built <= built'
      /\ listening' \subseteq 1..built' /\ serving' \subseteq 1..built'
      /\ \A b \in 1..built : token'[b] = token[b]
  <2>1. CASE ServiceNext
    BY <1>2, <2>1, ServiceSteps
  <2>2. CASE UNCHANGED serviceVars
    BY <1>2, <2>2 DEF serviceVars, ServiceTyped
  <2> QED
    BY <1>1, <2>1, <2>2
<1>4. UNCHANGED <<cached, ofThreads, applied>>
  BY DEF Elected, BrokerMoves, LoseFiles, atBroker
<1>5. known \subseteq known' /\ known' \subseteq 1..built' /\ onDisk' \in BOOLEAN
  <2>1. known \subseteq 1..built'
    BY <1>2, <1>3 DEF ServiceTyped
  <2>2. CASE Elected
    <3>1. built' = built + 1 /\ built \in Nat
      BY <1>2, <2>2 DEF Elected, Appear, ServiceTyped
    <3>2. built + 1 \in 1..built'
      BY <3>1
    <3> QED
      BY <1>2, <2>1, <2>2, <3>2 DEF Elected, ServiceTyped
  <2>3. CASE BrokerMoves
    BY <1>2, <2>1, <2>3 DEF BrokerMoves, atBroker, ServiceTyped
  <2>4. CASE LoseFiles
    BY <1>2, <2>1, <2>4 DEF LoseFiles, ServiceTyped
  <2> QED
    BY <2>2, <2>3, <2>4
<1>6. faults' \in 0..MaxFaults
  BY <1>2 DEF Elected, BrokerMoves, LoseFiles, Fault, ThreadsTyped
<1>7. ServiceTyped'
  BY <1>3, <1>5 DEF ServiceTyped
<1>8. CacheTyped'
  BY <1>2, <1>4 DEF CacheTyped, cached
<1>9. ThreadsTyped'
  BY <1>2, <1>4, <1>6 DEF ThreadsTyped, ofThreads
<1>10. \A b \in known : token'[b] = token[b]
  BY <1>2, <1>3 DEF ServiceTyped
<1> QED
  BY <1>4, <1>5, <1>7, <1>8, <1>9, <1>10, ThreadsStay DEF LinkTyped, cached, ofThreads

-----------------------------------------------------------------------------
(* What a thread's step comes down to: it turns to something else, it is    *)
(* through, or an envelope of its own goes out.                             *)

\* The cache keeps its types, is not emptied, and is there when registered.
CacheKept ==
  /\ CacheTyped'
  /\ addr # Unread => addr' # Unread
  /\ registered' => addr' # Unread

\* What a broker may have made of th's envelope.
Handled(th) ==
  /\ known \subseteq known' /\ known' \subseteq 1..built /\ onDisk' \in BOOLEAN
  /\ applied' \in [Frames -> Nat]
  /\ \A f \in Frames \ {send[th].frame} : applied'[f] = applied[f]
  /\ send[th].frame # NoFrame => applied'[send[th].frame] \in {0, 1}

\* Types of everything no thread changes.
LEMMA ServiceStays ==
  ASSUME LinkInv, UNCHANGED serviceVars, known' \subseteq 1..built, onDisk' \in BOOLEAN
  PROVE  ServiceTyped' /\ token' = token
  BY DEF LinkInv, LinkTyped, ServiceTyped, serviceVars

\* What types say of one thread.
LEMMA OneTyped ==
  ASSUME LinkInv, NEW th \in All
  PROVE  /\ send[th] \in Envelopes /\ at[th] \in Steps /\ sent \in Nat /\ sent <= MaxFrames
         /\ send[th].frame \in Frames \cup {NoFrame} /\ NoFrame \notin Frames
         /\ Addressed(th) /\ Remembered(th) /\ Carries(th)
  BY LinkAssumption DEF LinkInv, LinkTyped, ThreadsTyped, Envelopes, Frames, NoFrame

\* A thread turns to something else and keeps its envelope.
LEMMA StepsOn ==
  ASSUME LinkInv, NEW th \in All, NEW s \in Steps \ OnWire, at' = [at EXCEPT ![th] = s],
         send[th].frame # NoFrame => ~Landed(th), s \in {"idle", "beat"} => send[th].to = Unread,
         CacheKept, read' \in [All -> Ports \cup {Unread}],
         UNCHANGED <<serviceVars, atBroker, send, sent, verdict, faults>>
  PROVE  LinkInv'
<1>1. ServiceTyped' /\ token' = token /\ known' = known
  BY ServiceStays DEF LinkInv, LinkTyped, ServiceTyped, atBroker
<1>2. ThreadsTyped'
  BY DEF LinkInv, LinkTyped, ThreadsTyped, atBroker
<1>3. at'[th] = s /\ \A u \in All \ {th} : at'[u] = at[u]
  BY DEF LinkInv, LinkTyped, ThreadsTyped
<1>4. Addressed(th) /\ Carries(th)
  BY OneTyped
<1>5. Alone(th)
  BY <1>1, <1>3 DEF Alone, CacheKept, atBroker
<1>6. Addressed(th)'
  BY <1>3, <1>4 DEF Addressed, CacheKept
<1>7. Remembered(th)'
  BY <1>3 DEF Remembered, OnWire
<1>8. ~Landed(th)'
  BY <1>3 DEF Landed, OnWire
<1>9. send'[th].frame # NoFrame => Cargo(th)'
  BY <1>4, <1>8 DEF Carries, Cargo, atBroker
<1>10. ASSUME NEW f \in Frames PROVE Recorded(f)'
  BY DEF LinkInv, Recorded, atBroker
<1> QED
  BY <1>1, <1>2, <1>5, <1>6, <1>7, <1>9, <1>10, OneThreadMoves DEF LinkTyped, CacheKept

\* A thread is through: its frame has its verdict, and it carries no other.
LEMMA Finishes ==
  ASSUME LinkInv, NEW th \in All, NEW v \in {"sent", "failed", "refused"}, Through(th, v),
         Handled(th), v = "sent" /\ send[th].frame # NoFrame => applied'[send[th].frame] = 1,
         CacheKept, read' \in [All -> Ports \cup {Unread}], faults' \in 0..MaxFaults,
         UNCHANGED <<serviceVars, sent>>
  PROVE  LinkInv'
<1> DEFINE f == send[th].frame
<1>1. ServiceTyped' /\ token' = token
  BY ServiceStays DEF Handled
<1>2. Nothing \in Envelopes /\ Nothing.frame = NoFrame /\ Nothing.to = Unread
  BY LinkAssumption DEF Nothing, Envelopes, Methods
<1>3. /\ at' = [at EXCEPT ![th] = "idle"] /\ send' = [send EXCEPT ![th] = Nothing]
      /\ verdict' = IF f = NoFrame THEN verdict ELSE [verdict EXCEPT ![f] = v]
  BY DEF Through, Rest, Answered
<1>4. /\ at'[th] = "idle" /\ send'[th] = Nothing
      /\ \A u \in All \ {th} : at'[u] = at[u] /\ send'[u] = send[u]
  BY <1>3 DEF LinkInv, LinkTyped, ThreadsTyped
<1>5. ThreadsTyped'
  BY <1>2, <1>3, OneTyped DEF LinkInv, LinkTyped, ThreadsTyped, Handled, Steps
<1>6. f \in Frames \cup {NoFrame} /\ NoFrame \notin Frames /\ Carries(th)
  BY OneTyped
<1>7. \A g \in Frames \ {f} : applied'[g] = applied[g] /\ verdict'[g] = verdict[g]
  BY <1>3 DEF Handled, LinkInv, LinkTyped, ThreadsTyped
<1>8. Alone(th)
  BY <1>1, <1>2, <1>4, <1>7 DEF Alone, CacheKept, Handled
<1>9. Addressed(th)' /\ Remembered(th)' /\ (send'[th].frame # NoFrame => Cargo(th)')
  BY <1>2, <1>4 DEF Addressed, Remembered, OnWire
<1>10. ASSUME NEW g \in Frames PROVE Recorded(g)'
  <2>1. Recorded(g)
    BY DEF LinkInv
  <2>2. CASE g # f
    BY <1>7, <2>1, <2>2 DEF Recorded
  <2>3. CASE g = f
    <3>1. g <= sent /\ sent \in Nat /\ g \in Nat
      BY <1>6, <2>3, OneTyped, LinkAssumption DEF Carries, Cargo, Frames
    <3>2. verdict'[g] = v
      BY <1>3, <1>6, <2>3 DEF LinkInv, LinkTyped, ThreadsTyped
    <3> QED
      BY <1>6, <2>3, <3>1, <3>2 DEF Recorded, Handled
  <2> QED
    BY <2>2, <2>3
<1> QED
  BY <1>1, <1>5, <1>8, <1>9, <1>10, OneThreadMoves DEF LinkTyped, CacheKept

\* What Envelope() gives: addressed, not tried and not handled.
LEMMA EnvelopeMade ==
  ASSUME NEW e \in Envelopes, NEW a \in Ports, NEW t \in Ports \cup {Unread}
  PROVE  LET n == Envelope(e, a, t) IN
         /\ n \in Envelopes /\ n.to = a /\ ~n.handled /\ n.frame = e.frame
         /\ n.method = e.method /\ n.resume = e.resume /\ n.healUnknown = e.healUnknown
<1>1. 0 \in 0..(SendAttempts - 1)
  BY LinkAssumption
<1> QED
  BY <1>1 DEF Envelope, Envelopes

\* An envelope goes out: that of the frame the thread carries, unless the
\* broker has it already, or that of the next frame.
LEMMA GoesOut ==
  ASSUME LinkInv, NEW th \in All, NEW e \in Envelopes, NEW a \in Ports,
         NEW t \in Ports \cup {Unread},
         at' = [at EXCEPT ![th] = "wire"], send' = [send EXCEPT ![th] = Envelope(e, a, t)],
         CacheKept, addr' # Unread, read' \in [All -> Ports \cup {Unread}],
         \/ /\ e.frame = send[th].frame /\ sent' = sent
            /\ send[th].frame # NoFrame => ~Landed(th)
         \/ sent' = sent + 1 /\ e.frame = sent + 1 /\ e.frame \in Frames,
         e.frame # NoFrame => InCarriage(e),
         UNCHANGED <<serviceVars, atBroker, verdict, faults>>
  PROVE  LinkInv'
<1> DEFINE n == Envelope(e, a, t)
<1>1. ServiceTyped' /\ token' = token /\ known' = known /\ applied' = applied
  BY ServiceStays DEF LinkInv, LinkTyped, ServiceTyped, atBroker
<1>2. /\ n \in Envelopes /\ n.to = a /\ ~n.handled /\ n.frame = e.frame
      /\ n.method = e.method /\ n.resume = e.resume /\ n.healUnknown = e.healUnknown
  BY EnvelopeMade
<1> HIDE DEF n
<1>3. send' = [send EXCEPT ![th] = n]
  BY DEF n
<1>4. /\ at'[th] = "wire" /\ send'[th] = n
      /\ \A u \in All \ {th} : at'[u] = at[u] /\ send'[u] = send[u]
  BY <1>3 DEF LinkInv, LinkTyped, ThreadsTyped
<1>5. sent' \in 0..MaxFrames /\ sent' >= sent /\ sent' \in {sent, sent + 1}
  BY OneTyped, LinkAssumption DEF Frames
<1>6. ThreadsTyped'
  BY <1>1, <1>2, <1>3, <1>5 DEF LinkInv, LinkTyped, ThreadsTyped, Steps
<1>7. e.frame \in {send[th].frame, NoFrame} \/ e.frame > sent
  BY OneTyped
<1>8. Alone(th)
  BY <1>1, <1>2, <1>4, <1>5, <1>7 DEF Alone, CacheKept
<1>9. Addressed(th)'
  BY <1>2, <1>4, LinkAssumption DEF Addressed, OnWire, Ports, Unread
<1>10. Remembered(th)'
  BY <1>2, <1>4 DEF Remembered
<1>11. ASSUME n.frame # NoFrame PROVE Cargo(th)'
  <2>1. n.frame \in Frames
    BY <1>2, <1>11 DEF Envelopes
  <2>2. n.frame <= sent' /\ verdict[n.frame] = "none" /\ applied[n.frame] = 0
    <3>1. CASE /\ e.frame = send[th].frame /\ sent' = sent
               /\ send[th].frame # NoFrame => ~Landed(th)
      <4>1. Cargo(th)
        BY <1>2, <1>11, <3>1, OneTyped DEF Carries
      <4> QED
        BY <1>2, <1>11, <3>1, <4>1 DEF Cargo
    <3>2. CASE sent' = sent + 1 /\ e.frame = sent + 1
      <4>1. n.frame > sent /\ n.frame <= sent'
        BY <1>2, <3>2, OneTyped
      <4> QED
        BY <2>1, <4>1 DEF LinkInv, Recorded
    <3> QED
      BY <3>1, <3>2
  <2>3. ~Landed(th)'
    BY <1>2, <1>4 DEF Landed
  <2>4. InCarriage(n)
    BY <1>2, <1>11 DEF InCarriage
  <2> QED
    BY <1>1, <1>4, <2>2, <2>3, <2>4 DEF Cargo
<1>12. ASSUME NEW f \in Frames PROVE Recorded(f)'
  BY <1>1, <1>5, RecordStays, OneTyped DEF LinkInv
<1> QED
  BY <1>1, <1>4, <1>6, <1>8, <1>9, <1>10, <1>11, <1>12, OneThreadMoves DEF LinkTyped, CacheKept

\* A broker has th's envelope, for the first time or again, and the thread has
\* heard of it or not.
LEMMA BrokerHandles ==
  ASSUME LinkInv, NEW th \in All, at[th] = "wire", send[th].to \in serving,
         Handle(send[th].to, send[th])
  PROVE  /\ Handled(th)
         /\ Reply(send[th].to, send[th]) = "ok" =>
              /\ send[th].to \in known'
              /\ send[th].frame # NoFrame /\ send[th].method = "frame"
                   => applied'[send[th].frame] = 1
         /\ send[th].frame # NoFrame /\ ~(Reply(send[th].to, send[th]) = "ok" /\ send[th].method = "frame")
              => applied'[send[th].frame] = 0
<1> DEFINE f == send[th].frame
           ok == Reply(send[th].to, send[th]) = "ok"
<1>1. f \in Frames \cup {NoFrame} /\ Carries(th) /\ Remembered(th) /\ send[th] \in Envelopes
  BY OneTyped
<1>2. /\ known' = IF ok THEN known \cup {send[th].to} ELSE known
      /\ onDisk' = (onDisk \/ ok)
      /\ applied' = IF ok /\ f # NoFrame /\ send[th].method = "frame" /\ ~send[th].handled
                    THEN [applied EXCEPT ![f] = @ + 1] ELSE applied
  BY DEF Handle, Repeated
<1>3. send[th].handled => ok
  BY <1>1 DEF Remembered, Reply
<1> HIDE DEF ok
<1>4. f # NoFrame => applied[f] = IF send[th].method = "frame" /\ send[th].handled THEN 1 ELSE 0
  BY <1>1 DEF Carries, Cargo, Landed
<1>5. ServiceTyped /\ applied \in [Frames -> Nat]
  BY DEF LinkInv, LinkTyped, ThreadsTyped
<1>6. f # NoFrame => applied'[f] = IF ok /\ send[th].method = "frame" THEN 1 ELSE 0
  <2>1. CASE ok /\ f # NoFrame /\ send[th].method = "frame" /\ ~send[th].handled
    BY <1>1, <1>2, <1>4, <1>5, <2>1
  <2>2. CASE ~(ok /\ f # NoFrame /\ send[th].method = "frame" /\ ~send[th].handled)
    <3>1. applied' = applied
      BY <1>2, <2>2
    <3> QED
      BY <1>3, <1>4, <2>2, <3>1
  <2> QED
    BY <2>1, <2>2
<1>7. Handled(th)
  <2>1. known' \subseteq 1..built /\ onDisk' \in BOOLEAN
    <3>1. onDisk' \in BOOLEAN
      BY <1>2, <1>5 DEF ServiceTyped
    <3> QED
      BY <1>2, <1>5, <3>1 DEF ServiceTyped
  <2>2. applied' \in [Frames -> Nat] /\ \A g \in Frames \ {f} : applied'[g] = applied[g]
    BY <1>1, <1>2, <1>5
  <2> QED
    BY <1>2, <1>6, <2>1, <2>2 DEF Handled
<1> QED
  BY <1>2, <1>6, <1>7 DEF ok

\* What no broker has handled stays as it was.
LEMMA HandledStays ==
  ASSUME LinkInv, NEW th \in All, UNCHANGED atBroker
  PROVE  Handled(th) /\ known' = known /\ applied' = applied
<1>1. ServiceTyped /\ applied \in [Frames -> Nat] /\ Carries(th)
  BY DEF LinkInv, LinkTyped, ThreadsTyped
<1>2. send[th].frame # NoFrame => applied[send[th].frame] \in {0, 1}
  BY <1>1 DEF Carries, Cargo
<1> QED
  BY <1>1, <1>2 DEF Handled, ServiceTyped, atBroker

\* An attempt that nobody answers: the copy that follows knows whether the
\* broker has handled the envelope, and the last one gives up.
LEMMA UnansweredKeeps ==
  ASSUME LinkInv, NEW th \in All, at[th] = "wire", NEW heard \in BOOLEAN,
         Unanswered(th, heard), Handled(th),
         heard => send[th].to \in known' /\ send[th].with = token[send[th].to],
         send[th].frame # NoFrame =>
           applied'[send[th].frame] = IF send[th].method = "frame" /\ heard THEN 1 ELSE 0,
         faults' \in 0..MaxFaults, UNCHANGED <<serviceVars, read, sent>>
  PROVE  LinkInv'
<1>1. ServiceTyped' /\ token' = token
  BY ServiceStays DEF Handled
<1>2. /\ send[th] \in Envelopes /\ at[th] \in Steps /\ Addressed(th) /\ Carries(th)
      /\ sent \in Nat
  BY OneTyped
<1>3. read' \in [All -> Ports \cup {Unread}] /\ CacheTyped
  BY DEF LinkInv, LinkTyped, ThreadsTyped
<1>4. CASE send[th].tries + 1 < SendAttempts
  <2> DEFINE n == [send[th] EXCEPT !.tries = @ + 1, !.handled = heard]
  <2>1. /\ send' = [send EXCEPT ![th] = n] /\ UNCHANGED <<at, verdict, cached>>
    <3>1. /\ send' = [send EXCEPT ![th].tries = @ + 1, ![th].handled = heard]
          /\ UNCHANGED <<at, verdict, cached>>
      BY <1>4 DEF Unanswered
    <3> QED
      BY <3>1 DEF LinkInv, LinkTyped, ThreadsTyped
  <2>2. n \in Envelopes
    <3>1. send[th].tries + 1 \in 0..(SendAttempts - 1)
      BY <1>2, <1>4, LinkAssumption DEF Envelopes
    <3> QED
      BY <1>2, <3>1 DEF Envelopes
  <2>3. /\ n.to = send[th].to /\ n.with = send[th].with /\ n.frame = send[th].frame
        /\ n.method = send[th].method /\ n.resume = send[th].resume /\ n.handled = heard
        /\ n.healUnknown = send[th].healUnknown
    BY <1>2 DEF Envelopes
  <2> HIDE DEF n
  <2>4. send'[th] = n /\ \A u \in All \ {th} : send'[u] = send[u]
    BY <2>1 DEF LinkInv, LinkTyped, ThreadsTyped
  <2>5. ThreadsTyped'
    BY <2>1, <2>2 DEF LinkInv, LinkTyped, ThreadsTyped, Handled
  <2>6. CacheKept
    BY <1>3, <2>1 DEF CacheKept, CacheTyped, cached, LinkInv
  <2>7. Alone(th)
    BY <1>1, <2>1, <2>3, <2>4, <2>6 DEF Alone, CacheKept, Handled
  <2>8. Addressed(th)'
    BY <1>2, <2>1, <2>3, <2>4, <2>6 DEF Addressed, CacheKept, OnWire
  <2>9. Remembered(th)'
    BY <1>1, <2>1, <2>3, <2>4 DEF Remembered
  <2>10. ASSUME n.frame # NoFrame PROVE Cargo(th)'
    <3>1. Landed(th)' <=> send[th].method = "frame" /\ heard
      BY <2>1, <2>3, <2>4 DEF Landed
    <3>2. Cargo(th)
      BY <1>2, <2>3, <2>10 DEF Carries
    <3>3. InCarriage(n)
      BY <2>3, <3>2 DEF Cargo, InCarriage
    <3> QED
      BY <2>1, <2>3, <2>4, <2>10, <3>1, <3>2, <3>3 DEF Cargo
  <2>11. ASSUME NEW f \in Frames PROVE Recorded(f)'
    <3>1. Recorded(f)
      BY DEF LinkInv
    <3>2. CASE f # send[th].frame
      BY <2>1, <3>1, <3>2 DEF Recorded, Handled
    <3>3. CASE f = send[th].frame
      <4>1. verdict[f] = "none" /\ f <= sent /\ f \in Nat
        BY <1>2, <3>3, OneTyped, LinkAssumption DEF Carries, Cargo, Frames
      <4>2. f # NoFrame
        BY OneTyped
      <4> QED
        BY <1>2, <2>1, <3>3, <4>1, <4>2 DEF Recorded
    <3> QED
      BY <3>2, <3>3
  <2> QED
    BY <1>1, <2>4, <2>5, <2>6, <2>7, <2>8, <2>9, <2>10, <2>11, OneThreadMoves
    DEF LinkTyped, CacheKept
<1>5. CASE ~(send[th].tries + 1 < SendAttempts)
  <2>1. registered' = FALSE /\ Through(th, "failed") /\ UNCHANGED <<addr, tok, open>>
    BY <1>5 DEF Unanswered
  <2>2. CacheKept
    BY <1>3, <2>1 DEF CacheKept, CacheTyped
  <2> QED
    BY <1>3, <2>1, <2>2, Finishes
<1> QED
  BY <1>4, <1>5

\* One attempt on the wire: answered, not answered, or answered in vain.
LEMMA AttemptKeeps ==
  ASSUME LinkInv, NEW th \in All, RoundTrip(th) \/ NobodyThere(th) \/ AnswerLost(th)
  PROVE  LinkInv'
<1> DEFINE reply == Reply(send[th].to, send[th])
<1>1. /\ at[th] = "wire" /\ send[th] \in Envelopes /\ Addressed(th) /\ Remembered(th)
      /\ Carries(th)
  BY OneTyped DEF RoundTrip, NobodyThere, AnswerLost
<1>2. reply \in {"ok", "unauthorized", "unknown"} /\ (reply = "ok" => send[th].with = token[send[th].to])
  BY DEF Reply
<1>3. CASE RoundTrip(th)
  <2>1. /\ at' = [at EXCEPT ![th] = reply] /\ send[th].to \in serving
        /\ Handle(send[th].to, send[th])
        /\ UNCHANGED <<serviceVars, cached, send, read, sent, verdict, faults>>
    BY <1>3 DEF RoundTrip
  <2>2. /\ Handled(th)
        /\ reply = "ok" /\ send[th].frame # NoFrame /\ send[th].method = "frame"
             => applied'[send[th].frame] = 1
        /\ send[th].frame # NoFrame /\ ~(reply = "ok" /\ send[th].method = "frame")
             => applied'[send[th].frame] = 0
    BY <1>1, <2>1, BrokerHandles
  <2>3. ServiceTyped' /\ token' = token
    BY <2>1, <2>2, ServiceStays DEF Handled
  <2> HIDE DEF reply
  <2>4. ThreadsTyped'
    BY <1>2, <2>1, <2>2 DEF LinkInv, LinkTyped, ThreadsTyped, Handled, Steps
  <2>5. CacheKept
    BY <2>1 DEF CacheKept, CacheTyped, cached, LinkInv, LinkTyped
  <2>6. at'[th] = reply /\ \A u \in All \ {th} : at'[u] = at[u]
    BY <2>1 DEF LinkInv, LinkTyped, ThreadsTyped
  <2>7. Alone(th)
    BY <2>1, <2>2, <2>3, <2>5, <2>6 DEF Alone, CacheKept, Handled
  <2>8. Addressed(th)' /\ Remembered(th)'
    BY <1>1, <1>2, <2>1, <2>5, <2>6 DEF Addressed, Remembered, CacheKept, OnWire
  <2>9. ASSUME send[th].frame # NoFrame PROVE Cargo(th)'
    <3>1. Landed(th)' <=> send[th].method = "frame" /\ reply = "ok"
      BY <1>2, <2>1, <2>6 DEF Landed
    <3>2. Cargo(th)
      BY <1>1, <2>9 DEF Carries
    <3> QED
      BY <2>1, <2>2, <2>9, <3>1, <3>2 DEF Cargo
  <2>10. ASSUME NEW f \in Frames PROVE Recorded(f)'
    <3>1. Recorded(f) /\ f # NoFrame
      BY OneTyped DEF LinkInv
    <3>2. CASE f # send[th].frame
      BY <2>1, <2>2, <3>1, <3>2 DEF Recorded, Handled
    <3>3. CASE f = send[th].frame
      <4>1. verdict[f] = "none" /\ f <= sent /\ f \in Nat /\ sent \in Nat
        BY <1>1, <3>3, OneTyped, LinkAssumption DEF Carries, Cargo, Frames
      <4> QED
        BY <2>1, <2>2, <3>1, <3>3, <4>1 DEF Recorded, Handled
    <3> QED
      BY <3>2, <3>3
  <2> QED
    BY <2>1, <2>3, <2>4, <2>5, <2>7, <2>8, <2>9, <2>10, OneThreadMoves DEF LinkTyped, CacheKept
<1>4. CASE NobodyThere(th)
  <2>1. Unanswered(th, send[th].handled) /\ UNCHANGED <<serviceVars, atBroker, read, sent, faults>>
    BY <1>4 DEF NobodyThere
  <2>2. Handled(th) /\ known' = known /\ applied' = applied
    BY <2>1, HandledStays
  <2>3. send[th].handled \in BOOLEAN /\ faults' \in 0..MaxFaults
    BY <1>1, <2>1 DEF Envelopes, LinkInv, LinkTyped, ThreadsTyped
  <2>4. send[th].handled => send[th].to \in known' /\ send[th].with = token[send[th].to]
    BY <1>1, <2>2 DEF Remembered
  <2>5. send[th].frame # NoFrame =>
          applied'[send[th].frame] = IF send[th].method = "frame" /\ send[th].handled THEN 1 ELSE 0
    BY <1>1, <2>2 DEF Carries, Cargo, Landed
  <2> QED
    BY <1>1, <2>1, <2>2, <2>3, <2>4, <2>5, UnansweredKeeps
<1>5. CASE AnswerLost(th)
  <2> DEFINE heard == send[th].handled \/ reply = "ok"
  <2>1. /\ Fault /\ send[th].to \in serving /\ Handle(send[th].to, send[th])
        /\ Unanswered(th, heard) /\ UNCHANGED <<serviceVars, read, sent>>
    BY <1>5 DEF AnswerLost
  <2>2. /\ Handled(th)
        /\ reply = "ok" => send[th].to \in known'
        /\ reply = "ok" /\ send[th].frame # NoFrame /\ send[th].method = "frame"
             => applied'[send[th].frame] = 1
        /\ send[th].frame # NoFrame /\ ~(reply = "ok" /\ send[th].method = "frame")
             => applied'[send[th].frame] = 0
    BY <1>1, <2>1, BrokerHandles
  <2>3. send[th].handled => reply = "ok"
    BY <1>1 DEF Remembered, Reply
  <2> HIDE DEF reply
  <2>4. heard \in BOOLEAN /\ (heard <=> reply = "ok") /\ faults' \in 0..MaxFaults
    <3>1. send[th].handled \in BOOLEAN
      BY <1>1 DEF Envelopes
    <3>2. faults' \in 0..MaxFaults
      BY <2>1, LinkAssumption DEF Fault, LinkInv, LinkTyped, ThreadsTyped
    <3> QED
      BY <2>3, <3>1, <3>2
  <2> HIDE DEF heard
  <2>5. heard => send[th].to \in known' /\ send[th].with = token[send[th].to]
    BY <1>2, <2>2, <2>4
  <2>6. send[th].frame # NoFrame =>
          applied'[send[th].frame] = IF send[th].method = "frame" /\ heard THEN 1 ELSE 0
    BY <2>2, <2>4
  <2> QED
    BY <1>1, <2>1, <2>2, <2>4, <2>5, <2>6, UnansweredKeeps
<1> QED
  BY <1>3, <1>4, <1>5

\* The cache as it is.
LEMMA CacheStays ==
  ASSUME LinkInv, UNCHANGED <<addr, tok, open>>, registered' \in BOOLEAN,
         registered' => registered \/ addr # Unread
  PROVE  CacheKept
  BY DEF LinkInv, LinkTyped, CacheTyped, CacheKept

\* A thread gives up without having sent anything more.
LEMMA GivesUp ==
  ASSUME LinkInv, NEW th \in All, NEW v \in {"failed", "refused"}, Through(th, v), CacheKept,
         read' \in [All -> Ports \cup {Unread}],
         UNCHANGED <<serviceVars, atBroker, sent, faults>>
  PROVE  LinkInv'
<1>1. Handled(th)
  BY HandledStays
<1>2. faults' \in 0..MaxFaults
  BY DEF LinkInv, LinkTyped, ThreadsTyped
<1> QED
  BY <1>1, <1>2, Finishes

\* The answer "ok": the frame behind a registration goes out, or the thread is
\* through and tells the truth.
LEMMA ApplyOkKeeps ==
  ASSUME LinkInv, NEW th \in All, ApplyOk(th)
  PROVE  LinkInv'
<1>1. /\ at[th] = "ok" /\ registered' = (registered \/ send[th].method = "register")
      /\ UNCHANGED <<serviceVars, addr, tok, open, atBroker, read, sent, faults>>
  BY DEF ApplyOk
<1>2. /\ send[th] \in Envelopes /\ Carries(th) /\ CacheTyped /\ ThreadsTyped
      /\ addr \in Ports /\ tok \in Ports \cup {Unread}
  BY <1>1, OneTyped DEF Addressed, OnWire, LinkInv, LinkTyped, CacheTyped
<1>3. registered' \in BOOLEAN
  BY <1>1, <1>2 DEF CacheTyped
<1>4. CacheKept /\ addr # Unread
  BY <1>1, <1>2, <1>3, CacheStays, LinkAssumption DEF Ports, Unread
<1>5. CASE send[th].resume # "none"
  <2> DEFINE e == [send[th] EXCEPT !.method = send[th].resume, !.resume = "none",
                                   !.healToken = send[th].resumeHeal, !.healUnknown = FALSE]
  <2>1. Submit(th, e)
    BY <1>1, <1>5 DEF ApplyOk
  <2>2. e \in Envelopes /\ e.frame = send[th].frame /\ e.method = send[th].resume /\ e.resume = "none"
    BY <1>2, <1>5 DEF Envelopes
  <2> HIDE DEF e
  <2>3. /\ at' = [at EXCEPT ![th] = "wire"] /\ verdict' = verdict
        /\ send' = [send EXCEPT ![th] = Envelope(e, addr, tok)]
    BY <2>1 DEF Submit
  <2>4. send[th].frame # NoFrame => InCarriage(e) /\ ~Landed(th)
    BY <1>2, <1>5, <2>2 DEF Carries, Cargo, InCarriage, Landed
  <2>5. addr' # Unread /\ read' \in [All -> Ports \cup {Unread}]
    BY <1>1, <1>2, <1>4 DEF ThreadsTyped
  <2> QED
    BY <1>1, <1>2, <1>4, <2>2, <2>3, <2>4, <2>5, GoesOut
<1>6. CASE send[th].resume = "none"
  <2>1. Through(th, "sent")
    BY <1>1, <1>6 DEF ApplyOk
  <2>2. send[th].frame # NoFrame => applied[send[th].frame] = 1
    BY <1>1, <1>2, <1>6 DEF Carries, Cargo, InCarriage, Landed
  <2>3. Handled(th) /\ applied' = applied
    BY <1>1, HandledStays
  <2>4. faults' \in 0..MaxFaults /\ read' \in [All -> Ports \cup {Unread}]
    BY <1>1, <1>2 DEF ThreadsTyped
  <2> QED
    BY <1>1, <1>4, <2>1, <2>2, <2>3, <2>4, Finishes
<1> QED
  BY <1>5, <1>6

\* A registration goes out, with the frame behind it or alone.
LEMMA RegisterKeeps ==
  ASSUME LinkInv, NEW th \in All, NEW e \in Envelopes, Register(th, e), portfile # NoFile,
         e.frame = send[th].frame,
         send[th].frame # NoFrame => ~Landed(th) /\ e.resume = "frame",
         UNCHANGED <<serviceVars, atBroker, read, sent, faults>>
  PROVE  LinkInv'
<1> DEFINE n == [e EXCEPT !.method = "register", !.healToken = TRUE, !.healUnknown = FALSE]
<1>1. portfile.port \in Ports /\ portfile.token \in Ports /\ ThreadsTyped /\ CacheTyped
  BY DEF LinkInv, LinkTyped, ServiceTyped, Address
<1>2. /\ n \in Envelopes /\ n.frame = e.frame /\ n.method = "register" /\ n.resume = e.resume
      /\ ~n.healUnknown
  BY DEF Envelopes, Methods
<1> HIDE DEF n
<1>3. /\ addr' = portfile.port /\ tok' = portfile.token /\ registered' = FALSE
      /\ at' = [at EXCEPT ![th] = "wire"] /\ UNCHANGED <<verdict, open>>
      /\ send' = [send EXCEPT ![th] = Envelope(n, portfile.port, portfile.token)]
  BY DEF Register, n
<1>4. addr' # Unread
  BY <1>1, <1>3, LinkAssumption DEF Ports, Unread
<1>5. CacheKept
  BY <1>1, <1>3, <1>4 DEF CacheKept, CacheTyped
<1>6. n.frame # NoFrame => InCarriage(n)
  BY <1>2 DEF InCarriage
<1>7. read' \in [All -> Ports \cup {Unread}]
  BY <1>1 DEF ThreadsTyped
<1> QED
  BY <1>1, <1>2, <1>3, <1>4, <1>5, <1>6, <1>7, GoesOut

\* A refused token: the portfile is read again, or the thread gives up.
LEMMA ApplyUnauthorizedKeeps ==
  ASSUME LinkInv, NEW th \in All, ApplyUnauthorized(th)
  PROVE  LinkInv'
<1>1. /\ at[th] = "unauthorized"
      /\ UNCHANGED <<serviceVars, cached, atBroker, read, sent, faults>>
      /\ \/ at' = [at EXCEPT ![th] = "refresh"] /\ UNCHANGED <<send, verdict>>
         \/ Through(th, "refused")
  BY DEF ApplyUnauthorized
<1>2. CacheKept /\ read' \in [All -> Ports \cup {Unread}]
  BY <1>1, CacheStays DEF cached, LinkInv, LinkTyped, CacheTyped, ThreadsTyped
<1>3. ~Landed(th) /\ "refresh" \in Steps \ OnWire
  BY <1>1 DEF Landed, Steps, OnWire
<1> QED
  BY <1>1, <1>2, <1>3, StepsOn, GivesUp

\* An unknown session: it registers again, or the thread gives up.
LEMMA ApplyUnknownKeeps ==
  ASSUME LinkInv, NEW th \in All, ApplyUnknown(th)
  PROVE  LinkInv'
<1>1. at[th] = "unknown" /\ UNCHANGED <<serviceVars, atBroker, read, sent, faults>>
  BY DEF ApplyUnknown
<1>2. send[th] \in Envelopes /\ Carries(th) /\ ~Landed(th)
  BY <1>1, OneTyped DEF Landed
<1>3. CASE send[th].healUnknown /\ portfile # NoFile
  <2> DEFINE e == [send[th] EXCEPT !.resume = send[th].method, !.resumeHeal = send[th].healToken]
  <2>1. Register(th, e)
    BY <1>1, <1>3 DEF ApplyUnknown
  <2>2. e \in Envelopes /\ e.frame = send[th].frame /\ e.resume = send[th].method
    BY <1>2 DEF Envelopes
  <2>3. send[th].frame # NoFrame => send[th].method = "frame"
    BY <1>2, <1>3 DEF Carries, Cargo, InCarriage
  <2> HIDE DEF e
  <2> QED
    BY <1>1, <1>2, <1>3, <2>1, <2>2, <2>3, RegisterKeeps
<1>4. CASE ~(send[th].healUnknown /\ portfile # NoFile)
  <2>1. /\ Through(th, "refused") /\ UNCHANGED <<addr, tok, open>>
        /\ registered' = (registered /\ ~send[th].healUnknown)
    BY <1>1, <1>4 DEF ApplyUnknown
  <2>2. registered' \in BOOLEAN /\ (registered' => registered)
    BY <2>1
  <2>3. CacheKept /\ read' \in [All -> Ports \cup {Unread}]
    BY <1>1, <2>1, <2>2, CacheStays DEF LinkInv, LinkTyped, ThreadsTyped
  <2> QED
    BY <1>1, <2>1, <2>3, GivesUp
<1> QED
  BY <1>3, <1>4

\* A thread without an envelope goes back to what it was doing.
LEMMA OnwardKeeps ==
  ASSUME LinkInv, NEW th \in All, Onward(th), ~Healing(th), CacheKept,
         at[th] \in {"refresh", "store"}, read' \in [All -> Ports \cup {Unread}],
         UNCHANGED <<serviceVars, atBroker, sent, faults>>
  PROVE  LinkInv'
<1> DEFINE s == IF th = Beat THEN "beat" ELSE "idle"
<1>1. s \in Steps \ OnWire /\ at' = [at EXCEPT ![th] = s] /\ UNCHANGED <<send, verdict>>
  BY DEF Onward, Steps, OnWire
<1>2. ~Landed(th) /\ send[th].to = Unread
  BY DEF Landed, Healing
<1> HIDE DEF s
<1> QED
  BY <1>1, <1>2, StepsOn

\* The two reads of the portfile: what is stored is an address, and the
\* envelope that follows it goes to one.
LEMMA RefreshKeeps ==
  ASSUME LinkInv, NEW th \in All, ReadToken(th) \/ StoreToken(th) \/ NoToken(th)
  PROVE  LinkInv'
<1>1. /\ send[th] \in Envelopes /\ Carries(th) /\ Addressed(th)
      /\ CacheTyped /\ ThreadsTyped /\ ServiceTyped
  BY OneTyped DEF LinkInv, LinkTyped
<1>2. at[th] \in {"refresh", "store"} /\ ~Landed(th)
  BY DEF ReadToken, StoreToken, NoToken, Landed
<1>3. CASE ReadToken(th)
  <2>1. portfile.token \in Ports
    BY <1>1, <1>3 DEF ReadToken, ServiceTyped, Address
  <2>2. read' \in [All -> Ports \cup {Unread}]
    BY <1>1, <1>3, <2>1 DEF ReadToken, ThreadsTyped
  <2>3. CacheKept
    BY <1>1, <1>3, CacheStays DEF ReadToken, cached, CacheTyped
  <2>4. "store" \in Steps \ OnWire /\ at' = [at EXCEPT ![th] = "store"]
    BY <1>3 DEF ReadToken, Steps, OnWire
  <2>5. UNCHANGED <<serviceVars, atBroker, send, sent, verdict, faults>>
    BY <1>3 DEF ReadToken
  <2> QED
    BY <1>2, <2>2, <2>3, <2>4, <2>5, StepsOn
<1>4. CASE StoreToken(th)
  <2>1. /\ tok' = read[th] /\ addr' = IF portfile # NoFile THEN portfile.port ELSE addr
        /\ read' = [read EXCEPT ![th] = Unread]
        /\ AfterRefresh(th, tok' # tok \/ addr' # addr)
        /\ UNCHANGED <<serviceVars, registered, open, atBroker, sent, faults>>
    BY <1>4 DEF StoreToken
  <2>2. /\ tok' \in Ports \cup {Unread} /\ addr' \in Ports \cup {Unread}
        /\ read' \in [All -> Ports \cup {Unread}]
    BY <1>1, <2>1 DEF ThreadsTyped, CacheTyped, ServiceTyped, Address
  <2>3. addr # Unread => addr' # Unread
    BY <1>1, <2>1, LinkAssumption DEF ServiceTyped, Address, Ports, Unread
  <2>4. CacheKept
    BY <1>1, <2>1, <2>2, <2>3 DEF CacheKept, CacheTyped, LinkInv
  <2>5. CASE Healing(th) /\ Resend(th)
    <3> DEFINE e == [send[th] EXCEPT !.healToken = FALSE]
    <3>1. e \in Envelopes /\ e.frame = send[th].frame
      BY <1>1 DEF Envelopes
    <3>2. /\ at' = [at EXCEPT ![th] = "wire"] /\ UNCHANGED verdict
          /\ send' = [send EXCEPT ![th] = Envelope(e, addr', tok')]
      <4>1. /\ at' = [at EXCEPT ![th] = "wire"] /\ UNCHANGED verdict
            /\ send' = [send EXCEPT ![th] = Envelope([@ EXCEPT !.healToken = FALSE], addr', tok')]
        BY <2>5 DEF Resend
      <4> QED
        BY <4>1
    <3>3. e.frame # NoFrame => InCarriage(e)
      BY <1>1 DEF Carries, Cargo, InCarriage, Envelopes
    <3>4. addr' \in Ports /\ addr' # Unread
      BY <1>1, <2>2, <2>3, <2>5 DEF Healing, Addressed
    <3> HIDE DEF e
    <3>5. PICK a \in Ports, t \in Ports \cup {Unread} : a = addr' /\ t = tok'
      BY <2>2, <3>4
    <3> QED
      BY <1>2, <2>1, <2>2, <2>4, <3>1, <3>2, <3>3, <3>4, <3>5, GoesOut
  <2>6. CASE Through(th, "refused")
    BY <2>1, <2>2, <2>4, <2>6, GivesUp
  <2>7. CASE ~Healing(th) /\ Onward(th)
    BY <1>2, <2>1, <2>2, <2>4, <2>7, OnwardKeeps
  <2> QED
    BY <2>1, <2>5, <2>6, <2>7 DEF AfterRefresh
<1>5. CASE NoToken(th)
  <2>1. /\ UNCHANGED <<serviceVars, cached, atBroker, read, sent, faults>>
        /\ Through(th, "refused") \/ (~Healing(th) /\ Onward(th))
    BY <1>5 DEF NoToken
  <2>2. CacheKept /\ read' \in [All -> Ports \cup {Unread}]
    BY <1>1, <2>1, CacheStays DEF cached, CacheTyped, ThreadsTyped
  <2> QED
    BY <1>2, <2>1, <2>2, GivesUp, OnwardKeeps
<1> QED
  BY <1>3, <1>4, <1>5

\* The heartbeat thread and the listener.
LEMMA BeatKeeps ==
  ASSUME LinkInv, Tick \/ Register_once \/ Heartbeat \/ TryAgain \/ Refuse
  PROVE  LinkInv'
<1>1. Beat \in All /\ Inbound \in All
  BY LinkAssumption DEF All
<1>2. CacheTyped /\ ThreadsTyped /\ ServiceTyped
  BY DEF LinkInv, LinkTyped
<1>3. "refresh" \in Steps \ OnWire /\ "beat" \in Steps \ OnWire /\ "idle" \in Steps \ OnWire
  BY DEF Steps, OnWire
<1>4. UNCHANGED <<serviceVars, atBroker, read, sent, faults>>
  BY DEF Tick, Register_once, Heartbeat, TryAgain, Refuse
<1>5. read' \in [All -> Ports \cup {Unread}]
  BY <1>2, <1>4 DEF ThreadsTyped
<1>6. UNCHANGED cached => CacheKept
  BY <1>2, CacheStays DEF cached, CacheTyped
<1>7. \A th \in All : at[th] \in {"idle", "beat"} => ~Landed(th) /\ send[th].to = Unread /\ send[th] = Nothing
  BY OneTyped DEF Landed, Addressed
<1>8. Nothing \in Envelopes /\ Nothing.frame = NoFrame
  BY LinkAssumption DEF Nothing, Envelopes, Methods
<1>9. CASE Tick
  BY <1>1, <1>3, <1>4, <1>5, <1>6, <1>7, <1>9, StepsOn DEF Tick
<1>10. CASE TryAgain
  BY <1>1, <1>3, <1>4, <1>5, <1>6, <1>7, <1>10, StepsOn DEF TryAgain
<1>11. CASE Refuse
  BY <1>1, <1>3, <1>4, <1>5, <1>6, <1>7, <1>11, StepsOn DEF Refuse
<1>12. CASE Register_once
  <2>1. at[Beat] = "beat"
    BY <1>12 DEF Register_once
  <2>2. CASE portfile = NoFile
    <3>1. at' = [at EXCEPT ![Beat] = "idle"] /\ UNCHANGED <<send, verdict, cached>>
      BY <1>12, <2>2 DEF Register_once, Rest
    <3> QED
      BY <1>1, <1>3, <1>4, <1>5, <1>6, <1>7, <2>1, <3>1, StepsOn
  <2>3. CASE portfile # NoFile
    <3>1. Register(Beat, Nothing)
      BY <1>12, <2>3 DEF Register_once
    <3> QED
      BY <1>1, <1>4, <1>7, <1>8, <2>1, <2>3, <3>1, RegisterKeeps
  <2> QED
    BY <2>2, <2>3
<1>13. CASE Heartbeat
  <2> DEFINE e == [Nothing EXCEPT !.healToken = TRUE, !.healUnknown = TRUE]
  <2>1. /\ at[Beat] = "beat" /\ registered /\ Submit(Beat, e) /\ UNCHANGED cached
    BY <1>13 DEF Heartbeat
  <2>2. e \in Envelopes /\ e.frame = NoFrame
    BY <1>8 DEF Envelopes, Nothing
  <2> HIDE DEF e
  <2>3. /\ at' = [at EXCEPT ![Beat] = "wire"] /\ UNCHANGED verdict
        /\ send' = [send EXCEPT ![Beat] = Envelope(e, addr, tok)]
    BY <2>1 DEF Submit
  <2>4. addr \in Ports /\ tok \in Ports \cup {Unread} /\ addr' # Unread
    BY <1>2, <2>1 DEF CacheTyped, LinkInv, cached
  <2> QED
    BY <1>1, <1>4, <1>5, <1>6, <1>7, <1>8, <2>1, <2>2, <2>3, <2>4, GoesOut
<1> QED
  BY <1>9, <1>10, <1>11, <1>12, <1>13

\* The worker begins a frame: without an address it has failed at once.
LEMMA DeliverKeeps ==
  ASSUME LinkInv, NEW th \in Senders, Deliver(th)
  PROVE  LinkInv'
<1> DEFINE f == sent + 1
<1>1. /\ at[th] = "idle" /\ sent < MaxFrames /\ sent' = f /\ th \in All
      /\ UNCHANGED <<serviceVars, cached, atBroker, read, faults>>
  BY DEF Deliver, All
<1>2. CacheTyped /\ ThreadsTyped /\ ServiceTyped
  BY DEF LinkInv, LinkTyped
<1>3. f \in Frames /\ sent \in Nat /\ f \in 0..MaxFrames
  BY <1>1, <1>2, LinkAssumption DEF ThreadsTyped, Frames
<1>4. Addressed(th) /\ Carries(th) /\ send[th] = Nothing /\ ~Landed(th)
  BY <1>1, OneTyped DEF Addressed, Landed
<1>5. Nothing \in Envelopes /\ Nothing.frame = NoFrame
  BY LinkAssumption DEF Nothing, Envelopes, Methods
<1>6. CacheKept /\ read' \in [All -> Ports \cup {Unread}]
  BY <1>1, <1>2, CacheStays DEF cached, CacheTyped, ThreadsTyped
<1>7. CASE addr = Unread \/ tok = Unread
  <2>1. verdict' = [verdict EXCEPT ![f] = "failed"] /\ UNCHANGED <<at, send>>
    BY <1>7 DEF Deliver
  <2>2. ServiceTyped' /\ token' = token /\ known' = known /\ applied' = applied
    BY <1>1, <1>2, ServiceStays DEF ServiceTyped, atBroker
  <2>3. ThreadsTyped'
    BY <1>1, <1>2, <1>3, <2>1, <2>2 DEF ThreadsTyped
  <2>4. \A g \in Frames : g # f => verdict'[g] = verdict[g]
    BY <1>2, <2>1 DEF ThreadsTyped
  <2>5. Alone(th)
    BY <1>1, <1>3, <1>6, <2>1, <2>2, <2>4 DEF Alone, CacheKept
  <2>6. Addressed(th)' /\ Remembered(th)'
    BY <1>1, <1>4, <1>6, <2>1 DEF Addressed, Remembered, CacheKept
  <2>7. send'[th].frame = NoFrame
    BY <1>4, <1>5, <2>1
  <2>8. ASSUME NEW g \in Frames PROVE Recorded(g)'
    <3>1. Recorded(g) /\ g \in Nat
      BY LinkAssumption DEF LinkInv, Frames
    <3>2. CASE g = f
      <4>1. verdict'[g] = "failed" /\ applied[g] = 0
        BY <1>2, <1>3, <2>1, <3>1, <3>2 DEF ThreadsTyped, Recorded
      <4> QED
        BY <1>1, <1>3, <2>2, <3>2, <4>1 DEF Recorded
    <3>3. CASE g # f
      BY <1>1, <1>3, <2>2, <2>4, <3>1, <3>3 DEF Recorded
    <3> QED
      BY <3>2, <3>3
  <2> QED
    BY <1>1, <1>6, <2>2, <2>3, <2>5, <2>6, <2>7, <2>8, OneThreadMoves DEF LinkTyped, CacheKept
<1>8. CASE addr # Unread /\ tok # Unread
  <2> DEFINE e == [Nothing EXCEPT !.method = "frame", !.frame = f,
                                  !.healToken = TRUE, !.healUnknown = TRUE]
  <2>1. Submit(th, e)
    BY <1>8 DEF Deliver
  <2>2. e \in Envelopes /\ e.frame = f /\ InCarriage(e)
    BY <1>3, <1>5 DEF Envelopes, Nothing, Methods, InCarriage
  <2> HIDE DEF e
  <2>3. /\ at' = [at EXCEPT ![th] = "wire"] /\ UNCHANGED verdict
        /\ send' = [send EXCEPT ![th] = Envelope(e, addr, tok)]
    BY <2>1 DEF Submit
  <2>4. addr \in Ports /\ tok \in Ports \cup {Unread} /\ addr' # Unread
    BY <1>1, <1>2, <1>8 DEF CacheTyped, cached
  <2> QED
    BY <1>1, <1>3, <1>6, <2>2, <2>3, <2>4, GoesOut
<1> QED
  BY <1>7, <1>8

-----------------------------------------------------------------------------
(* No frame twice, no false receipt.                                        *)

\* At the beginning nothing is known, cached or sent.
LEMMA LinkInvInit == LinkInit => LinkInv
<1> SUFFICES ASSUME LinkInit PROVE LinkInv
  OBVIOUS
<1> USE LinkAssumption
<1>1. Nothing \in Envelopes /\ Nothing.frame = NoFrame /\ Nothing.to = Unread
  BY DEF Nothing, Envelopes, Methods
<1>2. ServiceTyped /\ CacheTyped
  <2>1. token \in [Ports -> Ports] /\ built \in 0..MaxBrokers /\ portfile = NoFile
    BY DEF LinkInit, ServiceInit
  <2>2. listening \subseteq 1..built /\ serving \subseteq 1..built /\ known \subseteq 1..built
    BY DEF LinkInit, ServiceInit
  <2>3. CacheTyped
    BY DEF LinkInit, CacheTyped
  <2> QED
    BY <2>1, <2>2, <2>3 DEF LinkInit, ServiceTyped
<1>3. ThreadsTyped
  BY <1>1 DEF LinkInit, ThreadsTyped, Steps
<1>4. ASSUME NEW th \in All PROVE Addressed(th) /\ Remembered(th) /\ Carries(th)
  BY <1>1 DEF LinkInit, Addressed, Remembered, Carries, OnWire
<1>5. ASSUME NEW f \in Frames PROVE Recorded(f)
  BY DEF LinkInit, Recorded
<1> QED
  BY <1>2, <1>3, <1>4, <1>5 DEF LinkInit, LinkInv, LinkTyped

\* Every step keeps it.
LEMMA LinkInvNext == LinkInv /\ [LinkNext]_linkVars => LinkInv'
<1> SUFFICES ASSUME LinkInv, [LinkNext]_linkVars PROVE LinkInv'
  OBVIOUS
<1>1. ASSUME NEW th \in All, ThreadStep(th) PROVE LinkInv'
  BY <1>1, AttemptKeeps, ApplyOkKeeps, ApplyUnauthorizedKeeps, ApplyUnknownKeeps, RefreshKeeps
  DEF ThreadStep
<1>2. ASSUME NEW th \in Senders, Deliver(th) \/ AnswerLost(th) PROVE LinkInv'
  BY <1>2, AttemptKeeps, DeliverKeeps DEF All
<1>3. ASSUME BeatStep \/ TryAgain \/ Refuse PROVE LinkInv'
  BY <1>3, BeatKeeps DEF BeatStep
<1>4. ASSUME Stop \/ UNCHANGED linkVars PROVE LinkInv'
  <2>1. /\ UNCHANGED <<serviceVars, addr, tok, registered, atBroker, ofThreads, faults>>
        /\ open' \in BOOLEAN
    BY <1>4 DEF Stop, linkVars, cached, LinkInv, LinkTyped, CacheTyped
  <2>2. ServiceTyped' /\ token' = token /\ known' = known /\ applied' = applied
    BY <2>1, ServiceStays DEF LinkInv, LinkTyped, ServiceTyped, atBroker
  <2>3. CacheTyped' /\ ThreadsTyped'
    BY <2>1, <2>2 DEF LinkInv, LinkTyped, CacheTyped, ThreadsTyped, ofThreads
  <2> QED
    BY <2>1, <2>2, <2>3, ThreadsStay DEF LinkTyped, ofThreads
<1> QED
  BY <1>1, <1>2, <1>3, <1>4, BrokersMove DEF LinkNext

\* The invariant is what the property needs.
LEMMA LinkInvEnough == LinkInv => LinkSafe
<1> SUFFICES ASSUME LinkInv PROVE LinkSafe
  OBVIOUS
<1>1. AppliedOnce /\ SentIsApplied
  BY DEF LinkInv, Recorded, AppliedOnce, SentIsApplied
<1>2. LinkTypeOK
  <2>1. ASSUME NEW th \in All
        PROVE  /\ send[th].method \in Methods
               /\ send[th].resume \in Methods \cup {"none"}
               /\ send[th].frame \in Frames \cup {NoFrame}
               /\ send[th].tries \in 0..(SendAttempts - 1)
               /\ at[th] \in OnWire => send[th].to \in Ports
    BY OneTyped DEF Envelopes, Addressed
  <2> QED
    BY <2>1 DEF LinkInv, LinkTyped, ServiceTyped, CacheTyped, ThreadsTyped, LinkTypeOK, OnWire
<1> QED
  BY <1>1, <1>2 DEF LinkSafe

(* No frame is applied twice and no frame is called delivered that was not  *)
(* applied: for any sending threads, frames, brokers, attempts and faults,  *)
(* whatever the heals of several threads send while brokers come and go     *)
(* (_send and _apply_answer of client.py, accept_envelope).                 *)
THEOREM NoFalseReceipt == LinkSpec => []LinkSafe
<1>1. LinkSpec => []LinkInv
  BY LinkInvInit, LinkInvNext, PTL DEF LinkSpec
<1> QED
  BY <1>1, LinkInvEnough, PTL
=============================================================================
