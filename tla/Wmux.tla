-------------------------------- MODULE Wmux --------------------------------
(* The wmux plugin: the reporter that turns the core's callbacks into facts  *)
(* (wmux/reporter.py), the client that delivers them on two lanes from one   *)
(* worker thread (wmux/client.py), and the pane that shows them.             *)
(*                                                                           *)
(* Callbacks run on several threads.  Each computes under the reporter's     *)
(* lock and hands the result to the client after it has let go of it, so the *)
(* two halves of two callbacks interleave; the worker, which also ticks the  *)
(* sweep, interleaves with both.                                             *)
EXTENDS Naturals, Sequences, FiniteSets

CONSTANTS
    Hooks,        \* the threads that run callbacks
    Worker,       \* the client's worker, the publisher of what it swept
    Runs,         \* the group ids of agent runs
    Waits,        \* waits on the human: approvals, questions, menus
    MaxTools,     \* bound: tool calls in flight at once
    MaxCalls,     \* bound: callbacks in all
    SendAttempts, \* _SEND_ATTEMPTS
    MaxFaults     \* bound: attempts that go wrong

ASSUME WmuxAssumption ==
    /\ Worker \notin Hooks
    /\ MaxTools \in Nat /\ MaxCalls \in Nat /\ MaxFaults \in Nat
    /\ SendAttempts \in Nat \ {0}
    /\ IsFiniteSet(Runs) /\ IsFiniteSet(Waits)

Publishers == Hooks \cup {Worker}
Reasons    == {"none", "one tool", "many tools", "unknown"}
Payload    == [awaiting : BOOLEAN, runDepth : 0..Cardinality(Runs), reason : Reasons]

\* A state report and its generation; generation 0 is no report at all.
Nothing  == [awaiting |-> FALSE, runDepth |-> 0, reason |-> "none"]
NoReport == [gen |-> 0, payload |-> Nothing]
Report   == [gen : 0..(2 * MaxCalls), payload : Payload]

VARIABLES
    started,   \* the startup callback has run
    live,      \* _live_runs
    stale,     \* the live runs whose stamp is older than _RUN_TTL_S
    inflight,  \* the tool calls in _inflight
    depth,     \* _awaiting_depth
    reason,    \* _reason
    last,      \* the last report computed: _last_payload and _generation
    wait,      \* wait[w]: how far the wait is, and how its True edge was taken
    todo,      \* todo[p]: what p has still to hand to the client, unlocked
    state,     \* the slot of the state report
    hwm,       \* _state_gen_hwm
    extras,    \* which of the other slots are filled
    closing,   \* _closing, and with it _release_scheduled
    worker,    \* where the worker is
    wire,      \* the envelope it is sending
    seq,       \* _seq, counted from the seed
    pane,      \* the last report the pane applied
    released,  \* the pane has applied the release
    lastSeq,   \* wmux's last_seq of the surface
    gaveUp,    \* history: generations given up on; 0 stands for the release
    calls, faults

facts   == <<started, live, stale, inflight, depth, reason, last, wait>>
slots   == <<state, hwm, extras, closing>>
sending == <<worker, wire, seq>>
shown   == <<pane, released, lastSeq>>
vars    == <<facts, todo, slots, sending, shown, gaveUp, calls, faults>>

Slots    == {"session", "metadata", "activity", "release"}
Envelope == [method : Slots \cup {"state", "none"}, seq : Nat,
             tries : 0..SendAttempts, report : Report]
NoEnvelope == [method |-> "none", seq |-> 0, tries |-> 0, report |-> NoReport]

Init ==
    /\ started = FALSE
    /\ live = {} /\ stale = {} /\ inflight = 0
    /\ depth = 0 /\ reason = "none" /\ last = NoReport
    /\ wait = [w \in Waits |-> "new"]
    /\ todo = [p \in Publishers |-> <<>>]
    /\ state = NoReport /\ hwm = 0 /\ extras = {} /\ closing = FALSE
    /\ worker = "take" /\ wire = NoEnvelope /\ seq = 0
    /\ pane = NoReport /\ released = FALSE /\ lastSeq = 0
    /\ gaveUp = {} /\ calls = 0 /\ faults = 0

----------------------------------------------------------------------------
(* The reporter: what a callback computes under the lock.                   *)

\* A thread takes the lock for one callback; what it computed for an earlier
\* one has been handed over.
Call(h) ==
    /\ calls < MaxCalls /\ calls' = calls + 1
    /\ todo[h] = <<>>
    /\ UNCHANGED <<slots, sending, shown, gaveUp, faults>>

\* _payload_locked.
PayloadOf(runs, waiting, why) ==
    [awaiting |-> waiting > 0, runDepth |-> Cardinality(runs),
     reason |-> IF waiting > 0 THEN why ELSE "none"]

\* _sync_locked: a new payload gets a new generation and is to be published.
Computed(force) ==
    LET payload == PayloadOf(live', depth', reason')
    IN  IF payload = last.payload /\ last.gen > 0 /\ ~force
          THEN last ELSE [gen |-> last.gen + 1, payload |-> payload]

Then(p, after) ==
    todo' = [todo EXCEPT ![p] =
        (IF last' # last THEN <<[slot |-> "state", report |-> last']>> ELSE <<>>)
            \o after]

Put(slot) == <<[slot |-> slot, report |-> NoReport]>>

\* _sync, with the client calls that follow it.
Sync(p, force, after) == last' = Computed(force) /\ Then(p, after)

Startup(h) ==
    /\ ~started /\ started' = TRUE
    /\ Call(h)
    /\ UNCHANGED <<live, stale, inflight, depth, reason, wait>>
    /\ Sync(h, TRUE, <<>>)

RunStart(h, r) ==
    /\ started
    /\ Call(h)
    /\ live' = live \cup {r} /\ stale' = stale \ {r}
    /\ UNCHANGED <<started, inflight, depth, reason, wait>>
    /\ Sync(h, FALSE, <<>>)

\* End or cancel: removed by id, if present.
RunTerminal(h, r) ==
    /\ r \in live
    /\ Call(h)
    /\ live' = live \ {r} /\ stale' = stale \ {r}
    /\ UNCHANGED <<started, inflight, depth, reason, wait>>
    /\ Sync(h, FALSE, <<>>)

\* A tool call is evidence of work for every live run.
ToolStart(h) ==
    /\ started
    /\ inflight < MaxTools
    /\ Call(h)
    /\ inflight' = inflight + 1 /\ stale' = {}
    /\ todo' = [todo EXCEPT ![h] = Put("activity")]
    /\ UNCHANGED <<started, live, depth, reason, last, wait>>

\* The end of a call whose key is there, or was never there or has expired.
ToolComplete(h) ==
    /\ started
    /\ Call(h)
    /\ \E gone \in {0, 1} : gone <= inflight /\ inflight' = inflight - gone
    /\ stale' = {}
    /\ todo' = [todo EXCEPT ![h] = Put("activity")]
    /\ UNCHANGED <<started, live, depth, reason, last, wait>>

\* _reason_locked; "none" suppresses the edge: a menu at an idle prompt.
Reason ==
    IF inflight = 1 THEN "one tool"
    ELSE IF inflight > 1 THEN "many tools"
    ELSE IF live # {} THEN "unknown" ELSE "none"

Flag(waiting) == 1
\* Waits nest.
Deeper(waiting) == waiting + 1

\* An end too many leaves the count at zero.
Shallower(waiting) == IF waiting > 0 THEN waiting - 1 ELSE 0

WaitBegins(h, w) ==
    /\ started
    /\ wait[w] = "new"
    /\ Call(h)
    /\ UNCHANGED <<started, live, stale, inflight>>
    /\ IF Reason = "none"
         THEN /\ wait' = [wait EXCEPT ![w] = "suppressed"]
              /\ UNCHANGED <<depth, reason, last, todo>>
         ELSE /\ wait' = [wait EXCEPT ![w] = "counted"]
              /\ depth' = Deeper(depth)
              /\ reason' = Reason
              /\ Sync(h, FALSE, <<>>)

\* The False edge does not know whether its True edge was counted.
WaitEnds(h, w) ==
    /\ wait[w] \in {"counted", "suppressed"}
    /\ Call(h)
    /\ wait' = [wait EXCEPT ![w] = IF @ = "counted" THEN "answered" ELSE "unseen"]
    /\ depth' = Shallower(depth)
    /\ reason' = IF depth' = 0 THEN "none" ELSE reason
    /\ UNCHANGED <<started, live, stale, inflight>>
    /\ Sync(h, FALSE, <<>>)

\* Turn end and turn cancel clear nothing; the first refreshes the metadata.
TurnOver(h) ==
    /\ started
    /\ Call(h)
    /\ UNCHANGED <<started, live, stale, inflight, depth, reason, wait>>
    /\ Sync(h, FALSE, Put("metadata"))

\* The session reference has changed.
UserPrompt(h) ==
    /\ started
    /\ Call(h)
    /\ todo' = [todo EXCEPT ![h] = Put("session")]
    /\ UNCHANGED facts

\* session_end and shutdown, whichever comes first.
Shutdown(h) ==
    /\ started
    /\ Call(h)
    /\ todo' = [todo EXCEPT ![h] = Put("release")]
    /\ UNCHANGED facts

\* Time passes: a leaked tool key expires, or an hour without evidence.
Expire ==
    /\ inflight > 0
    /\ inflight' = inflight - 1
    /\ UNCHANGED <<started, live, stale, depth, reason, last, wait>>
    /\ UNCHANGED <<todo, slots, sending, shown, gaveUp, calls, faults>>

AnHourPasses ==
    /\ stale # live
    /\ stale' = live
    /\ UNCHANGED <<started, live, inflight, depth, reason, last, wait>>
    /\ UNCHANGED <<todo, slots, sending, shown, gaveUp, calls, faults>>

----------------------------------------------------------------------------
(* The client: what a callback hands over, with no reporter lock held.      *)

SlotIsOlder(g) == g > state.gen
\* report_state: an older generation than any admitted one is dropped.
Newer(g) == g > hwm

PutState(report) ==
    /\ IF ~closing /\ Newer(report.gen)
         THEN state' = report /\ hwm' = report.gen
         ELSE UNCHANGED <<state, hwm>>
    /\ UNCHANGED <<extras, closing>>

\* _schedule_release: once; decorative work is dropped, critical work is not.
PutRelease ==
    /\ extras' = IF closing THEN extras
                 ELSE (extras \ {"metadata", "activity"}) \cup {"release"}
    /\ closing' = TRUE
    /\ UNCHANGED <<state, hwm>>

PutExtra(slot) ==
    /\ extras' = IF closing THEN extras ELSE extras \cup {slot}
    /\ UNCHANGED <<state, hwm, closing>>

HandOver(p) ==
    /\ todo[p] # <<>>
    /\ todo' = [todo EXCEPT ![p] = Tail(@)]
    /\ LET item == Head(todo[p])
       IN  \/ item.slot = "state" /\ PutState(item.report)
           \/ item.slot = "release" /\ PutRelease
           \/ item.slot \notin {"state", "release"} /\ PutExtra(item.slot)
    /\ UNCHANGED <<facts, sending, shown, gaveUp, calls, faults>>

----------------------------------------------------------------------------
(* The worker.                                                              *)

\* _take_next_locked: the critical lane overtakes the decorative one.
Next_method ==
    IF state # NoReport THEN "state"
    ELSE IF "session" \in extras THEN "session"
    ELSE IF ~closing /\ "metadata" \in extras THEN "metadata"
    ELSE IF ~closing /\ "activity" \in extras THEN "activity"
    ELSE IF closing /\ "release" \in extras THEN "release"
    ELSE "none"

\* The seq is stamped when the report goes out, not when it came in.
TakeNext ==
    /\ worker = "take" /\ todo[Worker] = <<>>
    /\ Next_method # "none"
    /\ worker' = "send"
    /\ seq' = IF Next_method = "activity" THEN seq ELSE seq + 1
    /\ wire' = [method |-> Next_method, seq |-> seq', tries |-> 0,
                report |-> IF Next_method = "state" THEN state ELSE NoReport]
    /\ state' = NoReport
    /\ extras' = extras \ {Next_method}
    /\ UNCHANGED <<facts, todo, hwm, closing, shown, gaveUp, calls, faults>>

\* The idle wait times out, and the hook runs with the condition released.
\* (A tick that finds nothing expired changes nothing.)
IdleTick ==
    /\ worker = "take" /\ todo[Worker] = <<>>
    /\ Next_method = "none" /\ ~closing
    /\ stale # {}
    /\ worker' = "sweep"
    /\ UNCHANGED <<facts, todo, slots, wire, seq, shown, gaveUp, calls, faults>>

SweepQuietly ==
    /\ worker = "sweep" /\ worker' = "take"
    /\ live' = IF depth > 0 THEN live ELSE live \ stale
    /\ stale' = IF depth > 0 THEN stale ELSE {}
    /\ UNCHANGED <<started, inflight, depth, reason, last, wait, todo>>
    /\ UNCHANGED <<slots, wire, seq, shown, gaveUp, calls, faults>>
\* sweep_once: nothing expires while a human is waited for; what does expire
\* is published, by the worker itself.
Sweep ==
    /\ worker = "sweep" /\ worker' = "take"
    /\ live' = IF depth > 0 THEN live ELSE live \ stale
    /\ stale' = IF depth > 0 THEN stale ELSE {}
    /\ UNCHANGED <<started, inflight, depth, reason, wait>>
    /\ Sync(Worker, FALSE, <<>>)
    /\ UNCHANGED <<slots, wire, seq, shown, gaveUp, calls, faults>>

\* The pane drops what is not newer than what it has seen.
Fresh(e) == e.method = "activity" \/ e.seq > lastSeq

Apply(e) ==
    /\ lastSeq' = IF Fresh(e) /\ e.seq > lastSeq THEN e.seq ELSE lastSeq
    /\ pane' = IF Fresh(e) /\ e.method = "state" THEN e.report ELSE pane
    /\ released' = (released \/ (Fresh(e) /\ e.method = "release"))

EndsIfDelivered(delivered) ==
    /\ worker' = IF wire.method = "release" /\ delivered THEN "done" ELSE "take"
    /\ wire' = NoEnvelope
\* After the last attempt the worker takes the next job; after the release,
\* delivered or not, it ends.
SendEnds(delivered) ==
    /\ worker' = IF wire.method = "release" THEN "done" ELSE "take"
    /\ wire' = NoEnvelope

\* An attempt that is answered, whatever the answer says of it.
Delivered ==
    /\ worker = "send"
    /\ Apply(wire)
    /\ SendEnds(TRUE)
    /\ UNCHANGED <<facts, todo, slots, seq, gaveUp, calls, faults>>

\* What an attempt without a usable answer has done: the pane has applied it,
\* or it refused it or never saw it.
Unconfirmed(e) == Apply(e) \/ UNCHANGED shown

\* Such an attempt is made again; the release's budget may end before its
\* attempts do.
Unanswered ==
    /\ worker = "send"
    /\ faults < MaxFaults /\ faults' = faults + 1
    /\ Unconfirmed(wire)
    /\ \/ /\ wire.tries + 1 < SendAttempts
          /\ wire' = [wire EXCEPT !.tries = @ + 1]
          /\ UNCHANGED <<worker, gaveUp>>
       \/ /\ wire.tries + 1 = SendAttempts \/ wire.method = "release"
          /\ SendEnds(FALSE)
          /\ gaveUp' = IF wire.method \in {"state", "release"}
                       THEN gaveUp \cup {wire.report.gen} ELSE gaveUp
    /\ UNCHANGED <<facts, todo, slots, seq, calls>>

----------------------------------------------------------------------------
Callback(h) ==
    \/ Startup(h) \/ ToolStart(h) \/ ToolComplete(h)
    \/ \E r \in Runs : RunStart(h, r) \/ RunTerminal(h, r)
    \/ \E w \in Waits : WaitBegins(h, w) \/ WaitEnds(h, w)
    \/ TurnOver(h) \/ UserPrompt(h) \/ Shutdown(h)

WorkerStep == TakeNext \/ Sweep \/ Delivered

Next ==
    \/ \E h \in Hooks : Callback(h)
    \/ \E p \in Publishers : HandOver(p)
    \/ WorkerStep \/ IdleTick \/ Unanswered
    \/ Expire \/ AnHourPasses

Spec == Init /\ [][Next]_vars

\* A callback that has let go of the lock goes on, and the worker runs.
FairSpec ==
    /\ Spec
    /\ \A p \in Publishers : WF_vars(HandOver(p))
    /\ WF_vars(WorkerStep)

TypeOK ==
    /\ started \in BOOLEAN
    /\ live \subseteq Runs /\ stale \subseteq live
    /\ inflight \in 0..MaxTools
    /\ depth \in 0..Cardinality(Waits) /\ reason \in Reasons
    /\ last \in Report
    /\ wait \in [Waits -> {"new", "counted", "suppressed", "answered", "unseen"}]
    /\ \A p \in Publishers : \A i \in DOMAIN todo[p] :
          todo[p][i] \in [slot : Slots \cup {"state"}, report : Report]
    /\ state \in Report /\ hwm \in 0..last.gen
    /\ extras \subseteq Slots /\ closing \in BOOLEAN
    /\ worker \in {"take", "sweep", "send", "done"}
    /\ wire \in Envelope /\ seq \in Nat
    /\ pane \in Report /\ released \in BOOLEAN /\ lastSeq \in 0..seq
    /\ gaveUp \subseteq 0..last.gen
    /\ calls \in 0..MaxCalls /\ faults \in 0..MaxFaults

----------------------------------------------------------------------------
\* Nothing is on its way to the pane.
AtRest ==
    /\ started /\ ~closing
    /\ \A p \in Publishers : todo[p] = <<>>
    /\ state = NoReport
    /\ worker = "take"

(* When nothing is on its way, the pane shows the facts as they are: no     *)
(* callback, sweep or overtaken report has left it on an older state.  Only *)
(* a report the client gave up on after all its attempts may be missing.    *)
PaneIsTrue ==
    AtRest /\ last.gen \notin gaveUp =>
        pane.payload = PayloadOf(live, depth, reason)

(* The pane never goes back to an older state: not by two callbacks that    *)
(* publish in the wrong order, not by the sweep, not by a retry.            *)
NeverOlder == [][pane'.gen >= pane.gen]_vars

(* The human-wait count never says more than the waits that are open, and   *)
(* says exactly those as long as no wait whose True edge was suppressed has *)
(* ended: such an end takes another wait's count away                       *)
(* (wmux/reporter.py:303-310).                                              *)
Counted == Cardinality({w \in Waits : wait[w] = "counted"})
AwaitingIsCounted ==
    /\ depth <= Counted
    /\ (\A w \in Waits : wait[w] # "unseen") => depth = Counted

\* The reporter's facts: within their bounds, and the waits they count.
WaitsAreTrue == TypeOK /\ AwaitingIsCounted

(* Once the session ends, the worker ends, and the pane was released or     *)
(* every attempt the budget allows was made: no hook, no sweep and no lost  *)
(* answer leaves the release in its slot.                                   *)
ReleaseGoesOut ==
    closing ~> (worker = "done" /\ (released \/ 0 \in gaveUp))
=============================================================================
