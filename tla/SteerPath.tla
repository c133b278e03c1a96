------------------------------ MODULE SteerPath ------------------------------
(***************************************************************************)
(* A chat message's way from its Discord thread into the agent             *)
(* (cp_discord/broker_activation.py, broker_steer.py, client_inbound.py,   *)
(* inbound.py, idle_delivery.py).                                          *)
(*                                                                         *)
(* Every event of a message is pushed by a thread of its own; the session's*)
(* listener serves one frame at a time, checks the sender, reads the run   *)
(* depth and then steers.  C8 hands a steer queued at the idle prompt to   *)
(* the next turn from the event loop.  The core's prompt, runs and steering*)
(* queues are external: they are modelled as this code uses them.          *)
(***************************************************************************)
EXTENDS Naturals, FiniteSets, SequencesExt

CONSTANTS
  Messages,     \* the messages written into the session's thread
  Unknown,      \* those whose author may be a stranger
  Shaky,        \* those whose answers may come too late or unreadable
  Events,       \* the times Discord may announce one message
  PushAttempts, \* broker_gates.py: attempts of one delivery
  Window,       \* client_inbound.py: the message ids remembered
  Key,          \* a turn typed at the machine
  MaxKeys,      \* bound on those
  MaxCancels,   \* bound on cancelled runs
  MaxSubs       \* bound on sub-agents at a time

ASSUME SteerAssumption ==
  /\ Unknown \subseteq Messages /\ Shaky \subseteq Messages /\ Key \notin Messages
  /\ PushAttempts \in Nat \ {0} /\ Window \in Nat \ {0}
  /\ MaxKeys \in Nat /\ MaxCancels \in Nat /\ MaxSubs \in Nat

VARIABLES
  strangers,\* the messages whose author may not talk (authz)
  push,     \* each delivery in the broker, and its attempts
  reacted,  \* the reactions each message earned
  inbox,    \* frames at the listener, oldest first
  serving,  \* the steer the listener is about to make, or Nothing
  window,   \* InboundListener._seen_steers, oldest first
  c5,       \* the layer inbound: "off", "on", "gone"
  c8,       \* the layer idle_delivery, likewise
  depth,    \* RunDepth._depth
  nowQ,     \* core: steers for the run in flight
  steerQ,   \* core: steers for the next turn
  idleQ,    \* run_ui._idle_queue
  ui,       \* run_ui: there is a persistent prompt and its loop
  run,      \* core: "idle", "starting", "working", "drained", "ending"
  subs,     \* core: sub-agents of that run
  nudges,   \* calls of _deliver that the loop still has to make
  hand,     \* the _deliver in progress: "free", "checked", "popped"
  held,     \* what it popped, or Nothing
  ran,      \* how often the agent was given each message
  lost,     \* what went down with the prompt
  steered,  \* how often each message was steered
  promised, \* the messages queued while the session sat at its prompt
  keys, cancels

brokerVars == <<push, reacted, strangers>>
listenVars == <<inbox, serving, window>>
layerVars  == <<c5, c8>>
queueVars  == <<nowQ, steerQ>>
promptVars == <<idleQ, ui, lost>>
runVars    == <<run, subs, keys, cancels>>
loopVars   == <<nudges, hand, held>>
pastVars   == <<steered, promised>>
vars == <<brokerVars, listenVars, layerVars, depth, queueVars, promptVars,
          runVars, loopVars, ran, pastVars>>

-----------------------------------------------------------------------------
(* States and helpers.                                                     *)

Deliveries == Messages \X Events
Nothing == [message |-> Key, event |-> 0, try |-> 0, mode |-> "none"]

Init ==
  /\ strangers \in SUBSET Unknown
  /\ push = [d \in Deliveries |-> [pc |-> "none", try |-> 0]]
  /\ reacted = [m \in Messages |-> {}]
  /\ inbox = <<>> /\ serving = Nothing /\ window = <<>>
  /\ c5 = "off" /\ c8 = "off" /\ depth = 0
  /\ nowQ = <<>> /\ steerQ = <<>> /\ idleQ = <<>>
  /\ ui \in BOOLEAN /\ run = "idle" /\ subs = 0
  /\ nudges = 0 /\ hand = "free" /\ held = <<>>
  /\ ran = [m \in Messages |-> 0] /\ lost = {}
  /\ steered = [m \in Messages |-> 0] /\ promised = {}
  /\ keys = 0 /\ cancels = 0

\* The texts of queue q go to the agent.
Times(m, q) == Cardinality({i \in 1 .. Len(q) : q[i] = m})
Given(q) == [m \in Messages |-> ran[m] + Times(m, q)]

-----------------------------------------------------------------------------
(* The broker: one thread per event (asyncio.to_thread).                   *)

Attempt(d) ==
  LET n == push[d].try + 1
  IN  /\ push' = [push EXCEPT ![d] = [pc |-> "waiting", try |-> n]]
      /\ inbox' = Append(inbox, [message |-> d[1], event |-> d[2], try |-> n])

\* Discord may announce a message again after its connection was resumed.
OnMessage(d) ==
  /\ push[d].pc = "none"
  /\ Attempt(d)
  /\ UNCHANGED <<reacted, strangers, serving, window, layerVars, depth>>
  /\ UNCHANGED <<queueVars, promptVars, runVars, loopVars, ran, pastVars>>

\* Silence is neither retried nor held against the session.
PushTimeout(d) ==
  /\ push[d].pc = "waiting" /\ d[1] \in Shaky
  /\ push' = [push EXCEPT ![d].pc = "done"]
  /\ UNCHANGED <<reacted, strangers, listenVars, layerVars, depth, queueVars>>
  /\ UNCHANGED <<promptVars, runVars, loopVars, ran, pastVars>>

PushAgain(d) ==
  /\ push[d].pc = "refused" /\ push[d].try < PushAttempts
  /\ Attempt(d)
  /\ UNCHANGED <<reacted, strangers, serving, window, layerVars, depth>>
  /\ UNCHANGED <<queueVars, promptVars, runVars, loopVars, ran, pastVars>>

PushGivesUp(d) ==
  /\ push[d].pc = "refused" /\ push[d].try = PushAttempts
  /\ push' = [push EXCEPT ![d].pc = "done"]
  /\ UNCHANGED <<reacted, strangers, listenVars, layerVars, depth, queueVars>>
  /\ UNCHANGED <<promptVars, runVars, loopVars, ran, pastVars>>

\* reaction_for(): keyed on the answer alone; a refusal earns silence.
Reaction(word) ==
  CASE word \in {"delivered", "duplicate"} -> {"taken"}
    [] word = "undelivered"                -> {"dropped"}
    [] OTHER                               -> {}

\* The answer of frame f reaches the thread that waits for it, or comes too
\* late.  An answer that cannot be read counts as a refusal and is retried.
Answer(f, word) ==
  LET d == <<f.message, f.event>>
      heard == push[d].pc = "waiting" /\ push[d].try = f.try
  IN  /\ \/ ~heard /\ UNCHANGED <<push, reacted>>
         \/ /\ heard /\ word # "noHandler"
            /\ push' = [push EXCEPT ![d].pc = "done"]
            /\ reacted' = [reacted EXCEPT ![f.message] = @ \cup Reaction(word)]
         \/ /\ heard /\ (word = "noHandler" \/ f.message \in Shaky)
            /\ push' = [push EXCEPT ![d].pc = "refused"]
            /\ UNCHANGED reacted
      /\ UNCHANGED strangers

-----------------------------------------------------------------------------
(* The session's listener: one frame at a time.                            *)

\* No handler yet, or no longer; a token that was rotated answers alike.
RefuseFrame ==
  /\ inbox # <<>> /\ serving = Nothing /\ c5 # "on"
  /\ Answer(Head(inbox), "noHandler")
  /\ inbox' = Tail(inbox)
  /\ UNCHANGED <<serving, window, layerVars, depth, queueVars, promptVars>>
  /\ UNCHANGED <<runVars, loopVars, ran, pastVars>>

SeenNothing(m) == FALSE  \* mutant
Seen(m) == \E i \in 1 .. Len(window) : window[i] = m

\* Authorisation first; a lookup that fails refuses a talker too.
Verdicts(m) ==
  IF Seen(m) THEN {"duplicate"}
  ELSE {"refused"} \cup (IF m \in strangers THEN {} ELSE {"steer"})

RememberAll(m, word) ==  \* mutant
  window' = IF Seen(m) THEN window ELSE Append(window, m)
\* Only what was accepted enters the window; a full one forgets its oldest.
Remember(m, word) ==
  window' = IF word # "delivered" THEN window
            ELSE IF Len(window) < Window THEN Append(window, m)
            ELSE Append(Tail(window), m)

\* handle_message() up to the mode: what the run depth says at this moment.
ServeFrame ==
  /\ inbox # <<>> /\ serving = Nothing /\ c5 = "on"
  /\ LET f == Head(inbox)
     IN  \E word \in Verdicts(f.message) :
           IF word = "steer"
           THEN /\ serving' = [message |-> f.message, event |-> f.event,
                               try |-> f.try,
                               mode |-> IF depth > 0 THEN "now" ELSE "queue"]
                /\ UNCHANGED <<window, brokerVars>>
           ELSE /\ Answer(f, word)
                /\ Remember(f.message, word)
                /\ UNCHANGED serving
  /\ inbox' = Tail(inbox)
  /\ UNCHANGED <<layerVars, depth, queueVars, promptVars, runVars, loopVars>>
  /\ UNCHANGED <<ran, pastVars>>

SleepOn == UNCHANGED nudges  \* mutant
\* _on_steer_queued(): schedules _deliver if there is a loop to run it.
Nudge == nudges' = IF c8 = "on" /\ ui THEN nudges + 1 ELSE nudges

\* request_steer(), and the listeners of its queue.  It may fail, and a text
\* of blanks ends alike.
Steer ==
  /\ serving # Nothing
  /\ \/ LET m == serving.message
        IN  /\ steered' = [steered EXCEPT ![m] = @ + 1]
            /\ IF serving.mode = "now"
               THEN /\ nowQ' = Append(nowQ, m)
                    /\ UNCHANGED <<steerQ, nudges, promised>>
               ELSE /\ steerQ' = Append(steerQ, m) /\ Nudge
                    /\ promised' = IF c8 = "on" /\ ui /\ run = "idle"
                                   THEN promised \cup {m} ELSE promised
                    /\ UNCHANGED nowQ
            /\ Answer(serving, "delivered") /\ Remember(m, "delivered")
     \/ /\ Answer(serving, "undelivered")
        /\ UNCHANGED <<steered, queueVars, nudges, promised, window>>
  /\ serving' = Nothing
  /\ UNCHANGED <<inbox, layerVars, depth, promptVars, runVars, hand, held, ran>>

-----------------------------------------------------------------------------
(* C8: _deliver() on the event loop.                                       *)

\* Under the core's lock: only a prompt that waits can take the text.
Snapshot == hand' = IF ui /\ run = "idle" THEN "checked" ELSE "free"

DeliverCheck ==
  /\ nudges > 0 /\ hand = "free"
  /\ Snapshot
  /\ nudges' = nudges - 1
  /\ UNCHANGED <<held, brokerVars, listenVars, layerVars, depth, queueVars>>
  /\ UNCHANGED <<promptVars, runVars, ran, pastVars>>

\* None is the normal case: the pop below schedules one round too many.
FoundNothing == hand' = "free" /\ held' = held

Peek == steerQ' = steerQ  \* mutant
Pop  == steerQ' = Tail(steerQ)

DeliverPop ==
  /\ hand = "checked"
  /\ IF steerQ = <<>>
     THEN FoundNothing /\ UNCHANGED <<steerQ, nudges>>
     ELSE /\ held' = <<Head(steerQ)>> /\ hand' = "popped"
          /\ Pop /\ Nudge
  /\ UNCHANGED <<brokerVars, listenVars, layerVars, depth, nowQ, promptVars>>
  /\ UNCHANGED <<runVars, ran, pastVars>>

\* _push_idle(): without a prompt the text is discarded.
DeliverPush ==
  /\ hand = "popped"
  /\ IF ui THEN idleQ' = idleQ \o held /\ UNCHANGED lost
           ELSE lost' = lost \cup ToSet(held) /\ UNCHANGED idleQ
  /\ held' = <<>> /\ hand' = "free"
  /\ UNCHANGED <<nudges, brokerVars, listenVars, layerVars, depth, queueVars>>
  /\ UNCHANGED <<ui, runVars, ran, pastVars>>

-----------------------------------------------------------------------------
(* The core: its prompt and its runs, and the hooks C5 counts.             *)

Entered == depth' = IF c5 = "on" THEN depth + 1 ELSE depth
Exited  == depth' = IF c5 = "on" /\ depth > 0 THEN depth - 1 ELSE depth
NoReset == UNCHANGED depth  \* mutant
\* A cancelled run unwinds without its end hooks.
Reset   == depth' = IF c5 = "on" THEN 0 ELSE depth

\* Somebody types a turn at the machine.
TypeTurn ==
  /\ ui /\ keys < MaxKeys
  /\ keys' = keys + 1
  /\ idleQ' = Append(idleQ, Key)
  /\ UNCHANGED <<brokerVars, listenVars, layerVars, depth, queueVars, ui>>
  /\ UNCHANGED <<lost, run, subs, cancels, loopVars, ran, pastVars>>

ClassicTurn ==
  /\ ~ui /\ keys < MaxKeys /\ run = "idle"
  /\ keys' = keys + 1 /\ run' = "starting"
  /\ UNCHANGED <<brokerVars, listenVars, layerVars, depth, queueVars>>
  /\ UNCHANGED <<promptVars, subs, cancels, loopVars, ran, pastVars>>

\* wait_for_idle_submission() returns what was pushed, as the next turn.
TakeInput ==
  /\ ui /\ run = "idle" /\ idleQ # <<>>
  /\ idleQ' = Tail(idleQ)
  /\ ran' = Given(<<Head(idleQ)>>)
  /\ run' = "starting"
  /\ UNCHANGED <<brokerVars, listenVars, layerVars, depth, queueVars, ui>>
  /\ UNCHANGED <<lost, subs, keys, cancels, loopVars, pastVars>>

RunStart ==
  /\ run = "starting" /\ run' = "working" /\ Entered
  /\ UNCHANGED <<brokerVars, listenVars, layerVars, queueVars, promptVars>>
  /\ UNCHANGED <<subs, keys, cancels, loopVars, ran, pastVars>>

SubStart ==
  /\ run = "working" /\ subs < MaxSubs /\ subs' = subs + 1 /\ Entered
  /\ UNCHANGED <<brokerVars, listenVars, layerVars, queueVars, promptVars>>
  /\ UNCHANGED <<run, keys, cancels, loopVars, ran, pastVars>>

SubEnd ==
  /\ subs > 0 /\ subs' = subs - 1 /\ Exited
  /\ UNCHANGED <<brokerVars, listenVars, layerVars, queueVars, promptVars>>
  /\ UNCHANGED <<run, keys, cancels, loopVars, ran, pastVars>>

\* The steer history processor drains "now" before each model call.
ModelCall ==
  /\ run = "working" /\ nowQ # <<>>
  /\ ran' = Given(nowQ) /\ nowQ' = <<>>
  /\ UNCHANGED <<brokerVars, listenVars, layerVars, depth, steerQ>>
  /\ UNCHANGED <<promptVars, runVars, loopVars, pastVars>>

\* Between two turns the runtime takes what is queued as a fresh one.
NextTurn ==
  /\ run = "working" /\ subs = 0 /\ steerQ # <<>>
  /\ ran' = Given(<<Head(steerQ)>>) /\ Pop /\ Nudge
  /\ UNCHANGED <<brokerVars, listenVars, layerVars, depth, nowQ, promptVars>>
  /\ UNCHANGED <<runVars, hand, held, pastVars>>

\* It finds the queue empty once, and does not look again.
LastLook ==
  /\ run = "working" /\ subs = 0 /\ steerQ = <<>>
  /\ run' = "drained"
  /\ UNCHANGED <<brokerVars, listenVars, layerVars, depth, queueVars>>
  /\ UNCHANGED <<promptVars, subs, keys, cancels, loopVars, ran, pastVars>>

RunEnd ==
  /\ run = "drained" /\ run' = "ending" /\ Exited
  /\ UNCHANGED <<brokerVars, listenVars, layerVars, queueVars, promptVars>>
  /\ UNCHANGED <<subs, keys, cancels, loopVars, ran, pastVars>>

RunCancel ==
  /\ run \in {"starting", "working", "drained"} /\ cancels < MaxCancels
  /\ cancels' = cancels + 1 /\ run' = "ending" /\ subs' = 0 /\ Reset
  /\ UNCHANGED <<brokerVars, listenVars, layerVars, queueVars, promptVars>>
  /\ UNCHANGED <<keys, loopVars, ran, pastVars>>

\* interactive_turn_end or _cancel; only then _run_active falls.
TurnEnd ==
  /\ run = "ending" /\ run' = "idle" /\ Reset
  /\ UNCHANGED <<brokerVars, listenVars, layerVars, queueVars, promptVars>>
  /\ UNCHANGED <<subs, keys, cancels, loopVars, ran, pastVars>>

\* stop_persistent_ui(): what waits in the idle queue dies with it.
StopUI ==
  /\ ui /\ ui' = FALSE
  /\ lost' = lost \cup (ToSet(idleQ) \ {Key}) /\ idleQ' = <<>>
  /\ UNCHANGED <<brokerVars, listenVars, layerVars, depth, queueVars>>
  /\ UNCHANGED <<runVars, loopVars, ran, pastVars>>

-----------------------------------------------------------------------------
(* The layers come up C5 first and go down C8 first.                       *)

InstallC5 ==
  /\ c5 = "off" /\ c5' = "on" /\ depth' = 0
  /\ UNCHANGED <<c8, brokerVars, listenVars, queueVars, promptVars, runVars>>
  /\ UNCHANGED <<loopVars, ran, pastVars>>

InstallC8 ==
  /\ c5 = "on" /\ c8 = "off" /\ c8' = "on"
  /\ UNCHANGED <<c5, depth, brokerVars, listenVars, queueVars, promptVars>>
  /\ UNCHANGED <<runVars, loopVars, ran, pastVars>>

UninstallC8 ==
  /\ c8 = "on" /\ c8' = "gone"
  /\ UNCHANGED <<c5, depth, brokerVars, listenVars, queueVars, promptVars>>
  /\ UNCHANGED <<runVars, loopVars, ran, pastVars>>

UninstallC5 ==
  /\ c5 = "on" /\ c8 = "gone" /\ c5' = "gone" /\ depth' = 0
  /\ UNCHANGED <<c8, brokerVars, listenVars, queueVars, promptVars, runVars>>
  /\ UNCHANGED <<loopVars, ran, pastVars>>

-----------------------------------------------------------------------------
Listener == RefuseFrame \/ ServeFrame \/ Steer
Deliver == DeliverCheck \/ DeliverPop \/ DeliverPush
AgentRun == \/ RunStart \/ SubEnd \/ ModelCall \/ NextTurn \/ LastLook
            \/ RunEnd \/ TurnEnd
Broker(d) == PushAgain(d) \/ PushGivesUp(d)
Layers == InstallC5 \/ InstallC8 \/ UninstallC8 \/ UninstallC5

Next == \/ \E d \in Deliveries : OnMessage(d) \/ PushTimeout(d) \/ Broker(d)
        \/ Listener \/ Deliver \/ AgentRun \/ TakeInput
        \/ TypeTurn \/ ClassicTurn \/ SubStart \/ RunCancel \/ StopUI
        \/ Layers

Spec == Init /\ [][Next]_vars

\* The prompt's event loop goes on, and a run that started ends; nobody has
\* to type, cancel or close anything.
Fairness == /\ WF_vars(Deliver \/ TakeInput) /\ WF_vars(AgentRun)
            /\ SF_vars(NextTurn \/ LastLook)
FairSpec == Spec /\ Fairness

-----------------------------------------------------------------------------
(* Properties.                                                             *)

Frame == [message : Messages, event : Events, try : 1 .. PushAttempts]
Task  == [message : Messages, event : Events, try : 1 .. PushAttempts,
          mode : {"now", "queue"}]

\* Every variable of the broker's threads, the listener, the layers and the
\* core stays in its type; nothing but texts and keys ever reaches the prompt.
TypeOK ==
  /\ strangers \subseteq Unknown
  /\ push \in [Deliveries ->
       [pc : {"none", "waiting", "refused", "done"}, try : 0 .. PushAttempts]]
  /\ reacted \in [Messages -> SUBSET {"taken", "dropped"}]
  /\ inbox \in Seq(Frame) /\ serving \in Task \cup {Nothing}
  /\ window \in Seq(Messages) /\ Len(window) <= Window
  /\ c5 \in {"off", "on", "gone"} /\ c8 \in {"off", "on", "gone"}
  /\ depth \in 0 .. 1 + MaxSubs
  /\ nowQ \in Seq(Messages) /\ steerQ \in Seq(Messages)
  /\ idleQ \in Seq(Messages \cup {Key}) /\ ui \in BOOLEAN
  /\ run \in {"idle", "starting", "working", "drained", "ending"}
  /\ subs \in 0 .. MaxSubs /\ nudges \in Nat
  /\ hand \in {"free", "checked", "popped"} /\ held \in Seq(Messages)
  /\ (hand = "popped" <=> Len(held) = 1) /\ Len(held) <= 1
  /\ ran \in [Messages -> Nat] /\ lost \subseteq Messages
  /\ steered \in [Messages -> Nat] /\ promised \subseteq Messages
  /\ keys \in 0 .. MaxKeys /\ cancels \in 0 .. MaxCancels

\* However often a message is announced and pushed, it is steered once: the
\* window answers the repeats (the agent never does one instruction twice).
SteeredOnce == \A m \in Messages : steered[m] <= 1

\* A reaction is true: "taken" means that the text was steered, and whoever
\* may not talk never sees any, on no attempt of no copy.
ReactionTellsTruth ==
  \A m \in Messages : /\ "taken" \in reacted[m] => steered[m] > 0
                      /\ m \in strangers => reacted[m] = {}

\* A steered text is in one place, never in two and never in none; what is
\* lost went down with the prompt.
TextInOnePlace ==
  /\ \A m \in Messages :
       Times(m, nowQ) + Times(m, steerQ) + Times(m, held) + Times(m, idleQ)
         + ran[m] + (IF m \in lost THEN 1 ELSE 0) = steered[m]
  /\ lost # {} => ~ui

\* At the prompt no run is counted: a message is never sent to interrupt a
\* run that was cancelled or is over.
IdleMeansNoDepth == run = "idle" => depth = 0

\* What was queued while the session sat at its prompt becomes a turn with no
\* keystroke, unless the prompt, the layer or a run is ended by hand.
QueuedBecomesTurn ==
  \A m \in Messages :
    m \in promised ~> ran[m] > 0 \/ ~ui \/ c8 # "on" \/ cancels > 0
=============================================================================
