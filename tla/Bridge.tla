------------------------------- MODULE Bridge -------------------------------
(***************************************************************************)
(* One session's bridge from start to end: on_startup and on_shutdown of   *)
(* register_callbacks.py on the main thread, over the threads its layers   *)
(* start - the election and the accept loop of C1 with the gateway and its *)
(* client, the heartbeat of C2, the worker of C3 - and over the identities *)
(* it shares with another session that starts.  The session runs the       *)
(* broker itself; a frame is answered or finds nobody.                     *)
(***************************************************************************)
EXTENDS Identities, GatewayQueue

CONSTANTS
  Me,           \* this session, one of the Starters
  Unreachable,  \* the addresses Discord does not let the bot add
  LayerCount,   \* the layers of COMPONENTS: C1, C2, C3, C7, C4, C5, C8
  LayerFails,   \* the layers whose install or uninstall may raise
  MaxFrames,    \* bound: heartbeats and reports of the session
  MaxThreads,   \* bound: Discord threads made for the session
  MaxOverruns   \* bound: joins that time out

C1 == 1  C2 == 2  C3 == 3
Layers == 1 .. LayerCount

ASSUME BridgeAssumption ==
  /\ Me \in Starters /\ LayerCount \in Nat /\ LayerCount >= C3 /\ LayerFails \subseteq Layers \ {C1, C2, C3}
  /\ Callers = {"accept"} /\ Kinds = {"open", "post", "archive"}
  /\ Unreachable \subseteq Addresses
  /\ MaxFrames \in Nat /\ MaxThreads \in Nat
  /\ MaxOverruns \in Nat

VARIABLES
  main,       \* what the main thread is doing
  installed,  \* how many of COMPONENTS are in _installed
  up,         \* the layers in effect
  raised,     \* history: the layers whose install or uninstall raised
  watch,      \* the election thread of C1
  serving,    \* whether the broker's socket is open
  record,     \* what its register knows of the session
  beat,       \* the heartbeat thread of C2
  beats,      \* its rounds so far
  worker,     \* the thread of C3's mailbox
  reports,    \* reports so far
  sink,       \* whether C3 delivers into C2
  addressed,  \* C2's _address: whether it ever found a broker
  joined,     \* C2's _registered
  send,       \* the frame each thread has on its way
  mapped,     \* the thread the gateway holds for the session, 0 for none
  doing,      \* what each pump's job is awaiting
  world,      \* Discord: the state of each thread
  members,    \* Discord: who was added to it
  served,     \* history: the broker knew the session when the bridge was taken down
  overran,    \* history: the joins that timed out
  released,   \* history: the broker has handled the release
  reborn      \* history: and a registration after it

mainVars   == <<main, installed, up, raised>>
brokerVars == <<watch, serving, record>>
clientVars == <<beat, beats, worker, reports, sink, addressed, joined, send>>
worldVars  == <<mapped, doing, world, members>>
pastVars   == <<served, overran, released, reborn>>
threadVars == <<brokerVars, clientVars, worldVars>>
vars == <<identityVars, queueVars, mainVars, threadVars, pastVars>>

Senders == {"beat", "worker"}
Threads == 1 .. MaxThreads
NoFrame == [method |-> "none", again |-> "none"]
Unknown == [known |-> FALSE, claimed |-> FALSE, thread |-> 0]
Nothing == [act |-> "nothing", thread |-> 0, left |-> {}, due |-> {}]

Init ==
  /\ IdentitiesInit /\ QueueInit
  /\ main = "off" /\ installed = 0 /\ up = {} /\ raised = {}
  /\ watch = "none" /\ serving = FALSE /\ record = Unknown
  /\ beat = "none" /\ beats = 0 /\ worker = "none" /\ reports = 0 /\ sink = FALSE
  /\ addressed = FALSE /\ joined = FALSE
  /\ send = [s \in Senders |-> NoFrame]
  /\ mapped = 0 /\ doing = [q \in Queues |-> Nothing]
  /\ world = [t \in Threads |-> "none"] /\ members = [t \in Threads |-> {}]
  /\ served = FALSE /\ overran = 0 /\ released = FALSE /\ reborn = FALSE

MainGo(here, there) == main = here /\ main' = there

-----------------------------------------------------------------------------
(* on_startup.                                                              *)

\* is_enabled, load_pycord, read_config: the bridge may run, or it may not.
Activate ==
  /\ \/ MainGo("off", "sync") /\ \E setting \in Settings : BeginSync(Me, setting)
     \/ MainGo("off", "ended") /\ UNCHANGED identityVars
  /\ UNCHANGED <<queueVars, installed, up, raised, threadVars, pastVars>>

MaySync(p) == sync[p].stage = "skipped" \/ Reconciled(p)

SyncEnds ==
  /\ \/ MainGo("sync", "install") /\ MaySync(Me)
     \/ MainGo("sync", "ended") /\ sync[Me].stage \in {"refused", "raised"}
  /\ UNCHANGED <<identityVars, queueVars, installed, up, raised, threadVars, pastVars>>

\* What install() starts.
Starts(k) ==
  /\ watch'  = IF k = C1 THEN "electing" ELSE watch
  /\ beat'   = IF k = C2 THEN "first" ELSE beat
  /\ sink'   = (sink \/ k = C2)
  /\ worker' = IF k = C3 THEN "run" ELSE worker
  /\ UNCHANGED <<serving, record, beats, reports, addressed, joined, send, worldVars>>

InstallLayer ==
  /\ main = "install"
  /\ LET k == installed + 1
     IN /\ installed' = k /\ up' = up \cup {k}
        /\ main' = IF k = LayerCount THEN "up" ELSE "install"
        /\ Starts(k)
  /\ UNCHANGED <<identityVars, queueVars, raised, pastVars>>

KeepsTheRest == "ended"  \* mutant
RollsBack == "down"

\* A layer refuses: what came up before it is taken down again.
LayerRefuses ==
  /\ installed + 1 \in LayerFails
  /\ MainGo("install", RollsBack)
  /\ raised' = raised \cup {installed + 1}
  /\ served' = record.known
  /\ UNCHANGED <<identityVars, queueVars, installed, up, threadVars, overran, released, reborn>>

-----------------------------------------------------------------------------
(* on_shutdown: the layers in reverse order, each with its turn.            *)

Shutdown ==
  /\ MainGo("up", "down")
  /\ served' = record.known
  /\ UNCHANGED <<identityVars, queueVars, installed, up, raised, threadVars,
                 overran, released, reborn>>

\* _installed.pop()
Topmost == installed

Uninstalled(k) == installed' = installed - 1 /\ up' = up \ {k}

\* A layer without a thread of its own; its uninstall may raise.
TakeDown ==
  /\ main = "down" /\ installed > 0
  /\ LET k == Topmost
     IN /\ k > C3
        /\ \/ Uninstalled(k) /\ UNCHANGED raised
           \/ /\ k \in LayerFails
              /\ installed' = installed - 1 /\ raised' = raised \cup {k} /\ UNCHANGED up
  /\ UNCHANGED <<identityVars, queueVars, main, threadVars, pastVars>>

\* Mailbox.close: the release is the worker's last event.
CloseMailbox ==
  /\ installed > 0 /\ Topmost = C3 /\ MainGo("down", "joinWorker")
  /\ worker' = "closing"
  /\ Uninstalled(C3)
  /\ UNCHANGED <<identityVars, queueVars, raised, brokerVars, beat, beats, reports,
                 sink, addressed, joined, send, worldVars, pastVars>>

StopClient ==
  /\ installed > 0 /\ Topmost = C2 /\ MainGo("down", "joinBeat")
  /\ sink' = FALSE
  /\ Uninstalled(C2)
  /\ UNCHANGED <<identityVars, queueVars, raised, brokerVars, beat, beats, worker,
                 reports, addressed, joined, send, worldVars, pastVars>>

StopSupervisor ==
  /\ installed > 0 /\ Topmost = C1 /\ MainGo("down", "joinWatch")
  /\ Uninstalled(C1)
  /\ UNCHANGED <<identityVars, queueVars, raised, threadVars, pastVars>>

AcceptFree == handing["accept"] = Free

WorkerNotAwaited == TRUE  \* mutant
WorkerEnded == worker = "gone"

\* Each thread is waited for, but not for ever.
Finished(joining) ==
  CASE joining = "joinWorker" -> WorkerEnded
    [] joining = "joinBeat"   -> beat = "gone"
    [] joining = "joinWatch"  -> watch # "electing"
    [] joining = "joinAccept" -> AcceptFree
    [] OTHER                  -> PumpStopped

Joined(here, there) ==
  /\ MainGo(here, there)
  /\ \/ Finished(here) /\ UNCHANGED overran
     \/ ~Finished(here) /\ overran < MaxOverruns /\ overran' = overran + 1

JoinThread ==
  /\ Joined("joinWorker", "down") \/ Joined("joinBeat", "down")
  /\ UNCHANGED <<identityVars, queueVars, installed, up, raised, threadVars,
                 served, released, reborn>>

\* Broker.stop closes the socket; the handler under way goes on.
StopBroker ==
  /\ Joined("joinWatch", "joinAccept")
  /\ serving' = FALSE
  /\ UNCHANGED <<identityVars, queueVars, installed, up, raised, watch, record,
                 clientVars, worldVars, served, released, reborn>>

CloseGateway ==
  /\ Joined("joinAccept", "joinPump")
  /\ CloseBegin
  /\ UNCHANGED <<identityVars, installed, up, raised, threadVars, served, released, reborn>>

GatewayClosed ==
  /\ Joined("joinPump", "down")
  /\ Forget
  /\ UNCHANGED <<identityVars, installed, up, raised, threadVars, served, released, reborn>>

AllDown ==
  /\ installed = 0 /\ MainGo("down", "ended")
  /\ UNCHANGED <<identityVars, queueVars, installed, up, raised, threadVars, pastVars>>

-----------------------------------------------------------------------------
(* The threads of C2 and C3: who sends which frame.                         *)

Frame(method) == [method |-> method, again |-> "none"]
Answered(s) == send[s] = NoFrame /\ AcceptFree

\* _register_once: the portfile names the broker that serves.
Register ==
  /\ serving
  /\ send' = [send EXCEPT !["beat"] = Frame("register")]
  /\ addressed' = TRUE /\ joined' = FALSE

\* _beat: registers or gives up before it ever looks at the stop flag, then
\* beats - or registers, if it is not registered any more.
Beat ==
  /\ Answered("beat")
  /\ \/ /\ beat = "first" /\ beat' = "idle" /\ UNCHANGED beats
        /\ Register \/ UNCHANGED <<send, addressed, joined>>
     \/ /\ beat = "idle" /\ C2 \in up /\ beats + reports < MaxFrames
        /\ \/ ~joined /\ Register
           \/ /\ joined /\ send' = [send EXCEPT !["beat"] = Frame("heartbeat")]
              /\ UNCHANGED <<addressed, joined>>
        /\ beats' = beats + 1 /\ UNCHANGED beat
     \/ /\ beat = "idle" /\ C2 \notin up
        /\ beat' = "gone" /\ UNCHANGED <<send, beats, addressed, joined>>
  /\ UNCHANGED <<identityVars, queueVars, mainVars, brokerVars, worker, reports,
                 sink, worldVars, pastVars>>

\* What the worker delivers is lost while C2 is not there or knows no broker.
Deliver(method) ==
  send' = IF sink /\ addressed THEN [send EXCEPT !["worker"] = Frame(method)] ELSE send

\* The mailbox's worker: reports, then the release, then no more.
Work ==
  /\ Answered("worker")
  /\ \/ /\ worker = "run" /\ beats + reports < MaxFrames
        /\ Deliver("report")
        /\ reports' = reports + 1 /\ UNCHANGED worker
     \/ /\ worker = "closing"
        /\ Deliver("release")
        /\ worker' = "released" /\ UNCHANGED reports
     \/ worker = "released" /\ worker' = "gone" /\ UNCHANGED <<send, reports>>
  /\ UNCHANGED <<identityVars, queueVars, mainVars, brokerVars, beat, beats, sink,
                 addressed, joined, worldVars, pastVars>>

-----------------------------------------------------------------------------
(* The broker: elected, then one frame at a time.                           *)

Elect ==
  /\ watch = "electing"
  /\ watch' = "watching" /\ serving' = TRUE
  /\ UNCHANGED <<identityVars, queueVars, mainVars, record, clientVars, worldVars, pastVars>>

AskGateway(kind) ==
  /\ Schedule("accept", kind)
  /\ UNCHANGED <<held, dropped, current, made, queue, pump, ready, refill, channel, ran, shut>>

\* After a registration the frame that was refused is sent once more.
AfterAnswer(s) ==
  LET f == send[s]
  IN IF f.method = "register" /\ f.again # "none"
     THEN [method |-> f.again, again |-> "healed"] ELSE NoFrame

OnRegister(s) ==
  /\ send[s].method = "register"
  /\ LET asks == ~record.claimed /\ record.thread = 0
     IN /\ record' = [record EXCEPT !.known = TRUE, !.claimed = @ \/ asks]
        /\ IF asks THEN AskGateway("open") ELSE UNCHANGED queueVars
  /\ reborn' = (reborn \/ released)
  /\ UNCHANGED released

OnFrame(s) ==
  /\ record.known
  /\ \/ /\ send[s].method = "report" /\ AskGateway("post")
        /\ UNCHANGED <<record, released>>
     \/ /\ send[s].method = "heartbeat" /\ UNCHANGED <<queueVars, record, released>>
     \/ /\ send[s].method = "release" /\ AskGateway("archive")
        /\ record' = Unknown /\ released' = TRUE
  /\ UNCHANGED reborn

Serve(s) ==
  /\ serving /\ AcceptFree /\ send[s] # NoFrame
  /\ OnRegister(s) \/ OnFrame(s)
  /\ send' = [send EXCEPT ![s] = AfterAnswer(s)]
  /\ joined' = (joined \/ send[s].method = "register")
  /\ UNCHANGED <<identityVars, mainVars, watch, serving, beat, beats, worker, reports,
                 sink, addressed, worldVars, served, overran>>

\* unknown_session: the client registers, and gives up the second time.
RefuseUnknown(s) ==
  /\ serving /\ AcceptFree
  /\ send[s].method \notin {"none", "register"} /\ ~record.known
  /\ send' = [send EXCEPT ![s] =
       IF @.again = "healed" THEN NoFrame ELSE [method |-> "register", again |-> @.method]]
  /\ joined' = (joined /\ send[s].again = "healed")
  /\ UNCHANGED <<identityVars, queueVars, mainVars, brokerVars, beat, beats, worker,
                 reports, sink, addressed, worldVars, pastVars>>

NobodyThere(s) ==
  /\ ~serving /\ send[s] # NoFrame
  /\ send' = [send EXCEPT ![s] = NoFrame] /\ joined' = FALSE
  /\ UNCHANGED <<identityVars, queueVars, mainVars, brokerVars, beat, beats, worker,
                 reports, sink, addressed, worldVars, pastVars>>

AcceptReturns ==
  /\ HandOver("accept")
  /\ UNCHANGED <<identityVars, mainVars, threadVars, pastVars>>

-----------------------------------------------------------------------------
(* The client's loop: on_ready and the jobs (ThreadManager, add_approvers). *)

Discord ==
  /\ watch # "none"
  /\ StartPump \/ LoopStep
  /\ UNCHANGED <<identityVars, mainVars, threadVars, pastVars>>

\* What a job finds when it starts, before it awaits Discord.
Awaits(kind) ==
  CASE kind = "open" /\ mapped # 0   -> [Nothing EXCEPT !.act = "record", !.thread = mapped]
    [] kind = "open" /\ mapped = 0 /\ channel -> [Nothing EXCEPT !.act = "create"]
    [] kind = "archive" /\ mapped # 0 -> [Nothing EXCEPT !.act = "archive", !.thread = mapped]
    [] OTHER -> Nothing

StartJob(q) ==
  /\ NextJob(q)
  /\ LET j == Head(queue[pump[q].on])
     IN IF j = Stop THEN UNCHANGED <<mapped, doing>>
        ELSE /\ doing' = [doing EXCEPT ![q] = Awaits(j.kind)]
             /\ mapped' = IF j.kind = "archive" THEN 0 ELSE mapped
  /\ UNCHANGED <<asked, handing, held, dropped, current, made, ready, refill, channel, ran, shut>>
  /\ UNCHANGED <<identityVars, mainVars, brokerVars, clientVars, world, members, pastVars>>

\* The thread exists; ensure_thread goes on to add the approvers.
CreateThread(q) ==
  /\ doing[q].act = "create" /\ ~OnReadyRuns
  /\ \E t \in Threads :
       /\ world[t] = "none" /\ \A u \in 1 .. t - 1 : world[u] # "none"
       /\ world' = [world EXCEPT ![t] = "open"]
       /\ mapped' = t
       /\ doing' = [doing EXCEPT ![q] =
            [act |-> "invite", thread |-> t,
             left |-> ApproverAddresses, due |-> ApproverAddresses]]
  /\ UNCHANGED <<identityVars, queueVars, mainVars, brokerVars, clientVars, members, pastVars>>

AddApprover(q) ==
  /\ doing[q].act = "invite" /\ ~OnReadyRuns
  /\ \E a \in doing[q].left :
       /\ doing' = [doing EXCEPT ![q].left = @ \ {a}]
       /\ members' = [members EXCEPT ![doing[q].thread] = @ \cup ({a} \ Unreachable)]
  /\ UNCHANGED <<identityVars, queueVars, mainVars, brokerVars, clientVars, mapped, world, pastVars>>

\* set_thread_id writes into a record that still exists.
EndJob(q) ==
  /\ doing[q].act # "create" /\ doing[q].left = {}
  /\ JobDone(q)
  /\ doing' = [doing EXCEPT ![q] = Nothing]
  /\ record' = IF doing[q].act \in {"record", "invite"} /\ record.known
               THEN [record EXCEPT !.thread = doing[q].thread] ELSE record
  /\ world' = IF doing[q].act = "archive"
              THEN [world EXCEPT ![doing[q].thread] = "archived"] ELSE world
  /\ UNCHANGED <<asked, handing, held, dropped, current, made, queue, ready, refill, channel, shut>>
  /\ UNCHANGED <<identityVars, mainVars, watch, serving, clientVars, mapped, members, pastVars>>

Pump(q) == StartJob(q) \/ CreateThread(q) \/ AddApprover(q) \/ EndJob(q)

-----------------------------------------------------------------------------
(* Another session starts meanwhile.                                        *)

Identify ==
  /\ \/ \E p \in Starters : SyncStep(p)
     \/ \E p \in Starters \ {Me}, setting \in Settings : BeginSync(p, setting)
  /\ UNCHANGED <<queueVars, mainVars, threadVars, pastVars>>

Main == \/ Activate \/ SyncEnds \/ InstallLayer \/ LayerRefuses
        \/ TakeDown \/ CloseMailbox \/ StopClient \/ StopSupervisor
        \/ JoinThread \/ StopBroker \/ CloseGateway \/ GatewayClosed \/ AllDown

Next ==
  \/ Main \/ Shutdown \/ Identify
  \/ Beat \/ Work \/ Elect \/ AcceptReturns \/ Discord
  \/ \E s \in Senders : Serve(s) \/ RefuseUnknown(s) \/ NobodyThere(s)
  \/ \E q \in Queues : Pump(q)

Spec == Init /\ [][Next]_vars

-----------------------------------------------------------------------------
TypeOK ==
  /\ main \in {"off", "sync", "install", "up", "down", "joinWorker", "joinBeat",
               "joinWatch", "joinAccept", "joinPump", "ended"}
  /\ installed \in 0 .. LayerCount /\ up \subseteq Layers /\ raised \subseteq LayerFails
  /\ mapped \in 0 .. MaxThreads
  /\ members \in [Threads -> SUBSET Addresses]

\* The bridge is there as a whole or not at all: a layer is in effect only
\* over all the layers below it, and in the end only what would not go is left.
AllOrNothing ==
  /\ main = "up" => up = Layers
  /\ \A k \in up \ raised : 1 .. k \subseteq up
  /\ main = "ended" => up \subseteq raised

InOrder == \A q \in Queues : \A i, j \in DOMAIN ran[q] :
             i < j => ran[q][i].n < ran[q][j].n
Settled == /\ \A s \in Senders : Answered(s)
           /\ held = <<>> /\ ~OnReadyRuns
           /\ \A q \in Queues : pump[q].pc \in {"none", "rest", "dead"} /\ queue[q] = <<>>

\* Taking the bridge down says good-bye for a session the broker knows: the
\* broker is still there to hear the release, and its gateway still there to
\* archive the thread (register_callbacks.py:117-121) - unless a join timed
\* out, the heartbeat registered once more in between, or Discord came ready
\* late or twice, so that jobs overtook each other.
CleanEndIsArchived ==
  main = "ended" /\ served /\ overran = 0 =>
    /\ released
    /\ Settled /\ InOrder /\ made <= 1 /\ ~reborn => \A t \in Threads : world[t] # "open"

\* A thread that is made adds every approver there was, as far as Discord lets
\* it: one that cannot be added keeps none of the others out
\* (broker_autojoin.py:134).
ApproversInvited ==
  \A q \in Queues :
    doing[q].act = "invite" /\ doing[q].left = {}
      => doing[q].due \ Unreachable \subseteq members[doing[q].thread]

\* Who may decide is who is listed, and who is listed is in the thread.
RightPeople == IdentitiesSound /\ ApproversInvited
=============================================================================
