---------------------------- MODULE GatewayQueue ----------------------------
(***************************************************************************)
(* The way of a job from the threads of the broker to the event loop of    *)
(* the Discord client: DiscordGateway of broker_gateway.py and on_ready of *)
(* connect_gateway (broker_activation.py).                                 *)
(*                                                                         *)
(* A caller reads which queue is current, and only then hands its job over *)
(* - to that queue, or to the list of held jobs when there was none.  Every *)
(* on_ready makes a new queue with a pump of its own and moves the held    *)
(* jobs into it; pumps and on_ready share one loop, so a pump runs only    *)
(* while on_ready is not between two of its awaits.                        *)
(***************************************************************************)
EXTENDS Naturals, Sequences, FiniteSets, SequencesExt

CONSTANTS
  Callers,     \* the threads that call the gateway
  Kinds,       \* what they ask for
  MaxHeld,     \* _MAX_PENDING_JOBS
  MaxReady,    \* bound: how often Discord says it is ready
  MaxJobs      \* bound: jobs of one caller

ASSUME QueueAssumption ==
  /\ MaxHeld \in Nat \ {0} /\ MaxReady \in Nat /\ MaxJobs \in Nat

VARIABLES
  asked,    \* asked[c]: jobs of caller c so far
  handing,  \* handing[c]: the job c is about to hand over, and where
  held,     \* _pending
  dropped,  \* history: the jobs pushed out of it
  current,  \* _queue and _loop: the queue callers see, 0 for none
  made,     \* queues made so far
  queue,    \* the asyncio queues
  pump,     \* their pumps
  ready,    \* what on_ready is doing
  refill,   \* the held jobs it has yet to schedule
  channel,  \* whether set_channel was called
  ran,      \* history: the jobs each queue finished, in order
  shut      \* history: close() came to its end

queueVars == <<asked, handing, held, dropped, current, made, queue, pump,
               ready, refill, channel, ran, shut>>

Queues == 1 .. MaxReady
NoJob  == [by |-> "nobody"]
Stop   == [by |-> "close"]
Job    == [by : Callers, n : 1 .. MaxJobs, kind : Kinds, held : BOOLEAN]
Free   == [job |-> NoJob, to |-> 0]

QueueInit ==
  /\ asked = [c \in Callers |-> 0] /\ handing = [c \in Callers |-> Free]
  /\ held = <<>> /\ dropped = <<>>
  /\ current = 0 /\ made = 0
  /\ queue = [q \in Queues |-> <<>>]
  /\ pump = [q \in Queues |-> [pc |-> "none", on |-> 0, job |-> NoJob]]
  /\ ready = "login" /\ refill = <<>> /\ channel = FALSE
  /\ ran = [q \in Queues |-> <<>>] /\ shut = FALSE

-----------------------------------------------------------------------------
(* _schedule, on the thread of the caller.                                  *)

\* The job is made and the queue is read.
Schedule(c, kind) ==
  /\ handing[c] = Free /\ asked[c] < MaxJobs
  /\ asked' = [asked EXCEPT ![c] = @ + 1]
  /\ handing' = [handing EXCEPT ![c] =
       [job |-> [by |-> c, n |-> asked[c] + 1, kind |-> kind, held |-> FALSE],
        to |-> current]]

KeepNewest(jobs) ==
  SubSeq(jobs, IF Len(jobs) > MaxHeld THEN Len(jobs) - MaxHeld + 1 ELSE 1, Len(jobs))

HoldJob(job) ==
  LET all == Append(held, [job EXCEPT !.held = TRUE])
  IN /\ held' = KeepNewest(all)
     /\ dropped' = dropped \o SubSeq(all, 1, Len(all) - MaxHeld)

\* No loop yet: the job waits for one.
Hold(c) ==
  /\ handing[c].job # NoJob /\ handing[c].to = 0
  /\ HoldJob(handing[c].job)
  /\ handing' = [handing EXCEPT ![c] = Free]
  /\ UNCHANGED <<asked, current, made, queue, pump, ready, refill, channel, ran, shut>>

Put(c) ==
  /\ handing[c].job # NoJob /\ handing[c].to # 0
  /\ queue' = [queue EXCEPT ![handing[c].to] = Append(@, handing[c].job)]
  /\ handing' = [handing EXCEPT ![c] = Free]
  /\ UNCHANGED <<asked, held, dropped, current, made, pump, ready, refill, channel, ran, shut>>

-----------------------------------------------------------------------------
(* on_ready, on the loop of the client.                                     *)

OnReadyRuns == ready \in {"swap", "refill"}

\* attach_loop: a new queue is current before the held jobs are in it.
StartPump ==
  /\ ready \in {"login", "ready"} /\ made < MaxReady
  /\ \A q \in Queues : pump[q].pc # "new"
  /\ made' = made + 1 /\ current' = made + 1
  /\ pump' = [pump EXCEPT ![made + 1].pc = "new"]
  /\ ready' = "swap"
  /\ UNCHANGED <<asked, handing, held, dropped, queue, refill, channel, ran, shut>>

NewestFirst == Reverse(held)  \* mutant
OldestFirst == held

SwapHeld ==
  /\ ready = "swap"
  /\ refill' = OldestFirst /\ held' = <<>>
  /\ ready' = "refill"
  /\ UNCHANGED <<asked, handing, dropped, current, made, queue, pump, channel, ran, shut>>

\* Each held job is scheduled again, where close() may have been meanwhile.
Refill ==
  /\ ready = "refill" /\ refill # <<>>
  /\ refill' = Tail(refill)
  /\ IF current = 0
     THEN HoldJob(Head(refill)) /\ UNCHANGED queue
     ELSE /\ queue' = [queue EXCEPT ![current] = Append(@, Head(refill))]
          /\ UNCHANGED <<held, dropped>>
  /\ UNCHANGED <<asked, handing, current, made, pump, ready, channel, ran, shut>>

\* get_channel: known at once, or to be fetched - the pump runs meanwhile.
FindChannel ==
  /\ ready = "refill" /\ refill = <<>>
  /\ \/ ready' = "ready" /\ channel' = TRUE
     \/ ready' = "fetch" /\ UNCHANGED channel
  /\ UNCHANGED <<asked, handing, held, dropped, current, made, queue, pump, refill, ran, shut>>

FetchChannel ==
  /\ ready = "fetch"
  /\ ready' = "ready"
  /\ channel' \in {channel, TRUE}
  /\ UNCHANGED <<asked, handing, held, dropped, current, made, queue, pump, refill, ran, shut>>

-----------------------------------------------------------------------------
(* _drain, on the loop of the client.                                       *)

\* A pump takes the queue that is current when it first runs.
BindPump(q) ==
  /\ pump[q].pc = "new" /\ ~OnReadyRuns
  /\ pump' = [pump EXCEPT ![q].pc = IF current = 0 THEN "dead" ELSE "rest",
                          ![q].on = current]
  /\ UNCHANGED <<asked, handing, held, dropped, current, made, queue, ready,
                 refill, channel, ran, shut>>

\* The next job, and the end of the pump when it is the sentinel.
NextJob(q) ==
  /\ pump[q].pc = "rest" /\ ~OnReadyRuns
  /\ LET on == pump[q].on
     IN /\ queue[on] # <<>>
        /\ queue' = [queue EXCEPT ![on] = Tail(@)]
        /\ pump' = [pump EXCEPT ![q].pc = IF Head(queue[on]) = Stop THEN "dead" ELSE "busy",
                                ![q].job = IF Head(queue[on]) = Stop THEN NoJob
                                                                    ELSE Head(queue[on])]

\* The job has awaited Discord for the last time.
JobDone(q) ==
  /\ pump[q].pc = "busy" /\ ~OnReadyRuns
  /\ pump' = [pump EXCEPT ![q].pc = "rest", ![q].job = NoJob]
  /\ ran' = [ran EXCEPT ![pump[q].on] = Append(@, pump[q].job)]

-----------------------------------------------------------------------------
(* close, on the thread that takes the bridge down.                         *)

CloseBegin ==
  /\ queue' = IF current = 0 THEN queue
              ELSE [queue EXCEPT ![current] = Append(@, Stop)]
  /\ UNCHANGED <<asked, handing, held, dropped, current, made, pump, ready,
                 refill, channel, ran, shut>>

\* pump.result: of the pump started last.
PumpStopped == made # 0 => pump[made].pc = "dead"

Forget ==
  /\ current' = 0 /\ shut' = TRUE
  /\ UNCHANGED <<asked, handing, held, dropped, made, queue, pump, ready,
                 refill, channel, ran>>

LoopStep ==
  \/ SwapHeld \/ Refill \/ FindChannel \/ FetchChannel
  \/ \E q \in Queues : BindPump(q)

HandOver(c) == Hold(c) \/ Put(c)

-----------------------------------------------------------------------------
JobsOf(s) == {s[i] : i \in DOMAIN s}

QueueTypeOK ==
  /\ asked \in [Callers -> 0 .. MaxJobs]
  /\ handing \in [Callers -> [job : Job \cup {NoJob}, to : 0 .. MaxReady]]
  /\ JobsOf(held) \cup JobsOf(refill) \cup JobsOf(dropped) \subseteq Job
  /\ current \in 0 .. made /\ made \in 0 .. MaxReady
  /\ \A q \in Queues : /\ JobsOf(queue[q]) \subseteq Job \cup {Stop}
                       /\ JobsOf(ran[q]) \subseteq Job
                       /\ pump[q].job \in Job \cup {NoJob}
  /\ ready \in {"login", "swap", "refill", "fetch", "ready"}
  /\ channel \in BOOLEAN /\ shut \in BOOLEAN

\* What a queue has done, is doing and has yet to do.
Only(job) == IF job = NoJob THEN <<>> ELSE <<job>>
InHand(q) == {p \in Queues : pump[p].on = q /\ pump[p].job # NoJob}
JobInHand(q) == IF InHand(q) = {} THEN NoJob ELSE pump[CHOOSE p \in InHand(q) : TRUE].job
Line(q) == ran[q] \o Only(JobInHand(q)) \o queue[q]

AskedBefore(x, y) ==
  Stop \notin {x, y} /\ x.by = y.by /\ x.held = y.held => x.n < y.n
Ordered(line) == \A i, j \in DOMAIN line : i < j => AskedBefore(line[i], line[j])

\* "Order is preserved" (broker_gateway.py:39): one caller's jobs run in the
\* order they were asked for - those that were held among themselves, and
\* those that were not - until close(), after which a late on_ready mixes them.
OrderKept ==
  ~shut => /\ Ordered(held) /\ Ordered(refill)
           /\ \A q \in Queues : Ordered(Line(q)) /\ Cardinality(InHand(q)) <= 1

\* Where jobs can be: in the hands of a caller, held, on their way to a queue,
\* in a queue, in the hands of its pump, done, or pushed out of the held ones.
Places == ({"hand"} \X Callers) \cup ({"queue", "pump", "ran"} \X Queues)
            \cup ({"list"} \X {"held", "refill", "dropped"})
At(place) ==
  CASE place[1] = "hand"  -> Only(handing[place[2]].job)
    [] place[1] = "queue" -> queue[place[2]]
    [] place[1] = "pump"  -> Only(pump[place[2]].job)
    [] place[1] = "ran"   -> ran[place[2]]
    [] place = <<"list", "held">>   -> held
    [] place = <<"list", "refill">> -> refill
    [] OTHER -> dropped

\* Every job, with the place it is in.
Spots ==
  UNION {{[place |-> p, nth |-> i, by |-> At(p)[i].by, n |-> At(p)[i].n]
            : i \in {k \in DOMAIN At(p) : At(p)[k] # Stop}} : p \in Places}

\* No job is lost or doubled on its way: it is in one place, or it was pushed
\* out of the held jobs, which only happens to the oldest.
InOnePlace ==
  LET spots == Spots
  IN /\ \A s, t \in spots : s.by = t.by /\ s.n = t.n => s = t
     /\ {<<s.by, s.n>> : s \in spots} = UNION {{c} \X (1 .. asked[c]) : c \in Callers}

OldestDropped ==
  ~shut => \A d \in JobsOf(dropped), h \in JobsOf(held) : h.by = d.by => d.n < h.n

QueueSound == QueueTypeOK /\ OrderKept /\ InOnePlace /\ OldestDropped
=============================================================================
