--------------------------- MODULE SessionThreads ---------------------------
(***************************************************************************)
(* From a session's registration to its Discord thread and back            *)
(* (cp_discord/broker_server.py, broker_registry.py, broker_gateway.py,    *)
(* broker_threads.py).                                                     *)
(*                                                                         *)
(* A broker answers one frame at a time on its accept loop (`handler'),    *)
(* keeps a register of sessions in memory and on disk, and hands every     *)
(* Discord call to a gateway: a FIFO queue that one pump task drains.  The *)
(* supervision thread sweeps dead sessions (`sweep').  A broker may crash, *)
(* may have its serving thread restarted in the same process with the same *)
(* gateway, and may stand down: then the next process is elected, loads    *)
(* the register from disk and adopts, while the old gateway still drains.  *)
(***************************************************************************)
EXTENDS Naturals, Sequences, FiniteSets

CONSTANTS
  Sessions,        \* the sessions, each a process with its own id
  NoSession,       \* nobody
  NoRecord,        \* a session the register does not know
  NoThread,        \* a record without a thread id
  MaxThreads,      \* bound: the Discord threads that may ever be created
  MaxGens,         \* bound: the brokers elected one after the other
  MaxRestarts,     \* bound: restarts of a serving thread in its process
  MaxRegisters,    \* bound: the register frames one session sends
  MaxReleases,     \* bound: the copies of its release frame
  CreateOutcomes,  \* whether Discord creates a thread when asked
  ResolveOutcomes, \* whether a recorded id resolves to a thread
  ArchiveOutcomes, \* whether Discord archives a thread when asked
  Crashes,         \* whether a broker's process may die at any step
  DieMidRequest    \* whether a session may die with a frame on its way

ThreadIds == 1 .. MaxThreads
Gens      == 1 .. MaxGens

ASSUME SessionsAssumption ==
  /\ NoSession \notin Sessions
  /\ NoRecord \notin Nat /\ NoThread \notin Nat /\ NoRecord # NoThread
  /\ MaxThreads \in Nat /\ MaxGens \in Nat \ {0} /\ MaxRestarts \in Nat
  /\ MaxRegisters \in Nat /\ MaxReleases \in Nat
  /\ CreateOutcomes \subseteq BOOLEAN
  /\ ResolveOutcomes \subseteq BOOLEAN
  /\ ArchiveOutcomes \subseteq BOOLEAN
  /\ Crashes \in BOOLEAN /\ DieMidRequest \in BOOLEAN

VARIABLES
  client,     \* each session's process: "live", "closing" (released), "dead"
  registers,  \* register frames it has sent
  releases,   \* copies of its release it has sent
  healed,     \* sessions whose release was refused once and healed
  wire,       \* frames waiting at the broker's socket, oldest first
  handler,    \* the frame the accept loop is in
  gen,        \* the broker elected last
  status,     \* what each broker's process is doing
  restarts,   \* restarts of serving threads so far
  reg,        \* SessionRegistry._records of each broker: the thread id
  claimed,    \* SessionRegistry._claimed of the serving broker
  suspect,    \* silent for longer than the grace period, or unreachable
  sweep,      \* candidates of the sweep in progress
  toAdopt,    \* records still to be handed to the gateway
  disk,       \* the register file
  queue,      \* DiscordGateway._queue of each process
  job,        \* the job its pump awaits Discord for
  threads,    \* ThreadManager._threads of each process
  owner,      \* Discord: the session a thread was opened for
  maker,      \* Discord: the process that opened it
  archived    \* Discord: the archived threads

clientVars == <<client, registers, releases, healed>>
serveVars  == <<wire, handler, gen, status, restarts>>
bookVars   == <<reg, claimed, suspect, disk>>
careVars   == <<sweep, toAdopt>>
pumpVars   == <<queue, job, threads>>
worldVars  == <<owner, maker, archived>>
vars == <<clientVars, serveVars, bookVars, careVars, pumpVars, worldVars>>

-----------------------------------------------------------------------------
(* States and helpers.                                                     *)

Frames  == [kind : {"register", "release"}, session : Sessions]
Records == {NoRecord, NoThread} \cup ThreadIds
Jobs    == [kind : {"open", "adopt", "archive"}, session : Sessions,
            thread : {NoThread} \cup ThreadIds]
Job(kind, s, t) == [kind |-> kind, session |-> s, thread |-> t]
NoJob     == [kind |-> "none", session |-> NoSession, thread |-> NoThread]
IdleLoop  == [pc |-> "idle", session |-> NoSession, thread |-> NoThread]
Frame(kind, s) == [kind |-> kind, session |-> s]

\* The broker's socket answers: bound by start(), closed by stop().
Serving == status[gen] \in {"started", "adopting", "serving"}
\* The process still runs its gateway's pump.
Pumping(g) == status[g] \in {"started", "adopting", "serving", "draining"}

Init ==
  /\ client = [s \in Sessions |-> "live"]
  /\ registers = [s \in Sessions |-> 0]
  /\ releases = [s \in Sessions |-> 0]
  /\ healed = {}
  /\ wire = <<>>
  /\ handler = IdleLoop
  /\ gen = 1
  /\ status = [g \in Gens |-> IF g = 1 THEN "serving" ELSE "waiting"]
  /\ restarts = 0
  /\ reg = [g \in Gens |-> [s \in Sessions |-> NoRecord]]
  /\ claimed = {}
  /\ suspect = {}
  /\ sweep = {}
  /\ toAdopt = {}
  /\ disk = [s \in Sessions |-> NoRecord]
  /\ queue = [g \in Gens |-> <<>>]
  /\ job = [g \in Gens |-> NoJob]
  /\ threads = [g \in Gens |-> [s \in Sessions |-> NoThread]]
  /\ owner = [t \in ThreadIds |-> NoSession]
  /\ maker = [t \in ThreadIds |-> 0]
  /\ archived = {}

\* Every write of the register goes to memory and to the file at once.
SaveRecord(g, s, r) ==
  /\ reg' = [reg EXCEPT ![g] = [@ EXCEPT ![s] = r]]
  /\ disk' = [reg[g] EXCEPT ![s] = r]

Schedule(g, j) == queue' = [queue EXCEPT ![g] = Append(@, j)]

-----------------------------------------------------------------------------
(* The sessions' clients (cp_discord/client.py).                           *)

\* A first registration, a retry whose predecessor's answer was lost, or the
\* registration a new broker makes necessary: all are the same frame.
SendRegister(s) ==
  /\ client[s] = "live"
  /\ registers[s] < MaxRegisters
  /\ Serving
  /\ registers' = [registers EXCEPT ![s] = @ + 1]
  /\ wire' = Append(wire, Frame("register", s))
  /\ UNCHANGED <<client, releases, healed, handler, gen, status, restarts>>
  /\ UNCHANGED <<bookVars, careVars, pumpVars, worldVars>>

\* The clean end, and the copies a lost ack makes the transport send.
SendRelease(s) ==
  /\ client[s] \in {"live", "closing"}
  /\ releases[s] < MaxReleases
  /\ client' = [client EXCEPT ![s] = "closing"]
  /\ releases' = [releases EXCEPT ![s] = @ + 1]
  /\ wire' = IF Serving THEN Append(wire, Frame("release", s)) ELSE wire
  /\ UNCHANGED <<registers, healed, handler, gen, status, restarts>>
  /\ UNCHANGED <<bookVars, careVars, pumpVars, worldVars>>

InFlight(s) ==
  \/ handler.session = s
  \/ \E i \in 1 .. Len(wire) : wire[i].session = s

Die(s) ==
  /\ client[s] # "dead"
  /\ DieMidRequest \/ ~InFlight(s)
  /\ client' = [client EXCEPT ![s] = "dead"]
  /\ UNCHANGED <<registers, releases, healed, serveVars, bookVars, careVars>>
  /\ UNCHANGED <<pumpVars, worldVars>>

-----------------------------------------------------------------------------
(* The accept loop: one frame at a time.                                   *)

KeepThread(s) ==
  IF reg[gen][s] \in ThreadIds THEN reg[gen][s] ELSE NoThread

\* _on_register reads the record it is about to replace ...
BeginRegister ==
  /\ Serving /\ handler = IdleLoop
  /\ wire # <<>> /\ Head(wire).kind = "register"
  /\ LET s == Head(wire).session
     IN  handler' = [pc |-> "known", session |-> s, thread |-> KeepThread(s)]
  /\ wire' = Tail(wire)
  /\ UNCHANGED <<clientVars, gen, status, restarts, bookVars, careVars>>
  /\ UNCHANGED <<pumpVars, worldVars>>

\* ... and upserts what it read, with a fresh heartbeat.
Upsert ==
  /\ handler.pc = "known"
  /\ SaveRecord(gen, handler.session, handler.thread)
  /\ suspect' = suspect \ {handler.session}
  /\ handler' = [handler EXCEPT !.pc = "upserted"]
  /\ UNCHANGED <<clientVars, wire, gen, status, restarts, claimed, careVars>>
  /\ UNCHANGED <<pumpVars, worldVars>>

ClaimIfKnown(s) == reg[gen][s] # NoRecord /\ s \notin claimed  \* mutant
MayClaim(s) == reg[gen][s] = NoThread /\ s \notin claimed

\* claim_thread(): at most one request for a thread per gap.
Claim ==
  /\ handler.pc = "upserted"
  /\ LET s == handler.session
     IN  IF MayClaim(s)
         THEN /\ claimed' = claimed \cup {s}
              /\ handler' = [handler EXCEPT !.pc = "claimed"]
         ELSE handler' = IdleLoop /\ UNCHANGED claimed
  /\ UNCHANGED <<clientVars, wire, gen, status, restarts>>
  /\ UNCHANGED <<reg, suspect, disk, careVars, pumpVars, worldVars>>

OpenThread ==
  /\ handler.pc = "claimed"
  /\ Schedule(gen, Job("open", handler.session, NoThread))
  /\ handler' = IdleLoop
  /\ UNCHANGED <<clientVars, wire, gen, status, restarts, bookVars, careVars>>
  /\ UNCHANGED <<job, threads, worldVars>>

ForgetRecordOnly(s) ==  \* mutant
  /\ IF reg[gen][s] = NoRecord
     THEN UNCHANGED <<reg, disk>>
     ELSE SaveRecord(gen, s, NoRecord)
  /\ claimed' = claimed \ {s}
  /\ suspect' = suspect \ {s}
  /\ UNCHANGED queue
\* remove() and archive(): what a release and a sweep do to a session.
Forget(s) ==
  /\ IF reg[gen][s] = NoRecord
     THEN UNCHANGED <<reg, disk>>
     ELSE SaveRecord(gen, s, NoRecord)
  /\ claimed' = claimed \ {s}
  /\ suspect' = suspect \ {s}
  /\ Schedule(gen, Job("archive", s, NoThread))
Release ==
  /\ Serving /\ handler = IdleLoop
  /\ wire # <<>> /\ Head(wire).kind = "release"
  /\ reg[gen][Head(wire).session] # NoRecord
  /\ Forget(Head(wire).session)
  /\ wire' = Tail(wire)
  /\ UNCHANGED <<clientVars, handler, gen, status, restarts, careVars>>
  /\ UNCHANGED <<job, threads, worldVars>>

\* A release of a session the register does not know is refused; the client,
\* if it still runs, registers once more and releases again.
RefuseRelease ==
  /\ Serving /\ handler = IdleLoop
  /\ wire # <<>> /\ Head(wire).kind = "release"
  /\ LET s == Head(wire).session
     IN  /\ reg[gen][s] = NoRecord
         /\ IF client[s] = "closing" /\ s \notin healed
            THEN /\ healed' = healed \cup {s}
                 /\ wire' = Tail(wire) \o
                              <<Frame("register", s), Frame("release", s)>>
            ELSE wire' = Tail(wire) /\ UNCHANGED healed
  /\ UNCHANGED <<client, registers, releases, handler, gen, status, restarts>>
  /\ UNCHANGED <<bookVars, careVars, pumpVars, worldVars>>

\* Any other frame of a known session proves it is there.
HearFrom(s) ==
  /\ client[s] = "live"
  /\ Serving /\ handler = IdleLoop
  /\ reg[gen][s] # NoRecord
  /\ s \in suspect
  /\ suspect' = suspect \ {s}
  /\ UNCHANGED <<clientVars, serveVars, reg, claimed, disk, careVars>>
  /\ UNCHANGED <<pumpVars, worldVars>>

-----------------------------------------------------------------------------
(* Housekeeping on the supervision thread.                                 *)

\* The grace period passes without a heartbeat, or a button press finds the
\* session's listener gone; neither says that the process is.
Suspect(s) ==
  /\ Serving
  /\ reg[gen][s] # NoRecord
  /\ s \notin suspect
  /\ suspect' = suspect \cup {s}
  /\ UNCHANGED <<clientVars, serveVars, reg, claimed, disk, careVars>>
  /\ UNCHANGED <<pumpVars, worldVars>>

OnlySilent(s) == s \in suspect /\ reg[gen][s] # NoRecord  \* mutant
\* process_matches() has the last word (INV-C13).
ReallyGone(s) == s \in suspect /\ reg[gen][s] # NoRecord /\ client[s] = "dead"

SweepCollect ==
  /\ status[gen] = "serving" /\ sweep = {}
  /\ sweep' = {s \in Sessions : ReallyGone(s)}
  /\ sweep' # {}
  /\ UNCHANGED <<clientVars, serveVars, bookVars, toAdopt, pumpVars, worldVars>>

SweepNext(s) ==
  /\ s \in sweep
  /\ Forget(s)
  /\ sweep' = sweep \ {s}
  /\ UNCHANGED <<clientVars, serveVars, toAdopt, job, threads, worldVars>>

AdoptRecent(s) == reg[gen][s] \in ThreadIds /\ s \notin suspect  \* mutant
Adoptable(s) == reg[gen][s] \in ThreadIds

\* adopt_registered_sessions(): the records that name a thread, one job each.
AdoptBegin ==
  /\ status[gen] = "started"
  /\ toAdopt' = {st \in Sessions \X ThreadIds :
                 Adoptable(st[1]) /\ reg[gen][st[1]] = st[2]}
  /\ status' = [status EXCEPT ![gen] = "adopting"]
  /\ UNCHANGED <<clientVars, wire, handler, gen, restarts, bookVars, sweep>>
  /\ UNCHANGED <<pumpVars, worldVars>>

AdoptNext ==
  /\ status[gen] = "adopting"
  /\ IF toAdopt = {}
     THEN /\ status' = [status EXCEPT ![gen] = "serving"]
          /\ UNCHANGED <<toAdopt, queue>>
     ELSE \E st \in toAdopt :
            /\ Schedule(gen, Job("adopt", st[1], st[2]))
            /\ toAdopt' = toAdopt \ {st}
            /\ UNCHANGED status
  /\ UNCHANGED <<clientVars, wire, handler, gen, restarts, bookVars, sweep>>
  /\ UNCHANGED <<job, threads, worldVars>>

-----------------------------------------------------------------------------
(* The gateway's pump: one job at a time, in order.                        *)

\* set_thread_id() refuses a session the register does not know.
RecordThread(g, s, t) ==
  IF reg[g][s] \in {NoRecord, t}
  THEN UNCHANGED <<reg, disk>>
  ELSE SaveRecord(g, s, t)

NextJob(g) == Head(queue[g])
Take(g)  == queue' = [queue EXCEPT ![g] = Tail(@)]

AlwaysAsks(g, s) == FALSE  \* mutant
HasThread(g, s) == threads[g][s] # NoThread

\* ensure_thread() hands back the thread the gateway holds ...
OpenExisting(g) ==
  /\ Pumping(g) /\ job[g] = NoJob /\ queue[g] # <<>>
  /\ NextJob(g).kind = "open"
  /\ HasThread(g, NextJob(g).session)
  /\ RecordThread(g, NextJob(g).session, threads[g][NextJob(g).session])
  /\ Take(g)
  /\ UNCHANGED <<clientVars, serveVars, claimed, suspect, careVars>>
  /\ UNCHANGED <<job, threads, worldVars>>

\* ... and otherwise asks Discord for one.
OpenBegin(g) ==
  /\ Pumping(g) /\ job[g] = NoJob /\ queue[g] # <<>>
  /\ NextJob(g).kind = "open"
  /\ ~HasThread(g, NextJob(g).session)
  /\ job' = [job EXCEPT ![g] = NextJob(g)]
  /\ Take(g)
  /\ UNCHANGED <<clientVars, serveVars, bookVars, careVars>>
  /\ UNCHANGED <<threads, worldVars>>

\* The gateway's own mapping.
Hold(g, s, t) == threads' = [threads EXCEPT ![g] = [@ EXCEPT ![s] = t]]

\* The thread exists; the approvers are still being added to it.
Created(g) ==
  /\ Pumping(g) /\ job[g].kind = "open" /\ job[g].thread = NoThread
  /\ TRUE \in CreateOutcomes
  /\ \E t \in ThreadIds :
       /\ owner[t] = NoSession
       /\ \A u \in 1 .. (t - 1) : owner[u] # NoSession
       /\ owner' = [owner EXCEPT ![t] = job[g].session]
       /\ maker' = [maker EXCEPT ![t] = g]
       /\ Hold(g, job[g].session, t)
       /\ job' = [job EXCEPT ![g] = [@ EXCEPT !.thread = t]]
  /\ UNCHANGED <<clientVars, serveVars, bookVars, careVars, queue, archived>>

\* No channel yet, or Discord refused: the session stays without a thread.
CreateFails(g) ==
  /\ Pumping(g) /\ job[g].kind = "open" /\ job[g].thread = NoThread
  /\ FALSE \in CreateOutcomes
  /\ job' = [job EXCEPT ![g] = NoJob]
  /\ UNCHANGED <<clientVars, serveVars, bookVars, careVars, queue, threads>>
  /\ UNCHANGED worldVars

Opened(g) ==
  /\ Pumping(g) /\ job[g].kind = "open" /\ job[g].thread # NoThread
  /\ RecordThread(g, job[g].session, job[g].thread)
  /\ job' = [job EXCEPT ![g] = NoJob]
  /\ UNCHANGED <<clientVars, serveVars, claimed, suspect, careVars>>
  /\ UNCHANGED <<queue, threads, worldVars>>

AdoptJobBegin(g) ==
  /\ Pumping(g) /\ job[g] = NoJob /\ queue[g] # <<>>
  /\ NextJob(g).kind = "adopt"
  /\ job' = [job EXCEPT ![g] = NextJob(g)]
  /\ Take(g)
  /\ UNCHANGED <<clientVars, serveVars, bookVars, careVars>>
  /\ UNCHANGED <<threads, worldVars>>

\* A thread that cannot be resolved is dropped without a word.
Adopted(g) ==
  /\ Pumping(g) /\ job[g].kind = "adopt"
  /\ \E found \in ResolveOutcomes :
       IF found THEN Hold(g, job[g].session, job[g].thread)
                ELSE UNCHANGED threads
  /\ job' = [job EXCEPT ![g] = NoJob]
  /\ UNCHANGED <<clientVars, serveVars, bookVars, careVars, queue, worldVars>>

\* The mapping goes before Discord is asked, and whatever it answers.
ArchiveJobBegin(g) ==
  /\ Pumping(g) /\ job[g] = NoJob /\ queue[g] # <<>>
  /\ NextJob(g).kind = "archive"
  /\ LET s == NextJob(g).session
     IN  IF HasThread(g, s)
         THEN /\ job' = [job EXCEPT ![g] = Job("archive", s, threads[g][s])]
              /\ Hold(g, s, NoThread)
         ELSE UNCHANGED <<job, threads>>
  /\ Take(g)
  /\ UNCHANGED <<clientVars, serveVars, bookVars, careVars, worldVars>>

Archived(g) ==
  /\ Pumping(g) /\ job[g].kind = "archive"
  /\ \E done \in ArchiveOutcomes :
       archived' = IF done THEN archived \cup {job[g].thread} ELSE archived
  /\ job' = [job EXCEPT ![g] = NoJob]
  /\ UNCHANGED <<clientVars, serveVars, bookVars, careVars, queue, threads>>
  /\ UNCHANGED <<owner, maker>>
-----------------------------------------------------------------------------
(* Brokers come and go.                                                    *)

\* uninstall(): serving ends and the lock is free, and only then is the
\* gateway closed: its pump drains what was queued.
StandDown ==
  /\ status[gen] = "serving" /\ handler = IdleLoop /\ sweep = {}
  /\ gen < MaxGens
  /\ status' = [status EXCEPT ![gen] = "draining"]
  /\ wire' = <<>>
  /\ UNCHANGED <<clientVars, handler, gen, restarts, bookVars, careVars>>
  /\ UNCHANGED <<pumpVars, worldVars>>

\* The process is gone, with everything it held in memory.
Crash(g) ==
  /\ Crashes /\ Pumping(g)
  /\ g = gen => gen < MaxGens
  /\ status' = [status EXCEPT ![g] = "gone"]
  /\ queue' = [queue EXCEPT ![g] = <<>>]
  /\ job' = [job EXCEPT ![g] = NoJob]
  /\ threads' = [threads EXCEPT ![g] = [s \in Sessions |-> NoThread]]
  /\ IF g = gen
     THEN wire' = <<>> /\ handler' = IdleLoop /\ sweep' = {} /\ toAdopt' = {}
     ELSE UNCHANGED <<wire, handler, careVars>>
  /\ UNCHANGED <<clientVars, gen, restarts, bookVars, worldVars>>

\* A new broker starts from the file and from nothing else.
Elect ==
  /\ status[gen] \in {"draining", "gone"} /\ gen < MaxGens
  /\ gen' = gen + 1
  /\ status' = [status EXCEPT ![gen + 1] = "started"]
  /\ reg' = [reg EXCEPT ![gen + 1] = disk]
  /\ claimed' = {}
  /\ UNCHANGED <<clientVars, wire, handler, restarts, suspect, disk, careVars>>
  /\ UNCHANGED <<pumpVars, worldVars>>

\* check_broker_health(): the serving thread died, the process elects itself
\* again with a new register and the gateway it has.
Restart ==
  /\ status[gen] = "serving" /\ sweep = {}
  /\ restarts < MaxRestarts
  /\ restarts' = restarts + 1
  /\ status' = [status EXCEPT ![gen] = "started"]
  /\ reg' = [reg EXCEPT ![gen] = disk]
  /\ claimed' = {}
  /\ wire' = <<>> /\ handler' = IdleLoop
  /\ UNCHANGED <<clientVars, gen, suspect, disk, careVars, pumpVars, worldVars>>

ClientStep == \E s \in Sessions :
  SendRegister(s) \/ SendRelease(s) \/ Die(s)
AcceptStep == BeginRegister \/ Upsert \/ Claim \/ OpenThread \/ Release
                \/ RefuseRelease
SuspectStep == \E s \in Sessions : Suspect(s) \/ HearFrom(s)
SweepStep == SweepCollect \/ \E s \in Sessions : SweepNext(s)
AdoptStep == AdoptBegin \/ AdoptNext
Pump(g) == OpenExisting(g) \/ OpenBegin(g) \/ Created(g) \/ CreateFails(g)
             \/ Opened(g) \/ AdoptJobBegin(g) \/ Adopted(g)
             \/ ArchiveJobBegin(g) \/ Archived(g)
BrokerStep == StandDown \/ Elect \/ Restart \/ \E g \in Gens : Crash(g)

Next == ClientStep \/ AcceptStep \/ SuspectStep \/ SweepStep \/ AdoptStep
          \/ BrokerStep \/ \E g \in Gens : Pump(g)

Spec == Init /\ [][Next]_vars

\* Threads run: the accept loop, the supervision thread and every pump.  A
\* session that announced its end does end; silence is noticed in the end.
Fairness ==
  /\ WF_vars(AcceptStep) /\ WF_vars(SweepStep) /\ WF_vars(AdoptStep)
  /\ WF_vars(Elect)
  /\ \A g \in Gens : WF_vars(Pump(g))
  /\ \A s \in Sessions : /\ WF_vars(client[s] = "closing" /\ Die(s))
                         /\ WF_vars(client[s] = "dead" /\ Suspect(s))

FairSpec == Spec /\ Fairness

-----------------------------------------------------------------------------
(* Properties.                                                             *)

ClientTypes ==
  /\ client \in [Sessions -> {"live", "closing", "dead"}]
  /\ registers \in [Sessions -> 0 .. MaxRegisters]
  /\ releases \in [Sessions -> 0 .. MaxReleases]
  /\ healed \subseteq Sessions
ServeTypes ==
  /\ wire \in Seq(Frames)
  /\ handler \in [pc : {"idle", "known", "upserted", "claimed"},
                  session : Sessions \cup {NoSession},
                  thread : {NoThread} \cup ThreadIds]
  /\ handler.pc # "idle" => handler.session \in Sessions
  /\ gen \in Gens
  /\ status \in [Gens -> {"waiting", "started", "adopting", "serving",
                          "draining", "gone"}]
  /\ restarts \in 0 .. MaxRestarts
BookTypes ==
  /\ reg \in [Gens -> [Sessions -> Records]]
  /\ disk \in [Sessions -> Records]
  /\ claimed \subseteq Sessions
  /\ suspect \subseteq Sessions
CareTypes ==
  /\ sweep \subseteq Sessions
  /\ toAdopt \subseteq (Sessions \X ThreadIds)
PumpTypes ==
  /\ queue \in [Gens -> Seq(Jobs)]
  /\ job \in [Gens -> Jobs \cup {NoJob}]
  /\ \A g \in Gens : job[g].kind = "archive" => job[g].thread \in ThreadIds
  /\ threads \in [Gens -> [Sessions -> {NoThread} \cup ThreadIds]]
WorldTypes ==
  /\ owner \in [ThreadIds -> Sessions \cup {NoSession}]
  /\ maker \in [ThreadIds -> 0 .. MaxGens]
  /\ archived \subseteq ThreadIds

\* Every variable of the broker, its gateways and Discord stays in its type.
TypeOK == /\ ClientTypes /\ ServeTypes /\ BookTypes
          /\ CareTypes /\ PumpTypes /\ WorldTypes

OpenThreads(s, g) ==
  {t \in ThreadIds : owner[t] = s /\ maker[t] = g /\ t \notin archived}

\* One gateway never has two open threads for one session, whatever the
\* register, its restarts and the releases do: the claim is lost with a
\* restart, and the mapping is what answers the second request (INV-C14).
\* (After a restart and a handover both, the adoption of another gateway's
\* thread replaces the mapping while the own thread stays open.)
OneThreadPerGateway ==
  restarts = 0 \/ gen = 1 =>
    \A g \in Gens, s \in Sessions :
      \A t, u \in OpenThreads(s, g) : t = u

\* Every broker that is serving holds the thread its register names, once
\* its queue is drained: otherwise every report of the session is dropped.
\* (As long as no serving thread restarted beside a pump that outlived its
\* broker: then the register may name the thread of either.)
RecordedIsHeld ==
  \A s \in Sessions :
    (/\ restarts = 0
     /\ status[gen] = "serving" /\ queue[gen] = <<>> /\ job[gen] = NoJob
     /\ client[s] = "live" /\ reg[gen][s] \in ThreadIds)
      => threads[gen][s] = reg[gen][s]

Life == INSTANCE ThreadLife WITH
  Threads <- ThreadIds,
  ended <- {s \in Sessions : client[s] # "live"}

\* The brokers, whatever they restart, crash or hand over, implement the
\* promised life of a thread: above all, the thread of a session that runs is
\* never archived by us, however silent it was (INV-C13, AC-15).
ImplementsThreadLife == Life!Spec

\* A broker opens no thread for a running session whose record names one
\* (INV-C14: a re-registration must not shred the history), as long as no
\* restart lost the claims.
NeverRebuilt ==
  [][\A t \in ThreadIds :
       (restarts = 0 /\ owner[t] = NoSession /\ owner'[t] # NoSession /\ client[owner'[t]] = "live")
         => reg[maker'[t]][owner'[t]] \notin ThreadIds]_vars

\* Once a session has released or died, its threads end archived and its
\* record gone (AC-13, AC-16), unless the broker's process ends meanwhile or
\* the session died with a frame on its way.
Tidy(s) == /\ reg[gen][s] = NoRecord
           /\ \A t \in ThreadIds : owner[t] = s => t \in archived
Orderly ==
  /\ Serving
  /\ \A s \in Sessions : /\ client[s] = "dead" => ~InFlight(s)
                         /\ restarts = 0 \/ releases[s] <= 1
EndedSessionsAreTidied ==
  []Orderly => \A s \in Sessions : (client[s] # "live") ~> []Tidy(s)
=============================================================================
