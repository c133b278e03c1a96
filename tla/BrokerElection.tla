--------------------------- MODULE BrokerElection ---------------------------
(* Which process of the machine runs the broker, and how the others find it: *)
(* broker_election.py (the lock file, the portfile, the token) and           *)
(* BrokerSupervisor of broker_activation.py, which decides on a daemon       *)
(* thread and is stood down from the main thread.                            *)
(*                                                                           *)
(* A broker is known by its port: the number it got when it was built.  A    *)
(* token is the number of the broker it was minted for.  Every supervisor is *)
(* a process of its own; a process that installs the plugin again has a      *)
(* second supervisor with a lock object of its own, so it is one more.       *)
EXTENDS Naturals, FiniteSets

CONSTANTS
    Supervisors,   \* the BrokerSupervisor objects of the machine
    NoOne,         \* nobody holds the lock
    NoFile,        \* there is no readable portfile
    Attempts,      \* ELECTION_ATTEMPTS
    MaxBrokers,    \* bound: brokers ever built
    MaxFaults,     \* bound: dead threads, failed starts, lost files
    LoseLive       \* may the portfile of a broker that listens be lost?

ASSUME ElectionAssumption ==
    /\ NoOne \notin Supervisors
    /\ Attempts \in Nat \ {0}
    /\ MaxBrokers \in Nat /\ MaxFaults \in Nat
    /\ LoseLive \in BOOLEAN

Ports    == 1..MaxBrokers
NoBroker == 0
Address  == [port : Ports, token : Ports]

VARIABLES
    lock,       \* the supervisor whose descriptor holds broker.lock, or NoOne
    portfile,   \* broker.json
    built,      \* how many brokers were ever built
    host,       \* host[b]: the supervisor that built broker b
    token,      \* token[b]: the token broker b answers to
    listening,  \* the brokers whose server socket is open
    serving,    \* the brokers whose accept thread runs
    at,         \* at[s]: where the supervision thread of s is
    tried,      \* tried[s]: attempts of the election round under way
    hand,       \* hand[s]: the broker try_elect has built and not published
    mine,       \* mine[s]: self.broker
    main,       \* main[s]: how far s is with standing down
    overran,    \* history: whose stop() gave up waiting for the thread
    faults

ballot == <<lock, portfile, built, host, token, listening, serving>>
staff  == <<at, tried, hand, mine, main, overran>>
electionVars == <<ballot, staff, faults>>

ThreadSteps == {"round", "elect", "locked", "started", "written",
                "failing", "unlock", "freeing", "watch", "done"}

ElectionTypeOK ==
    /\ lock \in Supervisors \cup {NoOne}
    /\ portfile \in Address \cup {NoFile}
    /\ built \in 0..MaxBrokers
    /\ host \in [Ports -> Supervisors \cup {NoOne}]
    /\ token \in [Ports -> Ports]
    /\ listening \subseteq 1..built
    /\ serving \subseteq listening
    /\ at \in [Supervisors -> ThreadSteps]
    /\ tried \in [Supervisors -> 0..Attempts]
    /\ hand \in [Supervisors -> 0..built]
    /\ mine \in [Supervisors -> 0..built]
    /\ main \in [Supervisors -> {"up", "joining", "release", "unlocking",
                                 "down", "exited"}]
    /\ overran \subseteq Supervisors
    /\ faults \in 0..MaxFaults

ElectionInit ==
    /\ lock = NoOne
    /\ portfile = NoFile
    /\ built = 0
    /\ host = [b \in Ports |-> NoOne]
    /\ token = [b \in Ports |-> b]
    /\ listening = {}
    /\ serving = {}
    /\ at = [s \in Supervisors |-> "round"]
    /\ tried = [s \in Supervisors |-> 0]
    /\ hand = [s \in Supervisors |-> NoBroker]
    /\ mine = [s \in Supervisors |-> NoBroker]
    /\ main = [s \in Supervisors |-> "up"]
    /\ overran = {}
    /\ faults = 0

Go(s, here, there) == at[s] = here /\ at' = [at EXCEPT ![s] = there]

Fault == faults < MaxFaults /\ faults' = faults + 1

\* broker_is_reachable: a bare connect, which the open socket of a broker
\* whose accept thread died still answers.
Reachable(address) == address # NoFile /\ address.port \in listening

\* Broker.stop: no more connections, no more answers.
Silence(gone) ==
    /\ listening' = listening \ gone
    /\ serving' = serving \ gone

\* SingleOwnerLock.release: harmless to whoever does not hold it.
LetGo(s) == lock' = IF lock = s THEN NoOne ELSE lock

----------------------------------------------------------------------------
(* The supervision thread: one election round.                              *)

\* One attempt: somebody else serves, or try to become the broker.
Probe(s) ==
    /\ IF lock # s /\ Reachable(portfile)
         THEN Go(s, "round", "watch")
         ELSE Go(s, "round", "elect")
    /\ UNCHANGED <<ballot, tried, hand, mine, main, overran, faults>>

\* The next attempt of the round, or the end of it.
NextAttempt(s) ==
    /\ tried' = [tried EXCEPT ![s] = @ + 1]
    /\ at' = [at EXCEPT ![s] = IF tried[s] + 1 < Attempts THEN "round" ELSE "watch"]

LoseElection(s) ==
    /\ at[s] = "elect"
    /\ lock \notin {NoOne, s}
    /\ NextAttempt(s)
    /\ UNCHANGED <<ballot, hand, mine, main, overran, faults>>

Acquire(s) ==
    /\ lock \in {NoOne, s}
    /\ lock' = s
    /\ Go(s, "elect", "locked")
    /\ UNCHANGED <<portfile, built, host, token, listening, serving>>
    /\ UNCHANGED <<tried, hand, mine, main, overran, faults>>

\* adopt_or_mint_token: only an absent portfile makes a new one.
NextToken(b) == IF portfile # NoFile THEN portfile.token ELSE b

\* The token is chosen and the broker bound and served with it.
StartBroker(s) ==
    /\ built < MaxBrokers
    /\ LET b == built + 1
       IN  /\ built' = b
           /\ host' = [host EXCEPT ![b] = s]
           /\ token' = [token EXCEPT ![b] = NextToken(b)]
           /\ listening' = listening \cup {b}
           /\ serving' = serving \cup {b}
           /\ hand' = [hand EXCEPT ![s] = b]
    /\ Go(s, "locked", "started")
    /\ UNCHANGED <<lock, portfile, tried, mine, main, overran, faults>>

WritePortfile(s) ==
    /\ Go(s, "started", "written")
    /\ portfile' = [port |-> hand[s], token |-> token[hand[s]]]
    /\ UNCHANGED <<lock, built, host, token, listening, serving>>
    /\ UNCHANGED <<tried, hand, mine, main, overran, faults>>

\* Adopt, sweep, announce; then the broker is self.broker.
Publish(s) ==
    /\ mine' = [mine EXCEPT ![s] = hand[s]]
    /\ hand' = [hand EXCEPT ![s] = NoBroker]
    /\ Go(s, "written", "watch")
    /\ UNCHANGED <<ballot, tried, main, overran, faults>>

\* A step of try_elect raises: the broker's bind, or what comes after it.
ElectionFails(s) ==
    /\ Fault
    /\ \/ Go(s, "locked", "unlock")
       \/ Go(s, "started", "failing")
       \/ Go(s, "written", "failing")
    /\ UNCHANGED <<ballot, tried, hand, mine, main, overran>>

FreesFirst(s) ==
    /\ LetGo(s)
    /\ Go(s, "failing", "unlock")
    /\ UNCHANGED <<portfile, built, host, token, listening, serving>>
    /\ UNCHANGED <<tried, hand, mine, main, overran, faults>>
\* The except branch stops the broker before it frees the lock.
StopFailed(s) ==
    /\ Silence({hand[s]})
    /\ hand' = [hand EXCEPT ![s] = NoBroker]
    /\ Go(s, "failing", "unlock")
    /\ UNCHANGED <<lock, portfile, built, host, token>>
    /\ UNCHANGED <<tried, mine, main, overran, faults>>

FreeFailed(s) ==
    /\ at[s] = "unlock"
    /\ LetGo(s)
    /\ NextAttempt(s)
    /\ UNCHANGED <<portfile, built, host, token, listening, serving>>
    /\ UNCHANGED <<hand, mine, main, overran, faults>>

----------------------------------------------------------------------------
(* The supervision thread: the tick.                                        *)

SocketIsClosed(s) == mine[s] # NoBroker /\ mine[s] \notin listening
\* check_broker_health asks the accept thread, not the socket: the socket of
\* a dead thread goes on taking connections.
Unhealthy(s) == mine[s] # NoBroker /\ mine[s] \notin serving

ForgetsDeadBroker(s) ==
    /\ main[s] = "up"
    /\ Unhealthy(s)
    /\ mine' = [mine EXCEPT ![s] = NoBroker]
    /\ Go(s, "watch", "freeing")
    /\ UNCHANGED <<ballot, tried, hand, main, overran, faults>>
\* _release: the dead broker is swapped out of self.broker and stopped ...
DropDeadBroker(s) ==
    /\ main[s] = "up"
    /\ Unhealthy(s)
    /\ Silence({mine[s]})
    /\ mine' = [mine EXCEPT ![s] = NoBroker]
    /\ Go(s, "watch", "freeing")
    /\ UNCHANGED <<lock, portfile, built, host, token>>
    /\ UNCHANGED <<tried, hand, main, overran, faults>>

\* ... and the lock it held is freed (INV-C22); a new round follows.
FreeDead(s) ==
    /\ LetGo(s)
    /\ Go(s, "freeing", "round")
    /\ tried' = [tried EXCEPT ![s] = 0]
    /\ UNCHANGED <<portfile, built, host, token, listening, serving>>
    /\ UNCHANGED <<hand, mine, main, overran, faults>>

\* A tick without a broker of its own: another round.
NewRound(s) ==
    /\ main[s] = "up"
    /\ mine[s] = NoBroker
    /\ Go(s, "watch", "round")
    /\ tried' = [tried EXCEPT ![s] = 0]
    /\ UNCHANGED <<ballot, hand, mine, main, overran, faults>>

\* The stop event ends the loop where it waits, and only there.
LeaveLoop(s) ==
    /\ main[s] # "up"
    /\ Go(s, "watch", "done")
    /\ UNCHANGED <<ballot, tried, hand, mine, main, overran, faults>>

----------------------------------------------------------------------------
(* The main thread stands down: stop().                                     *)

MainGo(s, here, there) == main[s] = here /\ main' = [main EXCEPT ![s] = there]

BeginStop(s) ==
    /\ MainGo(s, "up", "joining")
    /\ UNCHANGED <<ballot, at, tried, hand, mine, overran, faults>>

Joined(s) ==
    /\ at[s] = "done"
    /\ MainGo(s, "joining", "release")
    /\ UNCHANGED <<ballot, at, tried, hand, mine, overran, faults>>

\* join(2.0) gives up while the thread is in the middle of a round.
JoinTimesOut(s) ==
    /\ at[s] \notin {"watch", "done"}
    /\ MainGo(s, "joining", "release")
    /\ overran' = overran \cup {s}
    /\ UNCHANGED <<ballot, at, tried, hand, mine, faults>>

StopOwn(s) ==
    /\ Silence({mine[s]})
    /\ mine' = [mine EXCEPT ![s] = NoBroker]
    /\ MainGo(s, "release", "unlocking")
    /\ UNCHANGED <<lock, portfile, built, host, token>>
    /\ UNCHANGED <<at, tried, hand, overran, faults>>

FreeLock(s) ==
    /\ LetGo(s)
    /\ MainGo(s, "unlocking", "down")
    /\ UNCHANGED <<portfile, built, host, token, listening, serving>>
    /\ UNCHANGED <<at, tried, hand, mine, overran, faults>>

----------------------------------------------------------------------------
(* What happens to processes and files.                                     *)

\* The process ends, in good order or not: the system closes its sockets
\* and frees its lock, and its files stay.
Exit(s) ==
    /\ main[s] # "exited"
    /\ main' = [main EXCEPT ![s] = "exited"]
    /\ at' = [at EXCEPT ![s] = "done"]
    /\ hand' = [hand EXCEPT ![s] = NoBroker]
    /\ mine' = [mine EXCEPT ![s] = NoBroker]
    /\ Silence({b \in Ports : host[b] = s})
    /\ LetGo(s)
    /\ UNCHANGED <<portfile, built, host, token, tried, overran, faults>>

\* The accept thread dies in a process that lives: the socket stays open.
BrokerThreadDies(b) ==
    /\ b \in serving
    /\ Fault
    /\ serving' = serving \ {b}
    /\ UNCHANGED <<lock, portfile, built, host, token, listening, staff>>

\* The portfile is deleted or can no longer be parsed.
LosePortfile ==
    /\ portfile # NoFile
    /\ LoseLive \/ ~Reachable(portfile)
    /\ Fault
    /\ portfile' = NoFile
    /\ UNCHANGED <<lock, built, host, token, listening, serving, staff>>

----------------------------------------------------------------------------
ThreadStep(s) ==
    \/ Probe(s) \/ LoseElection(s) \/ Acquire(s)
    \/ StartBroker(s) \/ WritePortfile(s) \/ Publish(s)
    \/ StopFailed(s) \/ FreeFailed(s)
    \/ DropDeadBroker(s) \/ FreeDead(s) \/ NewRound(s) \/ LeaveLoop(s)

MainStep(s) == Joined(s) \/ StopOwn(s) \/ FreeLock(s)

ElectionNext ==
    \/ \E s \in Supervisors :
          \/ ThreadStep(s) \/ ElectionFails(s)
          \/ MainStep(s) \/ BeginStop(s) \/ JoinTimesOut(s) \/ Exit(s)
    \/ \E b \in Ports : BrokerThreadDies(b)
    \/ LosePortfile

\* Threads run: the supervision thread is never obliged to fail, the main
\* thread is never obliged to stand down, but ends what it has begun.
ElectionFairness ==
    \A s \in Supervisors :
        WF_electionVars(ThreadStep(s)) /\ WF_electionVars(MainStep(s))

ElectionSpec == ElectionInit /\ [][ElectionNext]_electionVars /\ ElectionFairness

----------------------------------------------------------------------------
(* At most one broker of the machine answers, whatever happens to threads,  *)
(* files and processes while sessions stand up and down -- but for a        *)
(* supervisor whose stop() gave up on its thread: its lock is freed under   *)
(* the thread that is still electing (broker_activation.py:192-200).        *)
OneBroker ==
    \A a, b \in listening :
        host[a] \notin overran /\ host[b] \notin overran => a = b

(* A process that has stood down leaves neither a listening socket nor the  *)
(* lock behind, unless its stop() gave up on the thread.                    *)
DownIsGone ==
    \A s \in Supervisors \ overran :
        main[s] \in {"down", "exited"} =>
            lock # s /\ \A b \in listening : host[b] # s

\* What holds of the lock, the brokers and their supervisors at every step.
ElectionSafe == ElectionTypeOK /\ OneBroker /\ DownIsGone

Service == INSTANCE BrokerService

(* What everybody else sees of the election -- the portfile and the sockets *)
(* -- is the service it promises, step by step, for as long as no stop()    *)
(* has given up on its thread: above all a new broker appears when no other *)
(* one answers, with the token that is published (AC-85a).                  *)
ImplementsService ==
    /\ Service!ServiceInit
    /\ [][overran' = {} => Service!ServiceNext]_(Service!serviceVars)

(* While some process keeps its supervisor, a broker ends up serving at the *)
(* published address: after crashes, a broker thread that died in a living  *)
(* process (INV-C22), failed starts, stand-downs and a stale or lost        *)
(* portfile.  (A lost portfile of a broker that lives is never rewritten;   *)
(* a stop() that gave up on its thread may leave anything behind.)          *)
BrokerComesBack ==
    \A s \in Supervisors :
        <>[](main[s] = "up") => <>(overran # {}) \/ <>[]Service!Findable
=============================================================================
