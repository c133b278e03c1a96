------------------------ MODULE BrokerElection_proofs ------------------------
(* The election is safe and implements the service it promises, for any      *)
(* number of supervisors, attempts, brokers and faults.                      *)
EXTENDS BrokerElection, TLAPS

----------------------------------------------------------------------------
(* The inductive invariant.                                                 *)

\* Between a broker's start and its publication it is in the thread's hand.
InHand == {"started", "written", "failing"}

\* Until the round is over there is an attempt left.
InRound == {"round", "elect", "locked", "unlock"} \cup InHand

\* The thread of a supervisor holds the lock, and has no broker published.
InLock == {"locked", "unlock", "freeing"} \cup InHand

\* Every broker knows who built it, and is in nobody else's care.
Hosted ==
    /\ \A b \in 1..built : host[b] \in Supervisors
    /\ \A s \in Supervisors : hand[s] # NoBroker => host[hand[s]] = s
    /\ \A s \in Supervisors : mine[s] # NoBroker => host[mine[s]] = s

\* What a thread has in hand and how often it may still try.
Handed ==
    \A s \in Supervisors :
        /\ at[s] \in InHand <=> hand[s] # NoBroker
        /\ at[s] \in InRound => tried[s] < Attempts

\* What only a stop() that gave up on its thread can upset.
Steady(s) ==
    /\ main[s] \in {"release", "unlocking", "down", "exited"} => at[s] = "done"
    /\ main[s] \in {"unlocking", "down", "exited"} => mine[s] = NoBroker
    /\ main[s] \in {"down", "exited"} => lock # s
    /\ at[s] \in InLock => lock = s
    /\ at[s] \notin {"watch", "done"} => mine[s] = NoBroker
    /\ at[s] \in InHand => hand[s] \in listening
    /\ mine[s] # NoBroker => mine[s] \in listening
    /\ \A b \in listening :
          host[b] = s => lock = s /\ (b = hand[s] \/ b = mine[s])

ElectionInv ==
    /\ ElectionTypeOK /\ Hosted /\ Handed
    /\ \A s \in Supervisors \ overran : Steady(s)

\* At the beginning there is no broker and nobody holds the lock.
LEMMA ElectionInvInit == ElectionInit => ElectionInv
<1> SUFFICES ASSUME ElectionInit PROVE ElectionInv
  OBVIOUS
<1> USE ElectionAssumption DEF ElectionInit, NoBroker
<1>1. ElectionTypeOK
  BY DEF ElectionTypeOK, Ports, ThreadSteps
<1>2. Hosted
  BY DEF Hosted
<1>3. Handed
  BY DEF Handed, InHand, InRound
<1>4. \A s \in Supervisors : Steady(s)
  BY DEF Steady, InHand, InLock
<1> QED
  BY <1>1, <1>2, <1>3, <1>4 DEF ElectionInv

\* A step of another supervisor: it takes no lock and closes no socket of ours.
LEMMA OthersSteady ==
  ASSUME NEW t \in Supervisors, Steady(t),
         at'[t] = at[t], hand'[t] = hand[t], mine'[t] = mine[t], main'[t] = main[t],
         lock' = t <=> lock = t,
         \A b \in listening' : host'[b] = t => b \in listening /\ host[b] = t,
         \A b \in {hand[t], mine[t]} : b \in listening => b \in listening'
  PROVE  Steady(t)'
BY DEF Steady

\* Another attempt is counted, and the round goes on or is over.
LEMMA TriedOnce ==
  ASSUME ElectionInv, NEW s \in Supervisors, at[s] \in {"elect", "unlock"}, NextAttempt(s)
  PROVE  /\ tried' \in [Supervisors -> 0..Attempts]
         /\ at' \in [Supervisors -> ThreadSteps]
<1>1. tried[s] \in Nat /\ Attempts \in Nat /\ tried[s] < Attempts
  BY ElectionAssumption DEF ElectionInv, Handed, InRound, ElectionTypeOK
<1>2. tried[s] + 1 \in 0..Attempts
  BY <1>1
<1>3. tried' = [tried EXCEPT ![s] = tried[s] + 1]
  BY DEF NextAttempt
<1>4. at' \in [Supervisors -> ThreadSteps]
  BY DEF NextAttempt, ElectionInv, ElectionTypeOK, ThreadSteps
<1> QED
  BY <1>2, <1>3, <1>4 DEF ElectionInv, ElectionTypeOK

\* Steps that leave the lock, the files and the sockets alone.
LEMMA QuietSteps ==
  ASSUME ElectionInv, NEW s \in Supervisors,
         Probe(s) \/ LoseElection(s) \/ Publish(s) \/ ElectionFails(s)
           \/ NewRound(s) \/ LeaveLoop(s) \/ BeginStop(s) \/ Joined(s) \/ JoinTimesOut(s)
  PROVE  ElectionInv'
<1> USE ElectionAssumption DEF ElectionInv, NoBroker
<1>1. ElectionTypeOK'
  <2> USE DEF ElectionTypeOK, ThreadSteps, Handed, InRound, InHand, Go, MainGo, ballot
  <2>1. CASE Probe(s)
    BY <2>1 DEF Probe
  <2>2. CASE LoseElection(s)
    BY <2>2, TriedOnce DEF LoseElection
  <2>3. CASE Publish(s)
    BY <2>3 DEF Publish
  <2>4. CASE ElectionFails(s)
    BY <2>4 DEF ElectionFails, Fault
  <2>5. CASE NewRound(s)
    <3>1. 0 \in 0..Attempts
      OBVIOUS
    <3> QED
      BY <2>5, <3>1 DEF NewRound
  <2>6. CASE LeaveLoop(s)
    BY <2>6 DEF LeaveLoop
  <2>7. CASE BeginStop(s) \/ Joined(s) \/ JoinTimesOut(s)
    BY <2>7 DEF BeginStop, Joined, JoinTimesOut
  <2> QED
    BY <2>1, <2>2, <2>3, <2>4, <2>5, <2>6, <2>7
<1>2. Hosted'
  <2> USE DEF Hosted, ballot, Go, MainGo
  <2>1. CASE Publish(s)
    BY <2>1 DEF Publish, ElectionTypeOK
  <2>2. CASE ~Publish(s)
    <3>1. UNCHANGED <<built, host, hand, mine>>
      BY <2>2 DEF Probe, LoseElection, ElectionFails, NewRound, LeaveLoop,
                  BeginStop, Joined, JoinTimesOut
    <3> QED
      BY <3>1
  <2> QED
    BY <2>1, <2>2
<1>3. Handed'
  <2> USE DEF Handed, InRound, InHand, ElectionTypeOK, ThreadSteps, Go, MainGo
  <2>1. CASE Probe(s)
    BY <2>1 DEF Probe
  <2>2. CASE LoseElection(s)
    BY <2>2 DEF LoseElection, NextAttempt
  <2>3. CASE Publish(s)
    BY <2>3 DEF Publish
  <2>4. CASE ElectionFails(s)
    BY <2>4 DEF ElectionFails
  <2>5. CASE NewRound(s) \/ LeaveLoop(s)
    BY <2>5 DEF NewRound, LeaveLoop
  <2>6. CASE BeginStop(s) \/ Joined(s) \/ JoinTimesOut(s)
    BY <2>6 DEF BeginStop, Joined, JoinTimesOut
  <2> QED
    BY <2>1, <2>2, <2>3, <2>4, <2>5, <2>6
<1>4. ASSUME NEW t \in Supervisors \ overran' PROVE Steady(t)'
  <2>1. t \in Supervisors \ overran /\ UNCHANGED <<lock, listening, host>>
    BY <1>4 DEF Probe, LoseElection, Publish, ElectionFails, NewRound, LeaveLoop,
                BeginStop, Joined, JoinTimesOut, ballot
  <2>2. Steady(t)
    BY <2>1
  <2>3. CASE t # s
    <3>1. at'[t] = at[t] /\ hand'[t] = hand[t] /\ mine'[t] = mine[t] /\ main'[t] = main[t]
      BY <2>3 DEF Probe, LoseElection, Publish, ElectionFails, NewRound, LeaveLoop, Go,
                  NextAttempt, MainGo, BeginStop, Joined, JoinTimesOut, ElectionTypeOK
    <3> QED
      BY <2>1, <2>2, <3>1, OthersSteady
  <2>4. CASE t = s
    <3> USE <2>1, <2>2, <2>4 DEF Steady, InLock, InHand, ElectionTypeOK, Go, MainGo
    <3>1. CASE Probe(s)
      BY <3>1 DEF Probe
    <3>2. CASE LoseElection(s)
      BY <3>2 DEF LoseElection, NextAttempt
    <3>3. CASE Publish(s)
      BY <3>3 DEF Publish
    <3>4. CASE ElectionFails(s)
      BY <3>4 DEF ElectionFails
    <3>5. CASE NewRound(s) \/ LeaveLoop(s)
      BY <3>5 DEF NewRound, LeaveLoop
    <3>6. CASE BeginStop(s) \/ Joined(s)
      BY <3>6 DEF BeginStop, Joined
    <3>7. CASE JoinTimesOut(s)
      BY <1>4, <3>7 DEF JoinTimesOut
    <3> QED
      BY <3>1, <3>2, <3>3, <3>4, <3>5, <3>6, <3>7
  <2> QED
    BY <2>3, <2>4
<1> QED
  BY <1>1, <1>2, <1>3, <1>4

\* The lock is taken, or freed by a thread that holds nothing.
LEMMA LockSteps ==
  ASSUME ElectionInv, NEW s \in Supervisors,
         Acquire(s) \/ FreeFailed(s) \/ FreeDead(s) \/ FreeLock(s)
  PROVE  ElectionInv'
<1> USE ElectionAssumption DEF ElectionInv, NoBroker, LetGo
<1>1. ElectionTypeOK'
  <2> USE DEF ElectionTypeOK, ThreadSteps, Go, MainGo
  <2>1. CASE Acquire(s)
    BY <2>1 DEF Acquire
  <2>2. CASE FreeFailed(s)
    BY <2>2, TriedOnce DEF FreeFailed
  <2>3. CASE FreeDead(s)
    <3>1. 0 \in 0..Attempts
      OBVIOUS
    <3> QED
      BY <2>3, <3>1 DEF FreeDead
  <2>4. CASE FreeLock(s)
    BY <2>4 DEF FreeLock
  <2> QED
    BY <2>1, <2>2, <2>3, <2>4
<1>2. Hosted'
  BY DEF Hosted, Acquire, FreeFailed, FreeDead, FreeLock
<1>3. Handed'
  <2> USE DEF Handed, InRound, InHand, ElectionTypeOK, ThreadSteps, Go, MainGo
  <2>1. CASE Acquire(s)
    BY <2>1 DEF Acquire
  <2>2. CASE FreeFailed(s)
    BY <2>2 DEF FreeFailed, NextAttempt
  <2>3. CASE FreeDead(s) \/ FreeLock(s)
    BY <2>3 DEF FreeDead, FreeLock
  <2> QED
    BY <2>1, <2>2, <2>3
<1>4. ASSUME NEW t \in Supervisors \ overran' PROVE Steady(t)'
  <2>1. t \in Supervisors \ overran /\ UNCHANGED <<listening, host>>
    BY <1>4 DEF Acquire, FreeFailed, FreeDead, FreeLock
  <2>2. Steady(t)
    BY <2>1
  <2>3. CASE t # s
    <3>1. at'[t] = at[t] /\ hand'[t] = hand[t] /\ mine'[t] = mine[t] /\ main'[t] = main[t]
      BY <2>3 DEF Acquire, FreeFailed, FreeDead, FreeLock, Go, NextAttempt, MainGo,
                  ElectionTypeOK
    <3>2. lock' = t <=> lock = t
      BY <2>3 DEF Acquire, FreeFailed, FreeDead, FreeLock
    <3> QED
      BY <2>1, <2>2, <3>1, <3>2, OthersSteady
  <2>4. CASE t = s
    <3>1. /\ at[s] \notin InHand => hand[s] \notin listening
      BY DEF Handed, ElectionTypeOK
    <3> USE <2>1, <2>2, <2>4 DEF Steady, InLock, InHand, ElectionTypeOK, Go, MainGo
    <3>2. CASE Acquire(s)
      BY <3>2 DEF Acquire
    <3>3. \A b \in listening : b # NoBroker
      OBVIOUS
    <3>4. CASE FreeFailed(s)
      BY <3>1, <3>3, <3>4 DEF FreeFailed, NextAttempt
    <3>5. CASE FreeDead(s)
      BY <3>1, <3>3, <3>5 DEF FreeDead
    <3>6. CASE FreeLock(s)
      BY <3>1, <3>3, <3>6 DEF FreeLock
    <3> QED
      BY <3>2, <3>4, <3>5, <3>6
  <2> QED
    BY <2>3, <2>4
<1> QED
  BY <1>1, <1>2, <1>3, <1>4

\* A broker is started, and tells where it listens.
LEMMA StartSteps ==
  ASSUME ElectionInv, NEW s \in Supervisors, StartBroker(s)
  PROVE  ElectionInv'
<1> USE ElectionAssumption DEF ElectionInv, NoBroker
<1> DEFINE b == built + 1
<1>1. /\ b \in Ports /\ b \notin listening /\ built' = b /\ built \in Nat
      /\ listening' = listening \cup {b} /\ serving' = serving \cup {b}
      /\ host' = [host EXCEPT ![b] = s] /\ hand' = [hand EXCEPT ![s] = b]
      /\ token' = [token EXCEPT ![b] = NextToken(b)]
      /\ at[s] = "locked" /\ at' = [at EXCEPT ![s] = "started"]
      /\ UNCHANGED <<lock, portfile, tried, mine, main, overran, faults>>
  BY DEF StartBroker, Go, ElectionTypeOK, Ports
<1>2. NextToken(b) \in Ports
  BY <1>1 DEF NextToken, ElectionTypeOK, Address
<1>3. b \in 1..MaxBrokers /\ b > 0 /\ 1..built' = (1..built) \cup {b} /\ 0..built' = (0..built) \cup {b}
  BY <1>1 DEF Ports
<1> HIDE DEF b
<1>4. ElectionTypeOK'
  <2>1. built' \in 0..MaxBrokers /\ listening' \subseteq 1..built' /\ serving' \subseteq listening'
    BY <1>1, <1>3 DEF ElectionTypeOK
  <2>2. host' \in [Ports -> Supervisors \cup {NoOne}] /\ token' \in [Ports -> Ports]
    BY <1>1, <1>2 DEF ElectionTypeOK
  <2>3. hand' \in [Supervisors -> 0..built'] /\ mine' \in [Supervisors -> 0..built']
    <3>1. hand \in [Supervisors -> 0..built'] /\ mine \in [Supervisors -> 0..built']
      BY <1>3 DEF ElectionTypeOK
    <3> QED
      BY <1>1, <1>3, <3>1
  <2>4. at' \in [Supervisors -> ThreadSteps]
    BY <1>1 DEF ElectionTypeOK, ThreadSteps
  <2> QED
    BY <1>1, <2>1, <2>2, <2>3, <2>4 DEF ElectionTypeOK
<1>5. Hosted'
  <2>1. \A c \in 1..built : c # b
    BY <1>1 DEF b
  <2>2. \A t \in Supervisors : hand[t] # b /\ mine[t] # b
    BY <1>1 DEF b, ElectionTypeOK
  <2> QED
    <3>1. host \in [Ports -> Supervisors \cup {NoOne}] /\ 1..built \subseteq Ports
      <4>1. 1..built \subseteq 1..MaxBrokers
        BY DEF ElectionTypeOK
      <4> QED
        BY <4>1 DEF ElectionTypeOK, Ports
    <3>2. \A c \in 1..built' : host'[c] \in Supervisors
      BY <1>1, <1>3, <2>1, <3>1 DEF Hosted
    <3>3. \A c \in 1..built : host'[c] = host[c]
      BY <1>1, <2>1, <3>1
    <3>4. \A t \in Supervisors : hand[t] \in (1..built) \cup {0} /\ mine[t] \in (1..built) \cup {0}
      BY DEF ElectionTypeOK
    <3>5. \A t \in Supervisors : mine'[t] # 0 => host'[mine'[t]] = t
      BY <1>1, <3>3, <3>4 DEF Hosted
    <3>6. \A t \in Supervisors : hand'[t] # 0 => host'[hand'[t]] = t
      BY <1>1, <3>1, <3>3, <3>4 DEF Hosted, ElectionTypeOK
    <3> QED
      BY <3>2, <3>5, <3>6 DEF Hosted
<1>6. Handed'
  BY <1>1, <1>3 DEF Handed, InHand, InRound, ElectionTypeOK
<1>7. ASSUME NEW t \in Supervisors \ overran' PROVE Steady(t)'
  <2>1. t \in Supervisors \ overran /\ Steady(t)
    BY <1>1, <1>7
  <2>2. host \in [Ports -> Supervisors \cup {NoOne}] /\ listening \subseteq Ports
    <3>1. 1..built \subseteq 1..MaxBrokers
      BY DEF ElectionTypeOK
    <3> QED
      BY <3>1 DEF ElectionTypeOK, Ports
  <2>3. CASE t # s
    <3>1. at'[t] = at[t] /\ hand'[t] = hand[t] /\ mine'[t] = mine[t] /\ main'[t] = main[t]
      BY <1>1, <2>3 DEF ElectionTypeOK
    <3>2. \A c \in listening' : host'[c] = t => c \in listening /\ host[c] = t
      BY <1>1, <2>2, <2>3
    <3> QED
      BY <1>1, <2>1, <3>1, <3>2, OthersSteady
  <2>4. CASE t = s
    <3>1. lock = s /\ at'[s] = "started" /\ hand'[s] = b /\ mine'[s] = mine[s] /\ main'[s] = main[s]
          /\ mine[s] = NoBroker
      BY <1>1, <2>1, <2>4 DEF Steady, InLock, ElectionTypeOK
    <3>2. \A c \in listening : c # hand[s]
      BY <1>1 DEF Handed, InHand, ElectionTypeOK
    <3>3. \A c \in listening : c # mine[s]
      BY <3>1 DEF ElectionTypeOK
    <3>4. \A c \in listening : host[c] # s
      BY <2>1, <2>4, <3>2, <3>3 DEF Steady
    <3>5. \A c \in listening' : host'[c] = s => c = b
      BY <1>1, <2>2, <3>4
    <3> QED
      BY <1>1, <2>1, <2>4, <3>1, <3>5 DEF Steady, InLock, InHand
  <2> QED
    BY <2>3, <2>4
<1> QED
  BY <1>4, <1>5, <1>6, <1>7

\* The broker in hand is written into the portfile.
LEMMA WriteSteps ==
  ASSUME ElectionInv, NEW s \in Supervisors, WritePortfile(s)
  PROVE  ElectionInv'
<1> USE ElectionAssumption DEF ElectionInv, NoBroker
<1>1. /\ at[s] = "started" /\ at' = [at EXCEPT ![s] = "written"]
      /\ portfile' = [port |-> hand[s], token |-> token[hand[s]]]
      /\ UNCHANGED <<lock, built, host, token, listening, serving>>
      /\ UNCHANGED <<tried, hand, mine, main, overran, faults>>
  BY DEF WritePortfile, Go
<1>2. hand[s] \in Ports
  <2>1. hand[s] \in 0..built /\ hand[s] # 0 /\ built \in 0..MaxBrokers
    BY <1>1 DEF Handed, InHand, ElectionTypeOK
  <2> QED
    BY <2>1 DEF Ports
<1>3. portfile' \in Address
  BY <1>1, <1>2 DEF ElectionTypeOK, Address
<1>4. ElectionTypeOK'
  BY <1>1, <1>3 DEF ElectionTypeOK, ThreadSteps
<1>5. Hosted'
  BY <1>1 DEF Hosted
<1>6. Handed'
  BY <1>1 DEF Handed, InHand, InRound, ElectionTypeOK
<1>7. ASSUME NEW t \in Supervisors \ overran' PROVE Steady(t)'
  <2>1. t \in Supervisors \ overran /\ Steady(t)
    BY <1>1, <1>7
  <2> QED
    BY <1>1, <2>1 DEF Steady, InHand, InLock, ElectionTypeOK
<1> QED
  BY <1>4, <1>5, <1>6, <1>7

\* Brokers are silenced by their own supervisor: of the others none is.
LEMMA SilencedOthers ==
  ASSUME ElectionInv, NEW s \in Supervisors, NEW t \in Supervisors, t # s, Steady(t),
         NEW gone, Silence(gone), \A b \in gone : b \in 1..built => host[b] = s,
         at'[t] = at[t], hand'[t] = hand[t], mine'[t] = mine[t], main'[t] = main[t],
         lock' = t <=> lock = t, host' = host
  PROVE  Steady(t)'
<1>1. listening' = listening \ gone
  BY DEF Silence
<1>2. \A b \in listening' : host'[b] = t => b \in listening /\ host[b] = t
  BY <1>1
<1>3. ASSUME NEW b \in {hand[t], mine[t]}, b \in listening PROVE b \in listening'
  <2>1. b \in 1..built /\ b # NoBroker
    BY <1>3 DEF ElectionInv, ElectionTypeOK, NoBroker
  <2>2. host[b] = t
    BY <2>1, <1>3 DEF ElectionInv, Hosted
  <2> QED
    BY <1>1, <1>3, <2>1, <2>2
<1> QED
  BY <1>2, <1>3, OthersSteady

\* A supervisor stops a broker: one in its thread's hand, a dead one, its own.
LEMMA StopSteps ==
  ASSUME ElectionInv, NEW s \in Supervisors, StopFailed(s) \/ DropDeadBroker(s) \/ StopOwn(s)
  PROVE  ElectionInv'
<1> USE ElectionAssumption DEF ElectionInv, NoBroker
<1>1. PICK b \in {hand[s], mine[s]} :
        /\ Silence({b})
        /\ \/ StopFailed(s) /\ b = hand[s]
           \/ DropDeadBroker(s) /\ b = mine[s]
           \/ StopOwn(s) /\ b = mine[s]
  BY DEF StopFailed, DropDeadBroker, StopOwn
<1>2. UNCHANGED <<lock, portfile, built, host, token, tried, overran, faults>>
  BY DEF StopFailed, DropDeadBroker, StopOwn
<1>3. listening' = listening \ {b} /\ serving' = serving \ {b}
  BY <1>1 DEF Silence
<1>4. ElectionTypeOK'
  BY <1>2, <1>3 DEF ElectionTypeOK, ThreadSteps, StopFailed, DropDeadBroker, StopOwn, Go, MainGo
<1>5. Hosted'
  BY <1>2 DEF Hosted, StopFailed, DropDeadBroker, StopOwn, ElectionTypeOK
<1>6. Handed'
  BY <1>2 DEF Handed, InHand, InRound, StopFailed, DropDeadBroker, StopOwn, Go, MainGo,
              ElectionTypeOK
<1>7. ASSUME NEW t \in Supervisors \ overran' PROVE Steady(t)'
  <2>1. t \in Supervisors \ overran /\ Steady(t)
    BY <1>2, <1>7
  <2>2. CASE t # s
    <3>1. at'[t] = at[t] /\ hand'[t] = hand[t] /\ mine'[t] = mine[t] /\ main'[t] = main[t]
      BY <2>2 DEF StopFailed, DropDeadBroker, StopOwn, Go, MainGo, ElectionTypeOK
    <3>2. b \in 1..built => host[b] = s
      BY <1>1 DEF Hosted
    <3> QED
      BY <1>1, <1>2, <2>1, <2>2, <3>1, <3>2, SilencedOthers
  <2>3. CASE t = s
    <3> USE <2>1, <2>3 DEF Steady, InHand, InLock, ElectionTypeOK
    <3>1. CASE StopFailed(s) /\ b = hand[s]
      BY <1>2, <1>3, <3>1 DEF StopFailed, Go
    <3>2. CASE DropDeadBroker(s) /\ b = mine[s]
      <4>1. at[s] = "watch" /\ main[s] = "up" /\ b # 0 /\ b \in 1..built
        BY <3>2 DEF DropDeadBroker, Go, Unhealthy
      <4>2. hand[s] = 0
        BY <4>1 DEF Handed
      <4>3. lock = s
        BY <1>1, <3>2, <4>1 DEF Hosted
      <4> QED
        BY <1>2, <1>3, <3>2, <4>1, <4>2, <4>3 DEF DropDeadBroker, Go
    <3>3. CASE StopOwn(s) /\ b = mine[s]
      BY <1>2, <1>3, <3>3 DEF StopOwn, MainGo, Handed
    <3> QED
      BY <1>1, <3>1, <3>2, <3>3
  <2> QED
    BY <2>2, <2>3
<1> QED
  BY <1>4, <1>5, <1>6, <1>7

\* A process ends, and with it its sockets and its lock.
LEMMA ExitSteps ==
  ASSUME ElectionInv, NEW s \in Supervisors, Exit(s)
  PROVE  ElectionInv'
<1> USE ElectionAssumption DEF ElectionInv, NoBroker
<1> DEFINE gone == {b \in Ports : host[b] = s}
<1>1. /\ main' = [main EXCEPT ![s] = "exited"] /\ at' = [at EXCEPT ![s] = "done"]
      /\ hand' = [hand EXCEPT ![s] = 0] /\ mine' = [mine EXCEPT ![s] = 0]
      /\ lock' = IF lock = s THEN NoOne ELSE lock
      /\ Silence(gone)
      /\ UNCHANGED <<portfile, built, host, token, tried, overran, faults>>
  BY DEF Exit, LetGo
<1>2. listening' = listening \ gone /\ serving' = serving \ gone
  BY <1>1 DEF Silence
<1>3. \A b \in listening' : host[b] # s
  <2>1. 1..built \subseteq 1..MaxBrokers
    BY DEF ElectionTypeOK
  <2> QED
    BY <1>2, <2>1 DEF ElectionTypeOK, Ports
<1>4. \A b \in gone : b \in 1..built => host[b] = s
  OBVIOUS
<1> HIDE DEF gone
<1>5. ElectionTypeOK'
  <2>1. listening' \subseteq 1..built' /\ serving' \subseteq listening'
    BY <1>1, <1>2 DEF ElectionTypeOK
  <2>2. 0 \in 0..built
    BY DEF ElectionTypeOK
  <2>3. hand' \in [Supervisors -> 0..built'] /\ mine' \in [Supervisors -> 0..built']
    BY <1>1, <2>2 DEF ElectionTypeOK
  <2>4. at' \in [Supervisors -> ThreadSteps]
    BY <1>1 DEF ElectionTypeOK, ThreadSteps
  <2>5. lock' \in Supervisors \cup {NoOne}
    BY <1>1 DEF ElectionTypeOK
  <2> QED
    BY <1>1, <2>1, <2>3, <2>4, <2>5 DEF ElectionTypeOK
<1>6. Hosted'
  BY <1>1 DEF Hosted, ElectionTypeOK
<1>7. Handed'
  BY <1>1 DEF Handed, InHand, InRound, ElectionTypeOK
<1>8. ASSUME NEW t \in Supervisors \ overran' PROVE Steady(t)'
  <2>1. t \in Supervisors \ overran /\ Steady(t)
    BY <1>1, <1>8
  <2>2. CASE t # s
    <3>1. at'[t] = at[t] /\ hand'[t] = hand[t] /\ mine'[t] = mine[t] /\ main'[t] = main[t]
          /\ (lock' = t <=> lock = t) /\ host' = host
      BY <1>1, <2>1, <2>2 DEF ElectionTypeOK
    <3> QED
      BY <1>1, <1>4, <2>1, <2>2, <3>1, SilencedOthers
  <2>3. CASE t = s
    <3>1. at'[s] = "done" /\ main'[s] = "exited" /\ mine'[s] = 0 /\ lock' # s
      BY <1>1 DEF ElectionTypeOK
    <3> QED
      BY <1>1, <1>3, <2>3, <3>1 DEF Steady, InHand, InLock
  <2> QED
    BY <2>2, <2>3
<1> QED
  BY <1>5, <1>6, <1>7, <1>8

\* An accept thread dies, the portfile is lost, or nothing happens.
LEMMA WorldSteps ==
  ASSUME ElectionInv,
         (\E b \in Ports : BrokerThreadDies(b)) \/ LosePortfile \/ UNCHANGED electionVars
  PROVE  ElectionInv'
<1> USE ElectionAssumption DEF ElectionInv
<1>1. /\ UNCHANGED <<lock, built, host, token, listening>> /\ UNCHANGED staff
      /\ portfile' \in {portfile, NoFile} /\ serving' \subseteq serving /\ faults' \in {faults, faults + 1}
      /\ faults' \in 0..MaxFaults
  BY DEF BrokerThreadDies, LosePortfile, electionVars, ballot, Fault, ElectionTypeOK
<1>2. ElectionTypeOK'
  BY <1>1 DEF ElectionTypeOK, staff
<1>3. Hosted' /\ Handed'
  BY <1>1 DEF Hosted, Handed, staff
<1>4. ASSUME NEW t \in Supervisors \ overran' PROVE Steady(t)'
  BY <1>1, <1>4 DEF Steady, staff
<1> QED
  BY <1>2, <1>3, <1>4

\* The invariant is inductive.
LEMMA ElectionInvNext == ElectionInv /\ [ElectionNext]_electionVars => ElectionInv'
<1> SUFFICES ASSUME ElectionInv, [ElectionNext]_electionVars PROVE ElectionInv'
  OBVIOUS
<1>1. ASSUME NEW s \in Supervisors,
             ThreadStep(s) \/ ElectionFails(s) \/ MainStep(s) \/ BeginStop(s)
               \/ JoinTimesOut(s) \/ Exit(s)
      PROVE  ElectionInv'
  BY <1>1, QuietSteps, LockSteps, StartSteps, WriteSteps, StopSteps, ExitSteps
     DEF ThreadStep, MainStep
<1>2. ASSUME (\E b \in Ports : BrokerThreadDies(b)) \/ LosePortfile \/ UNCHANGED electionVars
      PROVE  ElectionInv'
  BY <1>2, WorldSteps
<1> QED
  BY <1>1, <1>2 DEF ElectionNext

----------------------------------------------------------------------------
(* What it implies.                                                         *)

\* A supervisor has one broker at most that listens, and only with the lock.
LEMMA OneOfItsOwn ==
  ASSUME ElectionInv, NEW s \in Supervisors \ overran,
         NEW a \in listening, NEW b \in listening, host[a] = s, host[b] = s
  PROVE  a = b /\ lock = s
<1>1. Steady(s) /\ a # NoBroker /\ b # NoBroker
  BY DEF ElectionInv, ElectionTypeOK, NoBroker
<1>2. at[s] \in InHand => mine[s] = NoBroker
  BY <1>1 DEF Steady, InHand
<1>3. at[s] \notin InHand => hand[s] = NoBroker
  BY DEF ElectionInv, Handed
<1> QED
  BY <1>1, <1>2, <1>3 DEF Steady

\* One broker at most, and none of a supervisor that is down.
LEMMA SafeFromInv == ElectionInv => ElectionSafe
<1> SUFFICES ASSUME ElectionInv PROVE ElectionSafe
  OBVIOUS
<1>1. OneBroker
  <2> SUFFICES ASSUME NEW a \in listening, NEW b \in listening,
                      host[a] \notin overran, host[b] \notin overran
               PROVE  a = b
    BY DEF OneBroker
  <2>1. host[a] \in Supervisors \ overran /\ host[b] \in Supervisors \ overran
    BY DEF ElectionInv, Hosted, ElectionTypeOK
  <2>2. lock = host[a] /\ lock = host[b]
    BY <2>1, OneOfItsOwn
  <2> QED
    BY <2>1, <2>2, OneOfItsOwn
<1>2. DownIsGone
  BY DEF DownIsGone, ElectionInv, Steady
<1> QED
  BY <1>1, <1>2 DEF ElectionSafe, ElectionInv

(* At most one broker of the machine listens, and a supervisor that stood   *)
(* down or died left neither a socket nor the lock behind: whatever threads *)
(* and processes die, whatever start fails and whenever the portfile is     *)
(* lost (try_elect, _release and stop() of broker_activation.py).           *)
THEOREM TheElectionIsSafe == ElectionSpec => []ElectionSafe
BY ElectionInvInit, ElectionInvNext, SafeFromInv, PTL DEF ElectionSpec

----------------------------------------------------------------------------
(* The election implements the service.                                     *)

\* Where the files and the sockets stay, the service stutters.
LEMMA ServiceStutters ==
  ASSUME UNCHANGED <<portfile, built, token, listening, serving>>
  PROVE  UNCHANGED Service!serviceVars
BY DEF Service!serviceVars

\* Whoever holds the lock and has no broker starts the only one.
LEMMA StartAppears ==
  ASSUME ElectionInv, NEW s \in Supervisors, StartBroker(s), overran = {}
  PROVE  Service!ServiceNext
<1>1. at[s] = "locked" /\ Steady(s)
  BY DEF StartBroker, Go, ElectionInv
<1>2. hand[s] = NoBroker /\ mine[s] = NoBroker /\ lock = s
  BY <1>1 DEF Steady, InLock, InHand, ElectionInv, Handed
<1>3. listening = {}
  <2> SUFFICES ASSUME NEW b \in listening PROVE FALSE
    OBVIOUS
  <2>1. host[b] \in Supervisors /\ b # NoBroker
    BY DEF ElectionInv, Hosted, ElectionTypeOK, NoBroker
  <2>2. Steady(host[b])
    BY <2>1 DEF ElectionInv
  <2>3. host[b] = s
    BY <1>2, <2>2 DEF Steady
  <2> QED
    BY <1>1, <1>2, <2>1, <2>3 DEF Steady
<1>4. serving = {}
  BY <1>3 DEF ElectionInv, ElectionTypeOK
<1>5. Service!Appear
  BY <1>3, <1>4 DEF Service!Appear, StartBroker, NextToken
<1> QED
  BY <1>5 DEF Service!ServiceNext

\* A broker is told about while it listens.
LEMMA WriteAnnounces ==
  ASSUME ElectionInv, NEW s \in Supervisors, WritePortfile(s), overran = {}
  PROVE  Service!ServiceNext
<1>1. hand[s] \in listening
  BY DEF WritePortfile, Go, ElectionInv, Steady, InHand
<1>2. hand[s] \in Service!Ports
  <2>1. listening \subseteq 1..built /\ 1..built \subseteq 1..MaxBrokers
    BY ElectionAssumption DEF ElectionInv, ElectionTypeOK
  <2> QED
    BY <1>1, <2>1 DEF Service!Ports
<1>3. Service!Announce(hand[s])
  BY <1>1 DEF Service!Announce, WritePortfile
<1> QED
  BY <1>2, <1>3 DEF Service!ServiceNext

\* One broker goes, or none.
LEMMA SilenceVanishes ==
  ASSUME ElectionInv, NEW gone, Silence(gone), UNCHANGED <<portfile, built, token>>,
         \A a, b \in gone \cap listening : a = b
  PROVE  Service!ServiceNext \/ UNCHANGED Service!serviceVars
<1>1. listening' = listening \ gone /\ serving' = serving \ gone /\ serving \subseteq listening
  BY DEF Silence, ElectionInv, ElectionTypeOK
<1>2. CASE gone \cap listening = {}
  <2>1. \A b \in listening : b \notin gone
    BY <1>2
  <2>2. \A b : b \in listening' <=> b \in listening
    BY <1>1, <2>1
  <2>3. \A b : b \in serving' <=> b \in serving
    BY <1>1, <2>1
  <2>4. listening' = listening
    BY <2>2
  <2>5. serving' = serving
    BY <2>3
  <2> QED
    BY <2>4, <2>5, ServiceStutters
<1>3. CASE gone \cap listening # {}
  <2>1. PICK b \in listening : b \in gone
    BY <1>3
  <2>2. \A c \in listening : c \in gone <=> c = b
    BY <2>1
  <2>3. \A c : c \in listening' <=> c \in listening \ {b}
    BY <1>1, <2>2
  <2>4. \A c : c \in serving' <=> c \in serving \ {b}
    BY <1>1, <2>2
  <2>5. listening' = listening \ {b}
    BY <2>3
  <2>6. serving' = serving \ {b}
    BY <2>4
  <2>7. b \in Service!Ports
    <3>1. listening \subseteq 1..built /\ 1..built \subseteq 1..MaxBrokers
      BY ElectionAssumption DEF ElectionInv, ElectionTypeOK
    <3> QED
      BY <2>1, <3>1 DEF Service!Ports
  <2>8. Service!Vanish(b)
    BY <2>1, <2>5, <2>6 DEF Service!Vanish
  <2> QED
    BY <2>7, <2>8 DEF Service!ServiceNext
<1> QED
  BY <1>2, <1>3

\* A supervisor stops the one broker it has; so does the end of its process.
LEMMA StopVanishes ==
  ASSUME ElectionInv, NEW s \in Supervisors, overran = {},
         StopFailed(s) \/ DropDeadBroker(s) \/ StopOwn(s) \/ Exit(s)
  PROVE  Service!ServiceNext \/ UNCHANGED Service!serviceVars
<1>1. UNCHANGED <<portfile, built, token>>
  BY DEF StopFailed, DropDeadBroker, StopOwn, Exit
<1>2. CASE StopFailed(s) \/ DropDeadBroker(s) \/ StopOwn(s)
  <2>1. PICK b : Silence({b})
    BY <1>2 DEF StopFailed, DropDeadBroker, StopOwn
  <2> QED
    BY <1>1, <2>1, SilenceVanishes
<1>3. CASE Exit(s)
  <2> DEFINE gone == {b \in Ports : host[b] = s}
  <2>1. Silence(gone)
    BY <1>3 DEF Exit
  <2>2. ASSUME NEW a \in gone \cap listening, NEW b \in gone \cap listening PROVE a = b
    BY <2>2, OneOfItsOwn
  <2> HIDE DEF gone
  <2> QED
    BY <1>1, <2>1, <2>2, SilenceVanishes
<1> QED
  BY <1>2, <1>3

\* Every step is one of the service, or none that anybody else can see.
LEMMA ServiceStep ==
  ASSUME ElectionInv, [ElectionNext]_electionVars, overran' = {}
  PROVE  Service!ServiceNext \/ UNCHANGED Service!serviceVars
<1> USE DEF ballot, staff
<1>1. ASSUME NEW s \in Supervisors,
             ThreadStep(s) \/ ElectionFails(s) \/ MainStep(s) \/ BeginStop(s)
               \/ JoinTimesOut(s) \/ Exit(s)
      PROVE  Service!ServiceNext \/ UNCHANGED Service!serviceVars
  <2>1. overran \subseteq overran'
    BY <1>1 DEF ThreadStep, MainStep, Probe, LoseElection, Acquire, StartBroker, WritePortfile,
                Publish, StopFailed, FreeFailed, DropDeadBroker, FreeDead, NewRound, LeaveLoop,
                ElectionFails, Joined, StopOwn, FreeLock, BeginStop, JoinTimesOut, Exit
  <2>2. overran = {}
    BY <2>1
  <2>3. CASE StartBroker(s)
    BY <2>2, <2>3, StartAppears
  <2>4. CASE WritePortfile(s)
    BY <2>2, <2>4, WriteAnnounces
  <2>5. CASE StopFailed(s) \/ DropDeadBroker(s) \/ StopOwn(s) \/ Exit(s)
    BY <2>2, <2>5, StopVanishes
  <2>6. CASE Probe(s) \/ LoseElection(s) \/ Acquire(s) \/ Publish(s) \/ FreeFailed(s)
               \/ FreeDead(s) \/ NewRound(s) \/ LeaveLoop(s) \/ ElectionFails(s)
               \/ Joined(s) \/ FreeLock(s) \/ BeginStop(s) \/ JoinTimesOut(s)
    <3>1. UNCHANGED <<portfile, built, token, listening, serving>>
      BY <2>6 DEF Probe, LoseElection, Acquire, Publish, FreeFailed, FreeDead, NewRound,
                  LeaveLoop, ElectionFails, Joined, FreeLock, BeginStop, JoinTimesOut
    <3> QED
      BY <3>1, ServiceStutters
  <2> QED
    BY <1>1, <2>3, <2>4, <2>5, <2>6 DEF ThreadStep, MainStep
<1>2. ASSUME NEW b \in Ports, BrokerThreadDies(b)
      PROVE  Service!ServiceNext
  <2>1. Service!Wedge(b) /\ b \in Service!Ports
    BY <1>2 DEF BrokerThreadDies, Service!Wedge, Ports, Service!Ports
  <2> QED
    BY <2>1 DEF Service!ServiceNext
<1>3. ASSUME LosePortfile PROVE Service!ServiceNext
  BY <1>3 DEF LosePortfile, Reachable, Service!ServiceNext, Service!FileLost, Service!Reachable
<1>4. ASSUME UNCHANGED electionVars PROVE UNCHANGED Service!serviceVars
  BY <1>4, ServiceStutters DEF electionVars
<1> QED
  BY <1>1, <1>2, <1>3, <1>4 DEF ElectionNext

(* What everybody else sees of the portfile and the sockets is the service  *)
(* the election promises, for as long as no stop() has given up on its      *)
(* thread: a broker appears only where no other one listens, it answers to  *)
(* the token that is published, and only a broker that listens is told      *)
(* about (write_portfile and adopt_or_mint_token of broker_election.py).    *)
THEOREM ServiceImplemented == ElectionSpec => ImplementsService
<1>1. ElectionInit => Service!ServiceInit
  BY DEF ElectionInit, Service!ServiceInit, Ports, Service!Ports
<1>2. ElectionInv /\ [ElectionNext]_electionVars
        => [overran' = {} => Service!ServiceNext]_(Service!serviceVars)
  BY ServiceStep
<1> QED
  BY <1>1, <1>2, ElectionInvInit, ElectionInvNext, PTL DEF ElectionSpec, ImplementsService
=============================================================================
