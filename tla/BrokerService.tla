--------------------------- MODULE BrokerService ----------------------------
(* What the election promises everybody else: brokers come and go, one at a  *)
(* time, a new one answers to the token that is published, and the published *)
(* address is always that of a broker that was elected.                      *)
EXTENDS Naturals

CONSTANTS
    NoFile,      \* there is no readable portfile
    MaxBrokers,  \* bound: brokers ever built
    LoseLive     \* may the portfile of a broker that listens be lost?

Ports   == 1..MaxBrokers
Address == [port : Ports, token : Ports]

VARIABLES portfile, built, token, listening, serving

serviceVars == <<portfile, built, token, listening, serving>>

ServiceInit ==
    /\ portfile = NoFile
    /\ built = 0
    /\ token = [b \in Ports |-> b]
    /\ listening = {}
    /\ serving = {}

Reachable(address) == address # NoFile /\ address.port \in listening

\* A broker is elected: nobody else answers, and the token stays.
Appear ==
    /\ listening = {}
    /\ built < MaxBrokers
    /\ LET b == built + 1
       IN  /\ built' = b
           /\ token' = [token EXCEPT ![b] =
                           IF portfile # NoFile THEN portfile.token ELSE b]
           /\ listening' = {b}
           /\ serving' = {b}
    /\ UNCHANGED portfile

\* ... and tells where it listens.
Announce(b) ==
    /\ b \in listening
    /\ portfile' = [port |-> b, token |-> token[b]]
    /\ UNCHANGED <<built, token, listening, serving>>

\* Its accept thread dies; the socket stays open.
Wedge(b) ==
    /\ b \in serving
    /\ serving' = serving \ {b}
    /\ UNCHANGED <<portfile, built, token, listening>>

\* It stands down, is replaced by its own supervisor, or its process ends.
Vanish(b) ==
    /\ b \in listening
    /\ listening' = listening \ {b}
    /\ serving' = serving \ {b}
    /\ UNCHANGED <<portfile, built, token>>

FileLost ==
    /\ portfile # NoFile
    /\ LoseLive \/ ~Reachable(portfile)
    /\ portfile' = NoFile
    /\ UNCHANGED <<built, token, listening, serving>>

ServiceNext ==
    \/ Appear
    \/ \E b \in Ports : Announce(b) \/ Wedge(b) \/ Vanish(b)
    \/ FileLost

ServiceSpec == ServiceInit /\ [][ServiceNext]_serviceVars

\* The published address is that of a broker that answers, with its token.
Findable ==
    /\ portfile # NoFile
    /\ portfile.port \in serving
    /\ portfile.token = token[portfile.port]
=============================================================================
