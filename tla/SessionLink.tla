---------------------------- MODULE SessionLink -----------------------------
(* One session's connection to the broker: SessionClient of client.py and    *)
(* Broker._dispatch of broker_server.py, over the service the election       *)
(* promises.  Three threads of the session share one cached address, one     *)
(* cached token and one `registered` flag: the heartbeat thread, the         *)
(* reporter's worker, which delivers frames, and the inbound listener.       *)
EXTENDS BrokerService, Sequences, FiniteSets

CONSTANTS
    Senders,      \* the sending threads: the heartbeat's and the workers'
    Beat,         \* the heartbeat thread
    Inbound,      \* the listener's thread, which only re-reads the portfile
    SendAttempts, \* SEND_ATTEMPTS
    MaxFrames,    \* bound: frames the worker delivers
    MaxFaults     \* bound: lost answers, lost files

ASSUME LinkAssumption ==
    /\ Beat \in Senders /\ Inbound \notin Senders
    /\ SendAttempts \in Nat \ {0}
    /\ MaxFrames \in Nat /\ MaxFaults \in Nat /\ MaxBrokers \in Nat

Frames  == 1..MaxFrames
NoFrame == 0
Unread  == 0      \* no address, no token
All     == Senders \cup {Inbound}

VARIABLES
    addr, tok,   \* the cached address and token, Unread before the first read
    registered,
    open,        \* the client has not been stopped
    known,       \* the brokers whose register holds the session
    onDisk,      \* sessions.json holds it
    at,          \* at[th]: what thread th is doing
    send,        \* send[th]: the envelope of th and what is to follow it
    read,        \* read[th]: the token th has read, and not stored yet
    sent,        \* how many frames the worker has begun
    verdict,     \* verdict[f]: what _send returned for frame f
    applied,     \* applied[f]: how often a broker applied frame f
    faults

cached    == <<addr, tok, registered, open>>
atBroker  == <<known, onDisk, applied>>
ofThreads == <<at, send, read, sent, verdict>>
linkVars  == <<serviceVars, cached, atBroker, ofThreads, faults>>

\* An envelope: what it carries, where it goes and with which token, the
\* transport attempts made, whether the broker has handled it (env_id), the
\* heals still armed, and the method to send again after a registration.
Methods  == {"register", "heartbeat", "frame"}
Nothing  == [method |-> "heartbeat", frame |-> NoFrame, to |-> Unread, with |-> Unread,
             tries |-> 0, handled |-> FALSE, healToken |-> FALSE,
             healUnknown |-> FALSE, resume |-> "none", resumeHeal |-> FALSE]

Fault == faults < MaxFaults /\ faults' = faults + 1

LinkInit ==
    /\ ServiceInit
    /\ addr = Unread /\ tok = Unread /\ registered = FALSE /\ open = TRUE
    /\ known = {} /\ onDisk = FALSE
    /\ at = [th \in All |-> "idle"]
    /\ send = [th \in All |-> Nothing]
    /\ read = [th \in All |-> Unread]
    /\ sent = 0
    /\ verdict = [f \in Frames |-> "none"]
    /\ applied = [f \in Frames |-> 0]
    /\ faults = 0

----------------------------------------------------------------------------
(* _send.                                                                   *)

\* The thread is through with what it was doing.
Rest(th) == at' = [at EXCEPT ![th] = "idle"]

\* What _send answers, kept for frames only.
Answered(th, value) ==
    verdict' = IF send[th].frame = NoFrame THEN verdict
               ELSE [verdict EXCEPT ![send[th].frame] = value]

Through(th, value) ==
    /\ Rest(th)
    /\ send' = [send EXCEPT ![th] = Nothing]
    /\ Answered(th, value)

\* The address and the token are read once, and every attempt uses them.
Envelope(e, a, t) == [e EXCEPT !.to = a, !.with = t, !.tries = 0, !.handled = FALSE]

Submit(th, e) ==
    /\ at' = [at EXCEPT ![th] = "wire"]
    /\ send' = [send EXCEPT ![th] = Envelope(e, addr, tok)]
    /\ UNCHANGED verdict

\* _register_once: read the portfile, store what it says, register.
Register(th, e) ==
    /\ addr' = portfile.port
    /\ tok' = portfile.token
    /\ registered' = FALSE
    /\ at' = [at EXCEPT ![th] = "wire"]
    /\ send' = [send EXCEPT ![th] = Envelope(
          [e EXCEPT !.method = "register", !.healToken = TRUE,
                    !.healUnknown = FALSE], portfile.port, portfile.token)]
    /\ UNCHANGED <<verdict, open>>

\* The worker takes an event from its mailbox (sink).
Deliver(th) ==
    /\ th # Beat
    /\ at[th] = "idle"
    /\ sent < MaxFrames
    /\ sent' = sent + 1
    /\ LET f == sent + 1
           e == [Nothing EXCEPT !.method = "frame", !.frame = f,
                                !.healToken = TRUE, !.healUnknown = TRUE]
       IN  IF addr = Unread \/ tok = Unread
             THEN verdict' = [verdict EXCEPT ![f] = "failed"] /\ UNCHANGED <<at, send>>
             ELSE Submit(th, e)
    /\ UNCHANGED <<serviceVars, cached, atBroker, read, faults>>

\* What the broker makes of an envelope (_dispatch, _handle): the token, then
\* the session, then whether this envelope was applied before.
Reply(b, e) ==
    IF e.with # token[b] THEN "unauthorized"
    ELSE IF e.method # "register" /\ b \notin known THEN "unknown"
    ELSE "ok"
NeverRepeated(e) == FALSE
Repeated(e) == e.handled

Handle(b, e) ==
    /\ known' = IF Reply(b, e) = "ok" THEN known \cup {b} ELSE known
    /\ onDisk' = (onDisk \/ Reply(b, e) = "ok")
    /\ applied' = IF Reply(b, e) = "ok" /\ e.frame # NoFrame
                     /\ e.method = "frame" /\ ~Repeated(e)
                  THEN [applied EXCEPT ![e.frame] = @ + 1] ELSE applied

\* One attempt on the wire that is answered.
RoundTrip(th) ==
    /\ at[th] = "wire"
    /\ send[th].to \in serving
    /\ Handle(send[th].to, send[th])
    /\ at' = [at EXCEPT ![th] = Reply(send[th].to, send[th])]
    /\ UNCHANGED <<serviceVars, cached, send, read, sent, verdict, faults>>

\* An attempt nobody answers: the next one with the same envelope, or the end
\* of all of them, after which the session no longer counts as registered.
Unanswered(th, heard) ==
    IF send[th].tries + 1 < SendAttempts
      THEN /\ send' = [send EXCEPT ![th].tries = @ + 1, ![th].handled = heard]
           /\ UNCHANGED <<at, verdict, cached>>
      ELSE /\ registered' = FALSE
           /\ Through(th, "failed")
           /\ UNCHANGED <<addr, tok, open>>

NobodyThere(th) ==
    /\ at[th] = "wire"
    /\ send[th].to \notin serving
    /\ Unanswered(th, send[th].handled)
    /\ UNCHANGED <<serviceVars, atBroker, read, sent, faults>>

\* The broker handles the envelope, and its answer is lost or too late.
AnswerLost(th) ==
    /\ at[th] = "wire"
    /\ send[th].to \in serving
    /\ Fault
    /\ Handle(send[th].to, send[th])
    /\ Unanswered(th, send[th].handled \/ Reply(send[th].to, send[th]) = "ok")
    /\ UNCHANGED <<serviceVars, read, sent>>

----------------------------------------------------------------------------
(* _apply_answer.                                                           *)

\* `ok`: done; a registration that was a heal sends its frame again.
ApplyOk(th) ==
    /\ at[th] = "ok"
    /\ registered' = (registered \/ send[th].method = "register")
    /\ IF send[th].resume # "none"
         THEN Submit(th, [send[th] EXCEPT !.method = send[th].resume, !.resume = "none",
                                        !.healToken = send[th].resumeHeal,
                                        !.healUnknown = FALSE])
         ELSE Through(th, "sent")
    /\ UNCHANGED <<serviceVars, addr, tok, open, atBroker, read, sent, faults>>

\* `unauthorized`: re-read the portfile if that heal is still armed.
ApplyUnauthorized(th) ==
    /\ at[th] = "unauthorized"
    /\ IF send[th].healToken
         THEN at' = [at EXCEPT ![th] = "refresh"] /\ UNCHANGED <<send, verdict>>
         ELSE Through(th, "refused")
    /\ UNCHANGED <<serviceVars, cached, atBroker, read, sent, faults>>

GivesUpUnknown(th) ==
    /\ at[th] = "unknown"
    /\ Through(th, "refused")
    /\ UNCHANGED <<serviceVars, cached, atBroker, read, sent, faults>>
\* `unknown_session`: register again, and send again if that worked.
ApplyUnknown(th) ==
    /\ at[th] = "unknown"
    /\ IF send[th].healUnknown /\ portfile # NoFile
         THEN Register(th, [send[th] EXCEPT !.resume = send[th].method,
                                            !.resumeHeal = send[th].healToken])
         ELSE /\ registered' = (registered /\ ~send[th].healUnknown)
              /\ Through(th, "refused")
              /\ UNCHANGED <<addr, tok, open>>
    /\ UNCHANGED <<serviceVars, atBroker, read, sent, faults>>

----------------------------------------------------------------------------
(* _refresh_token_now: the token and the address are two reads.             *)

\* The first read; without a token nothing else happens.
ReadToken(th) ==
    /\ at[th] = "refresh"
    /\ portfile # NoFile
    /\ read' = [read EXCEPT ![th] = portfile.token]
    /\ at' = [at EXCEPT ![th] = "store"]
    /\ UNCHANGED <<serviceVars, cached, atBroker, send, sent, verdict, faults>>

\* What follows a refresh: a healed envelope, or the tick's own work.
Resend(th) ==
    /\ at' = [at EXCEPT ![th] = "wire"]
    /\ send' = [send EXCEPT ![th] =
                    Envelope([@ EXCEPT !.healToken = FALSE], addr', tok')]
    /\ UNCHANGED verdict

Onward(th) ==
    /\ at' = [at EXCEPT ![th] = IF th = Beat THEN "beat" ELSE "idle"]
    /\ UNCHANGED <<send, verdict>>

Healing(th) == send[th].to # Unread

\* Nothing is sent again when nothing has changed: not even when another
\* thread of the session has just stored what this one read.
AfterRefresh(th, changed) ==
    \/ Healing(th) /\ changed /\ Resend(th)
    \/ Healing(th) /\ ~changed /\ Through(th, "refused")
    \/ ~Healing(th) /\ Onward(th)

\* The second read and the store, under the session's lock.
StoreToken(th) ==
    /\ at[th] = "store"
    /\ tok' = read[th]
    /\ addr' = IF portfile # NoFile THEN portfile.port ELSE addr
    /\ read' = [read EXCEPT ![th] = Unread]
    /\ AfterRefresh(th, tok' # tok \/ addr' # addr)
    /\ UNCHANGED <<serviceVars, registered, open, atBroker, sent, faults>>
NoToken(th) ==
    /\ at[th] = "refresh"
    /\ portfile = NoFile
    /\ IF Healing(th) THEN Through(th, "refused") ELSE Onward(th)
    /\ UNCHANGED <<serviceVars, cached, atBroker, read, sent, faults>>

----------------------------------------------------------------------------
(* The heartbeat thread and the listener.                                   *)

\* tick(): the refresh comes first, whatever the flag says.
Tick ==
    /\ open
    /\ at[Beat] = "idle"
    /\ at' = [at EXCEPT ![Beat] = "refresh"]
    /\ UNCHANGED <<serviceVars, cached, atBroker, send, read, sent, verdict, faults>>
\* ... then a registration, or a heartbeat.
Register_once ==
    /\ at[Beat] = "beat"
    /\ ~registered
    /\ IF portfile = NoFile
         THEN Rest(Beat) /\ UNCHANGED <<send, verdict, cached>>
         ELSE Register(Beat, Nothing)
    /\ UNCHANGED <<serviceVars, atBroker, read, sent, faults>>

Heartbeat ==
    /\ at[Beat] = "beat"
    /\ registered
    /\ Submit(Beat, [Nothing EXCEPT !.healToken = TRUE, !.healUnknown = TRUE])
    /\ UNCHANGED <<serviceVars, cached, atBroker, read, sent, faults>>

\* register_now: the next attempt of the same round.
TryAgain ==
    /\ at[Beat] = "idle"
    /\ ~registered
    /\ at' = [at EXCEPT ![Beat] = "beat"]
    /\ UNCHANGED <<serviceVars, cached, atBroker, send, read, sent, verdict, faults>>

\* A push of the broker with a token that is not ours is refused, and the
\* listener re-reads the portfile at once (AC-85c(b)).
Refuse ==
    /\ open
    /\ at[Inbound] = "idle"
    /\ \E b \in serving \cap known : token[b] # tok
    /\ at' = [at EXCEPT ![Inbound] = "refresh"]
    /\ UNCHANGED <<serviceVars, cached, atBroker, send, read, sent, verdict, faults>>

\* stop(): no further rounds; what is under way goes on.
Stop ==
    /\ open
    /\ open' = FALSE
    /\ UNCHANGED <<serviceVars, addr, tok, registered, atBroker, ofThreads, faults>>

----------------------------------------------------------------------------
(* The broker's side.                                                       *)

\* A new broker loads the register that is on disk.
Elected ==
    /\ Appear
    /\ known' = IF onDisk THEN known \cup {built + 1} ELSE known
    /\ UNCHANGED <<cached, onDisk, applied, ofThreads, faults>>

BrokerMoves ==
    /\ \E b \in Ports : Announce(b) \/ Wedge(b) \/ Vanish(b)
    /\ UNCHANGED <<cached, atBroker, ofThreads, faults>>

LoseFiles ==
    /\ Fault
    /\ \/ FileLost /\ UNCHANGED onDisk
       \/ onDisk /\ onDisk' = FALSE /\ UNCHANGED serviceVars
    /\ UNCHANGED <<cached, known, applied, ofThreads>>

----------------------------------------------------------------------------
ThreadStep(th) ==
    \/ RoundTrip(th) \/ NobodyThere(th)
    \/ ApplyOk(th) \/ ApplyUnauthorized(th) \/ ApplyUnknown(th)
    \/ ReadToken(th) \/ StoreToken(th) \/ NoToken(th)

BeatStep == Tick \/ Register_once \/ Heartbeat

LinkNext ==
    \/ \E th \in All : ThreadStep(th)
    \/ \E th \in Senders : Deliver(th) \/ AnswerLost(th)
    \/ BeatStep \/ TryAgain \/ Refuse \/ Stop
    \/ Elected \/ BrokerMoves \/ LoseFiles

LinkSpec == LinkInit /\ [][LinkNext]_linkVars

\* The threads of a session run, and its heartbeat timer fires.
LinkFairSpec ==
    /\ LinkSpec
    /\ \A th \in All : WF_linkVars(ThreadStep(th))
    /\ WF_linkVars(BeatStep)

Steps == {"idle", "wire", "ok", "unauthorized", "unknown", "refresh", "store", "beat"}

LinkTypeOK ==
    /\ addr \in Ports \cup {Unread} /\ tok \in Ports \cup {Unread}
    /\ registered \in BOOLEAN /\ open \in BOOLEAN
    /\ known \subseteq 1..built /\ onDisk \in BOOLEAN
    /\ at \in [All -> Steps]
    /\ \A th \in All :
          /\ send[th].method \in Methods
          /\ send[th].resume \in Methods \cup {"none"}
          /\ send[th].frame \in Frames \cup {NoFrame}
          /\ send[th].tries \in 0..(SendAttempts - 1)
          /\ at[th] \in {"wire", "ok", "unauthorized", "unknown"} => send[th].to \in Ports
    /\ read \in [All -> Ports \cup {Unread}]
    /\ sent \in 0..MaxFrames
    /\ verdict \in [Frames -> {"none", "sent", "failed", "refused"}]
    /\ applied \in [Frames -> Nat]
    /\ faults \in 0..MaxFaults

----------------------------------------------------------------------------
(* A frame is applied at most once, over every broker: the transport's      *)
(* attempts carry one identity, and both heals send a new envelope only     *)
(* after a refusal, which applied nothing (broker_registry.py:329-331).     *)
AppliedOnce == \A f \in Frames : applied[f] <= 1

(* What the session is told was delivered has been applied: `True` from     *)
(* submit_gate arms the remote answer, through retries and heals alike.     *)
SentIsApplied == \A f \in Frames : verdict[f] = "sent" => applied[f] = 1

\* No frame twice, no false receipt, and every thread at a step of its own.
LinkSafe == LinkTypeOK /\ AppliedOnce /\ SentIsApplied

\* The session knows the broker everybody finds, and that broker knows it.
Joined ==
    /\ registered
    /\ portfile # NoFile
    /\ addr = portfile.port
    /\ tok = portfile.token
    /\ addr \in known

(* Once one broker stays findable, a session that stays open ends up joined *)
(* to it for good: whatever its threads had cached, half read or in flight  *)
(* while brokers came and went, tokens rotated and files were lost.         *)
SessionJoins == <>[](Findable /\ open) => <>[]Joined
=============================================================================
