---------------------------- MODULE GateRoundTrip ----------------------------
(***************************************************************************)
(* A gate's way to Discord and a click's way back (cp_discord/client.py,   *)
(* broker_server.py, broker_registry.py, broker_gateway.py, broker_gates.py*)
(* broker_threads.py, client_inbound.py).                                  *)
(*                                                                         *)
(* The session sends each frame up to SendAttempts times under one         *)
(* env_id; the broker's accept loop handles one frame at a time and queues *)
(* the Discord work; the gateway's pump posts the gate and edits it when   *)
(* it is decided.  A press of its buttons claims the gate on the board and *)
(* is pushed to the session's listener, which decides.  On the loopback a  *)
(* frame that was sent is handled, but perhaps after its sender gave up.   *)
(***************************************************************************)
EXTENDS Naturals, Sequences, FiniteSets

CONSTANTS
  Gates,           \* the gates of one session
  Presses,         \* the presses of buttons
  Nobody,          \* no winner yet
  Terminal,        \* the winner at the machine
  SendAttempts,    \* client.py: attempts of one envelope
  PushAttempts,    \* broker_gates.py: attempts of one delivery
  EnvelopeMemory,  \* broker_registry.py: the env_ids remembered
  SlowKinds,       \* the frames whose sender may run into its timeout
  LastSendFails,   \* whether a send's last attempt may time out as well
  SendOutcomes,    \* what thread.send may do: "sent", "refused" or "unsure"
  EditOutcomes,    \* whether an edit reaches the message
  MayBeStale       \* whether the listener may hold a rotated token's elder

Kinds   == {"open", "expired", "decided"}
Answers == {"yes", "no"}

ASSUME GatesAssumption ==
  /\ Nobody \notin Presses /\ Terminal \notin Presses /\ Nobody # Terminal
  /\ SendAttempts \in Nat \ {0} /\ PushAttempts \in Nat \ {0}
  /\ EnvelopeMemory \in Nat \ {0}
  /\ SlowKinds \subseteq {"open", "expired", "decided"}
  /\ LastSendFails \in BOOLEAN
  /\ SendOutcomes \subseteq {"sent", "refused", "unsure"}
  /\ EditOutcomes \subseteq BOOLEAN
  /\ MayBeStale \in BOOLEAN

VARIABLES
  phase,    \* each gate in the session: "new", "asking", "waiting", "over"
  alive,    \* Gate.discord_alive
  ruling,   \* Gate.resolution: "open", "yes" or "no"
  winner,   \* who decided it: Nobody, Terminal or the press
  telling,  \* outcomes about to be told to the channel: <<gate, kind>>
  tries,    \* attempts made of each envelope
  sending,  \* the envelopes whose sender still waits for an answer
  wire,     \* attempts at the broker's socket, oldest first
  seen,     \* SessionRegistry._envelopes: the env_ids applied, oldest first
  queue,    \* DiscordGateway._queue
  job,      \* the job the pump is in
  board,    \* GateBoard: "absent", "free" or "claimed"
  posted,   \* Discord: the messages ever posted for a gate
  live,     \* Discord: those of them whose buttons can still be pressed
  press,    \* each press of a button
  inbox,    \* pushes at the session's listener, oldest first
  stale     \* the listener holds a token the broker no longer uses

gateVars  == <<phase, alive, ruling, winner, telling>>
sendVars  == <<tries, sending, wire>>
pumpVars  == <<queue, job>>
worldVars == <<posted, live>>
clickVars == <<press, inbox, stale>>
vars == <<gateVars, sendVars, seen, pumpVars, board, worldVars, clickVars>>

-----------------------------------------------------------------------------
(* States and helpers.                                                     *)

Envelopes == Gates \X Kinds
NoJob   == [kind |-> "none", gate |-> Nobody]
NoPress == [pc |-> "none", gate |-> Nobody, decision |-> "none",
            approver |-> FALSE, tries |-> 0, told |-> "nothing"]

Init ==
  /\ phase = [g \in Gates |-> "new"]
  /\ alive = [g \in Gates |-> TRUE]
  /\ ruling = [g \in Gates |-> "open"]
  /\ winner = [g \in Gates |-> Nobody]
  /\ telling = {}
  /\ tries = [e \in Envelopes |-> 0]
  /\ sending = {}
  /\ wire = <<>>
  /\ seen = <<>>
  /\ queue = <<>>
  /\ job = NoJob
  /\ board = [g \in Gates |-> "absent"]
  /\ posted = [g \in Gates |-> 0]
  /\ live = [g \in Gates |-> 0]
  /\ press = [p \in Presses |-> NoPress]
  /\ inbox = <<>>
  /\ stale \in {FALSE, MayBeStale}

Attempt(e) == [gate |-> e[1], kind |-> e[2], try |-> tries'[e]]

\* _send(): the first attempt, or the next one after a timeout.
Send(e) ==
  /\ tries' = [tries EXCEPT ![e] = @ + 1]
  /\ wire' = Append(wire, Attempt(e))

-----------------------------------------------------------------------------
(* The session: its approvals and its client.                              *)

\* _start_discord_branch() blocks in submit_gate().
Submit(g) ==
  /\ phase[g] = "new"
  /\ phase' = [phase EXCEPT ![g] = "asking"]
  /\ Send(<<g, "open">>)
  /\ sending' = sending \cup {<<g, "open">>}
  /\ UNCHANGED <<alive, ruling, winner, telling, seen, pumpVars, board>>
  /\ UNCHANGED <<worldVars, clickVars>>

TerminalAnswers(g) ==
  /\ phase[g] = "waiting" /\ ruling[g] = "open"
  /\ \E a \in Answers : ruling' = [ruling EXCEPT ![g] = a]
  /\ winner' = [winner EXCEPT ![g] = Terminal]
  /\ telling' = IF alive[g] THEN telling \cup {<<g, "decided">>} ELSE telling
  /\ UNCHANGED <<phase, alive, sendVars, seen, pumpVars, board>>
  /\ UNCHANGED <<worldVars, clickVars>>

\* The deadline of an unattended gate ends its Discord branch.
Expire(g) ==
  /\ phase[g] = "waiting" /\ ruling[g] = "open" /\ alive[g]
  /\ alive' = [alive EXCEPT ![g] = FALSE]
  /\ telling' = telling \cup {<<g, "expired">>}
  /\ UNCHANGED <<phase, ruling, winner, sendVars, seen, pumpVars, board>>
  /\ UNCHANGED <<worldVars, clickVars>>

\* Both branches ended without an answer: the gate is dropped.
GiveUp(g) ==
  /\ phase[g] = "waiting" /\ ruling[g] = "open" /\ ~alive[g]
  /\ phase' = [phase EXCEPT ![g] = "over"]
  /\ UNCHANGED <<alive, ruling, winner, telling, sendVars, seen, pumpVars>>
  /\ UNCHANGED <<board, worldVars, clickVars>>

Tell(e) ==
  /\ e \in telling
  /\ telling' = telling \ {e}
  /\ Send(e)
  /\ sending' = sending \cup {e}
  /\ UNCHANGED <<phase, alive, ruling, winner, seen, pumpVars, board>>
  /\ UNCHANGED <<worldVars, clickVars>>

\* submit_gate() returns, and with it whether the phone can answer.
Submitted(e, delivered) ==
  IF e[2] = "open"
  THEN /\ phase' = [phase EXCEPT ![e[1]] = "waiting"]
       /\ alive' = [alive EXCEPT ![e[1]] = delivered]
  ELSE UNCHANGED <<phase, alive>>

\* No answer in time, though the frame may still be handled.
Resend(e) ==
  /\ e \in sending /\ e[2] \in SlowKinds /\ tries[e] < SendAttempts
  /\ Send(e)
  /\ UNCHANGED <<gateVars, sending, seen, pumpVars, board>>
  /\ UNCHANGED <<worldVars, clickVars>>

SendFails(e) ==
  /\ LastSendFails
  /\ e \in sending /\ e[2] \in SlowKinds /\ tries[e] = SendAttempts
  /\ sending' = sending \ {e}
  /\ Submitted(e, FALSE)
  /\ UNCHANGED <<ruling, winner, telling, tries, wire, seen, pumpVars, board>>
  /\ UNCHANGED <<worldVars, clickVars>>

-----------------------------------------------------------------------------
(* The broker's accept loop.                                               *)

AcceptAll(e) == TRUE  \* mutant
\* accept_envelope(): an env_id is applied once, as far as memory reaches.
AcceptEnvelope(e) == \A i \in 1 .. Len(seen) : seen[i] # e

RememberEnvelope(e) ==
  seen' = IF Len(seen) < EnvelopeMemory THEN Append(seen, e)
                                        ELSE Append(Tail(seen), e)

Schedule(k, g) ==
  queue' = Append(queue, [kind |-> IF k = "open" THEN "post" ELSE "finish",
                          gate |-> g])

\* One frame: handle_gate() if it is new, and an ack in any case, which
\* reaches the sender if it still waits for this attempt.
HandleFrame ==
  /\ wire # <<>>
  /\ LET f == Head(wire)
         e == <<f.gate, f.kind>>
         heard == e \in sending /\ tries[e] = f.try
     IN  /\ IF AcceptEnvelope(e)
            THEN RememberEnvelope(e) /\ Schedule(f.kind, f.gate)
            ELSE UNCHANGED <<seen, queue>>
         /\ IF heard
            THEN sending' = sending \ {e} /\ Submitted(e, TRUE)
            ELSE UNCHANGED <<sending, phase, alive>>
  /\ wire' = Tail(wire)
  /\ UNCHANGED <<ruling, winner, telling, tries, job, board>>
  /\ UNCHANGED <<worldVars, clickVars>>

-----------------------------------------------------------------------------
(* The gateway's pump.                                                     *)

\* post_gate(): a gate that has its widget is not posted again.
PostBegin ==
  /\ job = NoJob /\ queue # <<>> /\ Head(queue).kind = "post"
  /\ queue' = Tail(queue)
  /\ job' = IF board[Head(queue).gate] = "absent" THEN Head(queue) ELSE NoJob
  /\ UNCHANGED <<gateVars, sendVars, seen, board, worldVars, clickVars>>

\* thread.send(): the message is there before its answer is, if it is at all
\* ("refused" stands for a session without a thread as well).
MessagePosted ==
  /\ job.kind = "post"
  /\ \E outcome \in SendOutcomes :
       IF outcome = "refused"
       THEN UNCHANGED worldVars /\ job' = NoJob
       ELSE /\ posted' = [posted EXCEPT ![job.gate] = @ + 1]
            /\ live' = [live EXCEPT ![job.gate] = @ + 1]
            /\ job' = IF outcome = "sent" THEN [job EXCEPT !.kind = "sent"]
                                          ELSE NoJob
  /\ UNCHANGED <<gateVars, sendVars, seen, queue, board, clickVars>>

Remember ==
  /\ job.kind = "sent"
  /\ board' = [board EXCEPT ![job.gate] = "free"]
  /\ job' = NoJob
  /\ UNCHANGED <<gateVars, sendVars, seen, queue, worldVars, clickVars>>

\* finish_gate(): off the board, buttons disabled, then the edit; without a
\* message on the board the outcome is an ordinary post.
FinishBegin ==
  /\ job = NoJob /\ queue # <<>> /\ Head(queue).kind = "finish"
  /\ queue' = Tail(queue)
  /\ LET g == Head(queue).gate
     IN  IF board[g] = "absent"
         THEN UNCHANGED <<job, board>>
         ELSE job' = Head(queue) /\ board' = [board EXCEPT ![g] = "absent"]
  /\ UNCHANGED <<gateVars, sendVars, seen, worldVars, clickVars>>

MessageEdited ==
  /\ job.kind = "finish"
  /\ \E done \in EditOutcomes :
       live' = IF done THEN [live EXCEPT ![job.gate] = @ - 1] ELSE live
  /\ job' = NoJob
  /\ UNCHANGED <<gateVars, sendVars, seen, queue, board, posted, clickVars>>

-----------------------------------------------------------------------------
(* A press and its delivery.                                               *)

\* on_click() acknowledges the interaction first; the gate may change while
\* it does.
Press(p, g) ==
  /\ press[p].pc = "none"
  /\ live[g] > 0
  /\ \E a \in Answers, approver \in BOOLEAN :
       press' = [press EXCEPT ![p] =
                   [NoPress EXCEPT !.pc = "pressed", !.gate = g,
                                   !.decision = a, !.approver = approver]]
  /\ UNCHANGED <<gateVars, sendVars, seen, pumpVars, board, worldVars>>
  /\ UNCHANGED <<inbox, stale>>

Told(p, what) ==
  press' = [press EXCEPT ![p] = [@ EXCEPT !.pc = "told", !.told = what]]

Push(p) ==
  LET n == press[p].tries + 1
  IN  /\ press' = [press EXCEPT ![p] =
                     [@ EXCEPT !.pc = "pushing", !.tries = n]]
      /\ inbox' = Append(inbox, [press |-> p, try |-> n])

Claimable(g) == board[g] = "free"

DropOnClaim(g) == board' = [board EXCEPT ![g] = "absent"]  \* mutant
\* A claimed gate stays on the board: its close still has to find it.
TakeClaim(g) == board' = [board EXCEPT ![g] = "claimed"]

ClaimPress(p) ==
  /\ press[p].pc = "pressed"
  /\ LET g == press[p].gate
     IN  IF Claimable(g)
         THEN TakeClaim(g) /\ Push(p)
         ELSE Told(p, "already") /\ UNCHANGED <<board, inbox>>
  /\ UNCHANGED <<gateVars, sendVars, seen, pumpVars, worldVars, stale>>

KeepClaim(g) == board' = board  \* mutant
\* GateBoard.release(): only what is on the board can be given back.
ReleaseClaim(g) ==
  board' = IF board[g] = "claimed" THEN [board EXCEPT ![g] = "free"] ELSE board

\* Silence is not retried, and the claim is given back.
PushTimeout(p) ==
  /\ press[p].pc = "pushing"
  /\ ReleaseClaim(press[p].gate)
  /\ Told(p, "undelivered")
  /\ UNCHANGED <<gateVars, sendVars, seen, pumpVars, worldVars, inbox, stale>>

\* A refused frame is sent again; after the last one the clicker is told.
PushAgain(p) ==
  /\ press[p].pc = "refused" /\ press[p].tries < PushAttempts
  /\ Push(p)
  /\ UNCHANGED <<gateVars, sendVars, seen, pumpVars, board, worldVars, stale>>

PushGivesUp(p) ==
  /\ press[p].pc = "refused" /\ press[p].tries = PushAttempts
  /\ ReleaseClaim(press[p].gate)
  /\ Told(p, "undelivered")
  /\ UNCHANGED <<gateVars, sendVars, seen, pumpVars, worldVars, inbox, stale>>

StillOpen(g) == ruling[g] = "open" /\ phase[g] # "over"

Heard(r) == press[r.press].pc = "pushing" /\ press[r.press].tries = r.try

\* The wrong token: refused, and the portfile is read again, which helps
\* once the broker has written it.
RefuseToken ==
  /\ inbox # <<>> /\ stale
  /\ LET r == Head(inbox)
     IN  press' = IF Heard(r)
                  THEN [press EXCEPT ![r.press] = [@ EXCEPT !.pc = "refused"]]
                  ELSE press
  /\ inbox' = Tail(inbox)
  /\ stale' \in BOOLEAN
  /\ UNCHANGED <<gateVars, sendVars, seen, pumpVars, board, worldVars>>

AcksRefusals(p, what) == Told(p, "taken") /\ ReleaseClaim(press[p].gate)  \* mutant
\* What the listener says reaches the clicker; a refusal frees the claim.
Answered(p, what) ==
  /\ Told(p, what)
  /\ IF what = "taken" THEN UNCHANGED board ELSE ReleaseClaim(press[p].gate)

\* on_gate_resolved(): the first answer of an approver decides.  The answer
\* is lost on a sender that gave up.
Resolve ==
  /\ inbox # <<>> /\ ~stale
  /\ LET r == Head(inbox)
         p == r.press
         g == press[p].gate
         wins == StillOpen(g) /\ press[p].approver
     IN  /\ IF wins
            THEN /\ ruling' = [ruling EXCEPT ![g] = press[p].decision]
                 /\ winner' = [winner EXCEPT ![g] = p]
                 /\ telling' = telling \cup {<<g, "decided">>}
            ELSE UNCHANGED <<ruling, winner, telling>>
         /\ IF Heard(r)
            THEN Answered(p, IF wins THEN "taken"
                             ELSE IF StillOpen(g) THEN "mayNot" ELSE "already")
            ELSE UNCHANGED <<press, board>>
  /\ inbox' = Tail(inbox)
  /\ UNCHANGED <<phase, alive, sendVars, seen, pumpVars, worldVars, stale>>
-----------------------------------------------------------------------------
SessionStep == \/ \E g \in Gates : GiveUp(g)
               \/ \E e \in Envelopes : Tell(e) \/ Resend(e) \/ SendFails(e)
PumpStep == PostBegin \/ MessagePosted \/ Remember \/ FinishBegin
              \/ MessageEdited
ListenerStep == RefuseToken \/ Resolve
Clicker(p) == ClaimPress(p) \/ PushAgain(p) \/ PushGivesUp(p)

Next == \/ \E g \in Gates : Submit(g) \/ TerminalAnswers(g) \/ Expire(g)
        \/ SessionStep \/ HandleFrame \/ PumpStep \/ ListenerStep
        \/ \E p \in Presses : Clicker(p) \/ PushTimeout(p)
        \/ \E p \in Presses, g \in Gates : Press(p, g)

Spec == Init /\ [][Next]_vars

\* Threads and tasks run; nobody has to press, answer or time out.
Fairness ==
  /\ \A g \in Gates : WF_vars(GiveUp(g))
  /\ \A e \in Envelopes : WF_vars(Tell(e))
  /\ WF_vars(HandleFrame) /\ WF_vars(PumpStep) /\ WF_vars(ListenerStep)
  /\ \A p \in Presses : WF_vars(Clicker(p))

FairSpec == Spec /\ Fairness

-----------------------------------------------------------------------------
(* Properties.                                                             *)

GateTypes ==
  /\ phase \in [Gates -> {"new", "asking", "waiting", "over"}]
  /\ alive \in [Gates -> BOOLEAN]
  /\ ruling \in [Gates -> {"open"} \cup Answers]
  /\ winner \in [Gates -> {Nobody, Terminal} \cup Presses]
  /\ telling \subseteq Envelopes
SendTypes ==
  /\ tries \in [Envelopes -> 0 .. SendAttempts]
  /\ sending \subseteq Envelopes
  /\ wire \in Seq([gate : Gates, kind : Kinds, try : 1 .. SendAttempts])
  /\ seen \in Seq(Envelopes) /\ Len(seen) <= EnvelopeMemory
PumpTypes ==
  /\ queue \in Seq([kind : {"post", "finish"}, gate : Gates])
  /\ job \in [kind : {"post", "sent", "finish"}, gate : Gates] \cup {NoJob}
  /\ board \in [Gates -> {"absent", "free", "claimed"}]
  /\ posted \in [Gates -> Nat]
  /\ live \in [Gates -> Nat]
Pushed == [press : Presses, try : 1 .. PushAttempts]
ClickTypes ==
  /\ press \in [Presses ->
       [pc : {"none", "pressed", "pushing", "refused", "told"},
        gate : Gates \cup {Nobody}, decision : {"none"} \cup Answers,
        approver : BOOLEAN, tries : 0 .. PushAttempts,
        told : {"nothing", "taken", "already", "mayNot", "undelivered"}]]
  /\ \A p \in Presses : press[p].pc # "none" => /\ press[p].gate \in Gates
                                                /\ press[p].decision \in Answers
  /\ inbox \in Seq(Pushed)
  /\ \A i \in 1 .. Len(inbox) : press[inbox[i].press].pc # "none"
  /\ stale \in BOOLEAN

\* Every variable of the session, the broker, Discord and the clicks stays
\* in its type.
TypeOK == GateTypes /\ SendTypes /\ PumpTypes /\ ClickTypes

InDelivery(g) ==
  {p \in Presses : press[p].gate = g /\ press[p].pc \in {"pushing", "refused"}}

\* A gate on the board is claimed only while a press of it is being
\* delivered or once the session has decided: no outsider, no silence and no
\* refusal consumes somebody else's approval (AC-74).
ClaimIsBacked ==
  \A g \in Gates :
    board[g] = "claimed" =>
      InDelivery(g) # {} \/ \E p \in Presses : winner[g] = p

\* Who is told nothing but "taken" decided the gate, with that answer.
TakenIsRuling ==
  \A p \in Presses :
    press[p].told = "taken" => /\ winner[press[p].gate] = p
                               /\ ruling[press[p].gate] = press[p].decision

\* A gate is posted once, however many copies of its frame arrive and
\* whatever was decided in between (AC-8).
PostedOnce == \A g \in Gates : posted[g] <= 1

\* Once the channel was told how a gate ended, its buttons die for good,
\* whatever copies of its frames are still on their way (AC-37, AC-39).
NoOrphanButtons ==
  \A g \in Gates :
    (\E k \in Kinds \ {"open"} : tries[<<g, k>>] > 0) ~> [](live[g] = 0)
=============================================================================
