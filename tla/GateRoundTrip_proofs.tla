------------------------ MODULE GateRoundTrip_proofs ------------------------
(***************************************************************************)
(* Theorems of the gate's round trip, for any gates, presses, numbers of   *)
(* attempts and memory of envelopes, and whatever Discord does.            *)
(***************************************************************************)
EXTENDS GateRoundTrip, SequenceTheorems, FiniteSetTheorems, TLAPS

USE GatesAssumption

-----------------------------------------------------------------------------
(* The invariant.                                                          *)

\* Each envelope is sent by one sender: before that it has no attempt.
OneSender ==
  /\ \A e \in telling : e[2] # "open" /\ tries[e] = 0
  /\ \A g \in Gates :
       /\ phase[g] = "new" => tries[<<g, "open">>] = 0
       /\ phase[g] \in {"waiting", "over"} => <<g, "open">> \notin sending
       /\ (phase[g] \in {"new", "asking"} \/ alive[g]) =>
            tries[<<g, "expired">>] = 0 /\ <<g, "expired">> \notin telling
       /\ ruling[g] = "open" =>
            tries[<<g, "decided">>] = 0 /\ <<g, "decided">> \notin telling
  /\ \A e \in sending : tries[e] > 0

\* What is on the board, or on its way there or off it, has its buttons.
BoardHasButtons ==
  /\ \A g \in Gates : board[g] # "absent" => live[g] > 0
  /\ job.kind \in {"post", "sent", "finish"} => board[job.gate] = "absent"
  /\ job.kind \in {"sent", "finish"} => live[job.gate] > 0

\* A press is told something when it is over, and only then.
PressInOrder ==
  \A p \in Presses : /\ press[p].pc # "told" => press[p].told = "nothing"
                     /\ press[p].pc = "pressed" => press[p].tries = 0

WinnerIsRuling == \A g \in Gates : ruling[g] = "open" <=> winner[g] = Nobody

Sound == /\ TypeOK /\ OneSender /\ BoardHasButtons /\ PressInOrder
         /\ WinnerIsRuling /\ ClaimIsBacked /\ TakenIsRuling

-----------------------------------------------------------------------------
(* Frames: what a step leaves alone stays as it was.                       *)

LEMMA GateFrame == GateTypes /\ UNCHANGED gateVars => GateTypes'
  BY DEF GateTypes, gateVars
LEMMA SendFrame == SendTypes /\ UNCHANGED <<sendVars, seen>> => SendTypes'
  BY DEF SendTypes, sendVars
LEMMA PumpFrame ==
  PumpTypes /\ UNCHANGED <<pumpVars, board, worldVars>> => PumpTypes'
  BY DEF PumpTypes, pumpVars, worldVars
LEMMA ClickFrame == ClickTypes /\ UNCHANGED clickVars => ClickTypes'
  BY DEF ClickTypes, clickVars
LEMMA SenderFrame ==
  OneSender /\ UNCHANGED <<gateVars, tries, sending>> => OneSender'
  BY DEF OneSender, gateVars
LEMMA ButtonsFrame ==
  BoardHasButtons /\ UNCHANGED <<job, board, live>> => BoardHasButtons'
  BY DEF BoardHasButtons
LEMMA PressFrame == PressInOrder /\ UNCHANGED press => PressInOrder'
  BY DEF PressInOrder
LEMMA WinnerFrame ==
  WinnerIsRuling /\ UNCHANGED <<ruling, winner>> => WinnerIsRuling'
  BY DEF WinnerIsRuling
LEMMA ClaimFrame ==
  ClaimIsBacked /\ UNCHANGED <<board, press, winner>> => ClaimIsBacked'
  BY DEF ClaimIsBacked, InDelivery
LEMMA TakenFrame ==
  TakenIsRuling /\ UNCHANGED <<press, ruling, winner>> => TakenIsRuling'
  BY DEF TakenIsRuling

-----------------------------------------------------------------------------
(* Steps that several actions share.                                       *)

LEMMA EnvelopeOf ==
  ASSUME NEW g \in Gates, NEW k \in Kinds
  PROVE  <<g, k>> \in Envelopes /\ <<g, k>>[1] = g /\ <<g, k>>[2] = k
  BY DEF Envelopes

LEMMA EnvelopeIs ==
  ASSUME NEW e \in Envelopes
  PROVE  e[1] \in Gates /\ e[2] \in Kinds /\ e = <<e[1], e[2]>>
  BY DEF Envelopes

LEMMA SendTyped ==
  ASSUME SendTypes, NEW e \in Envelopes, tries[e] < SendAttempts, Send(e)
  PROVE  /\ tries' \in [Envelopes -> 0 .. SendAttempts]
         /\ tries' = [tries EXCEPT ![e] = tries[e] + 1]
         /\ wire' \in Seq([gate : Gates, kind : Kinds, try : 1 .. SendAttempts])
<1>1. tries[e] \in 0 .. SendAttempts
  BY DEF SendTypes
<1>2. tries' = [tries EXCEPT ![e] = tries[e] + 1]
  BY DEF Send, SendTypes
<1>3. tries' \in [Envelopes -> 0 .. SendAttempts] /\ tries'[e] \in 1 .. SendAttempts
  BY <1>1, <1>2 DEF SendTypes
<1>4. Attempt(e) \in [gate : Gates, kind : Kinds, try : 1 .. SendAttempts]
  BY <1>3, EnvelopeIs DEF Attempt
<1> QED
  BY <1>2, <1>3, <1>4, AppendProperties DEF Send, SendTypes

LEMMA WireHead ==
  ASSUME SendTypes, wire # <<>>
  PROVE  /\ Head(wire) \in [gate : Gates, kind : Kinds, try : 1 .. SendAttempts]
         /\ Tail(wire) \in Seq([gate : Gates, kind : Kinds, try : 1 .. SendAttempts])
  BY HeadTailProperties DEF SendTypes

LEMMA QueueHead ==
  ASSUME PumpTypes, queue # <<>>
  PROVE  /\ Head(queue) \in [kind : {"post", "finish"}, gate : Gates]
         /\ Tail(queue) \in Seq([kind : {"post", "finish"}, gate : Gates])
  BY HeadTailProperties DEF PumpTypes

LEMMA InboxHead ==
  ASSUME ClickTypes, inbox # <<>>
  PROVE  /\ Head(inbox) \in Pushed /\ Tail(inbox) \in Seq(Pushed)
         /\ press[Head(inbox).press].pc # "none"
         /\ \A i \in 1 .. Len(Tail(inbox)) : press[Tail(inbox)[i].press].pc # "none"
<1>1. /\ Head(inbox) \in Pushed /\ Tail(inbox) \in Seq(Pushed)
      /\ Head(inbox) = inbox[1] /\ Len(inbox) \in Nat /\ Len(inbox) > 0
      /\ Len(Tail(inbox)) = Len(inbox) - 1
      /\ \A i \in 1 .. Len(Tail(inbox)) : Tail(inbox)[i] = inbox[i + 1]
  BY HeadTailProperties, LenProperties DEF ClickTypes
<1>2. press[Head(inbox).press].pc # "none"
  BY <1>1 DEF ClickTypes
<1>3. ASSUME NEW i \in 1 .. Len(Tail(inbox))
      PROVE  press[Tail(inbox)[i].press].pc # "none"
  <2>1. i + 1 \in 1 .. Len(inbox)
    BY <1>1
  <2> QED
    BY <1>1, <2>1 DEF ClickTypes
<1> QED
  BY <1>1, <1>2, <1>3

LEMMA PushedItems ==
  ASSUME NEW q \in Seq(Pushed)
  PROVE  \A i \in 1 .. Len(q) : q[i] \in Pushed /\ q[i].press \in Presses
<1>1. \A i \in 1 .. Len(q) : q[i] \in Pushed
  BY ElementOfSeq
<1> QED
  BY <1>1 DEF Pushed

PressType ==
  [pc : {"none", "pressed", "pushing", "refused", "told"},
   gate : Gates \cup {Nobody}, decision : {"none"} \cup Answers,
   approver : BOOLEAN, tries : 0 .. PushAttempts,
   told : {"nothing", "taken", "already", "mayNot", "undelivered"}]

LEMMA PushedAgain ==
  ASSUME NEW r \in PressType, r.tries < PushAttempts
  PROVE  [r EXCEPT !.pc = "pushing", !.tries = r.tries + 1] \in PressType
<1>1. r.tries + 1 \in 0 .. PushAttempts
  BY DEF PressType
<1>2. ASSUME NEW n \in 0 .. PushAttempts
      PROVE  [r EXCEPT !.pc = "pushing", !.tries = n] \in PressType
  BY DEF PressType
<1> QED
  BY <1>1, <1>2

\* A press that goes on keeps its gate and its decision, and its inbox.
LEMMA PressGoesOn ==
  ASSUME ClickTypes, NEW p \in Presses, NEW r \in PressType,
         r.pc # "none", r.gate \in Gates, r.decision \in Answers,
         press' = [press EXCEPT ![p] = r], inbox' = inbox, stale' \in BOOLEAN
  PROVE  ClickTypes'
<1>1. press' \in [Presses -> PressType]
  BY DEF ClickTypes, PressType
<1>2. \A q \in Presses : press'[q] = IF q = p THEN r ELSE press[q]
  BY DEF ClickTypes
<1>3. \A q \in Presses : press'[q].pc # "none" =>
        press'[q].gate \in Gates /\ press'[q].decision \in Answers
  BY <1>2 DEF ClickTypes
<1>4. \A i \in 1 .. Len(inbox) : inbox[i].press \in Presses
  BY PushedItems DEF ClickTypes
<1>5. \A i \in 1 .. Len(inbox') : press'[inbox'[i].press].pc # "none"
  BY <1>2, <1>4 DEF ClickTypes
<1> QED
  BY <1>1, <1>3, <1>5 DEF ClickTypes, PressType

LEMMA PressShrinks ==
  ASSUME ClickTypes, NEW p \in Presses, NEW r \in PressType, inbox # <<>>,
         r.pc # "none", r.gate \in Gates, r.decision \in Answers,
         press' = [press EXCEPT ![p] = r] \/ press' = press,
         inbox' = Tail(inbox), stale' \in BOOLEAN
  PROVE  ClickTypes'
<1>1. press' \in [Presses -> PressType]
  BY DEF ClickTypes, PressType
<1>2. \A q \in Presses : press'[q] = press[q] \/ (q = p /\ press'[q] = r)
  BY DEF ClickTypes
<1>3. \A q \in Presses : press'[q].pc # "none" =>
        press'[q].gate \in Gates /\ press'[q].decision \in Answers
  BY <1>2 DEF ClickTypes
<1>4. \A i \in 1 .. Len(Tail(inbox)) : Tail(inbox)[i].press \in Presses
  BY InboxHead, PushedItems
<1>5. \A i \in 1 .. Len(inbox') : press'[inbox'[i].press].pc # "none"
  BY <1>2, <1>4, InboxHead
<1> QED
  BY <1>1, <1>3, <1>5, InboxHead DEF ClickTypes, PressType

LEMMA PressIs ==
  ASSUME ClickTypes, NEW p \in Presses
  PROVE  /\ press[p] \in PressType
         /\ press[p].pc # "none" => /\ press[p].gate \in Gates
                                    /\ press[p].decision \in Answers
  BY DEF ClickTypes, PressType

LEMMA ReleaseTyped ==
  ASSUME PumpTypes, BoardHasButtons, NEW g \in Gates, ReleaseClaim(g),
         UNCHANGED <<pumpVars, worldVars>>
  PROVE  /\ PumpTypes' /\ BoardHasButtons'
         /\ board'[g] # "claimed"
         /\ \A h \in Gates : board'[h] = "claimed" => board[h] = "claimed" /\ h # g
<1>1. board' \in [Gates -> {"absent", "free", "claimed"}]
  BY DEF ReleaseClaim, PumpTypes
<1>2. \A h \in Gates : board'[h] = "absent" <=> board[h] = "absent"
  BY DEF ReleaseClaim, PumpTypes
<1>3. PumpTypes'
  BY <1>1 DEF PumpTypes, pumpVars, worldVars
<1>4. BoardHasButtons'
  <2>1. job.kind \in {"post", "sent", "finish"} => job.gate \in Gates
    BY DEF PumpTypes, NoJob
  <2> QED
    BY <1>2, <2>1 DEF BoardHasButtons, pumpVars, worldVars
<1> QED
  BY <1>3, <1>4 DEF ReleaseClaim, PumpTypes

LEMMA PushTyped ==
  ASSUME ClickTypes, NEW p \in Presses, Push(p), UNCHANGED stale,
         press[p].pc # "none", press[p].tries < PushAttempts
  PROVE  /\ ClickTypes'
         /\ press' = [press EXCEPT ![p] =
                        [press[p] EXCEPT !.pc = "pushing", !.tries = press[p].tries + 1]]
<1> DEFINE r == [press[p] EXCEPT !.pc = "pushing", !.tries = press[p].tries + 1]
           m == [press |-> p, try |-> press[p].tries + 1]
<1>1. press' = [press EXCEPT ![p] = r] /\ inbox' = Append(inbox, m)
  BY DEF Push, ClickTypes
<1>2. press[p] \in PressType /\ press[p].gate \in Gates /\ press[p].decision \in Answers
  BY PressIs
<1>3. r \in PressType /\ r.pc # "none" /\ r.gate \in Gates /\ r.decision \in Answers
  BY <1>2, PushedAgain DEF PressType
<1>4. m \in Pushed
  BY <1>2 DEF Pushed, PressType
<1>5. press' \in [Presses -> PressType]
  BY <1>1, <1>3 DEF ClickTypes, PressType
<1>6. \A q \in Presses : press'[q] = IF q = p THEN r ELSE press[q]
  BY <1>1 DEF ClickTypes
<1>7. inbox \in Seq(Pushed) /\ inbox' \in Seq(Pushed) /\ Len(inbox') = Len(inbox) + 1
      /\ inbox'[Len(inbox) + 1] = m /\ \A i \in 1 .. Len(inbox) : inbox'[i] = inbox[i]
  BY <1>1, <1>4, AppendProperties DEF ClickTypes
<1>8. \A i \in 1 .. Len(inbox) : inbox[i].press \in Presses
  BY <1>7, PushedItems
<1>9. ASSUME NEW i \in 1 .. Len(inbox') PROVE press'[inbox'[i].press].pc # "none"
  <2>1. CASE i \in 1 .. Len(inbox)
    <3>1. inbox'[i] = inbox[i] /\ inbox[i].press \in Presses
      BY <1>7, <1>8, <2>1
    <3>2. press[inbox[i].press].pc # "none"
      BY <2>1 DEF ClickTypes
    <3> QED
      BY <1>3, <1>6, <3>1, <3>2
  <2>2. CASE i = Len(inbox) + 1
    <3>1. inbox'[i] = m /\ m.press = p
      BY <1>7, <2>2
    <3> QED
      BY <1>3, <1>6, <3>1
  <2> QED
    BY <1>7, <2>1, <2>2, LenProperties
<1>10. \A q \in Presses : press'[q].pc # "none" =>
         press'[q].gate \in Gates /\ press'[q].decision \in Answers
  BY <1>3, <1>6 DEF ClickTypes
<1> QED
  BY <1>1, <1>5, <1>7, <1>9, <1>10 DEF ClickTypes, PressType

\* What a step of one press does to the claims and the verdicts.
LEMMA ClaimAfter ==
  ASSUME ClickTypes, PumpTypes, ClaimIsBacked, NEW p \in Presses, NEW r \in PressType,
         press' = [press EXCEPT ![p] = r], r.gate = press[p].gate,
         UNCHANGED winner,
         \A g \in Gates : board'[g] = "claimed" =>
           \/ r.gate = g /\ r.pc \in {"pushing", "refused"}
           \/ board[g] = "claimed"
              /\ (press[p].gate = g => press[p].pc \notin {"pushing", "refused"})
  PROVE  ClaimIsBacked'
<1>1. \A q \in Presses : press'[q] = IF q = p THEN r ELSE press[q]
  BY DEF ClickTypes
<1> SUFFICES ASSUME NEW g \in Gates, board'[g] = "claimed",
                    ~\E q \in Presses : winner[g] = q
             PROVE  \E q \in Presses : press'[q].gate = g
               /\ press'[q].pc \in {"pushing", "refused"}
  BY DEF ClaimIsBacked, InDelivery
<1>2. CASE r.gate = g /\ r.pc \in {"pushing", "refused"}
  BY <1>1, <1>2
<1>3. CASE board[g] = "claimed"
      /\ (press[p].gate = g => press[p].pc \notin {"pushing", "refused"})
  <2>1. PICK q \in Presses : press[q].gate = g /\ press[q].pc \in {"pushing", "refused"}
    BY <1>3 DEF ClaimIsBacked, InDelivery
  <2> QED
    BY <1>1, <1>3, <2>1
<1> QED
  BY <1>2, <1>3

LEMMA TakenAfter ==
  ASSUME ClickTypes, TakenIsRuling, NEW p \in Presses, NEW r,
         press' = [press EXCEPT ![p] = r], r.told # "taken",
         UNCHANGED <<ruling, winner>>
  PROVE  TakenIsRuling'
<1>1. \A q \in Presses : press'[q] = IF q = p THEN r ELSE press[q]
  BY DEF ClickTypes
<1> QED
  BY <1>1 DEF TakenIsRuling

LEMMA OrderAfter ==
  ASSUME ClickTypes, PressInOrder, NEW p \in Presses, NEW r,
         press' = [press EXCEPT ![p] = r],
         r.pc # "told" => r.told = "nothing", r.pc = "pressed" => r.tries = 0
  PROVE  PressInOrder'
<1>1. \A q \in Presses : press'[q] = IF q = p THEN r ELSE press[q]
  BY DEF ClickTypes
<1> QED
  BY <1>1 DEF PressInOrder

LEMMA SubmitKeepsSender ==
  ASSUME GateTypes, SendTypes, OneSender, NEW e \in Envelopes, NEW d \in BOOLEAN,
         e \in sending, sending' = sending \ {e}, Submitted(e, d),
         UNCHANGED <<ruling, telling, tries>>
  PROVE  OneSender'
<1>1. e[1] \in Gates /\ e = <<e[1], e[2]>>
  BY EnvelopeIs
<1>2. CASE e[2] # "open"
  BY <1>2 DEF Submitted, OneSender
<1>3. CASE e[2] = "open"
  <2>1. e = <<e[1], "open">>
    BY <1>1, <1>3
  <2>2. phase[e[1]] = "asking"
    <3>1. tries[e] > 0 /\ tries[e] \in Nat
      BY DEF OneSender, SendTypes
    <3>2. ASSUME NEW h \in Gates, e = <<h, "open">>
          PROVE  phase[h] \notin {"new", "waiting", "over"}
      <4>1. tries[<<h, "open">>] # 0 /\ <<h, "open">> \in sending
        BY <3>1, <3>2
      <4> QED
        BY <4>1 DEF OneSender
    <3> QED
      BY <1>1, <2>1, <3>2 DEF GateTypes
  <2>3. \A h \in Gates : phase'[h] = IF h = e[1] THEN "waiting" ELSE phase[h]
    BY <1>3 DEF Submitted, GateTypes
  <2>4. \A h \in Gates : h # e[1] => alive'[h] = alive[h]
    BY <1>3 DEF Submitted, GateTypes
  <2>5. \A f \in telling' : f[2] # "open" /\ tries'[f] = 0
    BY DEF OneSender
  <2>6. \A f \in sending' : tries'[f] > 0
    BY DEF OneSender
  <2>7. ASSUME NEW h \in Gates
        PROVE  /\ phase'[h] = "new" => tries'[<<h, "open">>] = 0
               /\ phase'[h] \in {"waiting", "over"} => <<h, "open">> \notin sending'
               /\ (phase'[h] \in {"new", "asking"} \/ alive'[h]) =>
                    tries'[<<h, "expired">>] = 0 /\ <<h, "expired">> \notin telling'
               /\ ruling'[h] = "open" =>
                    tries'[<<h, "decided">>] = 0 /\ <<h, "decided">> \notin telling'
    <3>1. CASE h = e[1]
      BY <2>1, <2>2, <2>3, <3>1 DEF OneSender
    <3>2. CASE h # e[1]
      BY <2>3, <2>4, <3>2 DEF OneSender
    <3> QED
      BY <3>1, <3>2
  <2> QED
    BY <2>5, <2>6, <2>7 DEF OneSender
<1> QED
  BY <1>2, <1>3

LEMMA RememberTyped ==
  ASSUME SendTypes, NEW e \in Envelopes, RememberEnvelope(e)
  PROVE  seen' \in Seq(Envelopes) /\ Len(seen') <= EnvelopeMemory
<1>1. seen \in Seq(Envelopes) /\ Len(seen) \in Nat /\ Len(seen) <= EnvelopeMemory
  BY LenProperties DEF SendTypes
<1>2. CASE Len(seen) < EnvelopeMemory
  BY <1>1, <1>2, AppendProperties DEF RememberEnvelope
<1>3. CASE ~(Len(seen) < EnvelopeMemory)
  <2>1. seen # <<>>
    BY <1>1, <1>3
  <2>2. Tail(seen) \in Seq(Envelopes) /\ Len(Tail(seen)) = Len(seen) - 1
    BY <1>1, <2>1, HeadTailProperties
  <2> QED
    BY <1>1, <1>3, <2>2, AppendProperties DEF RememberEnvelope
<1> QED
  BY <1>2, <1>3

-----------------------------------------------------------------------------
(* Every step keeps the invariant.                                         *)

LEMMA SoundInit == Init => Sound
<1> SUFFICES ASSUME Init PROVE Sound
  OBVIOUS
<1>1. GateTypes /\ SendTypes /\ PumpTypes
  BY EmptySeq DEF Init, GateTypes, SendTypes, PumpTypes, Envelopes, Kinds
<1>2. ClickTypes
  <2>1. NoPress \in PressType /\ NoPress.pc = "none"
    <3>1. 0 \in 0 .. PushAttempts
      OBVIOUS
    <3> QED
      BY <3>1 DEF NoPress, PressType
  <2>2. press \in [Presses -> PressType] /\ \A p \in Presses : press[p].pc = "none"
    BY <2>1 DEF Init
  <2>3. inbox \in Seq(Pushed) /\ Len(inbox) = 0 /\ stale \in BOOLEAN
    BY EmptySeq DEF Init
  <2>4. \A i \in 1 .. Len(inbox) : FALSE
    BY <2>3
  <2> QED
    BY <2>2, <2>3, <2>4 DEF ClickTypes, PressType
<1>3. OneSender
  BY EnvelopeOf DEF Init, OneSender, Kinds
<1>4. BoardHasButtons /\ PressInOrder /\ WinnerIsRuling
  BY DEF Init, BoardHasButtons, PressInOrder, WinnerIsRuling, NoPress, NoJob
<1>5. ClaimIsBacked /\ TakenIsRuling
  BY DEF Init, ClaimIsBacked, TakenIsRuling, NoPress
<1> QED
  BY <1>1, <1>2, <1>3, <1>4, <1>5 DEF Sound, TypeOK

LEMMA SubmitKeeps ==
  ASSUME Sound, NEW g \in Gates, Submit(g)
  PROVE  Sound'
<1> USE DEF Sound, TypeOK
<1> DEFINE e == <<g, "open">>
<1>a. e \in Envelopes /\ e[1] = g /\ e[2] = "open"
  BY EnvelopeOf DEF Kinds
<1>b. tries[e] = 0 /\ Send(e)
  BY DEF Submit, OneSender
<1>c. tries' = [tries EXCEPT ![e] = 1]
      /\ wire' \in Seq([gate : Gates, kind : Kinds, try : 1 .. SendAttempts])
      /\ tries' \in [Envelopes -> 0 .. SendAttempts]
  <2>1. tries[e] < SendAttempts
    BY <1>b
  <2>2. tries' = [tries EXCEPT ![e] = tries[e] + 1]
        /\ wire' \in Seq([gate : Gates, kind : Kinds, try : 1 .. SendAttempts])
        /\ tries' \in [Envelopes -> 0 .. SendAttempts]
    BY <1>a, <1>b, <2>1, SendTyped
  <2>3. tries[e] + 1 = 1
    BY <1>b
  <2> QED
    BY <2>2, <2>3
<1> HIDE DEF e
<1>1. GateTypes'
  BY DEF Submit, GateTypes
<1>2. SendTypes'
  BY <1>a, <1>c DEF Submit, SendTypes, e
<1>3. OneSender'
  <2>1. \A f \in Envelopes : tries'[f] = IF f = e THEN 1 ELSE tries[f]
    BY <1>c DEF SendTypes
  <2>2. \A h \in Gates : /\ <<h, "open">> \in Envelopes /\ <<h, "expired">> \in Envelopes /\ <<h, "decided">> \in Envelopes
                         /\ <<h, "expired">> # e /\ <<h, "decided">> # e
                            /\ (<<h, "open">> = e <=> h = g)
    BY EnvelopeOf DEF Kinds, e
  <2>3. telling' = telling /\ sending' = sending \cup {e}
        /\ phase' = [phase EXCEPT ![g] = "asking"]
        /\ alive' = alive /\ ruling' = ruling /\ phase[g] = "new"
    BY DEF Submit, e
  <2>4. \A f \in telling' : f[2] # "open" /\ tries'[f] = 0
    BY <1>a, <2>1, <2>3 DEF OneSender, GateTypes
  <2>5. \A f \in sending' : tries'[f] > 0
    <3>1. (\A f \in sending : tries[f] > 0) /\ sending \subseteq Envelopes
      BY DEF OneSender, SendTypes
    <3> QED
      BY <1>a, <2>1, <2>3, <3>1
  <2>6. \A h \in Gates : phase'[h] = IF h = g THEN "asking" ELSE phase[h]
    BY <2>3 DEF GateTypes
  <2> QED
    BY <2>1, <2>2, <2>3, <2>4, <2>5, <2>6 DEF OneSender
<1>4. PumpTypes' /\ ClickTypes' /\ BoardHasButtons' /\ PressInOrder' /\
      WinnerIsRuling' /\ ClaimIsBacked' /\ TakenIsRuling'
  BY PumpFrame, ClickFrame, ButtonsFrame, PressFrame, WinnerFrame,
     ClaimFrame, TakenFrame DEF Submit, gateVars, sendVars, pumpVars,
     worldVars, clickVars
<1> QED
  BY <1>1, <1>2, <1>3, <1>4

LEMMA TerminalAnswersKeeps ==
  ASSUME Sound, NEW g \in Gates, TerminalAnswers(g)
  PROVE  Sound'
<1> USE DEF Sound, TypeOK
<1>1. GateTypes'
  <2>1. <<g, "decided">> \in Envelopes
    BY EnvelopeOf DEF Kinds
  <2>2. telling' \subseteq telling \cup {<<g, "decided">>}
    BY DEF TerminalAnswers
  <2>3. telling' \subseteq Envelopes
    BY <2>1, <2>2 DEF GateTypes
  <2> QED
    BY <2>3 DEF TerminalAnswers, GateTypes
<1>2. OneSender'
  <2>1. \A h \in Gates : /\ <<h, "open">>[2] = "open" /\ <<h, "decided">>[2] = "decided"
                         /\ <<h, "expired">> # <<g, "decided">>
                         /\ (<<h, "decided">> = <<g, "decided">> <=> h = g)
    OBVIOUS
  <2>2. /\ UNCHANGED <<phase, alive, tries, sending>> /\ ruling[g] = "open"
        /\ telling' = telling \/ telling' = telling \cup {<<g, "decided">>}
    BY DEF TerminalAnswers, sendVars
  <2>3. \A h \in Gates : ruling'[h] = "open" => ruling[h] = "open" /\ h # g
    BY DEF TerminalAnswers, GateTypes, Answers
  <2>4. tries[<<g, "decided">>] = 0
    BY <2>2 DEF OneSender
  <2>5. \A f \in telling' : f[2] # "open" /\ tries[f] = 0
    BY <2>1, <2>2, <2>4 DEF OneSender
  <2> QED
    BY <2>1, <2>2, <2>3, <2>5 DEF OneSender
<1>3. WinnerIsRuling'
  BY DEF TerminalAnswers, WinnerIsRuling, GateTypes, Answers
<1>4. ClaimIsBacked'
  <2>1. winner[g] = Nobody /\ winner' = [winner EXCEPT ![g] = Terminal]
        /\ UNCHANGED <<board, press>>
    BY DEF TerminalAnswers, WinnerIsRuling, clickVars
  <2> QED
    BY <2>1 DEF ClaimIsBacked, InDelivery, GateTypes
<1>5. TakenIsRuling'
  <2>1. /\ winner[g] = Nobody /\ UNCHANGED press
        /\ winner' = [winner EXCEPT ![g] = Terminal]
        /\ \A h \in Gates : h # g => ruling'[h] = ruling[h] /\ winner'[h] = winner[h]
    BY DEF TerminalAnswers, WinnerIsRuling, clickVars, GateTypes
  <2>2. \A p \in Presses : press[p].told = "taken" => press[p].gate \in Gates
    BY DEF ClickTypes, PressInOrder
  <2> QED
    BY <2>1, <2>2 DEF TakenIsRuling
<1>6. SendTypes' /\ PumpTypes' /\ ClickTypes' /\ BoardHasButtons' /\
      PressInOrder'
  BY SendFrame, PumpFrame, ClickFrame, ButtonsFrame, PressFrame DEF
     TerminalAnswers, gateVars, sendVars, pumpVars, worldVars,
     clickVars
<1> QED
  BY <1>1, <1>2, <1>3, <1>4, <1>5, <1>6

LEMMA ExpireKeeps ==
  ASSUME Sound, NEW g \in Gates, Expire(g)
  PROVE  Sound'
<1> USE DEF Sound, TypeOK
<1>1. GateTypes'
  <2>1. <<g, "expired">> \in Envelopes
    BY EnvelopeOf DEF Kinds
  <2>2. telling' \subseteq telling \cup {<<g, "expired">>}
    BY DEF Expire
  <2>3. telling' \subseteq Envelopes
    BY <2>1, <2>2 DEF GateTypes
  <2> QED
    BY <2>3 DEF Expire, GateTypes
<1>2. OneSender'
  <2>1. \A h \in Gates : /\ <<h, "open">>[2] = "open" /\ <<h, "expired">>[2] = "expired"
                         /\ <<h, "decided">> # <<g, "expired">>
                         /\ (<<h, "expired">> = <<g, "expired">> <=> h = g)
    OBVIOUS
  <2>2. /\ UNCHANGED <<phase, ruling, tries, sending>> /\ alive[g] /\ phase[g] = "waiting"
        /\ telling' = telling \cup {<<g, "expired">>}
    BY DEF Expire, sendVars
  <2>3. \A h \in Gates : alive'[h] => alive[h] /\ h # g
    BY DEF Expire, GateTypes
  <2>4. tries[<<g, "expired">>] = 0
    BY <2>2 DEF OneSender
  <2>5. \A f \in telling' : f[2] # "open" /\ tries[f] = 0
    BY <2>1, <2>2, <2>4 DEF OneSender
  <2> QED
    BY <2>1, <2>2, <2>3, <2>5 DEF OneSender
<1>3. SendTypes' /\ PumpTypes' /\ ClickTypes' /\ BoardHasButtons' /\
      PressInOrder' /\ WinnerIsRuling' /\ ClaimIsBacked' /\ TakenIsRuling'
  BY SendFrame, PumpFrame, ClickFrame, ButtonsFrame, PressFrame,
     WinnerFrame, ClaimFrame, TakenFrame DEF Expire, gateVars,
     sendVars, pumpVars, worldVars, clickVars
<1> QED
  BY <1>1, <1>2, <1>3

LEMMA GiveUpKeeps ==
  ASSUME Sound, NEW g \in Gates, GiveUp(g)
  PROVE  Sound'
<1> USE DEF Sound, TypeOK
<1>1. GateTypes'
  BY DEF GiveUp, GateTypes
<1>2. OneSender'
  BY DEF GiveUp, OneSender, GateTypes, sendVars
<1>3. SendTypes' /\ PumpTypes' /\ ClickTypes' /\ BoardHasButtons' /\
      PressInOrder' /\ WinnerIsRuling' /\ ClaimIsBacked' /\ TakenIsRuling'
  BY SendFrame, PumpFrame, ClickFrame, ButtonsFrame, PressFrame,
     WinnerFrame, ClaimFrame, TakenFrame DEF GiveUp, gateVars,
     sendVars, pumpVars, worldVars, clickVars
<1> QED
  BY <1>1, <1>2, <1>3

LEMMA TellKeeps ==
  ASSUME Sound, NEW e \in Envelopes, Tell(e)
  PROVE  Sound'
<1> USE DEF Sound, TypeOK
<1>a. tries[e] = 0 /\ e[2] # "open" /\ Send(e) /\ e \in telling
  BY DEF Tell, OneSender
<1>b. tries' = [tries EXCEPT ![e] = 1]
      /\ wire' \in Seq([gate : Gates, kind : Kinds, try : 1 .. SendAttempts])
      /\ tries' \in [Envelopes -> 0 .. SendAttempts]
  <2>1. tries[e] < SendAttempts
    BY <1>a
  <2>2. tries' = [tries EXCEPT ![e] = tries[e] + 1]
        /\ wire' \in Seq([gate : Gates, kind : Kinds, try : 1 .. SendAttempts])
        /\ tries' \in [Envelopes -> 0 .. SendAttempts]
    BY <1>a, <2>1, SendTyped
  <2>3. tries[e] + 1 = 1
    BY <1>a
  <2> QED
    BY <2>2, <2>3
<1>1. GateTypes'
  BY DEF Tell, GateTypes
<1>2. SendTypes'
  BY <1>b DEF Tell, SendTypes
<1>3. OneSender'
  <2>1. \A f \in Envelopes : tries'[f] = IF f = e THEN 1 ELSE tries[f]
    BY <1>b DEF SendTypes
  <2>2. ASSUME NEW h \in Gates
        PROVE  /\ <<h, "open">> \in Envelopes /\ <<h, "expired">> \in Envelopes /\ <<h, "decided">> \in Envelopes
               /\ <<h, "open">> # e
    <3>1. <<h, "open">>[2] = "open"
      OBVIOUS
    <3>2. "open" \in Kinds /\ "expired" \in Kinds /\ "decided" \in Kinds
      BY DEF Kinds
    <3> QED
      BY <1>a, <3>1, <3>2, EnvelopeOf
  <2>3. telling' = telling \ {e} /\ sending' = sending \cup {e}
        /\ UNCHANGED <<phase, alive, ruling>>
    BY DEF Tell
  <2>4. \A f \in telling' : f[2] # "open" /\ tries'[f] = 0
    BY <2>1, <2>3 DEF OneSender, GateTypes
  <2>5. \A f \in sending' : tries'[f] > 0
    <3>1. (\A f \in sending : tries[f] > 0) /\ sending \subseteq Envelopes
      BY DEF OneSender, SendTypes
    <3> QED
      BY <2>1, <2>3, <3>1
  <2> QED
    BY <1>a, <2>1, <2>2, <2>3, <2>4, <2>5 DEF OneSender
<1>4. PumpTypes' /\ ClickTypes' /\ BoardHasButtons' /\ PressInOrder' /\
      WinnerIsRuling' /\ ClaimIsBacked' /\ TakenIsRuling'
  BY PumpFrame, ClickFrame, ButtonsFrame, PressFrame, WinnerFrame,
     ClaimFrame, TakenFrame DEF Tell, gateVars, sendVars, pumpVars,
     worldVars, clickVars
<1> QED
  BY <1>1, <1>2, <1>3, <1>4

LEMMA ResendKeeps ==
  ASSUME Sound, NEW e \in Envelopes, Resend(e)
  PROVE  Sound'
<1> USE DEF Sound, TypeOK
<1>a. tries[e] < SendAttempts /\ Send(e) /\ e \in sending /\ tries[e] > 0
      /\ tries[e] \in Nat
  BY DEF Resend, OneSender, SendTypes
<1>b. tries' = [tries EXCEPT ![e] = tries[e] + 1]
      /\ wire' \in Seq([gate : Gates, kind : Kinds, try : 1 .. SendAttempts])
      /\ tries' \in [Envelopes -> 0 .. SendAttempts]
  BY <1>a, SendTyped
<1>1. SendTypes'
  BY <1>b DEF Resend, SendTypes
<1>2. OneSender'
  <2>1. \A f \in Envelopes : tries'[f] = IF f = e THEN tries[e] + 1 ELSE tries[f]
    BY <1>b DEF SendTypes
  <2>2. \A h \in Gates : <<h, "open">> \in Envelopes /\ <<h, "expired">> \in Envelopes /\ <<h, "decided">> \in Envelopes
    BY EnvelopeOf DEF Kinds
  <2>3. UNCHANGED <<phase, alive, ruling, telling, sending>>
    BY DEF Resend, gateVars
  <2>4. e \notin telling
    BY <1>a DEF OneSender
  <2>5. \A f \in telling' : f[2] # "open" /\ tries'[f] = 0
    BY <2>1, <2>3, <2>4 DEF OneSender, GateTypes
  <2>6. \A f \in sending' : tries'[f] > 0
    <3>1. (\A f \in sending : tries[f] > 0) /\ sending \subseteq Envelopes
      BY DEF OneSender, SendTypes
    <3>2. tries[e] + 1 > 0
      BY <1>a
    <3> QED
      BY <2>1, <2>3, <3>1, <3>2
  <2>7. \A f \in Envelopes : tries[f] = 0 => tries'[f] = 0
    BY <1>a, <2>1
  <2> QED
    BY <2>2, <2>3, <2>5, <2>6, <2>7 DEF OneSender
<1>3. GateTypes' /\ PumpTypes' /\ ClickTypes' /\ BoardHasButtons' /\
      PressInOrder' /\ WinnerIsRuling' /\ ClaimIsBacked' /\ TakenIsRuling'
  BY GateFrame, PumpFrame, ClickFrame, ButtonsFrame, PressFrame,
     WinnerFrame, ClaimFrame, TakenFrame DEF Resend, gateVars,
     sendVars, pumpVars, worldVars, clickVars
<1> QED
  BY <1>1, <1>2, <1>3

LEMMA SendFailsKeeps ==
  ASSUME Sound, NEW e \in Envelopes, SendFails(e)
  PROVE  Sound'
<1> USE DEF Sound, TypeOK
<1>1. GateTypes'
  <2>1. e[1] \in Gates
    BY EnvelopeIs
  <2> QED
    BY <2>1 DEF SendFails, GateTypes, Submitted
<1>2. SendTypes'
  BY DEF SendFails, SendTypes
<1>3. OneSender'
  <2>1. UNCHANGED <<ruling, telling, tries>> /\ sending' = sending \ {e}
        /\ Submitted(e, FALSE) /\ e \in sending
    BY DEF SendFails
  <2> QED
    BY <2>1, SubmitKeepsSender
<1>4. PumpTypes' /\ ClickTypes' /\ BoardHasButtons' /\ PressInOrder' /\
      WinnerIsRuling' /\ ClaimIsBacked' /\ TakenIsRuling'
  BY PumpFrame, ClickFrame, ButtonsFrame, PressFrame, WinnerFrame,
     ClaimFrame, TakenFrame DEF SendFails, gateVars, sendVars,
     pumpVars, worldVars, clickVars
<1> QED
  BY <1>1, <1>2, <1>3, <1>4

LEMMA HandleFrameKeeps ==
  ASSUME Sound, HandleFrame
  PROVE  Sound'
<1> USE DEF Sound, TypeOK
<1> DEFINE f == Head(wire)
           e == <<f.gate, f.kind>>
<1>a. /\ f \in [gate : Gates, kind : Kinds, try : 1 .. SendAttempts]
      /\ Tail(wire) \in Seq([gate : Gates, kind : Kinds, try : 1 .. SendAttempts])
  BY WireHead DEF HandleFrame
<1>b. e \in Envelopes /\ e[1] = f.gate /\ e[2] = f.kind /\ f.gate \in Gates
  BY <1>a, EnvelopeOf
<1>c. /\ UNCHANGED <<ruling, winner, telling, tries, job, board, worldVars, clickVars>>
      /\ wire' = Tail(wire)
      /\ \/ RememberEnvelope(e) /\ Schedule(f.kind, f.gate)
         \/ UNCHANGED <<seen, queue>>
      /\ \/ e \in sending /\ sending' = sending \ {e} /\ Submitted(e, TRUE)
         \/ UNCHANGED <<sending, phase, alive>>
  BY DEF HandleFrame
<1> HIDE DEF e, f
<1>1. GateTypes'
  BY <1>b, <1>c DEF GateTypes, Submitted
<1>2. SendTypes'
  <2>1. seen' \in Seq(Envelopes) /\ Len(seen') <= EnvelopeMemory
    <3>1. CASE RememberEnvelope(e)
      BY <1>b, <3>1, RememberTyped
    <3>2. CASE seen' = seen
      BY <3>2 DEF SendTypes
    <3> QED
      BY <1>c, <3>1, <3>2
  <2> QED
    BY <1>a, <1>c, <2>1 DEF SendTypes, f
<1>3. PumpTypes'
  <2>1. ASSUME NEW k, NEW h \in Gates, Schedule(k, h)
        PROVE  queue' \in Seq([kind : {"post", "finish"}, gate : Gates])
    BY <2>1, AppendProperties DEF Schedule, PumpTypes
  <2>2. queue' \in Seq([kind : {"post", "finish"}, gate : Gates])
    BY <1>b, <1>c, <2>1 DEF PumpTypes
  <2> QED
    BY <1>c, <2>2 DEF PumpTypes, worldVars
<1>4. ClickTypes'
  BY <1>c, ClickFrame
<1>5. OneSender'
  <2>1. CASE sending' = sending \ {e} /\ Submitted(e, TRUE) /\ e \in sending
    BY <1>b, <1>c, <2>1, SubmitKeepsSender
  <2>2. CASE UNCHANGED <<sending, phase, alive>>
    BY <1>c, <2>2, SenderFrame DEF gateVars
  <2> QED
    BY <1>c, <2>1, <2>2
<1>6. BoardHasButtons'
  BY <1>c, ButtonsFrame DEF worldVars
<1>7. PressInOrder'
  BY <1>c, PressFrame DEF clickVars
<1>8. WinnerIsRuling'
  BY <1>c, WinnerFrame
<1>9. ClaimIsBacked'
  BY <1>c, ClaimFrame DEF clickVars
<1>10. TakenIsRuling'
  BY <1>c, TakenFrame DEF clickVars
<1> QED
  BY <1>1, <1>2, <1>3, <1>4, <1>5, <1>6, <1>7, <1>8, <1>9, <1>10

LEMMA PostBeginKeeps ==
  ASSUME Sound, PostBegin
  PROVE  Sound'
<1> USE DEF Sound, TypeOK
<1>a. Head(queue) \in [kind : {"post", "finish"}, gate : Gates]
      /\ Tail(queue) \in Seq([kind : {"post", "finish"}, gate : Gates])
  BY QueueHead DEF PostBegin
<1>1. PumpTypes'
  BY <1>a DEF PostBegin, PumpTypes, worldVars, NoJob
<1>2. BoardHasButtons'
  BY <1>a DEF PostBegin, BoardHasButtons, worldVars, NoJob
<1>3. GateTypes' /\ SendTypes' /\ ClickTypes' /\ OneSender' /\ PressInOrder'
      /\ WinnerIsRuling' /\ ClaimIsBacked' /\ TakenIsRuling'
  BY GateFrame, SendFrame, ClickFrame, SenderFrame, PressFrame,
     WinnerFrame, ClaimFrame, TakenFrame DEF PostBegin, gateVars,
     sendVars, pumpVars, worldVars, clickVars
<1> QED
  BY <1>1, <1>2, <1>3

LEMMA MessagePostedKeeps ==
  ASSUME Sound, MessagePosted
  PROVE  Sound'
<1> USE DEF Sound, TypeOK
<1>a. job.gate \in Gates /\ job \in [kind : {"post", "sent", "finish"}, gate : Gates]
  BY DEF MessagePosted, PumpTypes, NoJob
<1>b. \/ posted' = posted /\ live' = live /\ job' = NoJob
      \/ /\ posted' = [posted EXCEPT ![job.gate] = posted[job.gate] + 1]
         /\ live' = [live EXCEPT ![job.gate] = live[job.gate] + 1]
         /\ job' = [job EXCEPT !.kind = "sent"] \/ job' = NoJob
  BY DEF MessagePosted, worldVars
<1>c. job.kind = "post" /\ UNCHANGED <<queue, board>>
  BY DEF MessagePosted
<1>d. posted[job.gate] \in Nat /\ live[job.gate] \in Nat
  BY <1>a DEF PumpTypes
<1>e. job' \in [kind : {"post", "sent", "finish"}, gate : Gates] \cup {NoJob}
  <2>1. [job EXCEPT !.kind = "sent"] \in [kind : {"post", "sent", "finish"}, gate : Gates]
    BY <1>a
  <2> QED
    BY <1>b, <2>1
<1>f. posted' \in [Gates -> Nat] /\ live' \in [Gates -> Nat]
  <2>1. posted[job.gate] + 1 \in Nat /\ live[job.gate] + 1 \in Nat
    BY <1>d
  <2>2. ASSUME NEW n \in Nat
        PROVE  /\ [posted EXCEPT ![job.gate] = n] \in [Gates -> Nat]
               /\ [live EXCEPT ![job.gate] = n] \in [Gates -> Nat]
    BY DEF PumpTypes
  <2>3. posted \in [Gates -> Nat] /\ live \in [Gates -> Nat]
    BY DEF PumpTypes
  <2> QED
    BY <1>b, <2>1, <2>2, <2>3
<1>g. \A h \in Gates : live[h] > 0 => live'[h] > 0
  <2>1. live[job.gate] + 1 > 0
    BY <1>d
  <2>2. \A h \in Gates : live'[h] = live[h] \/ live'[h] = live[job.gate] + 1
    BY <1>a, <1>b DEF PumpTypes
  <2> QED
    BY <2>1, <2>2
<1>h. \/ job' = NoJob
      \/ job' = [job EXCEPT !.kind = "sent"] /\ live'[job.gate] > 0
  BY <1>a, <1>b, <1>d DEF PumpTypes
<1>1. PumpTypes'
  BY <1>c, <1>e, <1>f DEF PumpTypes
<1>2. BoardHasButtons'
  <2>1. \A h \in Gates : board'[h] # "absent" => live'[h] > 0
    BY <1>c, <1>g DEF BoardHasButtons
  <2>2. CASE job' = NoJob
    BY <2>1, <2>2 DEF BoardHasButtons, NoJob
  <2>3. CASE job' = [job EXCEPT !.kind = "sent"] /\ live'[job.gate] > 0
    <3>1. job'.kind = "sent" /\ job'.gate = job.gate
      BY <1>a, <2>3
    <3>2. board'[job.gate] = "absent"
      BY <1>c DEF BoardHasButtons
    <3> QED
      BY <2>1, <2>3, <3>1, <3>2 DEF BoardHasButtons
  <2> QED
    BY <1>h, <2>2, <2>3
<1>3. GateTypes' /\ SendTypes' /\ ClickTypes' /\ OneSender' /\ PressInOrder'
      /\ WinnerIsRuling' /\ ClaimIsBacked' /\ TakenIsRuling'
  BY GateFrame, SendFrame, ClickFrame, SenderFrame, PressFrame,
     WinnerFrame, ClaimFrame, TakenFrame DEF MessagePosted, gateVars,
     sendVars, pumpVars, worldVars, clickVars
<1> QED
  BY <1>1, <1>2, <1>3

LEMMA RememberKeeps ==
  ASSUME Sound, Remember
  PROVE  Sound'
<1> USE DEF Sound, TypeOK
<1>a. job.gate \in Gates /\ job \in [kind : {"post", "sent", "finish"}, gate : Gates]
  BY DEF Remember, PumpTypes, NoJob
<1>1. PumpTypes'
  BY <1>a DEF Remember, PumpTypes, worldVars, NoJob
<1>2. BoardHasButtons'
  BY <1>a DEF Remember, BoardHasButtons, PumpTypes, worldVars, NoJob
<1>3. ClaimIsBacked'
  BY <1>a DEF Remember, ClaimIsBacked, InDelivery, PumpTypes, gateVars, clickVars
<1>4. GateTypes' /\ SendTypes' /\ ClickTypes' /\ OneSender' /\ PressInOrder'
      /\ WinnerIsRuling' /\ TakenIsRuling'
  BY GateFrame, SendFrame, ClickFrame, SenderFrame, PressFrame,
     WinnerFrame, TakenFrame DEF Remember, gateVars, sendVars,
     pumpVars, worldVars, clickVars
<1> QED
  BY <1>1, <1>2, <1>3, <1>4

LEMMA FinishBeginKeeps ==
  ASSUME Sound, FinishBegin
  PROVE  Sound'
<1> USE DEF Sound, TypeOK
<1>a. Head(queue) \in [kind : {"post", "finish"}, gate : Gates]
      /\ Tail(queue) \in Seq([kind : {"post", "finish"}, gate : Gates])
  BY QueueHead DEF FinishBegin
<1>1. PumpTypes'
  BY <1>a DEF FinishBegin, PumpTypes, worldVars, NoJob
<1>2. BoardHasButtons'
  BY <1>a DEF FinishBegin, BoardHasButtons, PumpTypes, worldVars, NoJob
<1>3. ClaimIsBacked'
  BY <1>a DEF FinishBegin, ClaimIsBacked, InDelivery, PumpTypes, gateVars, clickVars
<1>4. GateTypes' /\ SendTypes' /\ ClickTypes' /\ OneSender' /\ PressInOrder'
      /\ WinnerIsRuling' /\ TakenIsRuling'
  BY GateFrame, SendFrame, ClickFrame, SenderFrame, PressFrame,
     WinnerFrame, TakenFrame DEF FinishBegin, gateVars, sendVars,
     pumpVars, worldVars, clickVars
<1> QED
  BY <1>1, <1>2, <1>3, <1>4

LEMMA MessageEditedKeeps ==
  ASSUME Sound, MessageEdited
  PROVE  Sound'
<1> USE DEF Sound, TypeOK
<1>a. job.gate \in Gates /\ job \in [kind : {"post", "sent", "finish"}, gate : Gates]
  BY DEF MessageEdited, PumpTypes, NoJob
<1>b. live[job.gate] > 0 /\ board[job.gate] = "absent"
  BY DEF MessageEdited, BoardHasButtons
<1>1. PumpTypes'
  BY <1>a, <1>b DEF MessageEdited, PumpTypes, NoJob
<1>2. BoardHasButtons'
  BY <1>a, <1>b DEF MessageEdited, BoardHasButtons, PumpTypes, NoJob
<1>3. GateTypes' /\ SendTypes' /\ ClickTypes' /\ OneSender' /\ PressInOrder'
      /\ WinnerIsRuling' /\ ClaimIsBacked' /\ TakenIsRuling'
  BY GateFrame, SendFrame, ClickFrame, SenderFrame, PressFrame,
     WinnerFrame, ClaimFrame, TakenFrame DEF MessageEdited, gateVars,
     sendVars, pumpVars, worldVars, clickVars
<1> QED
  BY <1>1, <1>2, <1>3

LEMMA PressKeeps ==
  ASSUME Sound, NEW p \in Presses, NEW g \in Gates, Press(p, g)
  PROVE  Sound'
<1> USE DEF Sound, TypeOK
<1>a. PICK a \in Answers, approver \in BOOLEAN :
        press' = [press EXCEPT ![p] = [NoPress EXCEPT !.pc = "pressed", !.gate = g,
                                         !.decision = a, !.approver = approver]]
  BY DEF Press
<1> DEFINE r == [NoPress EXCEPT !.pc = "pressed", !.gate = g, !.decision = a, !.approver = approver]
<1>b. r \in PressType /\ r.pc = "pressed" /\ r.gate = g /\ r.decision = a
      /\ r.told = "nothing" /\ r.tries = 0
  <2>1. 0 \in 0 .. PushAttempts
    OBVIOUS
  <2> QED
    BY <2>1 DEF NoPress, PressType
<1>c. press' = [press EXCEPT ![p] = r] /\ inbox' = inbox /\ stale' = stale
      /\ press[p].pc = "none"
  BY <1>a DEF Press
<1> HIDE DEF r
<1>1. ClickTypes'
  BY <1>b, <1>c, PressGoesOn DEF ClickTypes
<1>2. PressInOrder'
  BY <1>b, <1>c, OrderAfter
<1>3. ClaimIsBacked'
  <2>1. UNCHANGED <<board, winner>>
    BY DEF Press, gateVars
  <2>2. \A q \in Presses : press'[q] = IF q = p THEN r ELSE press[q]
    BY <1>c DEF ClickTypes
  <2> QED
    BY <1>c, <2>1, <2>2 DEF ClaimIsBacked, InDelivery
<1>4. TakenIsRuling'
  BY <1>b, <1>c, TakenAfter DEF Press, gateVars
<1>5. GateTypes' /\ SendTypes' /\ PumpTypes' /\ OneSender' /\
      BoardHasButtons' /\ WinnerIsRuling'
  BY GateFrame, SendFrame, PumpFrame, SenderFrame, ButtonsFrame,
     WinnerFrame DEF Press, gateVars, sendVars, pumpVars, worldVars,
     clickVars
<1> QED
  BY <1>1, <1>2, <1>3, <1>4, <1>5

LEMMA ClaimPressKeeps ==
  ASSUME Sound, NEW p \in Presses, ClaimPress(p)
  PROVE  Sound'
<1> USE DEF Sound, TypeOK
<1> DEFINE g == press[p].gate
           r == [press[p] EXCEPT !.pc = "pushing", !.tries = press[p].tries + 1]
           t == [press[p] EXCEPT !.pc = "told", !.told = "already"]
<1>a. /\ press[p] \in PressType /\ g \in Gates /\ press[p].decision \in Answers
      /\ press[p].pc = "pressed" /\ press[p].tries = 0 /\ press[p].told = "nothing"
  BY PressIs DEF ClaimPress, PressInOrder
<1>b. /\ r \in PressType /\ r.pc = "pushing" /\ r.gate = g /\ r.told = "nothing"
      /\ t \in PressType /\ t.pc = "told" /\ t.gate = g
         /\ t.decision \in Answers /\ t.told = "already"
  <2>1. press[p].tries < PushAttempts
    BY <1>a
  <2>2. r \in PressType
    BY <1>a, <2>1, PushedAgain
  <2> QED
    BY <1>a, <2>2 DEF PressType
<1>c. \/ /\ board[g] = "free" /\ board' = [board EXCEPT ![g] = "claimed"]
         /\ ClickTypes' /\ press' = [press EXCEPT ![p] = r]
      \/ /\ board' = board /\ inbox' = inbox /\ press' = [press EXCEPT ![p] = t]
  <2>1. stale' = stale
    BY DEF ClaimPress
  <2>2. CASE Claimable(g)
    <3>1. board' = [board EXCEPT ![g] = "claimed"] /\ Push(p) /\ board[g] = "free"
      BY <2>2 DEF ClaimPress, TakeClaim, Claimable
    <3>2. press[p].pc # "none" /\ press[p].tries < PushAttempts
      BY <1>a
    <3> QED
      BY <2>1, <3>1, <3>2, PushTyped
  <2>3. CASE ~Claimable(g)
    BY <2>3 DEF ClaimPress, Told, ClickTypes
  <2> QED
    BY <2>2, <2>3
<1>d. UNCHANGED <<winner, ruling, job, queue, live, posted, stale>>
  BY DEF ClaimPress, gateVars, pumpVars, worldVars
<1> HIDE DEF r, t, g
<1>1. PumpTypes'
  BY <1>a, <1>c, <1>d DEF PumpTypes
<1>2. ClickTypes'
  <2>1. CASE inbox' = inbox /\ press' = [press EXCEPT ![p] = t]
    BY <1>a, <1>b, <1>d, <2>1, PressGoesOn DEF ClickTypes, g
  <2> QED
    BY <1>c, <2>1
<1>3. BoardHasButtons'
  <2>1. \A h \in Gates : board'[h] = "absent" <=> board[h] = "absent"
    BY <1>a, <1>c DEF PumpTypes
  <2>2. job.kind \in {"post", "sent", "finish"} => job.gate \in Gates
    BY DEF PumpTypes, NoJob
  <2> QED
    BY <1>d, <2>1, <2>2 DEF BoardHasButtons
<1>4. PressInOrder'
  BY <1>b, <1>c, OrderAfter
<1>5. ClaimIsBacked'
  <2>a. /\ winner' = winner
        /\ r.gate = press[p].gate /\ r \in PressType
        /\ t.gate = press[p].gate /\ t \in PressType
    BY <1>b, <1>d DEF g
  <2>1. CASE board' = [board EXCEPT ![g] = "claimed"]
        /\ press' = [press EXCEPT ![p] = r]
    <3>1. \A h \in Gates : board'[h] = "claimed" =>
            \/ r.gate = h /\ r.pc \in {"pushing", "refused"}
            \/ board[h] = "claimed"
               /\ (press[p].gate = h => press[p].pc \notin {"pushing", "refused"})
      BY <1>a, <1>b, <2>1 DEF PumpTypes
    <3> QED
      BY <2>a, <2>1, <3>1, ClaimAfter
  <2>2. CASE board' = board /\ press' = [press EXCEPT ![p] = t]
    <3>1. \A h \in Gates : board'[h] = "claimed" =>
            \/ t.gate = h /\ t.pc \in {"pushing", "refused"}
            \/ board[h] = "claimed"
               /\ (press[p].gate = h => press[p].pc \notin {"pushing", "refused"})
      BY <1>a, <2>2
    <3> QED
      BY <2>a, <2>2, <3>1, ClaimAfter
  <2> QED
    BY <1>c, <2>1, <2>2
<1>6. TakenIsRuling'
  <2>1. r.told # "taken" /\ t.told # "taken"
    BY <1>b
  <2> QED
    BY <1>c, <1>d, <2>1, TakenAfter
<1>7. GateTypes' /\ SendTypes' /\ OneSender' /\ WinnerIsRuling'
  BY GateFrame, SendFrame, SenderFrame, WinnerFrame DEF ClaimPress,
     gateVars, sendVars, pumpVars, worldVars, clickVars
<1> QED
  BY <1>1, <1>2, <1>3, <1>4, <1>5, <1>6, <1>7

LEMMA PushTimeoutKeeps ==
  ASSUME Sound, NEW p \in Presses, PushTimeout(p)
  PROVE  Sound'
<1> USE DEF Sound, TypeOK
<1> DEFINE r == [press[p] EXCEPT !.pc = "told", !.told = "undelivered"]
<1>a. press[p] \in PressType /\ press[p].gate \in Gates /\ press[p].decision \in Answers
  BY PressIs DEF PushTimeout
<1>b. r \in PressType /\ r.pc = "told" /\ r.gate = press[p].gate
      /\ r.decision = press[p].decision /\ r.told = "undelivered"
  BY <1>a DEF PressType
<1>c. press' = [press EXCEPT ![p] = r] /\ inbox' = inbox /\ stale' = stale
  BY DEF PushTimeout, Told, ClickTypes
<1>d. /\ PumpTypes' /\ BoardHasButtons'
      /\ \A h \in Gates : board'[h] = "claimed" => board[h] = "claimed"
         /\ h # press[p].gate
  BY <1>a, ReleaseTyped DEF PushTimeout
<1> HIDE DEF r
<1>1. PumpTypes'
  BY <1>d
<1>2. ClickTypes'
  BY <1>a, <1>b, <1>c, PressGoesOn DEF ClickTypes
<1>3. BoardHasButtons'
  BY <1>d
<1>4. PressInOrder'
  BY <1>b, <1>c, OrderAfter
<1>5. ClaimIsBacked'
  <2>1. \A g \in Gates : board'[g] = "claimed" =>
          \/ r.gate = g /\ r.pc \in {"pushing", "refused"}
          \/ board[g] = "claimed"
             /\ (press[p].gate = g => press[p].pc \notin {"pushing", "refused"})
    BY <1>d
  <2>2. winner' = winner
    BY DEF PushTimeout, gateVars
  <2> QED
    BY <1>b, <1>c, <2>1, <2>2, ClaimAfter
<1>6. TakenIsRuling'
  BY <1>b, <1>c, TakenAfter DEF PushTimeout, gateVars
<1>7. GateTypes' /\ SendTypes' /\ OneSender' /\ WinnerIsRuling'
  BY GateFrame, SendFrame, SenderFrame, WinnerFrame DEF PushTimeout,
     gateVars, sendVars, pumpVars, worldVars, clickVars
<1> QED
  BY <1>1, <1>2, <1>3, <1>4, <1>5, <1>6, <1>7

LEMMA PushAgainKeeps ==
  ASSUME Sound, NEW p \in Presses, PushAgain(p)
  PROVE  Sound'
<1> USE DEF Sound, TypeOK
<1> DEFINE r == [press[p] EXCEPT !.pc = "pushing", !.tries = press[p].tries + 1]
<1>a. press[p] \in PressType /\ press[p].gate \in Gates
      /\ press[p].pc = "refused" /\ press[p].tries < PushAttempts
  BY PressIs DEF PushAgain
<1>b. ClickTypes' /\ press' = [press EXCEPT ![p] = r]
  BY <1>a, PushTyped DEF PushAgain
<1>c. r \in PressType /\ r.pc = "pushing" /\ r.gate = press[p].gate
      /\ r.told = press[p].told
  BY <1>a, PushedAgain DEF PressType
<1> HIDE DEF r
<1>1. ClickTypes'
  BY <1>b
<1>2. PressInOrder'
  BY <1>a, <1>b, <1>c, OrderAfter DEF PressInOrder
<1>3. ClaimIsBacked'
  <2>1. \A g \in Gates : board'[g] = "claimed" =>
          \/ r.gate = g /\ r.pc \in {"pushing", "refused"}
          \/ board[g] = "claimed"
             /\ (press[p].gate = g => press[p].pc \notin {"pushing", "refused"})
    BY <1>c DEF PushAgain
  <2>2. winner' = winner
    BY DEF PushAgain, gateVars
  <2> QED
    BY <1>b, <1>c, <2>1, <2>2, ClaimAfter
<1>4. TakenIsRuling'
  <2>1. r.told # "taken"
    BY <1>a, <1>c DEF PressInOrder
  <2> QED
    BY <1>b, <2>1, TakenAfter DEF PushAgain, gateVars
<1>5. GateTypes' /\ SendTypes' /\ PumpTypes' /\ OneSender' /\
      BoardHasButtons' /\ WinnerIsRuling'
  BY GateFrame, SendFrame, PumpFrame, SenderFrame, ButtonsFrame,
     WinnerFrame DEF PushAgain, gateVars, sendVars, pumpVars,
     worldVars, clickVars
<1> QED
  BY <1>1, <1>2, <1>3, <1>4, <1>5

LEMMA PushGivesUpKeeps ==
  ASSUME Sound, NEW p \in Presses, PushGivesUp(p)
  PROVE  Sound'
<1> USE DEF Sound, TypeOK
<1> DEFINE r == [press[p] EXCEPT !.pc = "told", !.told = "undelivered"]
<1>a. press[p] \in PressType /\ press[p].gate \in Gates /\ press[p].decision \in Answers
  BY PressIs DEF PushGivesUp
<1>b. r \in PressType /\ r.pc = "told" /\ r.gate = press[p].gate
      /\ r.decision = press[p].decision /\ r.told = "undelivered"
  BY <1>a DEF PressType
<1>c. press' = [press EXCEPT ![p] = r] /\ inbox' = inbox /\ stale' = stale
  BY DEF PushGivesUp, Told, ClickTypes
<1>d. /\ PumpTypes' /\ BoardHasButtons'
      /\ \A h \in Gates : board'[h] = "claimed" => board[h] = "claimed"
         /\ h # press[p].gate
  BY <1>a, ReleaseTyped DEF PushGivesUp
<1> HIDE DEF r
<1>1. PumpTypes'
  BY <1>d
<1>2. ClickTypes'
  BY <1>a, <1>b, <1>c, PressGoesOn DEF ClickTypes
<1>3. BoardHasButtons'
  BY <1>d
<1>4. PressInOrder'
  BY <1>b, <1>c, OrderAfter
<1>5. ClaimIsBacked'
  <2>1. \A g \in Gates : board'[g] = "claimed" =>
          \/ r.gate = g /\ r.pc \in {"pushing", "refused"}
          \/ board[g] = "claimed"
             /\ (press[p].gate = g => press[p].pc \notin {"pushing", "refused"})
    BY <1>d
  <2>2. winner' = winner
    BY DEF PushGivesUp, gateVars
  <2> QED
    BY <1>b, <1>c, <2>1, <2>2, ClaimAfter
<1>6. TakenIsRuling'
  BY <1>b, <1>c, TakenAfter DEF PushGivesUp, gateVars
<1>7. GateTypes' /\ SendTypes' /\ OneSender' /\ WinnerIsRuling'
  BY GateFrame, SendFrame, SenderFrame, WinnerFrame DEF PushGivesUp,
     gateVars, sendVars, pumpVars, worldVars, clickVars
<1> QED
  BY <1>1, <1>2, <1>3, <1>4, <1>5, <1>6, <1>7

LEMMA RefuseTokenKeeps ==
  ASSUME Sound, RefuseToken
  PROVE  Sound'
<1> USE DEF Sound, TypeOK
<1> DEFINE m == Head(inbox)
           p == m.press
<1>a. /\ inbox # <<>> /\ m \in Pushed /\ p \in Presses /\ press[p].pc # "none"
      /\ press[p] \in PressType /\ press[p].gate \in Gates
         /\ press[p].decision \in Answers
  BY InboxHead, PressIs DEF RefuseToken, Pushed
<1> DEFINE r == [press[p] EXCEPT !.pc = "refused"]
<1>b. r \in PressType /\ r.pc = "refused" /\ r.gate = press[p].gate
      /\ r.decision = press[p].decision /\ r.told = press[p].told
  BY <1>a DEF PressType
<1>c. /\ inbox' = Tail(inbox) /\ stale' \in BOOLEAN /\ UNCHANGED <<winner, ruling, board>>
      /\ \/ press[p].pc = "pushing" /\ press' = [press EXCEPT ![p] = r]
         \/ press' = press
  BY DEF RefuseToken, Heard, gateVars, ClickTypes
<1> HIDE DEF r, p, m
<1>1. ClickTypes'
  BY <1>a, <1>b, <1>c, PressShrinks
<1>2. PressInOrder'
  <2>1. press[p].pc = "pushing" => r.told = "nothing"
    BY <1>a, <1>b DEF PressInOrder
  <2> QED
    BY <1>a, <1>b, <1>c, <2>1, OrderAfter, PressFrame
<1>3. ClaimIsBacked'
  <2>1. CASE press' = [press EXCEPT ![p] = r] /\ press[p].pc = "pushing"
    <3>1. \A q \in Presses : press'[q] = IF q = p THEN r ELSE press[q]
      BY <2>1 DEF ClickTypes
    <3>2. \A h \in Gates : InDelivery(h)' = InDelivery(h)
      BY <1>b, <2>1, <3>1 DEF InDelivery
    <3> QED
      BY <1>c, <3>2 DEF ClaimIsBacked
  <2>2. CASE press' = press
    BY <1>c, <2>2, ClaimFrame
  <2> QED
    BY <1>c, <2>1, <2>2
<1>4. TakenIsRuling'
  <2>1. press[p].pc = "pushing" => r.told # "taken"
    BY <1>a, <1>b DEF PressInOrder
  <2> QED
    BY <1>a, <1>c, <2>1, TakenAfter, TakenFrame
<1>5. GateTypes' /\ SendTypes' /\ PumpTypes' /\ OneSender' /\
      BoardHasButtons' /\ WinnerIsRuling'
  BY GateFrame, SendFrame, PumpFrame, SenderFrame, ButtonsFrame,
     WinnerFrame DEF RefuseToken, gateVars, sendVars, pumpVars,
     worldVars, clickVars
<1> QED
  BY <1>1, <1>2, <1>3, <1>4, <1>5

LEMMA ResolveKeeps ==
  ASSUME Sound, Resolve
  PROVE  Sound'
<1> USE DEF Sound, TypeOK
<1> DEFINE m == Head(inbox)
           p == m.press
<1>a. /\ inbox # <<>> /\ m \in Pushed /\ p \in Presses /\ press[p].pc # "none"
      /\ press[p] \in PressType /\ press[p].gate \in Gates
         /\ press[p].decision \in Answers
  BY InboxHead, PressIs DEF Resolve, Pushed
<1> DEFINE g == press[p].gate
           wins == StillOpen(g) /\ press[p].approver
           what == IF wins THEN "taken" ELSE IF StillOpen(g) THEN "mayNot" ELSE "already"
           r == [press[p] EXCEPT !.pc = "told", !.told = what]
<1>b. r \in PressType /\ r.pc = "told" /\ r.gate = g
      /\ r.decision = press[p].decision /\ r.told = what
  BY <1>a DEF PressType
<1>c. /\ inbox' = Tail(inbox) /\ UNCHANGED <<phase, alive, stale, tries, sending, wire, queue, job, posted, live>>
      /\ wins => /\ ruling' = [ruling EXCEPT ![g] = press[p].decision]
                 /\ winner' = [winner EXCEPT ![g] = p]
                 /\ telling' = telling \cup {<<g, "decided">>}
                 /\ ruling[g] = "open"
      /\ ~wins => UNCHANGED <<ruling, winner, telling>>
      /\ UNCHANGED seen
  BY DEF Resolve, StillOpen, sendVars, pumpVars, worldVars
<1>d. \/ /\ press[p].pc = "pushing" /\ press' = [press EXCEPT ![p] = r]
         /\ \/ wins /\ board' = board
            \/ ~wins /\ ReleaseClaim(g)
      \/ press' = press /\ board' = board
  BY DEF Resolve, Heard, Answered, Told, ClickTypes
<1>e. what \in {"taken", "mayNot", "already"} /\ (what = "taken" <=> wins)
  OBVIOUS
<1>f. wins \in BOOLEAN
  BY <1>a DEF StillOpen, PressType
<1> HIDE DEF r, p, m, g, wins, what
<1>g. g \in Gates
  BY <1>a DEF g
<1>h. /\ PumpTypes' /\ BoardHasButtons'
      /\ \A h \in Gates : board'[h] = "claimed" => board[h] = "claimed"
      /\ ~wins /\ press' # press => board'[g] # "claimed"
  <2>1. CASE board' = board
    <3>1. CASE wins \/ press' = press
      BY <1>c, <2>1, <3>1, PumpFrame, ButtonsFrame DEF pumpVars, worldVars
    <3>2. CASE ~wins /\ press' # press
      BY <1>c, <1>d, <1>g, <3>2, ReleaseTyped DEF pumpVars, worldVars
    <3> QED
      BY <1>f, <3>1, <3>2
  <2>2. CASE ReleaseClaim(g)
    BY <1>c, <1>g, <2>2, ReleaseTyped DEF pumpVars, worldVars
  <2> QED
    BY <1>d, <2>1, <2>2
<1>i. wins => winner[g] = Nobody
  BY <1>c, <1>g DEF WinnerIsRuling
<1>1. GateTypes'
  <2>1. <<g, "decided">> \in Envelopes
    BY <1>g, EnvelopeOf DEF Kinds
  <2> QED
    BY <1>a, <1>c, <1>f, <1>g, <2>1 DEF GateTypes
<1>2. SendTypes'
  BY <1>c, SendFrame DEF sendVars
<1>3. PumpTypes'
  BY <1>h
<1>4. ClickTypes'
  BY <1>a, <1>b, <1>c, <1>d, PressShrinks DEF ClickTypes, g
<1>5. OneSender'
  <2>1. CASE ~wins
    BY <1>c, <2>1, SenderFrame DEF gateVars
  <2>2. CASE wins
    <3>1. \A h \in Gates : /\ <<h, "open">>[2] = "open" /\ <<h, "decided">>[2] = "decided"
                           /\ <<h, "expired">> # <<g, "decided">>
                           /\ (<<h, "decided">> = <<g, "decided">> <=> h = g)
      OBVIOUS
    <3>2. \A h \in Gates : ruling'[h] = "open" => ruling[h] = "open" /\ h # g
      BY <1>a, <1>c, <2>2 DEF GateTypes, Answers
    <3>3. tries[<<g, "decided">>] = 0
      BY <1>c, <1>g, <2>2 DEF OneSender
    <3>4. \A f \in telling' : f[2] # "open" /\ tries[f] = 0
      BY <1>c, <1>g, <2>2, <3>1, <3>3 DEF OneSender
    <3> QED
      BY <1>c, <2>2, <3>1, <3>2, <3>4 DEF OneSender
  <2> QED
    BY <1>f, <2>1, <2>2
<1>6. BoardHasButtons'
  BY <1>h
<1>7. PressInOrder'
  BY <1>a, <1>b, <1>d, OrderAfter, PressFrame
<1>8. WinnerIsRuling'
  <2>1. CASE wins
    BY <1>a, <1>c, <1>g, <2>1 DEF WinnerIsRuling, GateTypes, Answers
  <2>2. CASE ~wins
    BY <1>c, <2>2, WinnerFrame
  <2> QED
    BY <1>f, <2>1, <2>2
<1>9. ClaimIsBacked'
  <2>1. \A q \in Presses : press'[q] = press[q] \/ (q = p /\ press'[q] = r)
    BY <1>d DEF ClickTypes
  <2> SUFFICES ASSUME NEW h \in Gates, board'[h] = "claimed"
               PROVE  InDelivery(h)' # {} \/ \E q \in Presses : winner'[h] = q
    BY DEF ClaimIsBacked
  <2>2. CASE wins /\ h = g
    <3>1. winner'[h] = p
      BY <1>c, <1>g, <2>2 DEF GateTypes
    <3> QED
      BY <1>a, <3>1
  <2>3. CASE ~(wins /\ h = g)
    <3>1. winner'[h] = winner[h]
      BY <1>c, <1>f, <1>g, <2>3 DEF GateTypes
    <3>2. board[h] = "claimed"
      BY <1>h
    <3>3. CASE \E q \in Presses : winner[h] = q
      BY <3>1, <3>3
    <3>4. CASE InDelivery(h) # {}
      <4>1. PICK q \in Presses : press[q].gate = h
            /\ press[q].pc \in {"pushing", "refused"}
        BY <3>4 DEF InDelivery
      <4>2. CASE press'[q] = press[q]
        BY <4>1, <4>2 DEF InDelivery
      <4>3. CASE press'[q] # press[q]
        <5>1. q = p /\ h = g
          BY <2>1, <4>1, <4>3 DEF g
        <5>2. ~wins /\ press' # press
          BY <1>f, <2>3, <4>3, <5>1
        <5> QED
          BY <1>h, <5>1, <5>2
      <4> QED
        BY <4>2, <4>3
    <3> QED
      BY <3>2, <3>3, <3>4 DEF ClaimIsBacked
  <2> QED
    BY <2>2, <2>3
<1>10. TakenIsRuling'
  <2> SUFFICES ASSUME NEW q \in Presses, press'[q].told = "taken"
               PROVE  /\ winner'[press'[q].gate] = q
                      /\ ruling'[press'[q].gate] = press'[q].decision
    BY DEF TakenIsRuling
  <2>1. CASE press'[q] = press[q]
    <3>1. /\ winner[press[q].gate] = q /\ ruling[press[q].gate] = press[q].decision
          /\ press[q].gate \in Gates
      BY <2>1 DEF TakenIsRuling, ClickTypes, PressInOrder
    <3>2. ~wins \/ press[q].gate # g
      BY <1>i, <3>1
    <3> QED
      BY <1>c, <1>f, <1>g, <2>1, <3>1, <3>2 DEF GateTypes
  <2>2. CASE press'[q] # press[q]
    <3>1. q = p /\ press'[q] = r
      BY <1>d, <2>2 DEF ClickTypes
    <3>2. wins
      BY <1>b, <1>e, <3>1
    <3> QED
      BY <1>b, <1>c, <1>g, <3>1, <3>2 DEF GateTypes
  <2> QED
    BY <2>1, <2>2
<1> QED
  BY <1>1, <1>2, <1>3, <1>4, <1>5, <1>6, <1>7, <1>8, <1>9, <1>10

LEMMA StutterKeeps ==
  ASSUME Sound, UNCHANGED vars
  PROVE  Sound'
  BY GateFrame, SendFrame, PumpFrame, ClickFrame, SenderFrame,
     ButtonsFrame, PressFrame, WinnerFrame, ClaimFrame, TakenFrame
     DEF Sound, TypeOK, vars, gateVars, sendVars, pumpVars, worldVars, clickVars

LEMMA SoundNext == Sound /\ [Next]_vars => Sound'
  BY SubmitKeeps, TerminalAnswersKeeps, ExpireKeeps, GiveUpKeeps,
     TellKeeps, ResendKeeps, SendFailsKeeps, HandleFrameKeeps,
     PostBeginKeeps, MessagePostedKeeps, RememberKeeps,
     FinishBeginKeeps, MessageEditedKeeps, PressKeeps,
     ClaimPressKeeps, PushTimeoutKeeps, PushAgainKeeps,
     PushGivesUpKeeps, RefuseTokenKeeps, ResolveKeeps,
     StutterKeeps
     DEF Next, SessionStep, PumpStep, ListenerStep, Clicker

\* The invariant that carries the others: one sender per envelope, buttons
\* wherever the board or the pump says so, presses that end once.
THEOREM RoundTripIsSound == Spec => []Sound
  BY SoundInit, SoundNext, PTL DEF Spec

\* Every variable of the session, the broker, Discord and the clicks stays in
\* its range: what GateBoard, SessionClient and InboundListener hold.
THEOREM TypeCorrect == Spec => []TypeOK
<1>1. Sound => TypeOK
  BY DEF Sound
<1> QED
  BY <1>1, RoundTripIsSound, PTL

\* A claim of GateBoard never outlives its delivery unless it decided: no
\* silence, no refusal and no outsider uses up a gate.
THEOREM ClaimsAreBacked == Spec => []ClaimIsBacked
<1>1. Sound => ClaimIsBacked
  BY DEF Sound
<1> QED
  BY <1>1, RoundTripIsSound, PTL

\* Whoever deliver_click() answers with "taken" decided the gate, for good.
THEOREM TakenDecides == Spec => []TakenIsRuling
<1>1. Sound => TakenIsRuling
  BY DEF Sound
<1> QED
  BY <1>1, RoundTripIsSound, PTL

-----------------------------------------------------------------------------
(* A gate is posted once.                                                  *)

\* The envelopes that may be applied between two copies of g's open frame: a
\* deadline ends only a gate whose open frame is not sent any more.
Rivals(g) == Envelopes \ {<<g, "open">>, <<g, "expired">>}

\* The broker remembers more envelopes than those.
MemoryCovers ==
  \A g \in Gates : /\ IsFiniteSet(Rivals(g))
                   /\ Cardinality(Rivals(g)) < EnvelopeMemory

Carried(f)    == <<f.gate, f.kind>>
Recalled(e)   == \E i \in 1 .. Len(seen) : seen[i] = e
OnWire(e)     == \E i \in 1 .. Len(wire) : Carried(wire[i]) = e
Posting(i, g) == queue[i].kind = "post" /\ queue[i].gate = g
InHand(g)     == job.kind \in {"post", "sent"} /\ job.gate = g

\* A copy of the open frame may still come; the gate is in the thread, or on
\* its way there.
Asked(g)  == phase[g] \in {"new", "asking"} \/ OnWire(<<g, "open">>)
Opened(g) == \/ \E i \in 1 .. Len(queue) : Posting(i, g)
             \/ InHand(g) \/ posted[g] > 0

\* Only what was sent is on the wire or remembered, and that once.
MemoryInOrder ==
  /\ \A i \in 1 .. Len(wire) : tries[Carried(wire[i])] > 0
  /\ \A i \in 1 .. Len(seen) : tries[seen[i]] > 0
  /\ \A i, j \in 1 .. Len(seen) : seen[i] = seen[j] => i = j

\* The loopback keeps the order: no copy of the open frame comes after the
\* expiry.
OpenComesFirst ==
  \A g \in Gates : \A j \in 1 .. Len(wire) :
    Carried(wire[j]) = <<g, "open">> =>
      /\ \A i \in 1 .. j : Carried(wire[i]) # <<g, "expired">>
      /\ ~Recalled(<<g, "expired">>)

\* As long as copies may come the memory holds the first one.
RememberedWhileAsked ==
  \A g \in Gates : Asked(g) /\ Opened(g) => Recalled(<<g, "open">>)

\* There is one job for a gate, then one message.
OneOpening ==
  \A g \in Gates :
    /\ \A i \in 1 .. Len(queue) :
         Posting(i, g) => /\ ~InHand(g) /\ posted[g] = 0
                          /\ \A j \in 1 .. Len(queue) : Posting(j, g) => i = j
    /\ job.kind = "post" /\ job.gate = g => posted[g] = 0
    /\ posted[g] <= 1

Once == MemoryInOrder /\ OpenComesFirst /\ RememberedWhileAsked /\ OneOpening

LEMMA MemoryFrame ==
  MemoryInOrder /\ OpenComesFirst /\ UNCHANGED <<tries, wire, seen>> =>
    MemoryInOrder' /\ OpenComesFirst'
  BY DEF MemoryInOrder, OpenComesFirst, Carried, Recalled

LEMMA OpeningFrame ==
  OneOpening /\ UNCHANGED <<queue, job, posted>> => OneOpening'
  BY DEF OneOpening, InHand, Posting

\* Nothing new is asked, and nothing is queued or posted.
LEMMA RememberedFrame ==
  ASSUME RememberedWhileAsked, UNCHANGED <<seen, queue, job, posted>>,
         \A g \in Gates : Asked(g)' => Asked(g)
  PROVE  RememberedWhileAsked'
<1>1. \A g \in Gates : Opened(g)' = Opened(g)
  BY DEF Opened, InHand, Posting
<1>2. \A g \in Gates : Recalled(<<g, "open">>)' = Recalled(<<g, "open">>)
  BY DEF Recalled
<1> QED
  BY <1>1, <1>2 DEF RememberedWhileAsked

LEMMA AskedFrame ==
  ASSUME UNCHANGED wire,
         \A g \in Gates : phase'[g] \in {"new", "asking"} => phase[g] \in {"new", "asking"}
  PROVE  \A g \in Gates : Asked(g)' => Asked(g)
  BY DEF Asked, OnWire

LEMMA WireIs ==
  ASSUME SendTypes
  PROVE  /\ Len(wire) \in Nat /\ Len(seen) \in Nat
         /\ \A i \in 1 .. Len(wire) : Carried(wire[i]) \in Envelopes
         /\ \A i \in 1 .. Len(seen) : seen[i] \in Envelopes
<1>1. \A i \in 1 .. Len(wire) : wire[i] \in [gate : Gates, kind : Kinds, try : 1 .. SendAttempts]
  BY ElementOfSeq DEF SendTypes
<1>2. \A i \in 1 .. Len(seen) : seen[i] \in Envelopes
  BY ElementOfSeq DEF SendTypes
<1>3. Len(wire) \in Nat /\ Len(seen) \in Nat
  BY LenProperties DEF SendTypes
<1> QED
  BY <1>1, <1>2, <1>3 DEF Carried, Envelopes

\* A frame joins the wire; an open one only while the gate is being asked.
LEMMA SendInOrder ==
  ASSUME SendTypes, OneSender, MemoryInOrder, OpenComesFirst, UNCHANGED seen,
         NEW e \in Envelopes, tries[e] < SendAttempts, Send(e),
         e[2] = "open" => phase[e[1]] \in {"new", "asking"}
  PROVE  /\ MemoryInOrder' /\ OpenComesFirst'
         /\ \A g \in Gates : OnWire(<<g, "open">>)' =>
              OnWire(<<g, "open">>) \/ phase[g] \in {"new", "asking"}
<1> DEFINE n == Len(wire)
<1>1. /\ n \in Nat /\ Len(wire') = n + 1
      /\ \A i \in 1 .. n : wire'[i] = wire[i]
      /\ wire'[n + 1] = Attempt(e)
  BY AppendProperties, WireIs DEF SendTypes, Send
<1>2. Carried(wire'[n + 1]) = e
  BY <1>1, EnvelopeIs DEF Attempt, Carried
<1>3. /\ tries' = [tries EXCEPT ![e] = tries[e] + 1]
      /\ tries \in [Envelopes -> 0 .. SendAttempts]
  BY SendTyped DEF SendTypes
<1>4. \A f \in Envelopes : tries[f] > 0 => tries'[f] > 0
  BY <1>3
<1>5. tries'[e] > 0
  BY <1>3
<1> HIDE DEF n
<1>6. MemoryInOrder'
  <2>1. ASSUME NEW i \in 1 .. Len(wire') PROVE tries'[Carried(wire'[i])] > 0
    <3>1. CASE i \in 1 .. n
      <4>1. wire'[i] = wire[i] /\ Carried(wire[i]) \in Envelopes /\ tries[Carried(wire[i])] > 0
        BY <1>1, <3>1, WireIs DEF MemoryInOrder, n
      <4> QED
        BY <1>4, <4>1
    <3>2. CASE i = n + 1
      BY <1>2, <1>5, <3>2
    <3> QED
      BY <1>1, <3>1, <3>2
  <2>2. \A i \in 1 .. Len(seen') : tries'[seen'[i]] > 0
    BY <1>4, WireIs DEF MemoryInOrder
  <2>3. \A i, j \in 1 .. Len(seen') : seen'[i] = seen'[j] => i = j
    BY DEF MemoryInOrder
  <2> QED
    BY <2>1, <2>2, <2>3 DEF MemoryInOrder
<1>7. ASSUME NEW g \in Gates, e = <<g, "open">>
      PROVE  /\ \A i \in 1 .. n : Carried(wire[i]) # <<g, "expired">>
             /\ ~Recalled(<<g, "expired">>)
  <2>1. phase[g] \in {"new", "asking"}
    BY <1>7
  <2>2. tries[<<g, "expired">>] = 0
    BY <2>1 DEF OneSender
  <2> QED
    BY <2>2 DEF MemoryInOrder, Recalled, n
<1>8. OpenComesFirst'
  <2> SUFFICES ASSUME NEW g \in Gates, NEW j \in 1 .. Len(wire'),
                      Carried(wire'[j]) = <<g, "open">>
               PROVE  /\ \A i \in 1 .. j : Carried(wire'[i]) # <<g, "expired">>
                      /\ ~Recalled(<<g, "expired">>)'
    BY DEF OpenComesFirst
  <2>1. Recalled(<<g, "expired">>)' = Recalled(<<g, "expired">>)
    BY DEF Recalled
  <2>2. CASE j \in 1 .. n
    <3>1. Carried(wire[j]) = <<g, "open">> /\ \A i \in 1 .. j : wire'[i] = wire[i]
      BY <1>1, <2>2
    <3> QED
      BY <2>1, <2>2, <3>1 DEF OpenComesFirst, n
  <2>3. CASE j = n + 1
    <3>1. e = <<g, "open">>
      BY <1>2, <2>3
    <3>2. e # <<g, "expired">>
      BY <3>1
    <3> QED
      BY <1>1, <1>2, <1>7, <2>1, <2>3, <3>1, <3>2
  <2> QED
    BY <1>1, <2>2, <2>3
<1>9. ASSUME NEW g \in Gates, OnWire(<<g, "open">>)'
      PROVE  OnWire(<<g, "open">>) \/ phase[g] \in {"new", "asking"}
  <2>1. PICK j \in 1 .. Len(wire') : Carried(wire'[j]) = <<g, "open">>
    BY <1>9 DEF OnWire
  <2>2. CASE j \in 1 .. n
    BY <1>1, <2>1, <2>2 DEF OnWire, n
  <2>3. CASE j = n + 1
    <3>1. e = <<g, "open">>
      BY <1>2, <2>1, <2>3
    <3> QED
      BY <3>1
  <2> QED
    BY <1>1, <2>2, <2>3
<1> QED
  BY <1>6, <1>8, <1>9

\* A frame leaves the wire.
LEMMA TailInOrder ==
  ASSUME SendTypes, MemoryInOrder, OpenComesFirst, wire # <<>>,
         wire' = Tail(wire), UNCHANGED <<seen, tries>>
  PROVE  /\ MemoryInOrder' /\ OpenComesFirst'
         /\ \A g \in Gates : OnWire(<<g, "open">>)' =>
              /\ OnWire(<<g, "open">>)
              /\ Carried(Head(wire)) # <<g, "expired">>
<1>1. /\ Len(wire) \in Nat /\ Len(wire) > 0 /\ Len(wire') = Len(wire) - 1
      /\ Head(wire) = wire[1]
      /\ \A i \in 1 .. Len(wire') : wire'[i] = wire[i + 1]
  BY HeadTailProperties, WireIs DEF SendTypes
<1>2. \A i \in 1 .. Len(wire') : i + 1 \in 1 .. Len(wire)
  BY <1>1
<1>3. MemoryInOrder'
  BY <1>1, <1>2 DEF MemoryInOrder
<1>4. ASSUME NEW g \in Gates, NEW j \in 1 .. Len(wire'),
             Carried(wire'[j]) = <<g, "open">>
      PROVE  /\ \A i \in 1 .. j : Carried(wire'[i]) # <<g, "expired">>
             /\ ~Recalled(<<g, "expired">>)
             /\ Carried(Head(wire)) # <<g, "expired">>
             /\ OnWire(<<g, "open">>)
  <2>1. j + 1 \in 1 .. Len(wire) /\ Carried(wire[j + 1]) = <<g, "open">>
    BY <1>1, <1>2, <1>4
  <2>2. /\ \A i \in 1 .. j + 1 : Carried(wire[i]) # <<g, "expired">>
        /\ ~Recalled(<<g, "expired">>)
    BY <2>1 DEF OpenComesFirst
  <2>3. \A i \in 1 .. j : i + 1 \in 1 .. j + 1 /\ wire'[i] = wire[i + 1]
    BY <1>1
  <2>4. 1 \in 1 .. j + 1
    BY <1>1
  <2> QED
    BY <1>1, <2>1, <2>2, <2>3, <2>4 DEF OnWire
<1>5. OpenComesFirst'
  BY <1>4 DEF OpenComesFirst, Recalled
<1> QED
  BY <1>3, <1>4, <1>5 DEF OnWire

\* An envelope joins the memory, which may push out its oldest.
LEMMA RememberedIs ==
  ASSUME SendTypes, NEW e \in Envelopes, RememberEnvelope(e)
  PROVE  \E k \in {0, 1} :
           /\ Len(seen) \in Nat /\ Len(seen) - k \in Nat
           /\ Len(seen') = (Len(seen) - k) + 1
           /\ \A i \in 1 .. Len(seen) - k : seen'[i] = seen[i + k]
           /\ seen'[(Len(seen) - k) + 1] = e
           /\ k = 1 => Len(seen) = EnvelopeMemory
<1>1. seen \in Seq(Envelopes) /\ Len(seen) \in Nat /\ Len(seen) <= EnvelopeMemory
  BY LenProperties DEF SendTypes
<1>2. CASE Len(seen) < EnvelopeMemory
  <2>1. seen' = Append(seen, e)
    BY <1>2 DEF RememberEnvelope
  <2>2. /\ Len(seen') = Len(seen) + 1 /\ seen'[Len(seen) + 1] = e
        /\ \A i \in 1 .. Len(seen) : seen'[i] = seen[i]
    BY <1>1, <2>1, AppendProperties
  <2> QED
    BY <1>1, <2>2
<1>3. CASE ~(Len(seen) < EnvelopeMemory)
  <2>1. Len(seen) = EnvelopeMemory /\ seen # <<>> /\ Len(seen) > 0
    BY <1>1, <1>3
  <2>2. /\ Tail(seen) \in Seq(Envelopes) /\ Len(Tail(seen)) = Len(seen) - 1
        /\ \A i \in 1 .. Len(Tail(seen)) : Tail(seen)[i] = seen[i + 1]
    BY <1>1, <2>1, HeadTailProperties
  <2>3. seen' = Append(Tail(seen), e)
    BY <1>3 DEF RememberEnvelope
  <2>4. /\ Len(seen') = Len(Tail(seen)) + 1 /\ seen'[Len(Tail(seen)) + 1] = e
        /\ \A i \in 1 .. Len(Tail(seen)) : seen'[i] = Tail(seen)[i]
    BY <2>2, <2>3, AppendProperties
  <2> QED
    BY <1>1, <2>1, <2>2, <2>4
<1> QED
  BY <1>2, <1>3

LEMMA RememberInOrder ==
  ASSUME SendTypes, MemoryInOrder, NEW e \in Envelopes, RememberEnvelope(e),
         AcceptEnvelope(e), tries[e] > 0, UNCHANGED tries
  PROVE  /\ \A i \in 1 .. Len(seen') : tries'[seen'[i]] > 0
         /\ \A i, j \in 1 .. Len(seen') : seen'[i] = seen'[j] => i = j
         /\ Recalled(e)'
         /\ \A f : Recalled(f)' => Recalled(f) \/ f = e
         /\ \A f : Recalled(f) /\ ~Recalled(f)' => Len(seen') = EnvelopeMemory
<1>1. PICK k \in {0, 1} :
           /\ Len(seen) \in Nat /\ Len(seen) - k \in Nat
           /\ Len(seen') = (Len(seen) - k) + 1
           /\ \A i \in 1 .. Len(seen) - k : seen'[i] = seen[i + k]
           /\ seen'[(Len(seen) - k) + 1] = e
           /\ k = 1 => Len(seen) = EnvelopeMemory
  BY RememberedIs
<1> DEFINE n == Len(seen) - k
<1>2. /\ n \in Nat /\ Len(seen') = n + 1 /\ seen'[n + 1] = e /\ Len(seen) = n + k
      /\ \A i \in 1 .. n : seen'[i] = seen[i + k] /\ i + k \in 1 .. Len(seen)
  BY <1>1
<1>3. \A i \in 1 .. Len(seen') : i \in 1 .. n \/ i = n + 1
  BY <1>2
<1> HIDE DEF n
<1>4. \A i \in 1 .. n : seen'[i] # e
  BY <1>2 DEF AcceptEnvelope
<1>5. \A i, j \in 1 .. n : seen'[i] = seen'[j] => i = j
  <2> SUFFICES ASSUME NEW i \in 1 .. n, NEW j \in 1 .. n, seen'[i] = seen'[j]
               PROVE  i = j
    OBVIOUS
  <2>1. i + k = j + k
    BY <1>2 DEF MemoryInOrder
  <2> QED
    BY <1>2, <2>1
<1>6. \A i, j \in 1 .. Len(seen') : seen'[i] = seen'[j] => i = j
  BY <1>2, <1>3, <1>4, <1>5
<1>7. \A i \in 1 .. Len(seen') : tries'[seen'[i]] > 0
  BY <1>2, <1>3 DEF MemoryInOrder
<1>8. Recalled(e)'
  BY <1>2 DEF Recalled
<1>9. \A f : Recalled(f)' => Recalled(f) \/ f = e
  BY <1>2, <1>3 DEF Recalled
<1>10. ASSUME NEW f, Recalled(f), ~Recalled(f)'
       PROVE  Len(seen') = EnvelopeMemory
  <2>1. PICK i \in 1 .. Len(seen) : seen[i] = f
    BY <1>10 DEF Recalled
  <2>2. CASE k = 0
    <3>1. i \in 1 .. n /\ i + k = i
      BY <1>2, <2>2
    <3>2. seen'[i] = f /\ i \in 1 .. Len(seen')
      BY <1>2, <2>1, <3>1
    <3> QED
      BY <1>10, <3>2 DEF Recalled
  <2>3. CASE k = 1
    BY <1>1, <1>2, <2>3
  <2> QED
    BY <2>2, <2>3
<1> QED
  BY <1>6, <1>7, <1>8, <1>9, <1>10

\* A full memory of envelopes of which none is g's expiry holds its open frame.
LEMMA FullMemoryHolds ==
  ASSUME MemoryCovers, NEW g \in Gates, NEW s \in Seq(Envelopes),
         Len(s) = EnvelopeMemory,
         \A i, j \in 1 .. Len(s) : s[i] = s[j] => i = j,
         \A i \in 1 .. Len(s) : s[i] # <<g, "expired">>
  PROVE  \E i \in 1 .. Len(s) : s[i] = <<g, "open">>
<1> SUFFICES ASSUME \A i \in 1 .. Len(s) : s[i] # <<g, "open">>
             PROVE  FALSE
  OBVIOUS
<1>1. s \in [1 .. Len(s) -> Envelopes] /\ Len(s) \in Nat
  BY LenProperties, SeqDef
<1>2. s \in [1 .. Len(s) -> Rivals(g)]
  BY <1>1 DEF Rivals
<1>3. s \in Injection(1 .. Len(s), Rivals(g))
  BY <1>2 DEF Injection, IsInjective
<1>4. IsFiniteSet(Rivals(g)) /\ Cardinality(Rivals(g)) < EnvelopeMemory
  BY DEF MemoryCovers
<1>5. Cardinality(1 .. Len(s)) <= Cardinality(Rivals(g))
  BY <1>3, <1>4, FS_Injection
<1>6. Cardinality(1 .. Len(s)) = EnvelopeMemory
  BY <1>1, FS_Interval
<1>7. Cardinality(Rivals(g)) \in Nat
  BY <1>4, FS_CardinalityType
<1> QED
  BY <1>4, <1>5, <1>6, <1>7

-----------------------------------------------------------------------------
(* Every step keeps it.                                                    *)

LEMMA OnceInit == Init => Once
  BY DEF Init, Once, MemoryInOrder, OpenComesFirst, RememberedWhileAsked,
     OneOpening, Opened, Posting, InHand, NoJob

\* Steps of the session that send nothing and start no gate.
LEMMA QuietStep ==
  ASSUME Sound, Once, UNCHANGED <<tries, wire, seen, queue, job, posted>>,
         \A g \in Gates : phase'[g] \in {"new", "asking"} => phase[g] \in {"new", "asking"}
  PROVE  Once'
  BY MemoryFrame, OpeningFrame, RememberedFrame, AskedFrame DEF Once

\* Steps that send: Submit, Tell and Resend.
LEMMA SendingStep ==
  ASSUME Sound, Once, UNCHANGED <<seen, queue, job, posted>>,
         NEW e \in Envelopes, tries[e] < SendAttempts, Send(e),
         e[2] = "open" => phase[e[1]] \in {"new", "asking"},
         \A g \in Gates : phase'[g] \in {"new", "asking"} => phase[g] \in {"new", "asking"}
  PROVE  Once'
<1>1. /\ MemoryInOrder' /\ OpenComesFirst'
      /\ \A g \in Gates : OnWire(<<g, "open">>)' =>
           OnWire(<<g, "open">>) \/ phase[g] \in {"new", "asking"}
  BY SendInOrder DEF Sound, TypeOK, Once
<1>2. \A g \in Gates : Asked(g)' => Asked(g)
  BY <1>1 DEF Asked
<1>3. RememberedWhileAsked'
  BY <1>2, RememberedFrame DEF Once
<1> QED
  BY <1>1, <1>3, OpeningFrame DEF Once

LEMMA SubmitOnce ==
  ASSUME Sound, Once, NEW g \in Gates, Submit(g)
  PROVE  Once'
<1>1. <<g, "open">> \in Envelopes /\ <<g, "open">>[1] = g
  BY EnvelopeOf DEF Kinds
<1>2. tries[<<g, "open">>] = 0
  BY DEF Submit, Sound, OneSender
<1>3. tries[<<g, "open">>] < SendAttempts
  BY <1>2
<1>4. \A h \in Gates : phase'[h] \in {"new", "asking"} => phase[h] \in {"new", "asking"}
  BY DEF Submit, Sound, TypeOK, GateTypes
<1>5. phase[g] \in {"new", "asking"} /\ Send(<<g, "open">>)
  BY DEF Submit
<1>6. UNCHANGED <<seen, queue, job, posted>>
  BY DEF Submit, pumpVars, worldVars
<1> QED
  BY <1>1, <1>3, <1>4, <1>5, <1>6, SendingStep

LEMMA TellOnce ==
  ASSUME Sound, Once, NEW e \in Envelopes, Tell(e)
  PROVE  Once'
<1>1. e[2] # "open" /\ tries[e] = 0
  BY DEF Tell, Sound, OneSender
<1>2. UNCHANGED <<phase, seen, queue, job, posted>> /\ Send(e) /\ tries[e] < SendAttempts
  BY <1>1 DEF Tell, pumpVars, worldVars
<1>3. \A h \in Gates : phase'[h] \in {"new", "asking"} => phase[h] \in {"new", "asking"}
  BY <1>2
<1> QED
  BY <1>1, <1>2, <1>3, SendingStep

LEMMA ResendOnce ==
  ASSUME Sound, Once, NEW e \in Envelopes, Resend(e)
  PROVE  Once'
<1>1. e[2] = "open" => phase[e[1]] \in {"new", "asking"}
  <2> SUFFICES ASSUME e[2] = "open"
               PROVE  phase[e[1]] \in {"new", "asking"}
    OBVIOUS
  <2>1. e[1] \in Gates /\ e = <<e[1], "open">> /\ e \in sending
    BY EnvelopeIs DEF Resend
  <2>2. \A g \in Gates : e = <<g, "open">> => phase[g] \notin {"waiting", "over"}
    BY <2>1 DEF Sound, OneSender
  <2> QED
    BY <2>1, <2>2 DEF Sound, TypeOK, GateTypes
<1>2. UNCHANGED <<phase, seen, queue, job, posted>> /\ Send(e) /\ tries[e] < SendAttempts
  BY DEF Resend, gateVars, pumpVars, worldVars
<1>3. \A h \in Gates : phase'[h] \in {"new", "asking"} => phase[h] \in {"new", "asking"}
  BY <1>2
<1> QED
  BY <1>1, <1>2, <1>3, SendingStep

LEMMA SubmittedStarts ==
  ASSUME GateTypes, NEW e \in Envelopes, NEW d \in BOOLEAN, Submitted(e, d)
  PROVE  \A g \in Gates : phase'[g] \in {"new", "asking"} => phase[g] \in {"new", "asking"}
<1>1. e[1] \in Gates
  BY EnvelopeIs
<1> QED
  BY <1>1 DEF Submitted, GateTypes

LEMMA SendFailsOnce ==
  ASSUME Sound, Once, NEW e \in Envelopes, SendFails(e)
  PROVE  Once'
<1>1. \A g \in Gates : phase'[g] \in {"new", "asking"} => phase[g] \in {"new", "asking"}
  BY SubmittedStarts DEF SendFails, Sound, TypeOK
<1>2. UNCHANGED <<tries, wire, seen, queue, job, posted>>
  BY DEF SendFails, pumpVars, worldVars
<1> QED
  BY <1>1, <1>2, QuietStep

LEMMA GiveUpOnce ==
  ASSUME Sound, Once, NEW g \in Gates, GiveUp(g)
  PROVE  Once'
<1>1. \A h \in Gates : phase'[h] \in {"new", "asking"} => phase[h] \in {"new", "asking"}
  BY DEF GiveUp, Sound, TypeOK, GateTypes
<1>2. UNCHANGED <<tries, wire, seen, queue, job, posted>>
  BY DEF GiveUp, sendVars, pumpVars, worldVars
<1> QED
  BY <1>1, <1>2, QuietStep

\* Steps that leave the frames and the pump's jobs alone.
LEMMA OtherOnce ==
  ASSUME Sound, Once, UNCHANGED <<phase, sendVars, seen, pumpVars, posted>>
  PROVE  Once'
<1>1. UNCHANGED <<phase, tries, wire, seen, queue, job, posted>>
  BY DEF sendVars, pumpVars
<1>2. \A h \in Gates : phase'[h] \in {"new", "asking"} => phase[h] \in {"new", "asking"}
  BY <1>1
<1> QED
  BY <1>1, <1>2, QuietStep

\* The pump: what is opened stays opened, and nothing new is.
LEMMA PumpStepOnce ==
  ASSUME Sound, Once, UNCHANGED <<phase, tries, wire, seen>>, OneOpening',
         \A g \in Gates : Opened(g)' => Opened(g)
  PROVE  Once'
<1>1. MemoryInOrder' /\ OpenComesFirst'
  BY MemoryFrame DEF Once
<1>2. \A g \in Gates : /\ Asked(g)' = Asked(g)
                       /\ Recalled(<<g, "open">>)' = Recalled(<<g, "open">>)
  BY DEF Asked, OnWire, Recalled
<1>3. RememberedWhileAsked'
  BY <1>2 DEF Once, RememberedWhileAsked
<1> QED
  BY <1>1, <1>3 DEF Once

LEMMA QueueLoses ==
  ASSUME PumpTypes, queue # <<>>, queue' = Tail(queue)
  PROVE  /\ Len(queue) \in Nat /\ 1 \in 1 .. Len(queue) /\ Head(queue) = queue[1]
         /\ Head(queue) \in [kind : {"post", "finish"}, gate : Gates]
         /\ \A i \in 1 .. Len(queue') : /\ i + 1 \in 1 .. Len(queue)
                                        /\ queue'[i] = queue[i + 1] /\ i \in Nat
         /\ \A g : \A i \in 1 .. Len(queue') : Posting(i, g)' <=> Posting(i + 1, g)
<1>1. /\ Len(queue) \in Nat /\ Len(queue) > 0 /\ Len(queue') = Len(queue) - 1
      /\ Head(queue) = queue[1]
      /\ \A i \in 1 .. Len(queue') : queue'[i] = queue[i + 1]
  BY HeadTailProperties, LenProperties DEF PumpTypes
<1>2. Head(queue) \in [kind : {"post", "finish"}, gate : Gates]
  BY QueueHead
<1>3. \A i \in 1 .. Len(queue') : i + 1 \in 1 .. Len(queue) /\ i \in Nat
  BY <1>1
<1>4. \A g : \A i \in 1 .. Len(queue') : Posting(i, g)' <=> Posting(i + 1, g)
  BY <1>1 DEF Posting
<1> QED
  BY <1>1, <1>2, <1>3, <1>4

LEMMA TakeJobOnce ==
  ASSUME Sound, Once, UNCHANGED <<phase, tries, wire, seen, posted>>,
         job = NoJob, queue # <<>>, queue' = Tail(queue),
         job' = NoJob \/ job' = Head(queue)
  PROVE  Once'
<1>1. /\ Len(queue) \in Nat /\ 1 \in 1 .. Len(queue) /\ Head(queue) = queue[1]
      /\ Head(queue) \in [kind : {"post", "finish"}, gate : Gates]
      /\ \A i \in 1 .. Len(queue') : /\ i + 1 \in 1 .. Len(queue)
                                     /\ queue'[i] = queue[i + 1] /\ i \in Nat
      /\ \A g : \A i \in 1 .. Len(queue') : Posting(i, g)' <=> Posting(i + 1, g)
  BY QueueLoses DEF Sound, TypeOK
<1>2. ASSUME NEW g, InHand(g)' PROVE job' = Head(queue) /\ Posting(1, g)
  <2>1. job' = Head(queue)
    BY <1>2 DEF InHand, NoJob
  <2>2. Head(queue).kind = "post"
    BY <1>1, <1>2, <2>1 DEF InHand
  <2> QED
    BY <1>1, <1>2, <2>1, <2>2 DEF InHand, Posting
<1>3. ASSUME NEW g \in Gates, NEW i \in 1 .. Len(queue'), Posting(i, g)'
      PROVE  /\ ~InHand(g)' /\ posted'[g] = 0
             /\ \A j \in 1 .. Len(queue') : Posting(j, g)' => i = j
  <2>1. i + 1 \in 1 .. Len(queue) /\ Posting(i + 1, g) /\ i \in Nat
    BY <1>1, <1>3
  <2>2. posted[g] = 0 /\ \A j \in 1 .. Len(queue) : Posting(j, g) => i + 1 = j
    BY <2>1 DEF Once, OneOpening
  <2>3. i + 1 # 1
    BY <1>1
  <2>4. ~InHand(g)'
    BY <1>1, <1>2, <2>2, <2>3
  <2>5. ASSUME NEW j \in 1 .. Len(queue'), Posting(j, g)' PROVE i = j
    <3>1. j + 1 \in 1 .. Len(queue) /\ Posting(j + 1, g) /\ j \in Nat
      BY <1>1, <2>5
    <3>2. i + 1 = j + 1
      BY <2>2, <3>1
    <3> QED
      BY <2>1, <3>1, <3>2
  <2> QED
    BY <2>2, <2>4, <2>5
<1>4. ASSUME NEW g \in Gates, job'.kind = "post", job'.gate = g
      PROVE  posted'[g] = 0
  <2>1. Posting(1, g)
    BY <1>2, <1>4 DEF InHand
  <2> QED
    BY <1>1, <2>1 DEF Once, OneOpening
<1>5. OneOpening'
  BY <1>3, <1>4 DEF Once, OneOpening
<1>6. ASSUME NEW g \in Gates, Opened(g)' PROVE Opened(g)
  <2>1. CASE \E i \in 1 .. Len(queue') : Posting(i, g)'
    BY <1>1, <2>1 DEF Opened
  <2>2. CASE InHand(g)'
    BY <1>1, <1>2, <2>2 DEF Opened
  <2>3. CASE posted'[g] > 0
    BY <2>3 DEF Opened
  <2> QED
    BY <1>6, <2>1, <2>2, <2>3 DEF Opened
<1> QED
  BY <1>5, <1>6, PumpStepOnce

LEMMA DropJobOnce ==
  ASSUME Sound, Once, UNCHANGED <<phase, tries, wire, seen, queue, posted>>, job' = NoJob
  PROVE  Once'
<1>1. \A g : ~InHand(g)' /\ (job'.kind # "post")
  BY DEF InHand, NoJob
<1>2. \A g : \A i \in 1 .. Len(queue) : Posting(i, g)' <=> Posting(i, g)
  BY DEF Posting
<1>3. OneOpening'
  BY <1>1, <1>2 DEF Once, OneOpening
<1>4. \A g \in Gates : Opened(g)' => Opened(g)
  BY <1>1, <1>2 DEF Opened
<1> QED
  BY <1>3, <1>4, PumpStepOnce

LEMMA MessagePostedOnce ==
  ASSUME Sound, Once, MessagePosted
  PROVE  Once'
<1>1. UNCHANGED <<phase, tries, wire, seen, queue>>
  BY DEF MessagePosted, gateVars, sendVars
<1>2. CASE UNCHANGED posted /\ job' = NoJob
  BY <1>1, <1>2, DropJobOnce
<1>3. CASE /\ posted' = [posted EXCEPT ![job.gate] = @ + 1]
           /\ job' = NoJob \/ job' = [job EXCEPT !.kind = "sent"]
  <2> DEFINE h == job.gate
  <2>1. job.kind = "post" /\ h \in Gates /\ InHand(h) /\ posted[h] = 0
    BY DEF MessagePosted, Sound, TypeOK, PumpTypes, NoJob, InHand, Once, OneOpening
  <2>2. /\ posted'[h] = 1 /\ \A g \in Gates : g # h => posted'[g] = posted[g]
    BY <1>3, <2>1 DEF Sound, TypeOK, PumpTypes
  <2>3. job'.kind # "post" /\ \A g : InHand(g)' => g = h
    BY <1>3, <2>1 DEF InHand, NoJob, Sound, TypeOK, PumpTypes
  <2> HIDE DEF h
  <2>4. \A g : \A i \in 1 .. Len(queue) : Posting(i, g)' <=> Posting(i, g)
    BY <1>1 DEF Posting
  <2>5. ASSUME NEW g \in Gates, NEW i \in 1 .. Len(queue'), Posting(i, g)'
        PROVE  /\ ~InHand(g)' /\ posted'[g] = 0
               /\ \A j \in 1 .. Len(queue') : Posting(j, g)' => i = j
    <3>1. i \in 1 .. Len(queue) /\ Posting(i, g)
      BY <1>1, <2>4, <2>5
    <3>2. /\ ~InHand(g) /\ posted[g] = 0
          /\ \A j \in 1 .. Len(queue) : Posting(j, g) => i = j
      BY <3>1 DEF Once, OneOpening
    <3>3. g # h
      BY <2>1, <3>2
    <3> QED
      BY <1>1, <2>2, <2>3, <2>4, <3>2, <3>3
  <2>6. \A g \in Gates : posted'[g] <= 1
    BY <2>2 DEF Once, OneOpening
  <2>7. OneOpening'
    BY <2>3, <2>5, <2>6 DEF OneOpening
  <2>8. ASSUME NEW g \in Gates, Opened(g)' PROVE Opened(g)
    <3>1. CASE g = h
      BY <2>1, <3>1 DEF Opened
    <3>2. CASE g # h
      <4>1. ~InHand(g)' /\ posted'[g] = posted[g]
        BY <2>2, <2>3, <3>2
      <4> QED
        BY <1>1, <2>4, <2>8, <4>1 DEF Opened
    <3> QED
      BY <3>1, <3>2
  <2> QED
    BY <1>1, <2>7, <2>8, PumpStepOnce
<1> QED
  BY <1>2, <1>3 DEF MessagePosted, worldVars

\* One frame: a copy that is not remembered is the first.
LEMMA HandleFrameOnce ==
  ASSUME MemoryCovers, Sound, Once, HandleFrame
  PROVE  Once'
<1>0. wire # <<>> /\ Head(wire) \in [gate : Gates, kind : Kinds, try : 1 .. SendAttempts]
  BY WireHead DEF HandleFrame, Sound, TypeOK
<1> PICK f \in [gate : Gates, kind : Kinds, try : 1 .. SendAttempts] : f = Head(wire)
  BY <1>0
<1> PICK e \in Envelopes : e = <<f.gate, f.kind>>
  BY EnvelopeOf
<1>1. /\ wire # <<>> /\ wire' = Tail(wire) /\ UNCHANGED <<tries, job, posted>>
      /\ Carried(f) = e
  BY DEF HandleFrame, worldVars, Carried
<1>2. /\ Len(wire) \in Nat /\ 1 \in 1 .. Len(wire) /\ f = wire[1]
  BY <1>1, HeadTailProperties, LenProperties DEF Sound, TypeOK, SendTypes
<1>3. tries[e] > 0 /\ OnWire(e)
  BY <1>1, <1>2 DEF Once, MemoryInOrder, OnWire
<1>4. \A g \in Gates : phase'[g] \in {"new", "asking"} => phase[g] \in {"new", "asking"}
  <2>1. Submitted(e, TRUE) \/ UNCHANGED phase
    BY DEF HandleFrame
  <2> QED
    BY <1>1, <2>1, SubmittedStarts DEF Sound, TypeOK
<1>5. \/ AcceptEnvelope(e) /\ RememberEnvelope(e) /\ Schedule(f.kind, f.gate)
      \/ UNCHANGED <<seen, queue>>
  BY DEF HandleFrame
\* What holds of the wire alone.
<1>6. /\ \A i \in 1 .. Len(wire') : tries[Carried(wire'[i])] > 0
      /\ \A g \in Gates : \A j \in 1 .. Len(wire') :
           Carried(wire'[j]) = <<g, "open">> =>
             /\ \A i \in 1 .. j : Carried(wire'[i]) # <<g, "expired">>
             /\ OnWire(<<g, "open">>) /\ e # <<g, "expired">>
             /\ ~Recalled(<<g, "expired">>)
  <2>1. /\ Len(wire) > 0 /\ Len(wire') = Len(wire) - 1
        /\ \A i \in 1 .. Len(wire') : wire'[i] = wire[i + 1]
    BY <1>1, HeadTailProperties DEF Sound, TypeOK, SendTypes
  <2>2. \A i \in 1 .. Len(wire') : i + 1 \in 1 .. Len(wire)
    BY <1>2, <2>1
  <2>3. \A i \in 1 .. Len(wire') : tries[Carried(wire'[i])] > 0
    BY <2>1, <2>2 DEF Once, MemoryInOrder
  <2> SUFFICES ASSUME NEW g \in Gates, NEW j \in 1 .. Len(wire'),
                      Carried(wire'[j]) = <<g, "open">>
               PROVE  /\ \A i \in 1 .. j : Carried(wire'[i]) # <<g, "expired">>
                      /\ OnWire(<<g, "open">>) /\ e # <<g, "expired">>
                      /\ ~Recalled(<<g, "expired">>)
    BY <2>3
  <2>4. j + 1 \in 1 .. Len(wire) /\ Carried(wire[j + 1]) = <<g, "open">>
    BY <2>1, <2>2
  <2>5. /\ \A i \in 1 .. j + 1 : Carried(wire[i]) # <<g, "expired">>
        /\ ~Recalled(<<g, "expired">>)
    BY <2>4 DEF Once, OpenComesFirst
  <2>6. \A i \in 1 .. j : i + 1 \in 1 .. j + 1 /\ i \in 1 .. Len(wire')
    BY <1>2, <2>1
  <2>7. 1 \in 1 .. j + 1
    BY <1>2, <2>1
  <2>8. e # <<g, "expired">>
    BY <1>1, <1>2, <2>5, <2>7
  <2> QED
    BY <2>1, <2>4, <2>5, <2>6, <2>8 DEF OnWire
<1>7. \A g \in Gates : OnWire(<<g, "open">>)' =>
        OnWire(<<g, "open">>) /\ e # <<g, "expired">> /\ ~Recalled(<<g, "expired">>)
  BY <1>6 DEF OnWire
<1>8. \A g \in Gates : Asked(g)' => Asked(g)
  BY <1>4, <1>7 DEF Asked
<1>9. \A g \in Gates : Asked(g)' => e # <<g, "expired">> /\ ~Recalled(<<g, "expired">>)
  <2> SUFFICES ASSUME NEW g \in Gates, Asked(g)', phase'[g] \in {"new", "asking"}
               PROVE  e # <<g, "expired">> /\ ~Recalled(<<g, "expired">>)
    BY <1>7 DEF Asked
  <2>1. tries[<<g, "expired">>] = 0
    BY <1>4 DEF Sound, OneSender
  <2> QED
    BY <1>3, <2>1 DEF Once, MemoryInOrder, Recalled
<1>10. CASE UNCHANGED <<seen, queue>>
  <2>1. MemoryInOrder'
    BY <1>1, <1>6, <1>10 DEF Once, MemoryInOrder
  <2>2. OpenComesFirst'
    BY <1>6, <1>10 DEF OpenComesFirst, Recalled
  <2>3. RememberedWhileAsked'
    BY <1>1, <1>8, <1>10, RememberedFrame DEF Once
  <2> QED
    BY <1>1, <1>10, <2>1, <2>2, <2>3, OpeningFrame DEF Once
<1>11. CASE AcceptEnvelope(e) /\ RememberEnvelope(e) /\ Schedule(f.kind, f.gate)
  <2>1. /\ \A i \in 1 .. Len(seen') : tries'[seen'[i]] > 0
        /\ \A i, j \in 1 .. Len(seen') : seen'[i] = seen'[j] => i = j
        /\ Recalled(e)'
        /\ \A d : Recalled(d)' => Recalled(d) \/ d = e
        /\ \A d : Recalled(d) /\ ~Recalled(d)' => Len(seen') = EnvelopeMemory
    BY <1>1, <1>3, <1>11, RememberInOrder DEF Sound, TypeOK, Once
  <2>2. MemoryInOrder'
    BY <1>1, <1>6, <2>1 DEF MemoryInOrder
  <2>3. OpenComesFirst'
    BY <1>6, <2>1 DEF OpenComesFirst
  <2>4. seen' \in Seq(Envelopes)
    BY <1>1, <1>11, RememberTyped DEF Sound, TypeOK
  <2>5. ASSUME NEW g \in Gates, Asked(g)', Recalled(<<g, "open">>)
        PROVE  Recalled(<<g, "open">>)'
    <3>1. ~Recalled(<<g, "expired">>)'
      BY <1>9, <2>1, <2>5
    <3> SUFFICES ASSUME Len(seen') = EnvelopeMemory PROVE Recalled(<<g, "open">>)'
      BY <2>1, <2>5
    <3>2. \A i \in 1 .. Len(seen') : seen'[i] # <<g, "expired">>
      BY <3>1 DEF Recalled
    <3> QED
      BY <2>1, <2>4, <3>2, FullMemoryHolds DEF Recalled
  <2>6. /\ Len(queue) \in Nat /\ Len(queue') = Len(queue) + 1
        /\ \A i \in 1 .. Len(queue) : queue'[i] = queue[i]
        /\ queue'[Len(queue) + 1] =
             [kind |-> IF f.kind = "open" THEN "post" ELSE "finish", gate |-> f.gate]
    <3>1. queue \in Seq([kind : {"post", "finish"}, gate : Gates])
      BY DEF Sound, TypeOK, PumpTypes
    <3>2. [kind |-> IF f.kind = "open" THEN "post" ELSE "finish", gate |-> f.gate]
            \in [kind : {"post", "finish"}, gate : Gates]
      BY <1>1
    <3> QED
      BY <1>11, <3>1, <3>2, AppendProperties, LenProperties DEF Schedule
  <2> PICK n \in Nat : n = Len(queue)
    BY <2>6
  <2>7. \A i \in 1 .. Len(queue') : i \in 1 .. n \/ i = n + 1
    BY <2>6
  <2>8. /\ \A g : \A i \in 1 .. n : Posting(i, g)' <=> Posting(i, g)
        /\ \A g : Posting(n + 1, g)' => e = <<g, "open">>
    <3>1. \A g : \A i \in 1 .. n : Posting(i, g)' <=> Posting(i, g)
      BY <2>6 DEF Posting
    <3>2. \A g : Posting(n + 1, g)' => f.gate = g /\ f.kind = "open"
      BY <2>6 DEF Posting
    <3> QED
      BY <3>1, <3>2
  <2>9. \A g \in Gates : e = <<g, "open">> => ~Opened(g)
    <3> SUFFICES ASSUME NEW g \in Gates, e = <<g, "open">>, Opened(g)
                 PROVE  FALSE
      OBVIOUS
    <3>1. Asked(g)
      BY <1>3 DEF Asked
    <3>2. Recalled(e)
      BY <3>1 DEF Once, RememberedWhileAsked
    <3> QED
      BY <1>11, <3>2 DEF AcceptEnvelope, Recalled
  <2>10. \A g : InHand(g)' <=> InHand(g)
    BY <1>1 DEF InHand
  <2>11. RememberedWhileAsked'
    <3> SUFFICES ASSUME NEW g \in Gates, Asked(g)', Opened(g)'
                 PROVE  Recalled(<<g, "open">>)'
      BY DEF RememberedWhileAsked
    <3>1. CASE e = <<g, "open">>
      BY <2>1, <3>1
    <3>2. CASE e # <<g, "open">>
      <4>1. Opened(g)
        BY <1>1, <2>7, <2>8, <2>10, <3>2 DEF Opened
      <4> QED
        BY <1>8, <2>5, <4>1 DEF Once, RememberedWhileAsked
    <3> QED
      BY <3>1, <3>2
  <2>12. ASSUME NEW g \in Gates, NEW i \in 1 .. Len(queue'), Posting(i, g)'
         PROVE  /\ ~InHand(g)' /\ posted'[g] = 0
                /\ \A j \in 1 .. Len(queue') : Posting(j, g)' => i = j
    <3>1. CASE e = <<g, "open">>
      <4>1. /\ \A j \in 1 .. n : ~Posting(j, g)
            /\ ~InHand(g) /\ ~(posted[g] > 0)
        BY <2>9, <3>1 DEF Opened
      <4>2. posted[g] = 0
        BY <4>1 DEF Sound, TypeOK, PumpTypes
      <4>3. \A j \in 1 .. Len(queue') : Posting(j, g)' => j = n + 1
        BY <2>7, <2>8, <4>1
      <4> QED
        BY <1>1, <2>10, <2>12, <4>1, <4>2, <4>3
    <3>2. CASE e # <<g, "open">>
      <4>1. \A j \in 1 .. Len(queue') : Posting(j, g)' => j \in 1 .. n /\ Posting(j, g)
        BY <2>7, <2>8, <3>2
      <4> QED
        BY <1>1, <2>10, <2>12, <4>1 DEF Once, OneOpening
    <3> QED
      BY <3>1, <3>2
  <2>13. OneOpening'
    BY <1>1, <2>12 DEF Once, OneOpening
  <2> QED
    BY <2>2, <2>3, <2>11, <2>13 DEF Once
<1> QED
  BY <1>5, <1>10, <1>11

LEMMA OnceNext ==
  ASSUME MemoryCovers, Sound, Once, [Next]_vars
  PROVE  Once'
<1>1. ASSUME NEW g \in Gates, Submit(g) PROVE Once'
  BY <1>1, SubmitOnce
<1>2. ASSUME NEW g \in Gates, GiveUp(g) PROVE Once'
  BY <1>2, GiveUpOnce
<1>3. ASSUME NEW e \in Envelopes, Tell(e) \/ Resend(e) \/ SendFails(e) PROVE Once'
  BY <1>3, TellOnce, ResendOnce, SendFailsOnce
<1>4. CASE HandleFrame
  BY <1>4, HandleFrameOnce
<1>5. CASE PostBegin \/ FinishBegin
  <2>1. UNCHANGED <<phase, tries, wire, seen, posted>> /\ job = NoJob
        /\ queue # <<>> /\ queue' = Tail(queue)
    BY <1>5 DEF PostBegin, FinishBegin, gateVars, sendVars, worldVars
  <2>2. job' = NoJob \/ job' = Head(queue)
    BY <1>5 DEF PostBegin, FinishBegin
  <2> QED
    BY <2>1, <2>2, TakeJobOnce
<1>6. CASE Remember \/ MessageEdited
  <2>1. UNCHANGED <<phase, tries, wire, seen, queue, posted>> /\ job' = NoJob
    BY <1>6 DEF Remember, MessageEdited, gateVars, sendVars, worldVars
  <2> QED
    BY <2>1, DropJobOnce
<1>7. CASE MessagePosted
  BY <1>7, MessagePostedOnce
<1>8. ASSUME NEW g \in Gates, TerminalAnswers(g) \/ Expire(g)
      PROVE  UNCHANGED <<phase, sendVars, seen, pumpVars, posted>>
  BY <1>8 DEF TerminalAnswers, Expire, worldVars
<1>9. ASSUME NEW p \in Presses, Clicker(p) \/ PushTimeout(p)
      PROVE  UNCHANGED <<phase, sendVars, seen, pumpVars, posted>>
  BY <1>9 DEF Clicker, ClaimPress, PushAgain, PushGivesUp, PushTimeout,
     gateVars, worldVars
<1>11. ASSUME NEW p \in Presses, NEW g \in Gates, Press(p, g)
       PROVE  UNCHANGED <<phase, sendVars, seen, pumpVars, posted>>
  BY <1>11 DEF Press, gateVars, worldVars
<1>10. ASSUME RefuseToken \/ Resolve \/ UNCHANGED vars
       PROVE  UNCHANGED <<phase, sendVars, seen, pumpVars, posted>>
  BY <1>10 DEF RefuseToken, Resolve, vars, gateVars, worldVars
<1> QED
  BY <1>1, <1>2, <1>3, <1>4, <1>5, <1>6, <1>7, <1>8, <1>9, <1>10, <1>11, OtherOnce
     DEF Next, SessionStep, PumpStep, ListenerStep

\* If the broker remembers more envelopes than can be applied between two
\* copies of one open frame, thread.send() is called for a gate at most once,
\* whatever copies arrive and whatever is decided meanwhile.
THEOREM PostedAtMostOnce ==
  ASSUME MemoryCovers PROVE Spec => []PostedOnce
<1>1. Spec => []Sound
  BY RoundTripIsSound
<1>2. Init => Once
  BY OnceInit
<1>3. Sound /\ Once /\ [Next]_vars => Once'
  BY OnceNext
<1>4. Once => PostedOnce
  BY DEF Once, OneOpening, PostedOnce
<1> QED
  BY <1>1, <1>2, <1>3, <1>4, PTL DEF Spec
=============================================================================
