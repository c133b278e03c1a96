-------------------------- MODULE SteerPath_proofs --------------------------
(***************************************************************************)
(* Theorems of the chat path, for any messages, strangers, numbers of      *)
(* attempts and announcements, and any size of the window.                 *)
(***************************************************************************)
EXTENDS SteerPath, SequenceTheorems, FunctionTheorems, FiniteSetTheorems,
        TLAPS

USE SteerAssumption

-----------------------------------------------------------------------------
(* The invariant.                                                          *)

BrokerTypes ==
  /\ strangers \subseteq Unknown
  /\ push \in [Deliveries ->
       [pc : {"none", "waiting", "refused", "done"}, try : 0 .. PushAttempts]]
  /\ reacted \in [Messages -> SUBSET {"taken", "dropped"}]
  /\ \A d \in Deliveries : push[d].pc = "none" => push[d].try = 0
ListenTypes ==
  /\ inbox \in Seq(Frame) /\ serving \in Task \cup {Nothing}
  /\ window \in Seq(Messages) /\ Len(window) <= Window
LayerTypes == c5 \in {"off", "on", "gone"} /\ c8 \in {"off", "on", "gone"}
QueueTypes == nowQ \in Seq(Messages) /\ steerQ \in Seq(Messages)
PromptTypes ==
  /\ idleQ \in Seq(Messages \cup {Key}) /\ ui \in BOOLEAN /\ lost \subseteq Messages
LoopTypes ==
  /\ nudges \in Nat /\ hand \in {"free", "checked", "popped"}
  /\ held \in Seq(Messages) /\ Len(held) <= 1
  /\ (hand = "popped" <=> Len(held) = 1)
RunTypes ==
  /\ run \in {"idle", "starting", "working", "drained", "ending"}
  /\ subs \in 0 .. MaxSubs /\ keys \in 0 .. MaxKeys /\ cancels \in 0 .. MaxCancels
PastTypes ==
  /\ ran \in [Messages -> Nat]
  /\ steered \in [Messages -> Nat] /\ promised \subseteq Messages

\* What C5 counts is never more than what runs, and nothing while no run is
\* between its start and its end.
Counted ==
  /\ depth \in Nat
  /\ c5 # "on" => depth = 0
  /\ run # "working" => subs = 0
  /\ run \in {"idle", "starting", "ending"} => depth = 0
  /\ run = "working" => depth <= 1 + subs
  /\ run = "drained" => depth <= 1

\* What the window remembers was steered, and a talker wrote it.
WindowTrue ==
  /\ \A i \in 1 .. Len(window) : /\ steered[window[i]] > 0
                                 /\ window[i] \notin strangers
  /\ serving # Nothing => serving.message \notin strangers

Sound == /\ BrokerTypes /\ ListenTypes /\ LayerTypes /\ QueueTypes /\ PromptTypes
         /\ LoopTypes /\ RunTypes /\ PastTypes /\ Counted /\ WindowTrue
         /\ ReactionTellsTruth

-----------------------------------------------------------------------------
(* Frames: what a step leaves alone stays as it was.                       *)

LEMMA BrokerFrame == BrokerTypes /\ UNCHANGED brokerVars => BrokerTypes'
  BY DEF BrokerTypes, brokerVars
LEMMA ListenFrame == ListenTypes /\ UNCHANGED listenVars => ListenTypes'
  BY DEF ListenTypes, listenVars
LEMMA LayerFrame == LayerTypes /\ UNCHANGED layerVars => LayerTypes'
  BY DEF LayerTypes, layerVars
LEMMA QueueFrame == QueueTypes /\ UNCHANGED queueVars => QueueTypes'
  BY DEF QueueTypes, queueVars
LEMMA PromptFrame == PromptTypes /\ UNCHANGED promptVars => PromptTypes'
  BY DEF PromptTypes, promptVars
LEMMA LoopFrame == LoopTypes /\ UNCHANGED loopVars => LoopTypes'
  BY DEF LoopTypes, loopVars
LEMMA RunFrame == RunTypes /\ UNCHANGED runVars => RunTypes'
  BY DEF RunTypes, runVars
LEMMA PastFrame == PastTypes /\ UNCHANGED <<ran, pastVars>> => PastTypes'
  BY DEF PastTypes, pastVars
LEMMA CountFrame == Counted /\ UNCHANGED <<depth, c5, run, subs>> => Counted'
  BY DEF Counted
LEMMA WindowFrame ==
  WindowTrue /\ UNCHANGED <<window, serving, steered, strangers>> => WindowTrue'
  BY DEF WindowTrue
LEMMA TruthFrame ==
  ReactionTellsTruth /\ UNCHANGED <<reacted, steered, strangers>> => ReactionTellsTruth'
  BY DEF ReactionTellsTruth

-----------------------------------------------------------------------------
(* Steps that several actions share.                                       *)

LEMMA AttemptTyped ==
  ASSUME BrokerTypes, ListenTypes, NEW d \in Deliveries, Attempt(d),
         push[d].try < PushAttempts, UNCHANGED <<reacted, strangers, serving, window>>
  PROVE  BrokerTypes' /\ ListenTypes'
<1> DEFINE n == push[d].try + 1
           m == [message |-> d[1], event |-> d[2], try |-> n]
<1>1. n \in 1 .. PushAttempts /\ n \in 0 .. PushAttempts
  BY DEF BrokerTypes
<1>2. push' = [push EXCEPT ![d] = [pc |-> "waiting", try |-> n]] /\ inbox' = Append(inbox, m)
  BY DEF Attempt
<1>3. m \in Frame
  BY <1>1 DEF Frame, Deliveries
<1> HIDE DEF n, m
<1>4. BrokerTypes'
  BY <1>1, <1>2 DEF BrokerTypes
<1>5. inbox' \in Seq(Frame)
  BY <1>2, <1>3, AppendProperties DEF ListenTypes
<1> QED
  BY <1>4, <1>5 DEF ListenTypes

LEMMA DoneTyped ==
  ASSUME BrokerTypes, NEW d \in Deliveries, push' = [push EXCEPT ![d].pc = "done"],
         UNCHANGED <<reacted, strangers>>
  PROVE  BrokerTypes'
  BY DEF BrokerTypes

LEMMA InboxHead ==
  ASSUME ListenTypes, inbox # <<>>
  PROVE  Head(inbox) \in Frame /\ Tail(inbox) \in Seq(Frame)
  BY HeadTailProperties DEF ListenTypes

LEMMA AnswerTyped ==
  ASSUME BrokerTypes, NEW f, f.message \in Messages, f.event \in Events,
         NEW word, Answer(f, word)
  PROVE  BrokerTypes'
<1> DEFINE d == <<f.message, f.event>>
<1>1. d \in Deliveries
  BY DEF Deliveries
<1>2. Reaction(word) \in SUBSET {"taken", "dropped"}
  BY DEF Reaction
<1>3. strangers' = strangers
  BY DEF Answer
<1>4. push' = push \/ push' = [push EXCEPT ![d].pc = "done"]
                   \/ push' = [push EXCEPT ![d].pc = "refused"]
  BY DEF Answer
<1>5. reacted' = reacted
        \/ reacted' = [reacted EXCEPT ![f.message] = reacted[f.message] \cup Reaction(word)]
  BY DEF Answer
<1>6. reacted[f.message] \cup Reaction(word) \in SUBSET {"taken", "dropped"}
  BY <1>2 DEF BrokerTypes
<1> HIDE DEF d
<1>7. push' \in [Deliveries ->
       [pc : {"none", "waiting", "refused", "done"}, try : 0 .. PushAttempts]]
  BY <1>1, <1>4 DEF BrokerTypes
<1>8. reacted' \in [Messages -> SUBSET {"taken", "dropped"}]
  BY <1>5, <1>6 DEF BrokerTypes
<1>9. \A h \in Deliveries : push'[h].pc = "none" => push'[h].try = 0
  BY <1>1, <1>4 DEF BrokerTypes
<1> QED
  BY <1>3, <1>7, <1>8, <1>9 DEF BrokerTypes

\* An answer that earns a reaction is given for a text that was steered and
\* that no stranger wrote.
LEMMA AnswerTrue ==
  ASSUME BrokerTypes, ReactionTellsTruth, PastTypes, NEW f, f.message \in Messages,
         NEW word, Answer(f, word),
         Reaction(word) = {} \/ f.message \notin strangers,
         "taken" \in Reaction(word) => steered'[f.message] > 0,
         \A m \in Messages : steered[m] > 0 => steered'[m] > 0
  PROVE  ReactionTellsTruth'
<1>1. strangers' = strangers
  BY DEF Answer
<1>2. reacted' = reacted
        \/ reacted' = [reacted EXCEPT ![f.message] = reacted[f.message] \cup Reaction(word)]
  BY DEF Answer
<1>3. ASSUME NEW m \in Messages
      PROVE  reacted'[m] = reacted[m]
              \/ (m = f.message /\ reacted'[m] = reacted[m] \cup Reaction(word))
  BY <1>2 DEF BrokerTypes
<1>4. ASSUME NEW m \in Messages
      PROVE  /\ "taken" \in reacted'[m] => steered'[m] > 0
             /\ m \in strangers' => reacted'[m] = {}
  BY <1>1, <1>3, Zenon DEF ReactionTellsTruth
<1> QED
  BY <1>4 DEF ReactionTellsTruth

LEMMA RememberTyped ==
  ASSUME ListenTypes, NEW m \in Messages, NEW word, Remember(m, word)
  PROVE  /\ window' \in Seq(Messages) /\ Len(window') <= Window
         /\ \A i \in 1 .. Len(window') :
              \/ \E j \in 1 .. Len(window) : window'[i] = window[j]
              \/ window'[i] = m /\ word = "delivered"
<1>1. window \in Seq(Messages) /\ Len(window) \in Nat /\ Len(window) <= Window
  BY LenProperties DEF ListenTypes
<1>2. CASE window' = window
  BY <1>1, <1>2
<1>3. CASE word = "delivered" /\ Len(window) < Window /\ window' = Append(window, m)
  <2>1. /\ window' \in Seq(Messages) /\ Len(window') = Len(window) + 1
        /\ window'[Len(window) + 1] = m
        /\ \A i \in 1 .. Len(window) : window'[i] = window[i]
    BY <1>1, <1>3, AppendProperties
  <2> QED
    BY <1>1, <1>3, <2>1
<1>4. CASE word = "delivered" /\ ~(Len(window) < Window) /\ window' = Append(Tail(window), m)
  <2>1. window # <<>>
    BY <1>1, <1>4
  <2>2. /\ Tail(window) \in Seq(Messages) /\ Len(Tail(window)) = Len(window) - 1
        /\ \A i \in 1 .. Len(Tail(window)) : Tail(window)[i] = window[i + 1]
    BY <1>1, <2>1, HeadTailProperties
  <2>3. /\ window' \in Seq(Messages) /\ Len(window') = Len(Tail(window)) + 1
        /\ window'[Len(Tail(window)) + 1] = m
        /\ \A i \in 1 .. Len(Tail(window)) : window'[i] = Tail(window)[i]
    BY <1>4, <2>2, AppendProperties
  <2>4. ASSUME NEW i \in 1 .. Len(Tail(window))
        PROVE  \E j \in 1 .. Len(window) : window'[i] = window[j]
    <3>1. i + 1 \in 1 .. Len(window) /\ window'[i] = window[i + 1]
      BY <1>1, <2>2, <2>3
    <3> QED
      BY <3>1
  <2>5. ASSUME NEW i \in 1 .. Len(window')
        PROVE  \/ \E j \in 1 .. Len(window) : window'[i] = window[j]
               \/ window'[i] = m /\ word = "delivered"
    <3>1. i \in 1 .. Len(Tail(window)) \/ i = Len(Tail(window)) + 1
      BY <1>1, <2>2, <2>3
    <3> QED
      BY <1>4, <2>3, <2>4, <3>1
  <2>6. Len(window') <= Window
    BY <1>1, <2>2, <2>3
  <2> QED
    BY <2>3, <2>5, <2>6
<1> QED
  BY <1>2, <1>3, <1>4 DEF Remember

LEMMA WindowGrows ==
  ASSUME ListenTypes, PastTypes, WindowTrue, NEW m \in Messages, NEW word,
         Remember(m, word), UNCHANGED strangers,
         word = "delivered" => steered'[m] > 0 /\ m \notin strangers,
         \A h \in Messages : steered[h] > 0 => steered'[h] > 0
  PROVE  \A i \in 1 .. Len(window') : /\ steered'[window'[i]] > 0
                                      /\ window'[i] \notin strangers'
<1> SUFFICES ASSUME NEW i \in 1 .. Len(window')
             PROVE  steered'[window'[i]] > 0 /\ window'[i] \notin strangers'
  OBVIOUS
<1>1. CASE \E j \in 1 .. Len(window) : window'[i] = window[j]
  <2>1. PICK j \in 1 .. Len(window) : window'[i] = window[j]
    BY <1>1
  <2>2. window[j] \in Messages
    BY ElementOfSeq DEF ListenTypes
  <2> QED
    BY <2>1, <2>2 DEF WindowTrue
<1>2. CASE window'[i] = m /\ word = "delivered"
  BY <1>2
<1> QED
  BY <1>1, <1>2, RememberTyped

LEMMA SteerHead ==
  ASSUME QueueTypes, steerQ # <<>>
  PROVE  /\ Head(steerQ) \in Messages /\ Tail(steerQ) \in Seq(Messages)
         /\ <<Head(steerQ)>> \in Seq(Messages) /\ Len(<<Head(steerQ)>>) = 1
<1>1. Head(steerQ) \in Messages /\ Tail(steerQ) \in Seq(Messages)
  BY HeadTailProperties DEF QueueTypes
<1> QED
  BY <1>1

LEMMA NudgeTyped ==
  ASSUME LoopTypes, Nudge
  PROVE  nudges' \in Nat
  BY DEF Nudge, LoopTypes

LEMMA GivenTyped ==
  ASSUME PastTypes, NEW q \in Seq(Messages \cup {Key})
  PROVE  Given(q) \in [Messages -> Nat]
<1>1. ASSUME NEW m \in Messages
      PROVE  Times(m, q) \in Nat
  <2> DEFINE at == {i \in 1 .. Len(q) : q[i] = m}
  <2>1. Len(q) \in Nat
    BY LenProperties
  <2>2. IsFiniteSet(1 .. Len(q))
    BY <2>1, FS_Interval
  <2>3. IsFiniteSet(at)
    BY <2>2, FS_Subset
  <2> QED
    BY <2>3, FS_CardinalityType DEF Times
<1>2. ASSUME NEW m \in Messages
      PROVE  ran[m] + Times(m, q) \in Nat
  BY <1>1 DEF PastTypes
<1> QED
  BY <1>2 DEF Given

-----------------------------------------------------------------------------
(* Every step keeps the invariant.                                         *)

LEMMA SoundInit == Init => Sound
<1> SUFFICES ASSUME Init PROVE Sound
  OBVIOUS
<1>1. BrokerTypes /\ LayerTypes /\ RunTypes /\ PastTypes /\ Counted
  BY DEF Init, BrokerTypes, LayerTypes, RunTypes, PastTypes, Counted
<1>2. ListenTypes /\ QueueTypes /\ PromptTypes /\ LoopTypes
  BY EmptySeq DEF Init, ListenTypes, QueueTypes, PromptTypes, LoopTypes
<1>3. ReactionTellsTruth
  BY DEF Init, ReactionTellsTruth
<1>4. WindowTrue
  <2>1. Len(window) = 0 /\ serving = Nothing
    BY EmptySeq DEF Init
  <2> QED
    BY <2>1 DEF WindowTrue
<1> QED
  BY <1>1, <1>2, <1>3, <1>4 DEF Sound

LEMMA OnMessageKeeps ==
  ASSUME Sound, NEW d \in Deliveries, OnMessage(d)
  PROVE  Sound'
<1> USE DEF Sound
<1>a. push[d].try < PushAttempts
  <2>1. push[d].try = 0
    BY DEF OnMessage, BrokerTypes
  <2> QED
    BY <2>1
<1>b. BrokerTypes' /\ ListenTypes'
  BY <1>a, AttemptTyped DEF OnMessage
<1>1. BrokerTypes'
  BY <1>b
<1>2. ListenTypes'
  BY <1>b
<1>3. LayerTypes' /\ QueueTypes' /\ PromptTypes' /\ LoopTypes' /\ RunTypes'
      /\ PastTypes' /\ Counted' /\ WindowTrue' /\ ReactionTellsTruth'
  BY LayerFrame, QueueFrame, PromptFrame, LoopFrame, RunFrame, PastFrame,
     CountFrame, WindowFrame, TruthFrame DEF OnMessage, brokerVars,
     listenVars, layerVars, queueVars, promptVars, runVars, loopVars,
     pastVars
<1> QED
  BY <1>1, <1>2, <1>3

LEMMA PushTimeoutKeeps ==
  ASSUME Sound, NEW d \in Deliveries, PushTimeout(d)
  PROVE  Sound'
<1> USE DEF Sound
<1>1. BrokerTypes'
  BY DoneTyped DEF PushTimeout
<1>2. ListenTypes' /\ LayerTypes' /\ QueueTypes' /\ PromptTypes' /\
      LoopTypes' /\ RunTypes' /\ PastTypes' /\ Counted' /\ WindowTrue' /\
      ReactionTellsTruth'
  BY ListenFrame, LayerFrame, QueueFrame, PromptFrame, LoopFrame, RunFrame,
     PastFrame, CountFrame, WindowFrame, TruthFrame DEF PushTimeout,
     brokerVars, listenVars, layerVars, queueVars, promptVars,
     runVars, loopVars, pastVars
<1> QED
  BY <1>1, <1>2

LEMMA PushAgainKeeps ==
  ASSUME Sound, NEW d \in Deliveries, PushAgain(d)
  PROVE  Sound'
<1> USE DEF Sound
<1>b. BrokerTypes' /\ ListenTypes'
  BY AttemptTyped DEF PushAgain
<1>1. BrokerTypes'
  BY <1>b
<1>2. ListenTypes'
  BY <1>b
<1>3. LayerTypes' /\ QueueTypes' /\ PromptTypes' /\ LoopTypes' /\ RunTypes'
      /\ PastTypes' /\ Counted' /\ WindowTrue' /\ ReactionTellsTruth'
  BY LayerFrame, QueueFrame, PromptFrame, LoopFrame, RunFrame, PastFrame,
     CountFrame, WindowFrame, TruthFrame DEF PushAgain, brokerVars,
     listenVars, layerVars, queueVars, promptVars, runVars, loopVars,
     pastVars
<1> QED
  BY <1>1, <1>2, <1>3

LEMMA PushGivesUpKeeps ==
  ASSUME Sound, NEW d \in Deliveries, PushGivesUp(d)
  PROVE  Sound'
<1> USE DEF Sound
<1>1. BrokerTypes'
  BY DoneTyped DEF PushGivesUp
<1>2. ListenTypes' /\ LayerTypes' /\ QueueTypes' /\ PromptTypes' /\
      LoopTypes' /\ RunTypes' /\ PastTypes' /\ Counted' /\ WindowTrue' /\
      ReactionTellsTruth'
  BY ListenFrame, LayerFrame, QueueFrame, PromptFrame, LoopFrame, RunFrame,
     PastFrame, CountFrame, WindowFrame, TruthFrame DEF PushGivesUp,
     brokerVars, listenVars, layerVars, queueVars, promptVars,
     runVars, loopVars, pastVars
<1> QED
  BY <1>1, <1>2

LEMMA RefuseFrameKeeps ==
  ASSUME Sound, RefuseFrame
  PROVE  Sound'
<1> USE DEF Sound
<1>a. Head(inbox) \in Frame /\ Tail(inbox) \in Seq(Frame)
  BY InboxHead DEF RefuseFrame
<1>b. Answer(Head(inbox), "noHandler") /\ steered' = steered /\ inbox' = Tail(inbox)
      /\ UNCHANGED <<serving, window>>
  BY DEF RefuseFrame, pastVars
<1>c. Head(inbox).message \in Messages /\ Head(inbox).event \in Events
  BY <1>a DEF Frame
<1>d. strangers' = strangers
  BY <1>b DEF Answer
<1>1. BrokerTypes'
  BY <1>b, <1>c, AnswerTyped
<1>2. ListenTypes'
  BY <1>a, <1>b DEF ListenTypes
<1>3. WindowTrue'
  BY <1>b, <1>d, WindowFrame
<1>4. ReactionTellsTruth'
  <2>1. Reaction("noHandler") = {}
    BY DEF Reaction
  <2> QED
    BY <1>b, <1>c, <2>1, AnswerTrue
<1>5. LayerTypes' /\ QueueTypes' /\ PromptTypes' /\ LoopTypes' /\ RunTypes'
      /\ PastTypes' /\ Counted'
  BY LayerFrame, QueueFrame, PromptFrame, LoopFrame, RunFrame, PastFrame,
     CountFrame DEF RefuseFrame, brokerVars, listenVars, layerVars,
     queueVars, promptVars, runVars, loopVars, pastVars
<1> QED
  BY <1>1, <1>2, <1>3, <1>4, <1>5

LEMMA ServeFrameKeeps ==
  ASSUME Sound, ServeFrame
  PROVE  Sound'
<1> USE DEF Sound
<1> DEFINE f == Head(inbox)
<1>a. f \in Frame /\ Tail(inbox) \in Seq(Frame)
  BY InboxHead DEF ServeFrame
<1>b. f.message \in Messages /\ f.event \in Events /\ f.try \in 1 .. PushAttempts
  BY <1>a DEF Frame
<1>c. inbox' = Tail(inbox) /\ UNCHANGED <<steered, promised, ran>>
  BY DEF ServeFrame, pastVars
<1>d. PICK word \in Verdicts(f.message) :
        \/ /\ word = "steer" /\ UNCHANGED <<window, push, reacted, strangers>>
           /\ serving' = [message |-> f.message, event |-> f.event, try |-> f.try,
                          mode |-> IF depth > 0 THEN "now" ELSE "queue"]
        \/ /\ word # "steer" /\ Answer(f, word) /\ Remember(f.message, word)
           /\ serving' = serving
  BY DEF ServeFrame, brokerVars
<1> HIDE DEF f
<1>e. /\ word \in {"duplicate", "refused", "steer"}
      /\ word = "duplicate" => Seen(f.message)
      /\ word = "steer" => f.message \notin strangers
  BY DEF Verdicts
<1>f. strangers' = strangers
  BY <1>d DEF Answer
<1>g. Seen(f.message) => steered[f.message] > 0 /\ f.message \notin strangers
  BY DEF Seen, WindowTrue
<1>h. serving' \in Task \cup {Nothing}
  BY <1>b, <1>d DEF Task, ListenTypes
<1>1. BrokerTypes'
  <2>1. CASE Answer(f, word)
    BY <1>b, <2>1, AnswerTyped
  <2>2. CASE UNCHANGED <<push, reacted, strangers>>
    BY <2>2, BrokerFrame DEF brokerVars
  <2> QED
    BY <1>d, <2>1, <2>2
<1>2. ListenTypes'
  <2>1. CASE Remember(f.message, word)
    BY <1>a, <1>b, <1>c, <1>h, <2>1, RememberTyped DEF ListenTypes
  <2>2. CASE window' = window
    BY <1>a, <1>c, <1>h, <2>2 DEF ListenTypes
  <2> QED
    BY <1>d, <2>1, <2>2
<1>3. PastTypes'
  BY <1>c, PastFrame DEF pastVars
<1>4. WindowTrue'
  <2>1. \A i \in 1 .. Len(window') : /\ steered'[window'[i]] > 0
                                      /\ window'[i] \notin strangers'
    <3>1. CASE window' = window
      BY <1>c, <1>f, <3>1 DEF WindowTrue
    <3>2. CASE Remember(f.message, word) /\ word # "steer"
      BY <1>b, <1>c, <1>e, <1>f, <3>2, WindowGrows
    <3> QED
      BY <1>d, <3>1, <3>2
  <2>2. serving' # Nothing => serving'.message \notin strangers'
    BY <1>d, <1>e, <1>f DEF WindowTrue
  <2> QED
    BY <2>1, <2>2 DEF WindowTrue
<1>5. ReactionTellsTruth'
  <2>1. CASE Answer(f, word) /\ word # "steer"
    <3>1. Reaction("refused") = {}
      BY DEF Reaction
    <3>2. CASE word = "refused"
      BY <1>b, <1>c, <2>1, <3>1, <3>2, AnswerTrue
    <3>3. CASE word = "duplicate"
      BY <1>b, <1>c, <1>e, <1>g, <2>1, <3>3, AnswerTrue
    <3> QED
      BY <1>e, <2>1, <3>2, <3>3
  <2>2. CASE UNCHANGED <<push, reacted, strangers>>
    BY <1>c, <2>2, TruthFrame
  <2> QED
    BY <1>d, <2>1, <2>2
<1>6. LayerTypes' /\ QueueTypes' /\ PromptTypes' /\ LoopTypes' /\ RunTypes'
      /\ Counted'
  BY LayerFrame, QueueFrame, PromptFrame, LoopFrame, RunFrame, CountFrame
     DEF ServeFrame, brokerVars, listenVars, layerVars, queueVars,
     promptVars, runVars, loopVars, pastVars
<1> QED
  BY <1>1, <1>2, <1>3, <1>4, <1>5, <1>6

LEMMA SteerKeeps ==
  ASSUME Sound, Steer
  PROVE  Sound'
<1> USE DEF Sound
<1> DEFINE m == serving.message
<1>a. serving \in Task /\ serving # Nothing /\ m \in Messages /\ serving.event \in Events
  BY DEF Steer, ListenTypes, Task
<1>b. m \notin strangers
  BY <1>a DEF WindowTrue
<1>c. PICK word \in {"delivered", "undelivered"} :
        /\ Answer(serving, word)
        /\ word = "delivered" =>
             /\ steered' = [steered EXCEPT ![m] = steered[m] + 1]
             /\ Remember(m, word)
             /\ \/ /\ nowQ' = Append(nowQ, m) /\ UNCHANGED <<steerQ, nudges, promised>>
                \/ /\ steerQ' = Append(steerQ, m) /\ Nudge /\ nowQ' = nowQ
                   /\ promised' = promised \/ promised' = promised \cup {m}
        /\ word = "undelivered" =>
             UNCHANGED <<steered, nowQ, steerQ, nudges, promised, window>>
  BY DEF Steer, queueVars
<1>d. serving' = Nothing /\ UNCHANGED <<inbox, hand, held, ran>>
  BY DEF Steer
<1>e. strangers' = strangers
  BY <1>c DEF Answer
<1>f. \A h \in Messages : steered[h] > 0 => steered'[h] > 0
  BY <1>a, <1>c DEF PastTypes
<1>g. word = "delivered" => steered'[m] > 0
  BY <1>a, <1>c DEF PastTypes
<1> HIDE DEF m
<1>1. BrokerTypes'
  BY <1>a, <1>c, AnswerTyped DEF m
<1>2. ListenTypes'
  <2>1. window' \in Seq(Messages) /\ Len(window') <= Window
    BY <1>a, <1>c, RememberTyped DEF ListenTypes
  <2> QED
    BY <1>d, <2>1 DEF ListenTypes
<1>3. QueueTypes'
  <2>1. Append(nowQ, m) \in Seq(Messages) /\ Append(steerQ, m) \in Seq(Messages)
    BY <1>a, AppendProperties DEF QueueTypes, m
  <2>2. nowQ' = nowQ \/ nowQ' = Append(nowQ, m)
    BY <1>c
  <2>3. steerQ' = steerQ \/ steerQ' = Append(steerQ, m)
    BY <1>c
  <2> QED
    BY <2>1, <2>2, <2>3 DEF QueueTypes
<1>4. LoopTypes'
  <2>0. nudges' = nudges \/ Nudge
    BY <1>c
  <2>1. nudges' \in Nat
    BY <2>0, NudgeTyped DEF LoopTypes
  <2> QED
    BY <1>d, <2>1 DEF LoopTypes
<1>5. PastTypes'
  <2>0. m \in Messages /\ steered[m] + 1 \in Nat
    BY <1>a DEF PastTypes, m
  <2>1. steered' \in [Messages -> Nat]
    BY <1>c, <2>0 DEF PastTypes
  <2>2. promised' \subseteq Messages
    BY <1>a, <1>c DEF PastTypes
  <2> QED
    BY <1>d, <2>1, <2>2 DEF PastTypes
<1>6. WindowTrue'
  <2>1. CASE word = "delivered"
    BY <1>a, <1>b, <1>c, <1>d, <1>e, <1>f, <1>g, <2>1, WindowGrows DEF WindowTrue
  <2>2. CASE word = "undelivered"
    BY <1>c, <1>d, <1>e, <2>2 DEF WindowTrue
  <2> QED
    BY <2>1, <2>2
<1>7. ReactionTellsTruth'
  <2>1. "taken" \in Reaction(word) => word = "delivered"
    BY DEF Reaction
  <2> QED
    BY <1>a, <1>b, <1>c, <1>f, <1>g, <2>1, AnswerTrue DEF m
<1>8. LayerTypes' /\ PromptTypes' /\ RunTypes' /\ Counted'
  BY LayerFrame, PromptFrame, RunFrame, CountFrame DEF Steer, brokerVars,
     listenVars, layerVars, queueVars, promptVars, runVars, loopVars,
     pastVars
<1> QED
  BY <1>1, <1>2, <1>3, <1>4, <1>5, <1>6, <1>7, <1>8

LEMMA DeliverCheckKeeps ==
  ASSUME Sound, DeliverCheck
  PROVE  Sound'
<1> USE DEF Sound
<1>1. LoopTypes'
  <2>1. nudges' \in Nat
    BY DEF DeliverCheck, LoopTypes
  <2> QED
    BY <2>1 DEF DeliverCheck, Snapshot, LoopTypes
<1>2. BrokerTypes' /\ ListenTypes' /\ LayerTypes' /\ QueueTypes' /\
      PromptTypes' /\ RunTypes' /\ PastTypes' /\ Counted' /\ WindowTrue' /\
      ReactionTellsTruth'
  BY BrokerFrame, ListenFrame, LayerFrame, QueueFrame, PromptFrame,
     RunFrame, PastFrame, CountFrame, WindowFrame, TruthFrame DEF
     DeliverCheck, brokerVars, listenVars, layerVars, queueVars,
     promptVars, runVars, loopVars, pastVars
<1> QED
  BY <1>1, <1>2

LEMMA DeliverPopKeeps ==
  ASSUME Sound, DeliverPop
  PROVE  Sound'
<1> USE DEF Sound
<1>a. UNCHANGED nowQ /\ hand = "checked"
  BY DEF DeliverPop
<1>b. \/ steerQ = <<>> /\ hand' = "free" /\ UNCHANGED <<held, steerQ, nudges>>
      \/ /\ steerQ # <<>> /\ held' = <<Head(steerQ)>> /\ hand' = "popped"
         /\ steerQ' = Tail(steerQ) /\ Nudge
  BY DEF DeliverPop, FoundNothing, Pop
<1>1. QueueTypes'
  BY <1>a, <1>b, SteerHead DEF QueueTypes
<1>2. LoopTypes'
  <2>1. CASE hand' = "free" /\ UNCHANGED <<held, steerQ, nudges>>
    BY <1>a, <2>1 DEF LoopTypes
  <2>2. CASE steerQ # <<>> /\ held' = <<Head(steerQ)>> /\ hand' = "popped" /\ Nudge
    <3>1. nudges' \in Nat
      BY <2>2, NudgeTyped
    <3>2. held' \in Seq(Messages) /\ Len(held') = 1
      BY <2>2, SteerHead
    <3> QED
      BY <2>2, <3>1, <3>2 DEF LoopTypes
  <2> QED
    BY <1>b, <2>1, <2>2
<1>3. BrokerTypes' /\ ListenTypes' /\ LayerTypes' /\ PromptTypes' /\
      RunTypes' /\ PastTypes' /\ Counted' /\ WindowTrue' /\
      ReactionTellsTruth'
  BY BrokerFrame, ListenFrame, LayerFrame, PromptFrame, RunFrame,
     PastFrame, CountFrame, WindowFrame, TruthFrame DEF DeliverPop,
     brokerVars, listenVars, layerVars, queueVars, promptVars,
     runVars, loopVars, pastVars
<1> QED
  BY <1>1, <1>2, <1>3

LEMMA DeliverPushKeeps ==
  ASSUME Sound, DeliverPush
  PROVE  Sound'
<1> USE DEF Sound
<1>1. PromptTypes'
  <2>1. held \in Seq(Messages \cup {Key})
    BY DEF LoopTypes
  <2>2. idleQ' \in Seq(Messages \cup {Key})
    BY <2>1, ConcatProperties DEF DeliverPush, PromptTypes
  <2>3. ToSet(held) \subseteq Messages
    BY ElementOfSeq DEF LoopTypes, ToSet
  <2> QED
    BY <2>2, <2>3 DEF DeliverPush, PromptTypes
<1>2. LoopTypes'
  BY EmptySeq DEF DeliverPush, LoopTypes
<1>3. BrokerTypes' /\ ListenTypes' /\ LayerTypes' /\ QueueTypes' /\
      RunTypes' /\ PastTypes' /\ Counted' /\ WindowTrue' /\
      ReactionTellsTruth'
  BY BrokerFrame, ListenFrame, LayerFrame, QueueFrame, RunFrame, PastFrame,
     CountFrame, WindowFrame, TruthFrame DEF DeliverPush, brokerVars,
     listenVars, layerVars, queueVars, promptVars, runVars, loopVars,
     pastVars
<1> QED
  BY <1>1, <1>2, <1>3

LEMMA TypeTurnKeeps ==
  ASSUME Sound, TypeTurn
  PROVE  Sound'
<1> USE DEF Sound
<1>1. PromptTypes'
  BY AppendProperties DEF TypeTurn, PromptTypes
<1>2. RunTypes'
  BY DEF TypeTurn, RunTypes
<1>3. BrokerTypes' /\ ListenTypes' /\ LayerTypes' /\ QueueTypes' /\
      LoopTypes' /\ PastTypes' /\ Counted' /\ WindowTrue' /\
      ReactionTellsTruth'
  BY BrokerFrame, ListenFrame, LayerFrame, QueueFrame, LoopFrame,
     PastFrame, CountFrame, WindowFrame, TruthFrame DEF TypeTurn,
     brokerVars, listenVars, layerVars, queueVars, promptVars,
     runVars, loopVars, pastVars
<1> QED
  BY <1>1, <1>2, <1>3

LEMMA ClassicTurnKeeps ==
  ASSUME Sound, ClassicTurn
  PROVE  Sound'
<1> USE DEF Sound
<1>1. RunTypes'
  BY DEF ClassicTurn, RunTypes
<1>2. Counted'
  BY DEF ClassicTurn, Counted, RunTypes, layerVars
<1>3. BrokerTypes' /\ ListenTypes' /\ LayerTypes' /\ QueueTypes' /\
      PromptTypes' /\ LoopTypes' /\ PastTypes' /\ WindowTrue' /\
      ReactionTellsTruth'
  BY BrokerFrame, ListenFrame, LayerFrame, QueueFrame, PromptFrame,
     LoopFrame, PastFrame, WindowFrame, TruthFrame DEF ClassicTurn,
     brokerVars, listenVars, layerVars, queueVars, promptVars,
     runVars, loopVars, pastVars
<1> QED
  BY <1>1, <1>2, <1>3

LEMMA TakeInputKeeps ==
  ASSUME Sound, TakeInput
  PROVE  Sound'
<1> USE DEF Sound
<1>a. Head(idleQ) \in Messages \cup {Key} /\ Tail(idleQ) \in Seq(Messages \cup {Key})
  BY HeadTailProperties DEF TakeInput, PromptTypes
<1>1. PromptTypes'
  BY <1>a DEF TakeInput, PromptTypes
<1>2. RunTypes'
  BY DEF TakeInput, RunTypes
<1>3. PastTypes'
  <2>1. <<Head(idleQ)>> \in Seq(Messages \cup {Key})
    BY <1>a
  <2> QED
    BY <2>1, GivenTyped DEF TakeInput, PastTypes, pastVars
<1>4. Counted'
  BY DEF TakeInput, Counted, RunTypes, layerVars
<1>5. BrokerTypes' /\ ListenTypes' /\ LayerTypes' /\ QueueTypes' /\
      LoopTypes' /\ WindowTrue' /\ ReactionTellsTruth'
  BY BrokerFrame, ListenFrame, LayerFrame, QueueFrame, LoopFrame,
     WindowFrame, TruthFrame DEF TakeInput, brokerVars, listenVars,
     layerVars, queueVars, promptVars, runVars, loopVars, pastVars
<1> QED
  BY <1>1, <1>2, <1>3, <1>4, <1>5

LEMMA RunStartKeeps ==
  ASSUME Sound, RunStart
  PROVE  Sound'
<1> USE DEF Sound
<1>1. RunTypes'
  BY DEF RunStart, RunTypes
<1>2. Counted'
  BY DEF RunStart, Entered, Counted, RunTypes, LayerTypes, layerVars
<1>3. BrokerTypes' /\ ListenTypes' /\ LayerTypes' /\ QueueTypes' /\
      PromptTypes' /\ LoopTypes' /\ PastTypes' /\ WindowTrue' /\
      ReactionTellsTruth'
  BY BrokerFrame, ListenFrame, LayerFrame, QueueFrame, PromptFrame,
     LoopFrame, PastFrame, WindowFrame, TruthFrame DEF RunStart,
     brokerVars, listenVars, layerVars, queueVars, promptVars,
     runVars, loopVars, pastVars
<1> QED
  BY <1>1, <1>2, <1>3

LEMMA SubStartKeeps ==
  ASSUME Sound, SubStart
  PROVE  Sound'
<1> USE DEF Sound
<1>1. RunTypes'
  BY DEF SubStart, RunTypes
<1>2. Counted'
  BY DEF SubStart, Entered, Counted, RunTypes, LayerTypes, layerVars
<1>3. BrokerTypes' /\ ListenTypes' /\ LayerTypes' /\ QueueTypes' /\
      PromptTypes' /\ LoopTypes' /\ PastTypes' /\ WindowTrue' /\
      ReactionTellsTruth'
  BY BrokerFrame, ListenFrame, LayerFrame, QueueFrame, PromptFrame,
     LoopFrame, PastFrame, WindowFrame, TruthFrame DEF SubStart,
     brokerVars, listenVars, layerVars, queueVars, promptVars,
     runVars, loopVars, pastVars
<1> QED
  BY <1>1, <1>2, <1>3

LEMMA SubEndKeeps ==
  ASSUME Sound, SubEnd
  PROVE  Sound'
<1> USE DEF Sound
<1>1. RunTypes'
  BY DEF SubEnd, RunTypes
<1>2. Counted'
  BY DEF SubEnd, Exited, Counted, RunTypes, LayerTypes, layerVars
<1>3. BrokerTypes' /\ ListenTypes' /\ LayerTypes' /\ QueueTypes' /\
      PromptTypes' /\ LoopTypes' /\ PastTypes' /\ WindowTrue' /\
      ReactionTellsTruth'
  BY BrokerFrame, ListenFrame, LayerFrame, QueueFrame, PromptFrame,
     LoopFrame, PastFrame, WindowFrame, TruthFrame DEF SubEnd,
     brokerVars, listenVars, layerVars, queueVars, promptVars,
     runVars, loopVars, pastVars
<1> QED
  BY <1>1, <1>2, <1>3

LEMMA ModelCallKeeps ==
  ASSUME Sound, ModelCall
  PROVE  Sound'
<1> USE DEF Sound
<1>1. QueueTypes'
  BY EmptySeq DEF ModelCall, QueueTypes
<1>2. PastTypes'
  <2>1. nowQ \in Seq(Messages \cup {Key})
    BY DEF QueueTypes
  <2> QED
    BY <2>1, GivenTyped DEF ModelCall, PastTypes, pastVars
<1>3. BrokerTypes' /\ ListenTypes' /\ LayerTypes' /\ PromptTypes' /\
      LoopTypes' /\ RunTypes' /\ Counted' /\ WindowTrue' /\
      ReactionTellsTruth'
  BY BrokerFrame, ListenFrame, LayerFrame, PromptFrame, LoopFrame,
     RunFrame, CountFrame, WindowFrame, TruthFrame DEF ModelCall,
     brokerVars, listenVars, layerVars, queueVars, promptVars,
     runVars, loopVars, pastVars
<1> QED
  BY <1>1, <1>2, <1>3

LEMMA NextTurnKeeps ==
  ASSUME Sound, NextTurn
  PROVE  Sound'
<1> USE DEF Sound
<1>1. QueueTypes'
  BY SteerHead DEF NextTurn, Pop, QueueTypes
<1>2. LoopTypes'
  BY NudgeTyped DEF NextTurn, LoopTypes
<1>3. PastTypes'
  <2>1. <<Head(steerQ)>> \in Seq(Messages \cup {Key})
    BY SteerHead DEF NextTurn
  <2> QED
    BY <2>1, GivenTyped DEF NextTurn, PastTypes, pastVars
<1>4. BrokerTypes' /\ ListenTypes' /\ LayerTypes' /\ PromptTypes' /\
      RunTypes' /\ Counted' /\ WindowTrue' /\ ReactionTellsTruth'
  BY BrokerFrame, ListenFrame, LayerFrame, PromptFrame, RunFrame,
     CountFrame, WindowFrame, TruthFrame DEF NextTurn, brokerVars,
     listenVars, layerVars, queueVars, promptVars, runVars, loopVars,
     pastVars
<1> QED
  BY <1>1, <1>2, <1>3, <1>4

LEMMA LastLookKeeps ==
  ASSUME Sound, LastLook
  PROVE  Sound'
<1> USE DEF Sound
<1>1. RunTypes'
  BY DEF LastLook, RunTypes
<1>2. Counted'
  BY DEF LastLook, Counted, RunTypes, layerVars
<1>3. BrokerTypes' /\ ListenTypes' /\ LayerTypes' /\ QueueTypes' /\
      PromptTypes' /\ LoopTypes' /\ PastTypes' /\ WindowTrue' /\
      ReactionTellsTruth'
  BY BrokerFrame, ListenFrame, LayerFrame, QueueFrame, PromptFrame,
     LoopFrame, PastFrame, WindowFrame, TruthFrame DEF LastLook,
     brokerVars, listenVars, layerVars, queueVars, promptVars,
     runVars, loopVars, pastVars
<1> QED
  BY <1>1, <1>2, <1>3

LEMMA RunEndKeeps ==
  ASSUME Sound, RunEnd
  PROVE  Sound'
<1> USE DEF Sound
<1>1. RunTypes'
  BY DEF RunEnd, RunTypes
<1>2. Counted'
  BY DEF RunEnd, Exited, Counted, RunTypes, LayerTypes, layerVars
<1>3. BrokerTypes' /\ ListenTypes' /\ LayerTypes' /\ QueueTypes' /\
      PromptTypes' /\ LoopTypes' /\ PastTypes' /\ WindowTrue' /\
      ReactionTellsTruth'
  BY BrokerFrame, ListenFrame, LayerFrame, QueueFrame, PromptFrame,
     LoopFrame, PastFrame, WindowFrame, TruthFrame DEF RunEnd,
     brokerVars, listenVars, layerVars, queueVars, promptVars,
     runVars, loopVars, pastVars
<1> QED
  BY <1>1, <1>2, <1>3

LEMMA RunCancelKeeps ==
  ASSUME Sound, RunCancel
  PROVE  Sound'
<1> USE DEF Sound
<1>1. RunTypes'
  BY DEF RunCancel, RunTypes
<1>2. Counted'
  BY DEF RunCancel, Reset, Counted, RunTypes, LayerTypes, layerVars
<1>3. BrokerTypes' /\ ListenTypes' /\ LayerTypes' /\ QueueTypes' /\
      PromptTypes' /\ LoopTypes' /\ PastTypes' /\ WindowTrue' /\
      ReactionTellsTruth'
  BY BrokerFrame, ListenFrame, LayerFrame, QueueFrame, PromptFrame,
     LoopFrame, PastFrame, WindowFrame, TruthFrame DEF RunCancel,
     brokerVars, listenVars, layerVars, queueVars, promptVars,
     runVars, loopVars, pastVars
<1> QED
  BY <1>1, <1>2, <1>3

LEMMA TurnEndKeeps ==
  ASSUME Sound, TurnEnd
  PROVE  Sound'
<1> USE DEF Sound
<1>1. RunTypes'
  BY DEF TurnEnd, RunTypes
<1>2. Counted'
  BY DEF TurnEnd, Reset, Counted, RunTypes, LayerTypes, layerVars
<1>3. BrokerTypes' /\ ListenTypes' /\ LayerTypes' /\ QueueTypes' /\
      PromptTypes' /\ LoopTypes' /\ PastTypes' /\ WindowTrue' /\
      ReactionTellsTruth'
  BY BrokerFrame, ListenFrame, LayerFrame, QueueFrame, PromptFrame,
     LoopFrame, PastFrame, WindowFrame, TruthFrame DEF TurnEnd,
     brokerVars, listenVars, layerVars, queueVars, promptVars,
     runVars, loopVars, pastVars
<1> QED
  BY <1>1, <1>2, <1>3

LEMMA StopUIKeeps ==
  ASSUME Sound, StopUI
  PROVE  Sound'
<1> USE DEF Sound
<1>1. PromptTypes'
  <2>1. ToSet(idleQ) \subseteq Messages \cup {Key}
    BY ElementOfSeq DEF PromptTypes, ToSet
  <2> QED
    BY <2>1, EmptySeq DEF StopUI, PromptTypes
<1>2. BrokerTypes' /\ ListenTypes' /\ LayerTypes' /\ QueueTypes' /\
      LoopTypes' /\ RunTypes' /\ PastTypes' /\ Counted' /\ WindowTrue' /\
      ReactionTellsTruth'
  BY BrokerFrame, ListenFrame, LayerFrame, QueueFrame, LoopFrame, RunFrame,
     PastFrame, CountFrame, WindowFrame, TruthFrame DEF StopUI,
     brokerVars, listenVars, layerVars, queueVars, promptVars,
     runVars, loopVars, pastVars
<1> QED
  BY <1>1, <1>2

LEMMA InstallC5Keeps ==
  ASSUME Sound, InstallC5
  PROVE  Sound'
<1> USE DEF Sound
<1>1. LayerTypes'
  BY DEF InstallC5, LayerTypes
<1>2. Counted'
  BY DEF InstallC5, Counted, RunTypes, runVars
<1>3. BrokerTypes' /\ ListenTypes' /\ QueueTypes' /\ PromptTypes' /\
      LoopTypes' /\ RunTypes' /\ PastTypes' /\ WindowTrue' /\
      ReactionTellsTruth'
  BY BrokerFrame, ListenFrame, QueueFrame, PromptFrame, LoopFrame,
     RunFrame, PastFrame, WindowFrame, TruthFrame DEF InstallC5,
     brokerVars, listenVars, layerVars, queueVars, promptVars,
     runVars, loopVars, pastVars
<1> QED
  BY <1>1, <1>2, <1>3

LEMMA InstallC8Keeps ==
  ASSUME Sound, InstallC8
  PROVE  Sound'
<1> USE DEF Sound
<1>1. LayerTypes'
  BY DEF InstallC8, LayerTypes
<1>2. BrokerTypes' /\ ListenTypes' /\ QueueTypes' /\ PromptTypes' /\
      LoopTypes' /\ RunTypes' /\ PastTypes' /\ Counted' /\ WindowTrue' /\
      ReactionTellsTruth'
  BY BrokerFrame, ListenFrame, QueueFrame, PromptFrame, LoopFrame,
     RunFrame, PastFrame, CountFrame, WindowFrame, TruthFrame DEF
     InstallC8, brokerVars, listenVars, layerVars, queueVars,
     promptVars, runVars, loopVars, pastVars
<1> QED
  BY <1>1, <1>2

LEMMA UninstallC8Keeps ==
  ASSUME Sound, UninstallC8
  PROVE  Sound'
<1> USE DEF Sound
<1>1. LayerTypes'
  BY DEF UninstallC8, LayerTypes
<1>2. BrokerTypes' /\ ListenTypes' /\ QueueTypes' /\ PromptTypes' /\
      LoopTypes' /\ RunTypes' /\ PastTypes' /\ Counted' /\ WindowTrue' /\
      ReactionTellsTruth'
  BY BrokerFrame, ListenFrame, QueueFrame, PromptFrame, LoopFrame,
     RunFrame, PastFrame, CountFrame, WindowFrame, TruthFrame DEF
     UninstallC8, brokerVars, listenVars, layerVars, queueVars,
     promptVars, runVars, loopVars, pastVars
<1> QED
  BY <1>1, <1>2

LEMMA UninstallC5Keeps ==
  ASSUME Sound, UninstallC5
  PROVE  Sound'
<1> USE DEF Sound
<1>1. LayerTypes'
  BY DEF UninstallC5, LayerTypes
<1>2. Counted'
  BY DEF UninstallC5, Counted, RunTypes, runVars
<1>3. BrokerTypes' /\ ListenTypes' /\ QueueTypes' /\ PromptTypes' /\
      LoopTypes' /\ RunTypes' /\ PastTypes' /\ WindowTrue' /\
      ReactionTellsTruth'
  BY BrokerFrame, ListenFrame, QueueFrame, PromptFrame, LoopFrame,
     RunFrame, PastFrame, WindowFrame, TruthFrame DEF UninstallC5,
     brokerVars, listenVars, layerVars, queueVars, promptVars,
     runVars, loopVars, pastVars
<1> QED
  BY <1>1, <1>2, <1>3

LEMMA StutterKeeps ==
  ASSUME Sound, UNCHANGED vars
  PROVE  Sound'
  BY BrokerFrame, ListenFrame, LayerFrame, QueueFrame, PromptFrame,
     LoopFrame, RunFrame, PastFrame, CountFrame, WindowFrame,
     TruthFrame
     DEF Sound, vars, brokerVars, listenVars, layerVars, queueVars, promptVars,
         runVars, loopVars, pastVars

LEMMA SoundNext == Sound /\ [Next]_vars => Sound'
  BY OnMessageKeeps, PushTimeoutKeeps, PushAgainKeeps, PushGivesUpKeeps,
     RefuseFrameKeeps, ServeFrameKeeps, SteerKeeps, DeliverCheckKeeps,
     DeliverPopKeeps, DeliverPushKeeps, TypeTurnKeeps,
     ClassicTurnKeeps, TakeInputKeeps, RunStartKeeps, SubStartKeeps,
     SubEndKeeps, ModelCallKeeps, NextTurnKeeps, LastLookKeeps,
     RunEndKeeps, RunCancelKeeps, TurnEndKeeps, StopUIKeeps,
     InstallC5Keeps, InstallC8Keeps, UninstallC8Keeps,
     UninstallC5Keeps,
     StutterKeeps
     DEF Next, Listener, Deliver, AgentRun, Broker, Layers

\* The invariant that carries the others: the window holds what was steered,
\* and C5 counts no run that is not there.
THEOREM ChatPathIsSound == Spec => []Sound
  BY SoundInit, SoundNext, PTL DEF Spec

\* Every variable of the broker's threads, the listener, the layers and the
\* core stays in its range: RunDepth never exceeds the runs in flight.
THEOREM TypeCorrect == Spec => []TypeOK
<1>1. Sound => TypeOK
  BY DEF Sound, TypeOK, BrokerTypes, ListenTypes, LayerTypes, QueueTypes,
         PromptTypes, LoopTypes, RunTypes, PastTypes, Counted
<1> QED
  BY <1>1, ChatPathIsSound, PTL

\* reaction_for() never confirms a text that was not steered, and never
\* answers a stranger.
THEOREM ReactionsAreTrue == Spec => []ReactionTellsTruth
<1>1. Sound => ReactionTellsTruth
  BY DEF Sound
<1> QED
  BY <1>1, ChatPathIsSound, PTL

\* RunDepth is zero whenever the session sits at its prompt, whatever was
\* cancelled before.
THEOREM NoGhostRun == Spec => []IdleMeansNoDepth
<1>1. Sound => IdleMeansNoDepth
  BY DEF Sound, Counted, IdleMeansNoDepth
<1> QED
  BY <1>1, ChatPathIsSound, PTL

-----------------------------------------------------------------------------
(* A message is steered once.                                              *)

\* The window has room for every message.
WindowCovers == IsFiniteSet(Messages) /\ Cardinality(Messages) <= Window

\* The window holds each message that was steered, once; the listener is
\* never about to steer one of those.
WindowHolds ==
  /\ \A i, j \in 1 .. Len(window) : window[i] = window[j] => i = j
  /\ \A m \in Messages : steered[m] > 0 => steered[m] = 1 /\ Seen(m)
  /\ serving # Nothing => steered[serving.message] = 0 /\ ~Seen(serving.message)

\* A message joins the window, which may push out its oldest.
LEMMA WindowIs ==
  ASSUME ListenTypes, NEW m \in Messages, Remember(m, "delivered")
  PROVE  \E k \in {0, 1} :
           /\ Len(window) \in Nat /\ Len(window) - k \in Nat
           /\ Len(window') = (Len(window) - k) + 1
           /\ \A i \in 1 .. Len(window) - k : window'[i] = window[i + k]
           /\ window'[(Len(window) - k) + 1] = m
           /\ k = 1 => Len(window) = Window
<1>1. window \in Seq(Messages) /\ Len(window) \in Nat /\ Len(window) <= Window
  BY LenProperties DEF ListenTypes
<1>2. CASE Len(window) < Window
  <2>1. window' = Append(window, m)
    BY <1>2 DEF Remember
  <2>2. /\ Len(window') = Len(window) + 1 /\ window'[Len(window) + 1] = m
        /\ \A i \in 1 .. Len(window) : window'[i] = window[i]
    BY <1>1, <2>1, AppendProperties
  <2> QED
    BY <1>1, <2>2
<1>3. CASE ~(Len(window) < Window)
  <2>1. Len(window) = Window /\ window # <<>> /\ Len(window) > 0
    BY <1>1, <1>3
  <2>2. /\ Tail(window) \in Seq(Messages) /\ Len(Tail(window)) = Len(window) - 1
        /\ \A i \in 1 .. Len(Tail(window)) : Tail(window)[i] = window[i + 1]
    BY <1>1, <2>1, HeadTailProperties
  <2>3. window' = Append(Tail(window), m)
    BY <1>3 DEF Remember
  <2>4. /\ Len(window') = Len(Tail(window)) + 1 /\ window'[Len(Tail(window)) + 1] = m
        /\ \A i \in 1 .. Len(Tail(window)) : window'[i] = Tail(window)[i]
    BY <2>2, <2>3, AppendProperties
  <2> QED
    BY <1>1, <2>1, <2>2, <2>4
<1> QED
  BY <1>2, <1>3

\* A full window of different messages holds them all.
LEMMA FullWindowHolds ==
  ASSUME WindowCovers, NEW x \in Messages, NEW s \in Seq(Messages), Len(s) = Window,
         \A i, j \in 1 .. Len(s) : s[i] = s[j] => i = j
  PROVE  \E i \in 1 .. Len(s) : s[i] = x
<1> SUFFICES ASSUME \A i \in 1 .. Len(s) : s[i] # x
             PROVE  FALSE
  OBVIOUS
<1> DEFINE Rest == Messages \ {x}
<1>1. s \in [1 .. Len(s) -> Messages] /\ Len(s) \in Nat
  BY LenProperties, SeqDef
<1>2. s \in [1 .. Len(s) -> Rest]
  BY <1>1
<1>3. s \in Injection(1 .. Len(s), Rest)
  BY <1>2 DEF Injection, IsInjective
<1>4. IsFiniteSet(Rest) /\ Cardinality(Rest) = Cardinality(Messages) - 1
  BY FS_RemoveElement DEF WindowCovers
<1> HIDE DEF Rest
<1>5. Cardinality(1 .. Len(s)) <= Cardinality(Rest)
  BY <1>3, <1>4, FS_Injection
<1>6. Cardinality(1 .. Len(s)) = Window
  BY <1>1, FS_Interval
<1>7. Cardinality(Messages) \in Nat
  BY FS_CardinalityType DEF WindowCovers
<1> QED
  BY <1>4, <1>5, <1>6, <1>7 DEF WindowCovers

LEMMA WindowKeeps ==
  ASSUME WindowCovers, ListenTypes, ListenTypes', WindowHolds,
         NEW m \in Messages, Remember(m, "delivered"), ~Seen(m)
  PROVE  /\ \A i, j \in 1 .. Len(window') : window'[i] = window'[j] => i = j
         /\ Seen(m)'
         /\ \A x \in Messages : Seen(x) => Seen(x)'
<1>1. PICK k \in {0, 1} :
           /\ Len(window) \in Nat /\ Len(window) - k \in Nat
           /\ Len(window') = (Len(window) - k) + 1
           /\ \A i \in 1 .. Len(window) - k : window'[i] = window[i + k]
           /\ window'[(Len(window) - k) + 1] = m
           /\ k = 1 => Len(window) = Window
  BY WindowIs
<1> PICK n \in Nat : n = Len(window) - k
  BY <1>1
<1>2. /\ Len(window') = n + 1 /\ window'[n + 1] = m /\ Len(window) = n + k
      /\ \A i \in 1 .. n : window'[i] = window[i + k] /\ i + k \in 1 .. Len(window)
  BY <1>1
<1>3. \A i \in 1 .. Len(window') : i \in 1 .. n \/ i = n + 1
  BY <1>2
<1>4. \A i \in 1 .. n : window'[i] # m
  BY <1>2 DEF Seen
<1>5. \A i, j \in 1 .. n : window'[i] = window'[j] => i = j
  <2> SUFFICES ASSUME NEW i \in 1 .. n, NEW j \in 1 .. n, window'[i] = window'[j]
               PROVE  i = j
    OBVIOUS
  <2>1. i + k = j + k
    BY <1>2 DEF WindowHolds
  <2> QED
    BY <1>2, <2>1
<1>6. \A i, j \in 1 .. Len(window') : window'[i] = window'[j] => i = j
  BY <1>2, <1>3, <1>4, <1>5
<1>7. Seen(m)'
  BY <1>2 DEF Seen
<1>8. ASSUME NEW x \in Messages, Seen(x) PROVE Seen(x)'
  <2>1. PICK i \in 1 .. Len(window) : window[i] = x
    BY <1>8 DEF Seen
  <2>2. CASE k = 0
    <3>1. i \in 1 .. n /\ i + k = i
      BY <1>2, <2>2
    <3>2. window'[i] = x /\ i \in 1 .. Len(window')
      BY <1>2, <2>1, <3>1
    <3> QED
      BY <3>2 DEF Seen
  <2>3. CASE k = 1
    <3>1. Len(window') = Window
      BY <1>1, <1>2, <2>3
    <3>2. window' \in Seq(Messages)
      BY DEF ListenTypes
    <3> QED
      BY <1>6, <3>1, <3>2, FullWindowHolds DEF Seen
  <2> QED
    BY <2>2, <2>3
<1> QED
  BY <1>6, <1>7, <1>8

LEMMA HoldsInit == Init => WindowHolds
  BY DEF Init, WindowHolds

LEMMA HoldsFrame ==
  WindowHolds /\ UNCHANGED <<window, steered, serving>> => WindowHolds'
  BY DEF WindowHolds, Seen

LEMMA ServeHolds ==
  ASSUME Sound, WindowHolds, ServeFrame
  PROVE  WindowHolds'
<1> DEFINE f == Head(inbox)
<1>1. f.message \in Messages
  BY InboxHead DEF ServeFrame, Sound, Frame
<1>2. PICK word \in Verdicts(f.message) :
        \/ /\ word = "steer" /\ UNCHANGED window
           /\ serving' = [message |-> f.message, event |-> f.event, try |-> f.try,
                          mode |-> IF depth > 0 THEN "now" ELSE "queue"]
        \/ /\ word # "steer" /\ Remember(f.message, word)
           /\ serving' = serving
  BY DEF ServeFrame
<1> HIDE DEF f
<1>3. word # "delivered" /\ steered' = steered
  BY DEF Verdicts, ServeFrame, pastVars
<1>4. window' = window
  BY <1>2, <1>3 DEF Remember
<1>5. CASE serving' = serving
  BY <1>3, <1>4, <1>5, HoldsFrame
<1>6. CASE word = "steer" /\ serving'.message = f.message
  <2>1. ~Seen(f.message)
    BY <1>6 DEF Verdicts
  <2>2. steered[f.message] = 0
    BY <1>1, <2>1 DEF WindowHolds, Sound, PastTypes
  <2>3. \A x : Seen(x)' = Seen(x)
    BY <1>4 DEF Seen
  <2>4. \A m \in Messages : steered'[m] > 0 => steered'[m] = 1 /\ Seen(m)'
    BY <1>3, <2>3 DEF WindowHolds
  <2>5. steered'[serving'.message] = 0
    BY <1>3, <1>6, <2>2
  <2>6. ~Seen(serving.message)'
    BY <1>3, <1>4, <1>6, <2>1 DEF Seen
  <2> QED
    BY <1>4, <2>4, <2>5, <2>6 DEF WindowHolds
<1> QED
  BY <1>2, <1>5, <1>6

LEMMA SteerHolds ==
  ASSUME WindowCovers, Sound, Sound', WindowHolds, Steer
  PROVE  WindowHolds'
<1> PICK m \in Messages : m = serving.message
  BY DEF Steer, Sound, ListenTypes, Task
<1>1. serving' = Nothing /\ ~Seen(m) /\ steered[m] = 0
  BY DEF Steer, WindowHolds
<1>2. CASE UNCHANGED <<steered, window>>
  <2>1. \A x : Seen(x)' = Seen(x)
    BY <1>2 DEF Seen
  <2>2. \A x \in Messages : steered'[x] > 0 => steered'[x] = 1 /\ Seen(x)'
    BY <1>2, <2>1 DEF WindowHolds
  <2> QED
    BY <1>1, <1>2, <2>2 DEF WindowHolds
<1>3. CASE steered' = [steered EXCEPT ![m] = @ + 1] /\ Remember(m, "delivered")
  <2>1. /\ \A i, j \in 1 .. Len(window') : window'[i] = window'[j] => i = j
        /\ Seen(m)' /\ \A x \in Messages : Seen(x) => Seen(x)'
    BY <1>1, <1>3, WindowKeeps DEF Sound
  <2>2. ASSUME NEW x \in Messages, steered'[x] > 0
        PROVE  steered'[x] = 1 /\ Seen(x)'
    <3>1. CASE x = m
      BY <1>1, <1>3, <2>1, <3>1 DEF Sound, PastTypes
    <3>2. CASE x # m
      <4>1. steered'[x] = steered[x]
        BY <1>3, <3>2 DEF Sound, PastTypes
      <4>2. steered[x] = 1 /\ Seen(x)
        BY <2>2, <4>1 DEF WindowHolds
      <4> QED
        BY <2>1, <4>1, <4>2
    <3> QED
      BY <3>1, <3>2
  <2> QED
    BY <1>1, <2>1, <2>2 DEF WindowHolds
<1> QED
  BY <1>2, <1>3 DEF Steer

LEMMA HoldsNext ==
  ASSUME WindowCovers, Sound, Sound', WindowHolds, [Next]_vars
  PROVE  WindowHolds'
<1>1. CASE ServeFrame
  BY <1>1, ServeHolds
<1>2. CASE Steer
  BY <1>2, SteerHolds
<1>3. CASE RefuseFrame \/ Deliver \/ UNCHANGED vars
  BY <1>3, HoldsFrame DEF RefuseFrame, Deliver, DeliverCheck, DeliverPop, DeliverPush,
     vars, listenVars, pastVars
<1>4. ASSUME NEW d \in Deliveries, OnMessage(d) \/ PushTimeout(d) \/ Broker(d)
      PROVE  WindowHolds'
  BY <1>4, HoldsFrame DEF OnMessage, PushTimeout, Broker, PushAgain, PushGivesUp,
     listenVars, pastVars
<1>5. CASE AgentRun \/ TakeInput
  BY <1>5, HoldsFrame DEF AgentRun, RunStart, SubEnd, ModelCall, NextTurn, LastLook,
     RunEnd, TurnEnd, TakeInput, listenVars, pastVars
<1>6. CASE TypeTurn \/ ClassicTurn \/ SubStart \/ RunCancel \/ StopUI \/ Layers
  BY <1>6, HoldsFrame DEF TypeTurn, ClassicTurn, SubStart, RunCancel, StopUI, Layers,
     InstallC5, InstallC8, UninstallC8, UninstallC5, listenVars, pastVars
<1> QED
  BY <1>1, <1>2, <1>3, <1>4, <1>5, <1>6 DEF Next, Listener

\* If the listener's window has room for every message, handle_message()
\* steers each of them at most once, however often it is announced and pushed.
THEOREM SteeredAtMostOnce ==
  ASSUME WindowCovers PROVE Spec => []SteeredOnce
<1>1. Spec => []Sound
  BY ChatPathIsSound
<1>2. Init => WindowHolds
  BY HoldsInit
<1>3. Sound /\ Sound' /\ WindowHolds /\ [Next]_vars => WindowHolds'
  BY HoldsNext
<1>4. Sound /\ WindowHolds => SteeredOnce
  BY DEF Sound, PastTypes, WindowHolds, SteeredOnce
<1> QED
  BY <1>1, <1>2, <1>3, <1>4, PTL DEF Spec

-----------------------------------------------------------------------------
(* A text is in one place.                                                 *)

At(m, q) == {i \in 1 .. Len(q) : q[i] = m}

LEMMA TimesIs ==
  ASSUME NEW m, NEW S, NEW q \in Seq(S)
  PROVE  /\ IsFiniteSet(At(m, q)) /\ Times(m, q) = Cardinality(At(m, q))
         /\ Times(m, q) \in Nat
<1>1. Len(q) \in Nat
  BY LenProperties
<1>2. IsFiniteSet(1 .. Len(q))
  BY <1>1, FS_Interval
<1>3. IsFiniteSet(At(m, q))
  BY <1>2, FS_Subset DEF At
<1>4. Times(m, q) = Cardinality(At(m, q))
  BY DEF Times, At
<1> QED
  BY <1>3, <1>4, FS_CardinalityType

LEMMA TimesNone ==
  ASSUME NEW m, NEW S, NEW q \in Seq(S), \A i \in 1 .. Len(q) : q[i] # m
  PROVE  Times(m, q) = 0
<1>1. At(m, q) = {}
  BY DEF At
<1> QED
  BY <1>1, TimesIs, FS_EmptySet

LEMMA TimesSome ==
  ASSUME NEW m, NEW S, NEW q \in Seq(S)
  PROVE  m \in ToSet(q) <=> Times(m, q) > 0
<1>1. Len(q) \in Nat /\ DOMAIN q = 1 .. Len(q)
  BY LenProperties
<1>2. m \in ToSet(q) <=> At(m, q) # {}
  BY <1>1 DEF ToSet, At
<1>3. Times(m, q) = 0 <=> At(m, q) = {}
  BY TimesIs, FS_EmptySet
<1>4. Times(m, q) \in Nat
  BY TimesIs
<1> QED
  BY <1>2, <1>3, <1>4

LEMMA TimesAppended ==
  ASSUME NEW m, NEW S, NEW q \in Seq(S), NEW x \in S
  PROVE  Times(m, Append(q, x)) = Times(m, q) + IF x = m THEN 1 ELSE 0
<1> PICK r \in Seq(S) : r = Append(q, x)
  BY AppendProperties
<1> PICK n \in Nat : n = Len(q)
  BY LenProperties
<1>1. /\ Len(r) = n + 1 /\ r[n + 1] = x
      /\ \A i \in 1 .. n : r[i] = q[i]
  BY AppendProperties
<1>2. At(m, q) = {i \in 1 .. n : q[i] = m} /\ At(m, r) = {i \in 1 .. n + 1 : r[i] = m}
  BY <1>1 DEF At
<1>3. CASE x = m
  <2>1. At(m, r) = At(m, q) \cup {n + 1} /\ n + 1 \notin At(m, q)
    BY <1>1, <1>2, <1>3
  <2>2. IsFiniteSet(At(m, q))
    BY TimesIs
  <2>3. Cardinality(At(m, r)) = Cardinality(At(m, q)) + 1
    BY <2>1, <2>2, FS_AddElement
  <2> QED
    BY <1>3, <2>3, TimesIs
<1>4. CASE x # m
  <2>1. At(m, r) = At(m, q)
    BY <1>1, <1>2, <1>4
  <2>2. Times(m, r) = Times(m, q) /\ Times(m, q) \in Nat
    BY <2>1, TimesIs
  <2> QED
    BY <1>4, <2>2
<1> QED
  BY <1>3, <1>4

LEMMA TimesTaken ==
  ASSUME NEW m, NEW S, NEW q \in Seq(S), q # <<>>
  PROVE  Times(m, q) = Times(m, Tail(q)) + IF Head(q) = m THEN 1 ELSE 0
<1> PICK r \in Seq(S) : r = Tail(q)
  BY HeadTailProperties
<1> PICK n \in Nat : n = Len(r)
  BY LenProperties
<1>1. /\ Len(q) = n + 1 /\ Head(q) = q[1]
      /\ \A i \in 1 .. n : r[i] = q[i + 1]
  BY HeadTailProperties
<1>2. At(m, r) = {i \in 1 .. n : r[i] = m} /\ At(m, q) = {i \in 1 .. n + 1 : q[i] = m}
  BY <1>1 DEF At
<1> DEFINE Later == At(m, q) \ {1}
           f == [i \in At(m, r) |-> i + 1]
<1>3. f \in [At(m, r) -> Later]
  BY <1>1, <1>2
<1>4. \A i, j \in At(m, r) : f[i] = f[j] => i = j
  BY <1>2
<1>5. \A j \in Later : \E i \in At(m, r) : f[i] = j
  <2> TAKE j \in Later
  <2>1. j - 1 \in At(m, r) /\ f[j - 1] = j
    <3>1. j \in 1 .. n + 1 /\ j # 1 /\ q[j] = m
      BY <1>2
    <3>2. j - 1 \in 1 .. n /\ (j - 1) + 1 = j
      BY <3>1
    <3>3. r[j - 1] = m
      BY <1>1, <3>1, <3>2
    <3>4. j - 1 \in At(m, r)
      BY <1>2, <3>2, <3>3
    <3> QED
      BY <3>2, <3>4
  <2> QED
    BY <2>1
<1>6. ExistsBijection(At(m, r), Later)
  <2>1. f \in Bijection(At(m, r), Later)
    BY <1>3, <1>4, <1>5, Fun_IsBij
  <2> QED
    BY <2>1 DEF ExistsBijection
<1>7. Cardinality(Later) = Cardinality(At(m, r))
  BY <1>6, TimesIs, FS_Bijection
<1>8. 1 \in At(m, q) <=> Head(q) = m
  BY <1>1, <1>2
<1>9. Cardinality(Later) =
        IF 1 \in At(m, q) THEN Cardinality(At(m, q)) - 1 ELSE Cardinality(At(m, q))
  BY TimesIs, FS_RemoveElement
<1> HIDE DEF Later
<1>10. Times(m, q) \in Nat /\ Times(m, r) \in Nat
  BY TimesIs
<1>11. Times(m, r) = IF Head(q) = m THEN Times(m, q) - 1 ELSE Times(m, q)
  BY <1>7, <1>8, <1>9, TimesIs
<1> QED
  BY <1>10, <1>11

LEMMA TimesEmpty ==
  ASSUME NEW m PROVE Times(m, <<>>) = 0
<1> PICK q \in Seq({m}) : q = <<>>
  BY EmptySeq
<1>1. \A i \in 1 .. Len(q) : q[i] # m
  BY EmptySeq
<1>2. Times(m, q) = 0
  BY <1>1, TimesNone
<1> QED
  BY <1>2

LEMMA TimesOne ==
  ASSUME NEW m, NEW x PROVE Times(m, <<x>>) = IF x = m THEN 1 ELSE 0
<1> PICK q \in Seq({x}) : q = <<>>
  BY EmptySeq
<1>1. <<x>> = Append(q, x)
  OBVIOUS
<1>2. Times(m, Append(q, x)) = Times(m, q) + IF x = m THEN 1 ELSE 0
  BY TimesAppended
<1>3. Times(m, q) = 0
  BY TimesEmpty
<1> QED
  BY <1>1, <1>2, <1>3

InOnePlace(m) ==
  Times(m, nowQ) + Times(m, steerQ) + Times(m, held) + Times(m, idleQ)
    + ran[m] + (IF m \in lost THEN 1 ELSE 0) = steered[m]

LostWithThePrompt == lost # {} => ~ui

LEMMA PlaceIs ==
  TextInOnePlace <=> (\A m \in Messages : InOnePlace(m)) /\ LostWithThePrompt
  BY DEF TextInOnePlace, InOnePlace, LostWithThePrompt

LEMMA PlaceKept ==
  ASSUME \A m \in Messages : InOnePlace(m)', LostWithThePrompt'
  PROVE  TextInOnePlace'
  BY DEF TextInOnePlace, InOnePlace, LostWithThePrompt

LEMMA Amounts ==
  ASSUME Sound, NEW m \in Messages
  PROVE  /\ Times(m, nowQ) \in Nat /\ Times(m, steerQ) \in Nat /\ Times(m, held) \in Nat
         /\ Times(m, idleQ) \in Nat /\ ran[m] \in Nat /\ steered[m] \in Nat
<1>1. /\ nowQ \in Seq(Messages) /\ steerQ \in Seq(Messages) /\ held \in Seq(Messages)
      /\ idleQ \in Seq(Messages \cup {Key})
  BY DEF Sound, QueueTypes, LoopTypes, PromptTypes
<1>2. ran[m] \in Nat /\ steered[m] \in Nat
  BY DEF Sound, PastTypes
<1> QED
  BY <1>1, <1>2, TimesIs

LEMMA PlaceInit == Init => TextInOnePlace
<1> SUFFICES ASSUME Init PROVE TextInOnePlace
  OBVIOUS
<1>1. ASSUME NEW m \in Messages PROVE InOnePlace(m)
  BY TimesEmpty DEF Init, InOnePlace
<1> QED
  BY <1>1, PlaceIs DEF Init, LostWithThePrompt

LEMMA PlaceFrame ==
  ASSUME TextInOnePlace,
         UNCHANGED <<nowQ, steerQ, held, idleQ, ran, lost, steered, ui>>
  PROVE  TextInOnePlace'
<1>1. ASSUME NEW m \in Messages PROVE InOnePlace(m)'
  BY PlaceIs DEF InOnePlace
<1>2. LostWithThePrompt'
  BY PlaceIs DEF LostWithThePrompt
<1> QED
  BY <1>1, <1>2, PlaceKept

LEMMA SteerPlaces ==
  ASSUME Sound, TextInOnePlace, Steer
  PROVE  TextInOnePlace'
<1> PICK x \in Messages : x = serving.message
  BY DEF Steer, Sound, ListenTypes, Task
<1>1. UNCHANGED <<held, idleQ, ran, lost, ui>>
  BY DEF Steer, promptVars
<1>2. CASE UNCHANGED <<steered, nowQ, steerQ>>
  BY <1>1, <1>2, PlaceFrame
<1>3. CASE /\ steered' = [steered EXCEPT ![x] = @ + 1]
           /\ \/ nowQ' = Append(nowQ, x) /\ steerQ' = steerQ
              \/ steerQ' = Append(steerQ, x) /\ nowQ' = nowQ
  <2>1. ASSUME NEW m \in Messages PROVE InOnePlace(m)'
    <3> DEFINE one == IF x = m THEN 1 ELSE 0
    <3>1. Times(m, Append(nowQ, x)) = Times(m, nowQ) + one
          /\ Times(m, Append(steerQ, x)) = Times(m, steerQ) + one
      BY TimesAppended DEF Sound, QueueTypes
    <3>2. steered'[m] = steered[m] + one
      BY <1>3 DEF Sound, PastTypes
    <3>3. one \in Nat
      OBVIOUS
    <3>4. InOnePlace(m)
      BY PlaceIs
    <3> HIDE DEF one
    <3>5. Times(m, nowQ') + Times(m, steerQ') = Times(m, nowQ) + Times(m, steerQ) + one
           /\ Times(m, nowQ') \in Nat /\ Times(m, steerQ') \in Nat
      <4>1. CASE nowQ' = Append(nowQ, x) /\ steerQ' = steerQ
        <5>1. Times(m, nowQ') = Times(m, nowQ) + one /\ Times(m, steerQ') = Times(m, steerQ)
          BY <3>1, <4>1
        <5> QED
          BY <3>3, <5>1, Amounts
      <4>2. CASE steerQ' = Append(steerQ, x) /\ nowQ' = nowQ
        <5>1. Times(m, steerQ') = Times(m, steerQ) + one /\ Times(m, nowQ') = Times(m, nowQ)
          BY <3>1, <4>2
        <5> QED
          BY <3>3, <5>1, Amounts
      <4> QED
        BY <1>3, <4>1, <4>2
    <3> QED
      BY <1>1, <3>2, <3>3, <3>4, <3>5, Amounts DEF InOnePlace
  <2>2. LostWithThePrompt'
    BY <1>1, PlaceIs DEF LostWithThePrompt
  <2> QED
    BY <2>1, <2>2, PlaceKept
<1> QED
  BY <1>2, <1>3 DEF Steer, queueVars

LEMMA DeliverPopPlaces ==
  ASSUME Sound, TextInOnePlace, DeliverPop
  PROVE  TextInOnePlace'
<1>1. UNCHANGED <<nowQ, idleQ, ran, lost, steered, ui>>
  BY DEF DeliverPop, promptVars, pastVars
<1>2. CASE steerQ = <<>>
  BY <1>1, <1>2, PlaceFrame DEF DeliverPop, FoundNothing
<1>3. CASE steerQ # <<>>
  <2>1. held = <<>>
    <3> PICK n : n = Len(held)
      OBVIOUS
    <3>1. held \in Seq(Messages) /\ n <= 1 /\ n # 1
      BY DEF DeliverPop, Sound, LoopTypes
    <3>2. n \in Nat
      BY <3>1, LenProperties
    <3>3. n = 0
      BY <3>1, <3>2
    <3> QED
      BY <3>1, <3>3, EmptySeq
  <2>2. held' = <<Head(steerQ)>> /\ steerQ' = Tail(steerQ)
    BY <1>3 DEF DeliverPop, Pop
  <2>3. ASSUME NEW m \in Messages PROVE InOnePlace(m)'
    <3>1. Times(m, steerQ) = Times(m, steerQ') + IF Head(steerQ) = m THEN 1 ELSE 0
      BY <1>3, <2>2, TimesTaken DEF Sound, QueueTypes
    <3>2. Times(m, held) = 0 /\ Times(m, held') = IF Head(steerQ) = m THEN 1 ELSE 0
      BY <2>1, <2>2, TimesEmpty, TimesOne
    <3>3. Times(m, steerQ') \in Nat
      BY <1>3, <2>2, SteerHead, TimesIs DEF Sound
    <3>4. InOnePlace(m)
      BY PlaceIs
    <3> QED
      BY <1>1, <3>1, <3>2, <3>3, <3>4, Amounts DEF InOnePlace
  <2>4. LostWithThePrompt'
    BY <1>1, PlaceIs DEF LostWithThePrompt
  <2> QED
    BY <2>3, <2>4, PlaceKept
<1> QED
  BY <1>2, <1>3

\* What is in hand has been steered, so it is nowhere else.
LEMMA DeliverPushPlaces ==
  ASSUME Sound, TextInOnePlace, SteeredOnce, DeliverPush
  PROVE  TextInOnePlace'
<1>1. UNCHANGED <<nowQ, steerQ, ran, steered, ui>>
  BY DEF DeliverPush, queueVars, pastVars
<1>2. held \in Seq(Messages) /\ Len(held) = 1 /\ held' = <<>>
  BY DEF DeliverPush, Sound, LoopTypes
<1> PICK x \in Messages : x = held[1]
  BY <1>2, ElementOfSeq
<1>3. held = <<x>> /\ ToSet(held) = {x}
  <2>1. DOMAIN held = 1 .. 1 /\ held[1] = x
    BY <1>2, LenProperties
  <2>2. held = <<x>>
    BY <1>2, <2>1
  <2>3. ToSet(held) = {x}
    BY <2>1 DEF ToSet
  <2> QED
    BY <2>2, <2>3
<1>4. CASE ui
  <2>1. idleQ' = Append(idleQ, x) /\ lost' = lost
    BY <1>3, <1>4, AppendIsConcat DEF DeliverPush, Sound, PromptTypes
  <2>2. ASSUME NEW m \in Messages PROVE InOnePlace(m)'
    <3> DEFINE one == IF x = m THEN 1 ELSE 0
    <3>1. Times(m, idleQ') = Times(m, idleQ) + one
      BY <2>1, TimesAppended DEF Sound, PromptTypes
    <3>2. Times(m, held) = one /\ Times(m, held') = 0
      BY <1>2, <1>3, TimesEmpty, TimesOne
    <3>3. one \in Nat
      OBVIOUS
    <3>4. InOnePlace(m)
      BY PlaceIs
    <3> HIDE DEF one
    <3> QED
      BY <1>1, <2>1, <3>1, <3>2, <3>3, <3>4, Amounts DEF InOnePlace
  <2>3. LostWithThePrompt'
    BY <1>1, <2>1, PlaceIs DEF LostWithThePrompt
  <2> QED
    BY <2>2, <2>3, PlaceKept
<1>5. CASE ~ui
  <2>1. idleQ' = idleQ /\ lost' = lost \cup {x}
    BY <1>3, <1>5 DEF DeliverPush
  <2>2. ASSUME NEW m \in Messages PROVE InOnePlace(m)'
    <3>1. Times(m, held) = (IF x = m THEN 1 ELSE 0) /\ Times(m, held') = 0
      BY <1>2, <1>3, TimesEmpty, TimesOne
    <3>2. InOnePlace(m) /\ steered[m] <= 1
      BY PlaceIs DEF SteeredOnce
    <3>3. CASE m = x
      <4>1. m \notin lost /\ m \in lost'
        BY <2>1, <3>1, <3>2, <3>3, Amounts DEF InOnePlace
      <4> QED
        BY <1>1, <2>1, <3>1, <3>2, <3>3, <4>1, Amounts DEF InOnePlace
    <3>4. CASE m # x
      <4>1. m \in lost <=> m \in lost'
        BY <2>1, <3>4
      <4> QED
        BY <1>1, <2>1, <3>1, <3>2, <3>4, <4>1, Amounts DEF InOnePlace
    <3> QED
      BY <3>3, <3>4
  <2>3. LostWithThePrompt'
    BY <1>1, <1>5 DEF LostWithThePrompt
  <2> QED
    BY <2>2, <2>3, PlaceKept
<1> QED
  BY <1>4, <1>5 DEF Sound, PromptTypes

\* Something leaves a queue and is given to the agent, or is typed.
LEMMA TypeTurnPlaces ==
  ASSUME Sound, TextInOnePlace, TypeTurn
  PROVE  TextInOnePlace'
<1>1. UNCHANGED <<nowQ, steerQ, held, ran, lost, steered, ui>> /\ idleQ' = Append(idleQ, Key)
  BY DEF TypeTurn, queueVars, loopVars, pastVars
<1>2. ASSUME NEW m \in Messages PROVE InOnePlace(m)'
  <2>1. Times(m, idleQ') = Times(m, idleQ) + IF Key = m THEN 1 ELSE 0
    BY <1>1, TimesAppended DEF Sound, PromptTypes
  <2>2. Times(m, idleQ') = Times(m, idleQ)
    BY <2>1, Amounts
  <2>3. InOnePlace(m)
    BY PlaceIs
  <2> QED
    BY <1>1, <2>2, <2>3 DEF InOnePlace
<1>3. LostWithThePrompt'
  BY <1>1, PlaceIs DEF LostWithThePrompt
<1> QED
  BY <1>2, <1>3, PlaceKept

LEMMA GivenIs ==
  ASSUME NEW m \in Messages, NEW q PROVE Given(q)[m] = ran[m] + Times(m, q)
  BY DEF Given

LEMMA TakeInputPlaces ==
  ASSUME Sound, TextInOnePlace, TakeInput
  PROVE  TextInOnePlace'
<1>1. /\ UNCHANGED <<nowQ, steerQ, held, lost, steered, ui>> /\ idleQ # <<>>
      /\ idleQ' = Tail(idleQ) /\ ran' = Given(<<Head(idleQ)>>)
  BY DEF TakeInput, queueVars, loopVars, pastVars
<1>2. ASSUME NEW m \in Messages PROVE InOnePlace(m)'
  <2> DEFINE one == IF Head(idleQ) = m THEN 1 ELSE 0
  <2>1. Times(m, idleQ) = Times(m, idleQ') + one
    BY <1>1, TimesTaken DEF Sound, PromptTypes
  <2>2. ran'[m] = ran[m] + one
    BY <1>1, GivenIs, TimesOne
  <2>3. Times(m, idleQ') \in Nat
    BY <1>1, HeadTailProperties, TimesIs DEF Sound, PromptTypes
  <2>4. InOnePlace(m) /\ one \in Nat
    BY PlaceIs
  <2> HIDE DEF one
  <2>5. /\ Times(m, idleQ') + ran'[m] = Times(m, idleQ) + ran[m]
        /\ ran'[m] \in Nat
    BY <2>1, <2>2, <2>3, <2>4, Amounts
  <2>6. UNCHANGED <<nowQ, steerQ, held, lost, steered>>
    BY <1>1
  <2>7. /\ Times(m, nowQ) \in Nat /\ Times(m, steerQ) \in Nat /\ Times(m, held) \in Nat
        /\ Times(m, idleQ) \in Nat /\ ran[m] \in Nat /\ steered[m] \in Nat
    BY Amounts
  <2> QED
    BY <2>3, <2>4, <2>5, <2>6, <2>7 DEF InOnePlace
<1>3. LostWithThePrompt'
  BY <1>1, PlaceIs DEF LostWithThePrompt
<1> QED
  BY <1>2, <1>3, PlaceKept

LEMMA ModelCallPlaces ==
  ASSUME Sound, TextInOnePlace, ModelCall
  PROVE  TextInOnePlace'
<1>1. /\ UNCHANGED <<idleQ, steerQ, held, lost, steered, ui>>
      /\ nowQ' = <<>> /\ ran' = Given(nowQ)
  BY DEF ModelCall, promptVars, loopVars, pastVars
<1>2. ASSUME NEW m \in Messages PROVE InOnePlace(m)'
  <2>1. Times(m, nowQ') = 0 /\ ran'[m] = ran[m] + Times(m, nowQ)
    BY <1>1, GivenIs, TimesEmpty
  <2>2. InOnePlace(m)
    BY PlaceIs
  <2> QED
    BY <1>1, <2>1, <2>2, Amounts DEF InOnePlace
<1>3. LostWithThePrompt'
  BY <1>1, PlaceIs DEF LostWithThePrompt
<1> QED
  BY <1>2, <1>3, PlaceKept

LEMMA NextTurnPlaces ==
  ASSUME Sound, TextInOnePlace, NextTurn
  PROVE  TextInOnePlace'
<1>1. /\ UNCHANGED <<nowQ, idleQ, held, lost, steered, ui>> /\ steerQ # <<>>
      /\ steerQ' = Tail(steerQ) /\ ran' = Given(<<Head(steerQ)>>)
  BY DEF NextTurn, Pop, promptVars, pastVars
<1>2. ASSUME NEW m \in Messages PROVE InOnePlace(m)'
  <2> DEFINE one == IF Head(steerQ) = m THEN 1 ELSE 0
  <2>1. Times(m, steerQ) = Times(m, steerQ') + one
    BY <1>1, TimesTaken DEF Sound, QueueTypes
  <2>2. ran'[m] = ran[m] + one
    BY <1>1, GivenIs, TimesOne
  <2>3. Times(m, steerQ') \in Nat
    BY <1>1, SteerHead, TimesIs DEF Sound
  <2>4. InOnePlace(m) /\ one \in Nat
    BY PlaceIs
  <2> HIDE DEF one
  <2>5. /\ Times(m, steerQ') + ran'[m] = Times(m, steerQ) + ran[m]
        /\ ran'[m] \in Nat
    BY <2>1, <2>2, <2>3, <2>4, Amounts
  <2>6. UNCHANGED <<nowQ, idleQ, held, lost, steered>>
    BY <1>1
  <2>7. /\ Times(m, nowQ) \in Nat /\ Times(m, steerQ) \in Nat /\ Times(m, held) \in Nat
        /\ Times(m, idleQ) \in Nat /\ ran[m] \in Nat /\ steered[m] \in Nat
    BY Amounts
  <2> QED
    BY <2>3, <2>4, <2>5, <2>6, <2>7 DEF InOnePlace
<1>3. LostWithThePrompt'
  BY <1>1, PlaceIs DEF LostWithThePrompt
<1> QED
  BY <1>2, <1>3, PlaceKept

LEMMA StopUIPlaces ==
  ASSUME Sound, TextInOnePlace, SteeredOnce, StopUI
  PROVE  TextInOnePlace'
<1>1. /\ UNCHANGED <<nowQ, steerQ, held, ran, steered>> /\ ui' = FALSE
      /\ idleQ' = <<>> /\ lost' = lost \cup (ToSet(idleQ) \ {Key})
  BY DEF StopUI, queueVars, loopVars, pastVars
<1>2. ASSUME NEW m \in Messages PROVE InOnePlace(m)'
  <2>1. Times(m, idleQ') = 0 /\ (m \in ToSet(idleQ) <=> Times(m, idleQ) > 0)
    BY <1>1, TimesEmpty, TimesSome DEF Sound, PromptTypes
  <2>2. m \in lost' <=> m \in lost \/ Times(m, idleQ) > 0
    BY <1>1, <2>1
  <2>3. InOnePlace(m) /\ steered[m] <= 1
    BY PlaceIs DEF SteeredOnce
  <2>4. CASE Times(m, idleQ) > 0
    <3>1. Times(m, idleQ) = 1 /\ m \notin lost
      BY <2>3, <2>4, Amounts DEF InOnePlace
    <3>2. m \in lost'
      BY <2>2, <2>4
    <3> QED
      BY <1>1, <2>1, <2>3, <3>1, <3>2, Amounts DEF InOnePlace
  <2>5. CASE ~(Times(m, idleQ) > 0)
    <3>1. Times(m, idleQ) = 0 /\ (m \in lost' <=> m \in lost)
      BY <2>2, <2>5, Amounts
    <3> QED
      BY <1>1, <2>1, <2>3, <3>1, Amounts DEF InOnePlace
  <2> QED
    BY <2>4, <2>5
<1>3. LostWithThePrompt'
  BY <1>1 DEF LostWithThePrompt
<1> QED
  BY <1>2, <1>3, PlaceKept

LEMMA PlaceNext ==
  ASSUME Sound, TextInOnePlace, SteeredOnce, [Next]_vars
  PROVE  TextInOnePlace'
<1>1. CASE Steer
  BY <1>1, SteerPlaces
<1>2. CASE ServeFrame \/ RefuseFrame \/ DeliverCheck \/ UNCHANGED vars
  BY <1>2, PlaceFrame DEF ServeFrame, RefuseFrame, DeliverCheck, vars, queueVars,
     promptVars, loopVars, pastVars
<1>3. CASE Deliver
  BY <1>2, <1>3, DeliverPopPlaces, DeliverPushPlaces DEF Deliver
<1>4. ASSUME NEW d \in Deliveries, OnMessage(d) \/ PushTimeout(d) \/ Broker(d)
      PROVE  TextInOnePlace'
  BY <1>4, PlaceFrame DEF OnMessage, PushTimeout, Broker, PushAgain, PushGivesUp,
     queueVars, promptVars, loopVars, pastVars
<1>5. CASE RunStart \/ SubEnd \/ LastLook \/ RunEnd \/ TurnEnd
  BY <1>5, PlaceFrame DEF RunStart, SubEnd, LastLook, RunEnd, TurnEnd,
     queueVars, promptVars, loopVars, pastVars
<1>6. CASE AgentRun \/ TakeInput \/ TypeTurn \/ StopUI
  BY <1>5, <1>6, ModelCallPlaces, NextTurnPlaces, TakeInputPlaces, TypeTurnPlaces,
     StopUIPlaces DEF AgentRun
<1>7. CASE ClassicTurn \/ SubStart \/ RunCancel \/ Layers
  BY <1>7, PlaceFrame DEF ClassicTurn, SubStart, RunCancel, Layers, InstallC5,
     InstallC8, UninstallC8, UninstallC5, queueVars, promptVars, loopVars, pastVars
<1> QED
  BY <1>1, <1>2, <1>3, <1>4, <1>6, <1>7 DEF Next, Listener

\* Under the same assumption every text that was steered is in exactly one
\* place: a queue of the core, C8's hand, the prompt, the agent, or lost with
\* the prompt.
THEOREM EveryTextInOnePlace ==
  ASSUME WindowCovers PROVE Spec => []TextInOnePlace
<1>1. Spec => []Sound
  BY ChatPathIsSound
<1>2. Spec => []SteeredOnce
  BY SteeredAtMostOnce
<1>3. Init => TextInOnePlace
  BY PlaceInit
<1>4. Sound /\ SteeredOnce /\ TextInOnePlace /\ [Next]_vars => TextInOnePlace'
  BY PlaceNext
<1> QED
  BY <1>1, <1>2, <1>3, <1>4, PTL DEF Spec
=============================================================================
