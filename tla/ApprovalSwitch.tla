---------------------------- MODULE ApprovalSwitch ----------------------------
(***************************************************************************)
(* The session's approval switch (cp_discord/approvals.py and              *)
(* approvals_state.py, with the terminal prompt of approvals_prompt.py).   *)
(*                                                                         *)
(* Every approval goes two ways at once: to the session's Discord thread   *)
(* and to a prompt in the terminal.  Four kinds of thread share one        *)
(* SwitchState: the executor thread of each approval (`backend'), the      *)
(* thread that owns its prompt (`driver'), the inbound listener that       *)
(* delivers button presses, and the deadline timers.  The state lock is    *)
(* held for one transition at a time, so an action is one critical section *)
(* together with the thread-local code up to the next one.                 *)
(***************************************************************************)
EXTENDS Integers

CONSTANTS
  Gates,          \* the approvals the core asks for, one gate each
  NoGate,         \* the empty prompt slot
  Attended,       \* the approvals raised while stdin can host a prompt
  SubmitOutcomes  \* what may become of the frame that opens a gate

(* "noclient": no broker is known; "lost": the frame never arrived;        *)
(* "unacked": it arrived, its ack did not; "acked": it arrived.            *)
Outcomes == {"noclient", "lost", "unacked", "acked"}
Arrived  == {"unacked", "acked"}

ASSUME GatesAssumption ==
  /\ NoGate \notin Gates
  /\ Attended \subseteq Gates
  /\ SubmitOutcomes \subseteq Outcomes

VARIABLES
  registered,   \* the gates in SwitchState._gates
  resolution,   \* Gate.resolution: "open", "yes" or "no"
  winner,       \* Gate.winner
  discordAlive, \* Gate.discord_alive
  timer,        \* Gate.timer
  handle,       \* Gate.prompt: the application a resolution may exit
  mark, slot,   \* SwitchState._mark and _slot
  flagCount,    \* SwitchState._flag_count
  flagGen,      \* SwitchState._flag_gen
  coreFlag,     \* the core's process-wide awaiting_user_input
  backend,      \* program counter of each approval's executor thread
  result,       \* what approval_backend returned to the core
  driver,       \* program counter of each prompt thread
  answer,       \* what prompt.run() is about to return
  exitReq,      \* the exit_with() waiting on the prompt's event loop
  flagStep,     \* the flag transition a thread took but has not applied
  listener,     \* the inbound listener's thread, one click at a time
  telling,      \* threads about to close a gate in the channel
  channel       \* the gate's message in the Discord thread

gateVars   == <<registered, resolution, winner, discordAlive, timer, handle>>
slotVars   == <<mark, slot>>
flagVars   == <<flagCount, flagGen, coreFlag, flagStep>>
promptVars == <<driver, answer, exitReq>>
backVars   == <<backend, result>>
farVars    == <<listener, telling, channel>>
vars == <<gateVars, slotVars, flagVars, promptVars, backVars, farVars>>

Answers == {"yes", "no"}
Idle    == [pc |-> "idle", gate |-> NoGate, decision |-> "none"]
NoStep  == [gen |-> 0, target |-> FALSE]
Steppers == {"b", "d"} \X Gates  \* executor and prompt thread of each gate

Resolved(g) == resolution[g] # "open"

(* The prompt thread owns stdin from its start until release_slot.         *)
Prompting(g) == driver[g] \in {"build", "live", "resolve", "release"}

(* The terminal branch has taken stdin but its prompt thread is not up.    *)
Starting(g) == backend[g] \in {"flag", "flagCheck", "flagSet"}

-----------------------------------------------------------------------------
Init ==
  /\ registered   = {}
  /\ resolution   = [g \in Gates |-> "open"]
  /\ winner       = [g \in Gates |-> "none"]
  /\ discordAlive = [g \in Gates |-> TRUE]
  /\ timer        = [g \in Gates |-> "none"]
  /\ handle       = [g \in Gates |-> FALSE]
  /\ mark = "empty" /\ slot = NoGate
  /\ flagCount = 0 /\ flagGen = 0 /\ coreFlag = FALSE
  /\ flagStep = [s \in Steppers |-> NoStep]
  /\ backend = [g \in Gates |-> "idle"]
  /\ result  = [g \in Gates |-> "none"]
  /\ driver  = [g \in Gates |-> "none"]
  /\ answer  = [g \in Gates |-> "none"]
  /\ exitReq = [g \in Gates |-> "none"]
  /\ listener = Idle
  /\ telling  = {}
  /\ channel  = [g \in Gates |-> "unposted"]

GoBackend(g, from, to) ==
  /\ backend[g] = from
  /\ backend' = [backend EXCEPT ![g] = to]

GoDriver(g, from, to) ==
  /\ driver[g] = from
  /\ driver' = [driver EXCEPT ![g] = to]

(* close_gate: whether the closing frame arrives is the network's choice   *)
(* unless every frame is delivered.                                        *)
CloseInChannel(g) ==
  \/ /\ channel[g] = "open"
     /\ SubmitOutcomes \cap Arrived # {}
     /\ channel' = [channel EXCEPT ![g] = "closed"]
  \/ /\ channel[g] # "open" \/ ~(SubmitOutcomes \subseteq Arrived)
     /\ UNCHANGED channel

-----------------------------------------------------------------------------
(* The core flag: counted under the lock, set outside it.                  *)

(* step_flag: the count moves; a transition is taken only if the truth     *)
(* changed, and then it is a new generation.                               *)
StepFlag(who, g, count, changed) ==
  /\ flagCount' = count
  /\ IF changed
     THEN /\ flagGen' = flagGen + 1
          /\ flagStep' = [flagStep EXCEPT ![<<who, g>>] =
                            [gen |-> flagGen + 1, target |-> count > 0]]
     ELSE UNCHANGED <<flagGen, flagStep>>
  /\ UNCHANGED coreFlag

RaiseFlag(who, g) == StepFlag(who, g, flagCount + 1, flagCount = 0)

LowerFlag(who, g) ==
  StepFlag(who, g, IF flagCount = 0 THEN 0 ELSE flagCount - 1, flagCount = 1)

(* flag_is_current: may this transition still be applied?                  *)
FlagIsCurrent(who, g) == flagStep[<<who, g>>].gen = flagGen

CheckFlag(who, g) ==
  IF FlagIsCurrent(who, g)
  THEN UNCHANGED flagVars
  ELSE /\ flagStep' = [flagStep EXCEPT ![<<who, g>>] = NoStep]
       /\ UNCHANGED <<flagCount, flagGen, coreFlag>>

(* _apply_flag's setter: a transition that was current is set, outside     *)
(* the lock.                                                               *)
ApplyFlag(who, g) ==
  IF flagStep[<<who, g>>] = NoStep
  THEN UNCHANGED flagVars
  ELSE /\ coreFlag' = flagStep[<<who, g>>].target
       /\ flagStep' = [flagStep EXCEPT ![<<who, g>>] = NoStep]
       /\ UNCHANGED <<flagCount, flagGen>>

-----------------------------------------------------------------------------
(* The executor thread of an approval (approval_backend).                  *)

OpenGate(g) ==
  /\ GoBackend(g, "idle", "submit")
  /\ registered' = registered \cup {g}
  /\ UNCHANGED <<resolution, winner, discordAlive, timer, handle, result,
                 slotVars, flagVars, promptVars, farVars>>

(* submit_gate returns whether it was acked; the buttons may be up even    *)
(* when it was not.  The answer is written without the lock.               *)
StartDiscordBranch(g) ==
  /\ GoBackend(g, "submit", "branch")
  /\ \E outcome \in SubmitOutcomes :
       /\ channel[g] # "unposted" => outcome \in Arrived
       /\ discordAlive' = [discordAlive EXCEPT ![g] = outcome = "acked"]
       /\ channel' = IF outcome \in Arrived /\ channel[g] = "unposted"
                     THEN [channel EXCEPT ![g] = "open"] ELSE channel
  /\ UNCHANGED <<registered, resolution, winner, timer, handle, result,
                 slotVars, flagVars, promptVars, listener, telling>>

(* The frame is posted before its ack comes back: a press may overtake it. *)
PostBeforeAck(g) ==
  /\ backend[g] = "submit" /\ channel[g] = "unposted"
  /\ SubmitOutcomes \cap Arrived # {}
  /\ channel' = [channel EXCEPT ![g] = "open"]
  /\ UNCHANGED <<gateVars, slotVars, flagVars, promptVars, backVars,
                 listener, telling>>

(* acquire_slot                                                            *)
MayAcquireTakenSlot(g) == g \in Attended /\ ~Resolved(g)  \* mutant

MayAcquireSlot(g) == g \in Attended /\ ~Resolved(g) /\ slot = NoGate

AcquireSlot(g) ==
  /\ MayAcquireSlot(g)
  /\ GoBackend(g, "branch", "flag")
  /\ slot' = g /\ mark' = "pending"
  /\ UNCHANGED <<gateVars, result, flagVars, promptVars, farVars>>

SkipTerminalBranch(g) ==
  /\ ~MayAcquireSlot(g)
  /\ GoBackend(g, "branch", "arm")
  /\ UNCHANGED <<gateVars, result, slotVars, flagVars, promptVars, farVars>>

BackendStepsFlag(g) ==
  /\ GoBackend(g, "flag", "flagCheck")
  /\ RaiseFlag("b", g)
  /\ UNCHANGED <<gateVars, slotVars, result, promptVars, farVars>>

BackendChecksFlag(g) ==
  /\ GoBackend(g, "flagCheck", "flagSet")
  /\ CheckFlag("b", g)
  /\ UNCHANGED <<gateVars, slotVars, result, promptVars, farVars>>

(* _apply_flag's setter, and the start of the prompt's own thread.         *)
BackendSetsFlag(g) ==
  /\ GoBackend(g, "flagSet", "arm")
  /\ ApplyFlag("b", g)
  /\ driver' = [driver EXCEPT ![g] = "build"]
  /\ UNCHANGED <<gateVars, slotVars, result, answer, exitReq, farVars>>

(* arm_deadline: never under an open prompt.                               *)
MayArmUnderPrompt(g) == discordAlive[g]  \* mutant

MayArm(g) == discordAlive[g] /\ slot # g

ArmDeadline(g) ==
  /\ \/ /\ discordAlive[g] \/ driver[g] # "none"
        /\ GoBackend(g, "arm", "wait")
        /\ UNCHANGED result
     \/ /\ ~discordAlive[g] /\ driver[g] = "none"
        /\ GoBackend(g, "arm", "close")
        /\ result' = [result EXCEPT ![g] = "deny"]
  /\ timer' = IF MayArm(g) THEN [timer EXCEPT ![g] = "armed"] ELSE timer
  /\ UNCHANGED <<registered, resolution, winner, discordAlive, handle,
                 slotVars, flagVars, promptVars, farVars>>

(* `while gate.resolution is None'                                         *)
WaitForAnswer(g) ==
  /\ GoBackend(g, "wait", IF Resolved(g) THEN "answered" ELSE "branches")
  /\ UNCHANGED <<gateVars, slotVars, flagVars, promptVars, result, farVars>>

(* `if not gate.discord_alive and not _state.owns_slot(gate)'              *)
OnlySlotEnded(g) == ~discordAlive[g] /\ driver[g] = "none"  \* mutant

BranchesEnded(g) == ~discordAlive[g] /\ slot # g

CheckBranches(g) ==
  /\ \/ /\ ~BranchesEnded(g)
        /\ GoBackend(g, "branches", "wait")
        /\ UNCHANGED result
     \/ /\ BranchesEnded(g)
        /\ GoBackend(g, "branches", "close")
        /\ result' = [result EXCEPT ![g] = "deny"]
  /\ UNCHANGED <<gateVars, slotVars, flagVars, promptVars, farVars>>

(* The channel hears of a terminal answer only while its branch is alive.  *)
ReturnAnswer(g) ==
  /\ GoBackend(g, "answered", "close")
  /\ result' = [result EXCEPT ![g] = IF resolution[g] = "yes" THEN "allow" ELSE "deny"]
  /\ IF winner[g] = "terminal" /\ discordAlive[g]
     THEN CloseInChannel(g) ELSE UNCHANGED channel
  /\ UNCHANGED <<gateVars, slotVars, flagVars, promptVars, listener, telling>>

CloseKnownGate(g) ==  \* mutant
  /\ g \in registered
  /\ GoBackend(g, "close", "done")
  /\ registered' = registered \ {g}
  /\ timer' = [timer EXCEPT ![g] = "none"]
  /\ UNCHANGED <<resolution, winner, discordAlive, handle, result,
                 slotVars, flagVars, promptVars, farVars>>

CloseGate(g) ==
  /\ GoBackend(g, "close", "done")
  /\ registered' = registered \ {g}
  /\ timer' = IF g \in registered THEN [timer EXCEPT ![g] = "none"] ELSE timer
  /\ UNCHANGED <<resolution, winner, discordAlive, handle, result,
                 slotVars, flagVars, promptVars, farVars>>

Backend(g) ==
  \/ OpenGate(g) \/ StartDiscordBranch(g) \/ AcquireSlot(g)
  \/ SkipTerminalBranch(g) \/ BackendStepsFlag(g) \/ BackendChecksFlag(g)
  \/ BackendSetsFlag(g) \/ ArmDeadline(g) \/ WaitForAnswer(g)
  \/ CheckBranches(g) \/ ReturnAnswer(g) \/ CloseGate(g)

-----------------------------------------------------------------------------
(* The compare-and-swap (SwitchState.resolve): the first answer wins, and  *)
(* the prompt is handed out only while it is operable.                     *)
LastAnswerWins(g, decision, who) ==  \* mutant
  /\ resolution' = [resolution EXCEPT ![g] = decision]
  /\ winner' = [winner EXCEPT ![g] = who]

Resolve(g, decision, who) ==
  IF Resolved(g)
  THEN UNCHANGED <<resolution, winner>>
  ELSE /\ resolution' = [resolution EXCEPT ![g] = decision]
       /\ winner' = [winner EXCEPT ![g] = who]

PromptOnceBuilt(g) == mark = "pending" /\ slot = g  \* mutant

PromptToExit(g) == mark = "live" /\ handle[g]

(* The prompt's own thread (_drive_prompt, TerminalPrompt.run).            *)

(* pre_run -> go_live: a gate resolved meanwhile is never shown.           *)
MayGoLiveAnyway(g) == TRUE  \* mutant

MayGoLive(g) == ~Resolved(g)

GoLive(g) ==
  /\ MayGoLive(g)
  /\ GoDriver(g, "build", "live")
  /\ mark' = "live"
  /\ handle' = [handle EXCEPT ![g] = TRUE]
  /\ UNCHANGED <<registered, resolution, winner, discordAlive, timer, slot,
                 flagVars, answer, exitReq, backVars, farVars>>

TooLateForPrompt(g) ==
  /\ ~MayGoLive(g)
  /\ GoDriver(g, "build", "release")
  /\ UNCHANGED <<gateVars, slotVars, flagVars, answer, exitReq, backVars, farVars>>

(* Building or running the application may raise; Ctrl+C is no answer.     *)
PromptAborts(g) ==
  /\ driver[g] \in {"build", "live"}
  /\ driver' = [driver EXCEPT ![g] = "release"]
  /\ exitReq' = [exitReq EXCEPT ![g] = "none"]
  /\ UNCHANGED <<gateVars, slotVars, flagVars, answer, backVars, farVars>>

HumanAnswers(g, a) ==
  /\ GoDriver(g, "live", "resolve")
  /\ answer' = [answer EXCEPT ![g] = a]
  /\ exitReq' = [exitReq EXCEPT ![g] = "none"]
  /\ UNCHANGED <<gateVars, slotVars, flagVars, backVars, farVars>>

(* _exit_on_loop: the queued exit substitutes the result.                  *)
PromptExits(g) ==
  /\ exitReq[g] # "none"
  /\ GoDriver(g, "live", "resolve")
  /\ answer' = [answer EXCEPT ![g] = exitReq[g]]
  /\ exitReq' = [exitReq EXCEPT ![g] = "none"]
  /\ UNCHANGED <<gateVars, slotVars, flagVars, backVars, farVars>>

TerminalResolves(g) ==
  /\ GoDriver(g, "resolve", "release")
  /\ Resolve(g, answer[g], "terminal")
  /\ answer' = [answer EXCEPT ![g] = "none"]
  /\ UNCHANGED <<registered, discordAlive, timer, handle, slotVars, flagVars,
                 exitReq, backVars, farVars>>

(* release_slot is owner-checked.                                          *)
ReleaseUnchecked(g) ==  \* mutant
  /\ GoDriver(g, "release", "flag")
  /\ slot' = NoGate /\ mark' = "empty"
  /\ handle' = [handle EXCEPT ![g] = FALSE]
  /\ UNCHANGED <<registered, resolution, winner, discordAlive, timer, flagVars,
                 answer, exitReq, backVars, farVars>>

ReleaseForgetsFlag(g) ==  \* mutant
  /\ slot = g
  /\ GoDriver(g, "release", "done")
  /\ slot' = NoGate /\ mark' = "empty"
  /\ handle' = [handle EXCEPT ![g] = FALSE]
  /\ UNCHANGED <<registered, resolution, winner, discordAlive, timer, flagVars,
                 answer, exitReq, backVars, farVars>>

ReleaseSlot(g) ==
  /\ IF slot = g
     THEN /\ GoDriver(g, "release", "flag")
          /\ slot' = NoGate /\ mark' = "empty"
          /\ handle' = [handle EXCEPT ![g] = FALSE]
     ELSE /\ GoDriver(g, "release", "done")
          /\ UNCHANGED <<slot, mark, handle>>
  /\ UNCHANGED <<registered, resolution, winner, discordAlive, timer, flagVars,
                 answer, exitReq, backVars, farVars>>

DriverStepsFlag(g) ==
  /\ GoDriver(g, "flag", "flagCheck")
  /\ LowerFlag("d", g)
  /\ UNCHANGED <<gateVars, slotVars, answer, exitReq, backVars, farVars>>

DriverChecksFlag(g) ==
  /\ GoDriver(g, "flagCheck", "flagSet")
  /\ CheckFlag("d", g)
  /\ UNCHANGED <<gateVars, slotVars, answer, exitReq, backVars, farVars>>

DriverSetsFlag(g) ==
  /\ GoDriver(g, "flagSet", "done")
  /\ ApplyFlag("d", g)
  /\ UNCHANGED <<gateVars, slotVars, answer, exitReq, backVars, farVars>>

(* What the prompt thread does by itself, without a human.                 *)
Driver(g) ==
  \/ GoLive(g) \/ TooLateForPrompt(g) \/ PromptExits(g)
  \/ TerminalResolves(g) \/ ReleaseSlot(g) \/ DriverStepsFlag(g)
  \/ DriverChecksFlag(g) \/ DriverSetsFlag(g)

-----------------------------------------------------------------------------
(* The inbound listener (on_gate_resolved), for an approver's press.  A    *)
(* stranger's press and one on a gate that is gone change nothing.         *)

ClickLookup(g, decision) ==
  /\ listener = Idle
  /\ channel[g] # "unposted"
  /\ g \in registered /\ ~Resolved(g)
  /\ listener' = [pc |-> "cas", gate |-> g, decision |-> decision]
  /\ UNCHANGED <<gateVars, slotVars, flagVars, promptVars, backVars,
                 telling, channel>>

(* The CAS hands out the prompt only at "live"; the channel is told on     *)
(* another thread once the exit has been handed over.                      *)
ClickResolves ==
  LET g == listener.gate IN
  /\ listener.pc = "cas"
  /\ Resolve(g, listener.decision, "remote")
  /\ IF ~Resolved(g) /\ PromptToExit(g)
     THEN listener' = [listener EXCEPT !.pc = "exit"]
     ELSE listener' = Idle
  /\ telling' = IF Resolved(g) \/ PromptToExit(g)
                THEN telling ELSE telling \cup {g}
  /\ UNCHANGED <<registered, discordAlive, timer, handle, slotVars, flagVars,
                 promptVars, backVars, channel>>

(* exit_with, from a foreign thread: evaporates once the prompt has ended. *)
ClickExits ==
  LET g == listener.gate IN
  /\ listener.pc = "exit"
  /\ exitReq' = IF driver[g] = "live"
                THEN [exitReq EXCEPT ![g] = listener.decision] ELSE exitReq
  /\ telling' = telling \cup {g}
  /\ listener' = Idle
  /\ UNCHANGED <<gateVars, slotVars, flagVars, driver, answer, backVars, channel>>

Listener == ClickResolves \/ ClickExits

(* _expire: ends the Discord branch only, and says so in the channel.      *)
ExpireOnlyTells(g) ==  \* mutant
  /\ timer[g] = "armed"
  /\ timer' = [timer EXCEPT ![g] = "fired"]
  /\ telling' = telling \cup {g}
  /\ UNCHANGED <<registered, resolution, winner, discordAlive, handle, slotVars,
                 flagVars, promptVars, backVars, listener, channel>>

Expire(g) ==
  /\ timer[g] = "armed"
  /\ timer' = [timer EXCEPT ![g] = "fired"]
  /\ IF Resolved(g) \/ ~discordAlive[g]
     THEN UNCHANGED <<discordAlive, telling>>
     ELSE /\ discordAlive' = [discordAlive EXCEPT ![g] = FALSE]
          /\ telling' = telling \cup {g}
  /\ UNCHANGED <<registered, resolution, winner, handle, slotVars, flagVars,
                 promptVars, backVars, listener, channel>>

(* _tell_channel on a background or timer thread.                          *)
TellChannel(g) ==
  /\ g \in telling
  /\ telling' = telling \ {g}
  /\ CloseInChannel(g)
  /\ UNCHANGED <<gateVars, slotVars, flagVars, promptVars, backVars, listener>>

-----------------------------------------------------------------------------
Human(g) == PromptAborts(g) \/ \E a \in Answers : HumanAnswers(g, a) \/ ClickLookup(g, a)

Next ==
  \/ Listener
  \/ \E g \in Gates :
       \/ Backend(g) \/ Driver(g) \/ Human(g) \/ PostBeforeAck(g)
       \/ Expire(g) \/ TellChannel(g)

Spec == Init /\ [][Next]_vars

(* Threads run; timers fire.  Nobody has to answer, at either end.         *)
Fairness ==
  /\ WF_vars(Listener)
  /\ \A g \in Gates :
       WF_vars(Backend(g)) /\ WF_vars(Driver(g)) /\ WF_vars(Expire(g))

FairSpec == Spec /\ Fairness

-----------------------------------------------------------------------------
GateTypes ==
  /\ registered \subseteq Gates
  /\ resolution \in [Gates -> {"open"} \cup Answers]
  /\ winner \in [Gates -> {"none", "terminal", "remote"}]
  /\ discordAlive \in [Gates -> BOOLEAN]
  /\ timer \in [Gates -> {"none", "armed", "fired"}]
  /\ handle \in [Gates -> BOOLEAN]

SlotTypes ==
  /\ mark \in {"empty", "pending", "live"}
  /\ slot \in Gates \cup {NoGate}

FlagTypes ==
  /\ flagCount \in Nat /\ flagGen \in Nat /\ coreFlag \in BOOLEAN
  /\ flagStep \in [Steppers -> [gen : Nat, target : BOOLEAN]]

PromptTypes ==
  /\ driver \in [Gates -> {"none", "build", "live", "resolve", "release",
        "flag", "flagCheck", "flagSet", "done"}]
  /\ answer \in [Gates -> {"none"} \cup Answers]
  /\ exitReq \in [Gates -> {"none"} \cup Answers]
  /\ \A g \in Gates : driver[g] = "resolve" => answer[g] # "none"

BackTypes ==
  /\ backend \in [Gates -> {"idle", "submit", "branch", "flag", "flagCheck",
        "flagSet", "arm", "wait", "branches", "answered", "close", "done"}]
  /\ result \in [Gates -> {"none", "allow", "deny"}]

Presses == [pc : {"cas", "exit"}, gate : Gates, decision : Answers]

FarTypes ==
  /\ listener \in {Idle} \cup Presses
  /\ telling \subseteq Gates
  /\ channel \in [Gates -> {"unposted", "open", "closed"}]

(* Every variable stays in its range; in particular a prompt that ended    *)
(* without an answer never becomes a ruling.                               *)
TypeOK ==
  GateTypes /\ SlotTypes /\ FlagTypes /\ PromptTypes /\ BackTypes /\ FarTypes

(* Two approvals never own stdin at once, from the moment one takes the    *)
(* slot until its prompt has ended (acquire_slot and release_slot).        *)
OneTerminalPrompt ==
  \A g, h \in Gates :
    (Prompting(g) \/ Starting(g)) /\ (Prompting(h) \/ Starting(h)) => g = h

(* A gate has no deadline while a human stands before its prompt           *)
(* (arm_deadline checks the slot under the lock it arms under).            *)
NoDeadlineUnderPrompt == \A g \in Gates : timer[g] = "armed" => ~Prompting(g)

(* An operable prompt before a decided gate has an exit on its way: the    *)
(* three-valued mark leaves no window between go_live and resolve.         *)
DecidedPromptIsLeaving ==
  \A g \in Gates :
    driver[g] = "live" /\ Resolved(g) =>
      \/ exitReq[g] # "none"
      \/ listener.pc = "exit" /\ listener.gate = g

(* Once no approval owns stdin and every flag transition has been applied, *)
(* the core's awaiting_user_input is back to FALSE.                        *)
QuietMeansClear ==
  (\A g \in Gates : ~Starting(g) /\ driver[g] \in {"none", "done"})
    => flagCount = 0 /\ ~coreFlag

(* The first answer is final: whoever loses the race changes nothing.      *)
RulingKept ==
  \A g \in Gates :
    Resolved(g) => resolution'[g] = resolution[g] /\ winner'[g] = winner[g]

RulingNeverChanges == [][RulingKept]_vars

(* An approval raised without a terminal always returns: answered, or      *)
(* ended by its deadline.                                                  *)
UnattendedReturns ==
  \A g \in Gates \ Attended : backend[g] = "submit" ~> backend[g] = "done"

(* An answer from either end reaches both: the core gets its return value  *)
(* and the prompt leaves the terminal, whoever gave it.                    *)
AnswerReachesBothEnds ==
  \A g \in Gates :
    Resolved(g) ~> backend[g] = "done" /\ driver[g] \in {"none", "done"}

(* What the code promises and does not keep (approvals.py:341).            *)

(* The core is never told no after an approver said yes.                   *)
ApprovedIsNotDenied ==
  \A g \in Gates : ~(result[g] = "deny" /\ resolution[g] = "yes")
=============================================================================
