------------------------ MODULE ApprovalSwitch_proofs ------------------------
(***************************************************************************)
(* Theorems of the approval switch and of its teardown, for any set of     *)
(* approvals, any of them attended, and whatever becomes of their frames.  *)
(***************************************************************************)
EXTENDS ApprovalTeardown, FiniteSetTheorems, TLAPS

USE GatesAssumption

-----------------------------------------------------------------------------
(* The flag protocol keeps its types.                                      *)

FlagSteps == [Steppers -> [gen : Nat, target : BOOLEAN]]

LEMMA NoStepType == NoStep \in [gen : Nat, target : BOOLEAN]
  BY DEF NoStep

(* Overwriting one value of a function with another of its range.          *)
LEMMA ExceptType ==
  ASSUME NEW S, NEW T, NEW f \in [S -> T], NEW x \in S, NEW y \in T
  PROVE  [f EXCEPT ![x] = y] \in [S -> T]
  OBVIOUS

LEMMA DroppedStepType ==
  ASSUME FlagTypes, NEW who \in {"b", "d"}, NEW g \in Gates
  PROVE  [flagStep EXCEPT ![<<who, g>>] = NoStep] \in FlagSteps
<1>1. <<who, g>> \in Steppers
  BY DEF Steppers
<1> QED
  BY <1>1, NoStepType, ExceptType DEF FlagTypes, FlagSteps

LEMMA StepFlagType ==
  ASSUME FlagTypes, NEW who \in {"b", "d"}, NEW g \in Gates,
         NEW count \in Nat, NEW changed, StepFlag(who, g, count, changed)
  PROVE  FlagTypes'
<1>1. <<who, g>> \in Steppers
  BY DEF Steppers
<1>2. [gen |-> flagGen + 1, target |-> count > 0] \in [gen : Nat, target : BOOLEAN]
  BY DEF FlagTypes
<1>3. [flagStep EXCEPT ![<<who, g>>] = [gen |-> flagGen + 1, target |-> count > 0]]
        \in FlagSteps
  BY <1>1, <1>2, ExceptType DEF FlagTypes, FlagSteps
<1>4. flagStep' \in FlagSteps
  BY <1>3 DEF StepFlag, FlagTypes, FlagSteps
<1> QED
  BY <1>4 DEF StepFlag, FlagTypes, FlagSteps

LEMMA CheckFlagType ==
  ASSUME FlagTypes, NEW who \in {"b", "d"}, NEW g \in Gates, CheckFlag(who, g)
  PROVE  FlagTypes'
  BY DroppedStepType DEF CheckFlag, FlagTypes, FlagSteps, flagVars

LEMMA ApplyFlagType ==
  ASSUME FlagTypes, NEW who \in {"b", "d"}, NEW g \in Gates, ApplyFlag(who, g)
  PROVE  FlagTypes'
<1>1. <<who, g>> \in Steppers
  BY DEF Steppers
<1>2. flagStep[<<who, g>>] \in [gen : Nat, target : BOOLEAN]
  BY <1>1 DEF FlagTypes
<1>3. flagStep[<<who, g>>].target \in BOOLEAN
  BY <1>2
<1> QED
  BY <1>3, DroppedStepType DEF ApplyFlag, FlagTypes, FlagSteps, flagVars

-----------------------------------------------------------------------------
(* What a step leaves alone keeps its type.                                *)

LEMMA GateFrame == GateTypes /\ UNCHANGED gateVars => GateTypes'
  BY DEF GateTypes, gateVars

LEMMA SlotFrame == SlotTypes /\ UNCHANGED slotVars => SlotTypes'
  BY DEF SlotTypes, slotVars

LEMMA FlagFrame == FlagTypes /\ UNCHANGED flagVars => FlagTypes'
  BY DEF FlagTypes, flagVars

LEMMA PromptFrame == PromptTypes /\ UNCHANGED promptVars => PromptTypes'
  BY DEF PromptTypes, promptVars

LEMMA BackFrame == BackTypes /\ UNCHANGED backVars => BackTypes'
  BY DEF BackTypes, backVars

LEMMA FarFrame == FarTypes /\ UNCHANGED farVars => FarTypes'
  BY DEF FarTypes, farVars

-----------------------------------------------------------------------------
LEMMA TypeInit == Init => TypeOK
<1> SUFFICES ASSUME Init PROVE TypeOK
  OBVIOUS
<1>1. GateTypes /\ SlotTypes
  BY DEF Init, GateTypes, SlotTypes
<1>2. FlagTypes
  BY NoStepType DEF Init, FlagTypes
<1>3. PromptTypes
  BY DEF Init, PromptTypes
<1>4. BackTypes /\ FarTypes
  BY DEF Init, BackTypes, FarTypes
<1> QED
  BY <1>1, <1>2, <1>3, <1>4 DEF TypeOK

LEMMA TypeNext == TypeOK /\ [Next]_vars => TypeOK'
<1> SUFFICES ASSUME TypeOK, [Next]_vars PROVE TypeOK'
  OBVIOUS
<1> USE DEF TypeOK
<1>1. ASSUME NEW g \in Gates, OpenGate(g) PROVE TypeOK'
  BY <1>1, SlotFrame, FlagFrame, PromptFrame, FarFrame
     DEF OpenGate, GoBackend, BackTypes, GateTypes
<1>2. ASSUME NEW g \in Gates, StartDiscordBranch(g) PROVE TypeOK'
  BY <1>2, SlotFrame, FlagFrame, PromptFrame
     DEF StartDiscordBranch, GoBackend, BackTypes, GateTypes, FarTypes
<1>3. ASSUME NEW g \in Gates, AcquireSlot(g) PROVE TypeOK'
  BY <1>3, GateFrame, FlagFrame, PromptFrame, FarFrame
     DEF AcquireSlot, GoBackend, BackTypes, SlotTypes
<1>4. ASSUME NEW g \in Gates, SkipTerminalBranch(g) PROVE TypeOK'
  BY <1>4, GateFrame, SlotFrame, FlagFrame, PromptFrame, FarFrame
     DEF SkipTerminalBranch, GoBackend, BackTypes
<1>5. ASSUME NEW g \in Gates, BackendStepsFlag(g) PROVE TypeOK'
  BY <1>5, GateFrame, SlotFrame, PromptFrame, FarFrame, StepFlagType
     DEF BackendStepsFlag, RaiseFlag, GoBackend, BackTypes, FlagTypes
<1>6. ASSUME NEW g \in Gates, BackendChecksFlag(g) PROVE TypeOK'
  BY <1>6, GateFrame, SlotFrame, PromptFrame, FarFrame, CheckFlagType
     DEF BackendChecksFlag, GoBackend, BackTypes
<1>7. ASSUME NEW g \in Gates, BackendSetsFlag(g) PROVE TypeOK'
  BY <1>7, GateFrame, SlotFrame, FarFrame, ApplyFlagType
     DEF BackendSetsFlag, GoBackend, BackTypes, PromptTypes
<1>8. ASSUME NEW g \in Gates, ArmDeadline(g) PROVE TypeOK'
  BY <1>8, SlotFrame, FlagFrame, PromptFrame, FarFrame
     DEF ArmDeadline, GoBackend, BackTypes, GateTypes
<1>9. ASSUME NEW g \in Gates, WaitForAnswer(g) PROVE TypeOK'
  BY <1>9, GateFrame, SlotFrame, FlagFrame, PromptFrame, FarFrame
     DEF WaitForAnswer, GoBackend, BackTypes
<1>10. ASSUME NEW g \in Gates, CheckBranches(g) PROVE TypeOK'
  BY <1>10, GateFrame, SlotFrame, FlagFrame, PromptFrame, FarFrame
     DEF CheckBranches, GoBackend, BackTypes
<1>11. ASSUME NEW g \in Gates, ReturnAnswer(g) PROVE TypeOK'
  BY <1>11, GateFrame, SlotFrame, FlagFrame, PromptFrame
     DEF ReturnAnswer, CloseInChannel, GoBackend, BackTypes, FarTypes
<1>12. ASSUME NEW g \in Gates, CloseGate(g) PROVE TypeOK'
  BY <1>12, SlotFrame, FlagFrame, PromptFrame, FarFrame
     DEF CloseGate, GoBackend, BackTypes, GateTypes
<1>13. ASSUME NEW g \in Gates, GoLive(g) PROVE TypeOK'
  BY <1>13, FlagFrame, BackFrame, FarFrame
     DEF GoLive, GoDriver, PromptTypes, GateTypes, SlotTypes
<1>14. ASSUME NEW g \in Gates, TooLateForPrompt(g) PROVE TypeOK'
  BY <1>14, GateFrame, SlotFrame, FlagFrame, BackFrame, FarFrame
     DEF TooLateForPrompt, GoDriver, PromptTypes
<1>15. ASSUME NEW g \in Gates, PromptExits(g) PROVE TypeOK'
  BY <1>15, GateFrame, SlotFrame, FlagFrame, BackFrame, FarFrame
     DEF PromptExits, GoDriver, Answers, PromptTypes
<1>16. ASSUME NEW g \in Gates, TerminalResolves(g) PROVE TypeOK'
  BY <1>16, SlotFrame, FlagFrame, BackFrame, FarFrame
     DEF TerminalResolves, Resolve, Resolved, GoDriver, Answers, PromptTypes,
         GateTypes
<1>17. ASSUME NEW g \in Gates, ReleaseSlot(g) PROVE TypeOK'
  BY <1>17, FlagFrame, BackFrame, FarFrame
     DEF ReleaseSlot, GoDriver, PromptTypes, GateTypes, SlotTypes
<1>18. ASSUME NEW g \in Gates, DriverStepsFlag(g) PROVE TypeOK'
  BY <1>18, GateFrame, SlotFrame, BackFrame, FarFrame, StepFlagType
     DEF DriverStepsFlag, LowerFlag, GoDriver, PromptTypes, FlagTypes
<1>19. ASSUME NEW g \in Gates, DriverChecksFlag(g) PROVE TypeOK'
  BY <1>19, GateFrame, SlotFrame, BackFrame, FarFrame, CheckFlagType
     DEF DriverChecksFlag, GoDriver, PromptTypes
<1>20. ASSUME NEW g \in Gates, DriverSetsFlag(g) PROVE TypeOK'
  BY <1>20, GateFrame, SlotFrame, BackFrame, FarFrame, ApplyFlagType
     DEF DriverSetsFlag, GoDriver, PromptTypes
<1>21. ASSUME NEW g \in Gates, PromptAborts(g) PROVE TypeOK'
  BY <1>21, GateFrame, SlotFrame, FlagFrame, BackFrame, FarFrame
     DEF PromptAborts, PromptTypes
<1>22. ASSUME NEW g \in Gates, PostBeforeAck(g) PROVE TypeOK'
  BY <1>22, GateFrame, SlotFrame, FlagFrame, PromptFrame, BackFrame
     DEF PostBeforeAck, FarTypes
<1>23. ASSUME NEW g \in Gates, Expire(g) PROVE TypeOK'
  BY <1>23, SlotFrame, FlagFrame, PromptFrame, BackFrame
     DEF Expire, GateTypes, FarTypes
<1>24. ASSUME NEW g \in Gates, TellChannel(g) PROVE TypeOK'
  BY <1>24, GateFrame, SlotFrame, FlagFrame, PromptFrame, BackFrame
     DEF TellChannel, CloseInChannel, FarTypes
<1>25. ASSUME NEW g \in Gates, NEW a \in Answers, HumanAnswers(g, a) PROVE TypeOK'
  BY <1>25, GateFrame, SlotFrame, FlagFrame, BackFrame, FarFrame
     DEF HumanAnswers, GoDriver, Answers, PromptTypes
<1>26. ASSUME NEW g \in Gates, NEW a \in Answers, ClickLookup(g, a) PROVE TypeOK'
  BY <1>26, GateFrame, SlotFrame, FlagFrame, PromptFrame, BackFrame
     DEF ClickLookup, Presses, Idle, FarTypes
<1>27. ASSUME ClickResolves PROVE TypeOK'
  BY <1>27, SlotFrame, FlagFrame, PromptFrame, BackFrame
     DEF ClickResolves, Resolve, Resolved, Presses, Idle, Answers, GateTypes,
         FarTypes
<1>28. ASSUME ClickExits PROVE TypeOK'
  BY <1>28, GateFrame, SlotFrame, FlagFrame, BackFrame
     DEF ClickExits, Presses, Idle, PromptTypes, FarTypes
<1>29. ASSUME UNCHANGED vars PROVE TypeOK'
  BY <1>29, GateFrame, SlotFrame, FlagFrame, PromptFrame, BackFrame, FarFrame
     DEF vars
<1> QED
  BY <1>1, <1>2, <1>3, <1>4, <1>5, <1>6, <1>7, <1>8, <1>9, <1>10, <1>11,
     <1>12, <1>13, <1>14, <1>15, <1>16, <1>17, <1>18, <1>19, <1>20, <1>21,
     <1>22, <1>23, <1>24, <1>25, <1>26, <1>27, <1>28, <1>29
     DEF Next, Listener, Backend, Driver, Human

(* The values every variable takes, in every reachable state.              *)
THEOREM TypeCorrect == Spec => []TypeOK
  BY TypeInit, TypeNext, PTL DEF Spec

-----------------------------------------------------------------------------
(* Who owns stdin.                                                         *)

(* An approval that is prompting, or about to, holds the slot.             *)
SlotOwned == \A g \in Gates : Prompting(g) \/ Starting(g) => slot = g

(* A prompt thread is up only once its executor thread has launched it.    *)
Launched ==
  \A g \in Gates :
    driver[g] # "none" =>
      backend[g] \in {"arm", "wait", "branches", "answered", "close", "done"}

LEMMA LaunchedNext == TypeOK /\ Launched /\ [Next]_vars => Launched'
<1> SUFFICES ASSUME TypeOK /\ Launched, [Next]_vars PROVE Launched'
  OBVIOUS
<1> USE DEF TypeOK, BackTypes, PromptTypes, Launched
<1>1. ASSUME NEW g \in Gates, OpenGate(g) PROVE Launched'
  BY <1>1 DEF OpenGate, GoBackend, promptVars
<1>2. ASSUME NEW g \in Gates, StartDiscordBranch(g) PROVE Launched'
  BY <1>2 DEF StartDiscordBranch, GoBackend, promptVars
<1>3. ASSUME NEW g \in Gates, AcquireSlot(g) PROVE Launched'
  BY <1>3 DEF AcquireSlot, GoBackend, promptVars
<1>4. ASSUME NEW g \in Gates, SkipTerminalBranch(g) PROVE Launched'
  BY <1>4 DEF SkipTerminalBranch, GoBackend, promptVars
<1>5. ASSUME NEW g \in Gates, BackendStepsFlag(g) PROVE Launched'
  BY <1>5 DEF BackendStepsFlag, GoBackend, promptVars
<1>6. ASSUME NEW g \in Gates, BackendChecksFlag(g) PROVE Launched'
  BY <1>6 DEF BackendChecksFlag, GoBackend, promptVars
<1>7. ASSUME NEW g \in Gates, BackendSetsFlag(g) PROVE Launched'
  BY <1>7 DEF BackendSetsFlag, GoBackend
<1>8. ASSUME NEW g \in Gates, ArmDeadline(g) PROVE Launched'
  BY <1>8 DEF ArmDeadline, GoBackend, promptVars
<1>9. ASSUME NEW g \in Gates, WaitForAnswer(g) PROVE Launched'
  BY <1>9 DEF WaitForAnswer, GoBackend, promptVars
<1>10. ASSUME NEW g \in Gates, CheckBranches(g) PROVE Launched'
  BY <1>10 DEF CheckBranches, GoBackend, promptVars
<1>11. ASSUME NEW g \in Gates, ReturnAnswer(g) PROVE Launched'
  BY <1>11 DEF ReturnAnswer, GoBackend, promptVars
<1>12. ASSUME NEW g \in Gates, CloseGate(g) PROVE Launched'
  BY <1>12 DEF CloseGate, GoBackend, promptVars
<1>13. ASSUME NEW g \in Gates, GoLive(g) PROVE Launched'
  BY <1>13 DEF GoLive, GoDriver, backVars
<1>14. ASSUME NEW g \in Gates, TooLateForPrompt(g) PROVE Launched'
  BY <1>14 DEF TooLateForPrompt, GoDriver, backVars
<1>15. ASSUME NEW g \in Gates, PromptExits(g) PROVE Launched'
  BY <1>15 DEF PromptExits, GoDriver, backVars
<1>16. ASSUME NEW g \in Gates, TerminalResolves(g) PROVE Launched'
  BY <1>16 DEF TerminalResolves, GoDriver, backVars
<1>17. ASSUME NEW g \in Gates, ReleaseSlot(g) PROVE Launched'
  BY <1>17 DEF ReleaseSlot, GoDriver, backVars
<1>18. ASSUME NEW g \in Gates, DriverStepsFlag(g) PROVE Launched'
  BY <1>18 DEF DriverStepsFlag, GoDriver, backVars
<1>19. ASSUME NEW g \in Gates, DriverChecksFlag(g) PROVE Launched'
  BY <1>19 DEF DriverChecksFlag, GoDriver, backVars
<1>20. ASSUME NEW g \in Gates, DriverSetsFlag(g) PROVE Launched'
  BY <1>20 DEF DriverSetsFlag, GoDriver, backVars
<1>21. ASSUME NEW g \in Gates, PromptAborts(g) PROVE Launched'
  BY <1>21 DEF PromptAborts, backVars
<1>22. ASSUME NEW g \in Gates, PostBeforeAck(g) PROVE Launched'
  BY <1>22 DEF PostBeforeAck, promptVars, backVars
<1>23. ASSUME NEW g \in Gates, Expire(g) PROVE Launched'
  BY <1>23 DEF Expire, promptVars, backVars
<1>24. ASSUME NEW g \in Gates, TellChannel(g) PROVE Launched'
  BY <1>24 DEF TellChannel, promptVars, backVars
<1>25. ASSUME NEW g \in Gates, NEW a \in Answers, HumanAnswers(g, a) PROVE Launched'
  BY <1>25 DEF HumanAnswers, GoDriver, backVars
<1>26. ASSUME NEW g \in Gates, NEW a \in Answers, ClickLookup(g, a) PROVE Launched'
  BY <1>26 DEF ClickLookup, promptVars, backVars
<1>27. ASSUME ClickResolves PROVE Launched'
  BY <1>27 DEF ClickResolves, promptVars, backVars
<1>28. ASSUME ClickExits PROVE Launched'
  BY <1>28 DEF ClickExits, backVars
<1>29. ASSUME UNCHANGED vars PROVE Launched'
  BY <1>29 DEF vars, promptVars, backVars
<1> QED
  BY <1>1, <1>2, <1>3, <1>4, <1>5, <1>6, <1>7, <1>8, <1>9, <1>10, <1>11,
     <1>12, <1>13, <1>14, <1>15, <1>16, <1>17, <1>18, <1>19, <1>20, <1>21,
     <1>22, <1>23, <1>24, <1>25, <1>26, <1>27, <1>28, <1>29
     DEF Next, Listener, Backend, Driver, Human

LEMMA SlotOwnedNext == TypeOK /\ Launched /\ SlotOwned /\ [Next]_vars => SlotOwned'
<1> SUFFICES ASSUME TypeOK /\ Launched /\ SlotOwned, [Next]_vars PROVE SlotOwned'
  OBVIOUS
<1> USE DEF TypeOK, BackTypes, PromptTypes, SlotOwned, Prompting, Starting
<1>1. ASSUME NEW g \in Gates, OpenGate(g) PROVE SlotOwned'
  BY <1>1 DEF OpenGate, GoBackend, slotVars, promptVars
<1>2. ASSUME NEW g \in Gates, StartDiscordBranch(g) PROVE SlotOwned'
  BY <1>2 DEF StartDiscordBranch, GoBackend, slotVars, promptVars
<1>3. ASSUME NEW g \in Gates, AcquireSlot(g) PROVE SlotOwned'
  BY <1>3 DEF AcquireSlot, GoBackend, promptVars, MayAcquireSlot
<1>4. ASSUME NEW g \in Gates, SkipTerminalBranch(g) PROVE SlotOwned'
  BY <1>4 DEF SkipTerminalBranch, GoBackend, slotVars, promptVars
<1>5. ASSUME NEW g \in Gates, BackendStepsFlag(g) PROVE SlotOwned'
  BY <1>5 DEF BackendStepsFlag, GoBackend, slotVars, promptVars
<1>6. ASSUME NEW g \in Gates, BackendChecksFlag(g) PROVE SlotOwned'
  BY <1>6 DEF BackendChecksFlag, GoBackend, slotVars, promptVars
<1>7. ASSUME NEW g \in Gates, BackendSetsFlag(g) PROVE SlotOwned'
  BY <1>7 DEF BackendSetsFlag, GoBackend, slotVars
<1>8. ASSUME NEW g \in Gates, ArmDeadline(g) PROVE SlotOwned'
  BY <1>8 DEF ArmDeadline, GoBackend, slotVars, promptVars
<1>9. ASSUME NEW g \in Gates, WaitForAnswer(g) PROVE SlotOwned'
  BY <1>9 DEF WaitForAnswer, GoBackend, slotVars, promptVars
<1>10. ASSUME NEW g \in Gates, CheckBranches(g) PROVE SlotOwned'
  BY <1>10 DEF CheckBranches, GoBackend, slotVars, promptVars
<1>11. ASSUME NEW g \in Gates, ReturnAnswer(g) PROVE SlotOwned'
  BY <1>11 DEF ReturnAnswer, GoBackend, slotVars, promptVars
<1>12. ASSUME NEW g \in Gates, CloseGate(g) PROVE SlotOwned'
  BY <1>12 DEF CloseGate, GoBackend, slotVars, promptVars
<1>13. ASSUME NEW g \in Gates, GoLive(g) PROVE SlotOwned'
  BY <1>13 DEF GoLive, GoDriver, backVars
<1>14. ASSUME NEW g \in Gates, TooLateForPrompt(g) PROVE SlotOwned'
  BY <1>14 DEF TooLateForPrompt, GoDriver, slotVars, backVars
<1>15. ASSUME NEW g \in Gates, PromptExits(g) PROVE SlotOwned'
  BY <1>15 DEF PromptExits, GoDriver, slotVars, backVars
<1>16. ASSUME NEW g \in Gates, TerminalResolves(g) PROVE SlotOwned'
  BY <1>16 DEF TerminalResolves, GoDriver, slotVars, backVars
<1>17. ASSUME NEW g \in Gates, ReleaseSlot(g) PROVE SlotOwned'
  BY <1>17 DEF ReleaseSlot, GoDriver, backVars, Launched
<1>18. ASSUME NEW g \in Gates, DriverStepsFlag(g) PROVE SlotOwned'
  BY <1>18 DEF DriverStepsFlag, GoDriver, slotVars, backVars
<1>19. ASSUME NEW g \in Gates, DriverChecksFlag(g) PROVE SlotOwned'
  BY <1>19 DEF DriverChecksFlag, GoDriver, slotVars, backVars
<1>20. ASSUME NEW g \in Gates, DriverSetsFlag(g) PROVE SlotOwned'
  BY <1>20 DEF DriverSetsFlag, GoDriver, slotVars, backVars
<1>21. ASSUME NEW g \in Gates, PromptAborts(g) PROVE SlotOwned'
  BY <1>21 DEF PromptAborts, slotVars, backVars
<1>22. ASSUME NEW g \in Gates, PostBeforeAck(g) PROVE SlotOwned'
  BY <1>22 DEF PostBeforeAck, slotVars, promptVars, backVars
<1>23. ASSUME NEW g \in Gates, Expire(g) PROVE SlotOwned'
  BY <1>23 DEF Expire, slotVars, promptVars, backVars
<1>24. ASSUME NEW g \in Gates, TellChannel(g) PROVE SlotOwned'
  BY <1>24 DEF TellChannel, slotVars, promptVars, backVars
<1>25. ASSUME NEW g \in Gates, NEW a \in Answers, HumanAnswers(g, a) PROVE SlotOwned'
  BY <1>25 DEF HumanAnswers, GoDriver, slotVars, backVars
<1>26. ASSUME NEW g \in Gates, NEW a \in Answers, ClickLookup(g, a) PROVE SlotOwned'
  BY <1>26 DEF ClickLookup, slotVars, promptVars, backVars
<1>27. ASSUME ClickResolves PROVE SlotOwned'
  BY <1>27 DEF ClickResolves, slotVars, promptVars, backVars
<1>28. ASSUME ClickExits PROVE SlotOwned'
  BY <1>28 DEF ClickExits, slotVars, backVars
<1>29. ASSUME UNCHANGED vars PROVE SlotOwned'
  BY <1>29 DEF vars, slotVars, promptVars, backVars
<1> QED
  BY <1>1, <1>2, <1>3, <1>4, <1>5, <1>6, <1>7, <1>8, <1>9, <1>10, <1>11,
     <1>12, <1>13, <1>14, <1>15, <1>16, <1>17, <1>18, <1>19, <1>20, <1>21,
     <1>22, <1>23, <1>24, <1>25, <1>26, <1>27, <1>28, <1>29
     DEF Next, Listener, Backend, Driver, Human

(* Two approvals never own stdin at once (acquire_slot, release_slot).     *)
THEOREM OneOwnerOfStdin == Spec => []OneTerminalPrompt
<1>1. Init => Launched /\ SlotOwned
  BY DEF Init, Launched, SlotOwned, Prompting, Starting
<1>2. SlotOwned => OneTerminalPrompt
  BY DEF SlotOwned, OneTerminalPrompt
<1> QED
  BY <1>1, <1>2, TypeCorrect, LaunchedNext, SlotOwnedNext, PTL DEF Spec

-----------------------------------------------------------------------------
(* Deadlines.                                                              *)

(* A deadline is armed only by an approval past its terminal branch, which *)
(* then never starts a prompt.                                             *)
ArmedLate ==
  \A g \in Gates :
    timer[g] = "armed" =>
      /\ ~Prompting(g)
      /\ backend[g] \in {"wait", "branches", "answered", "close", "done"}

LEMMA ArmedLateNext == TypeOK /\ SlotOwned /\ ArmedLate /\ [Next]_vars => ArmedLate'
<1> SUFFICES ASSUME TypeOK /\ SlotOwned /\ ArmedLate, [Next]_vars PROVE ArmedLate'
  OBVIOUS
<1> USE DEF TypeOK, GateTypes, BackTypes, PromptTypes, ArmedLate, Prompting
<1>1. ASSUME NEW g \in Gates, OpenGate(g) PROVE ArmedLate'
  BY <1>1 DEF OpenGate, GoBackend, promptVars
<1>2. ASSUME NEW g \in Gates, StartDiscordBranch(g) PROVE ArmedLate'
  BY <1>2 DEF StartDiscordBranch, GoBackend, promptVars
<1>3. ASSUME NEW g \in Gates, AcquireSlot(g) PROVE ArmedLate'
  BY <1>3 DEF AcquireSlot, GoBackend, gateVars, promptVars
<1>4. ASSUME NEW g \in Gates, SkipTerminalBranch(g) PROVE ArmedLate'
  BY <1>4 DEF SkipTerminalBranch, GoBackend, gateVars, promptVars
<1>5. ASSUME NEW g \in Gates, BackendStepsFlag(g) PROVE ArmedLate'
  BY <1>5 DEF BackendStepsFlag, GoBackend, gateVars, promptVars
<1>6. ASSUME NEW g \in Gates, BackendChecksFlag(g) PROVE ArmedLate'
  BY <1>6 DEF BackendChecksFlag, GoBackend, gateVars, promptVars
<1>7. ASSUME NEW g \in Gates, BackendSetsFlag(g) PROVE ArmedLate'
  BY <1>7 DEF BackendSetsFlag, GoBackend, gateVars
<1>8. ASSUME NEW g \in Gates, ArmDeadline(g) PROVE ArmedLate'
  BY <1>8 DEF ArmDeadline, GoBackend, promptVars, MayArm, SlotOwned
<1>9. ASSUME NEW g \in Gates, WaitForAnswer(g) PROVE ArmedLate'
  BY <1>9 DEF WaitForAnswer, GoBackend, gateVars, promptVars
<1>10. ASSUME NEW g \in Gates, CheckBranches(g) PROVE ArmedLate'
  BY <1>10 DEF CheckBranches, GoBackend, gateVars, promptVars
<1>11. ASSUME NEW g \in Gates, ReturnAnswer(g) PROVE ArmedLate'
  BY <1>11 DEF ReturnAnswer, GoBackend, gateVars, promptVars
<1>12. ASSUME NEW g \in Gates, CloseGate(g) PROVE ArmedLate'
  BY <1>12 DEF CloseGate, GoBackend, promptVars
<1>13. ASSUME NEW g \in Gates, GoLive(g) PROVE ArmedLate'
  BY <1>13 DEF GoLive, GoDriver, backVars
<1>14. ASSUME NEW g \in Gates, TooLateForPrompt(g) PROVE ArmedLate'
  BY <1>14 DEF TooLateForPrompt, GoDriver, gateVars, backVars
<1>15. ASSUME NEW g \in Gates, PromptExits(g) PROVE ArmedLate'
  BY <1>15 DEF PromptExits, GoDriver, gateVars, backVars
<1>16. ASSUME NEW g \in Gates, TerminalResolves(g) PROVE ArmedLate'
  BY <1>16 DEF TerminalResolves, GoDriver, backVars
<1>17. ASSUME NEW g \in Gates, ReleaseSlot(g) PROVE ArmedLate'
  BY <1>17 DEF ReleaseSlot, GoDriver, backVars
<1>18. ASSUME NEW g \in Gates, DriverStepsFlag(g) PROVE ArmedLate'
  BY <1>18 DEF DriverStepsFlag, GoDriver, gateVars, backVars
<1>19. ASSUME NEW g \in Gates, DriverChecksFlag(g) PROVE ArmedLate'
  BY <1>19 DEF DriverChecksFlag, GoDriver, gateVars, backVars
<1>20. ASSUME NEW g \in Gates, DriverSetsFlag(g) PROVE ArmedLate'
  BY <1>20 DEF DriverSetsFlag, GoDriver, gateVars, backVars
<1>21. ASSUME NEW g \in Gates, PromptAborts(g) PROVE ArmedLate'
  BY <1>21 DEF PromptAborts, gateVars, backVars
<1>22. ASSUME NEW g \in Gates, PostBeforeAck(g) PROVE ArmedLate'
  BY <1>22 DEF PostBeforeAck, gateVars, promptVars, backVars
<1>23. ASSUME NEW g \in Gates, Expire(g) PROVE ArmedLate'
  BY <1>23 DEF Expire, promptVars, backVars
<1>24. ASSUME NEW g \in Gates, TellChannel(g) PROVE ArmedLate'
  BY <1>24 DEF TellChannel, gateVars, promptVars, backVars
<1>25. ASSUME NEW g \in Gates, NEW a \in Answers, HumanAnswers(g, a) PROVE ArmedLate'
  BY <1>25 DEF HumanAnswers, GoDriver, gateVars, backVars
<1>26. ASSUME NEW g \in Gates, NEW a \in Answers, ClickLookup(g, a) PROVE ArmedLate'
  BY <1>26 DEF ClickLookup, gateVars, promptVars, backVars
<1>27. ASSUME ClickResolves PROVE ArmedLate'
  BY <1>27 DEF ClickResolves, promptVars, backVars
<1>28. ASSUME ClickExits PROVE ArmedLate'
  BY <1>28 DEF ClickExits, gateVars, backVars
<1>29. ASSUME UNCHANGED vars PROVE ArmedLate'
  BY <1>29 DEF vars, gateVars, promptVars, backVars
<1> QED
  BY <1>1, <1>2, <1>3, <1>4, <1>5, <1>6, <1>7, <1>8, <1>9, <1>10, <1>11,
     <1>12, <1>13, <1>14, <1>15, <1>16, <1>17, <1>18, <1>19, <1>20, <1>21,
     <1>22, <1>23, <1>24, <1>25, <1>26, <1>27, <1>28, <1>29
     DEF Next, Listener, Backend, Driver, Human

(* A gate has no deadline while a human stands before its prompt           *)
(* (arm_deadline).                                                         *)
THEOREM NoDeadlineWhilePrompting == Spec => []NoDeadlineUnderPrompt
<1>1. Init => Launched /\ SlotOwned /\ ArmedLate
  BY DEF Init, Launched, SlotOwned, ArmedLate, Prompting, Starting
<1>2. ArmedLate => NoDeadlineUnderPrompt
  BY DEF ArmedLate, NoDeadlineUnderPrompt
<1> QED
  BY <1>1, <1>2, TypeCorrect, LaunchedNext, SlotOwnedNext, ArmedLateNext, PTL
     DEF Spec

-----------------------------------------------------------------------------
(* The window the three-valued mark closes.                                *)

(* The prompt that is operable is the one the compare-and-swap hands out.  *)
LiveIsMarked ==
  \A g \in Gates : driver[g] = "live" => mark = "live" /\ handle[g]

LEMMA LiveIsMarkedNext == TypeOK /\ SlotOwned /\ LiveIsMarked /\ [Next]_vars => LiveIsMarked'
<1> SUFFICES ASSUME TypeOK /\ SlotOwned /\ LiveIsMarked, [Next]_vars PROVE LiveIsMarked'
  OBVIOUS
<1> USE DEF TypeOK, GateTypes, SlotTypes, PromptTypes, SlotOwned, Prompting,
     LiveIsMarked
<1>1. ASSUME NEW g \in Gates, OpenGate(g) PROVE LiveIsMarked'
  BY <1>1 DEF OpenGate, slotVars, promptVars
<1>2. ASSUME NEW g \in Gates, StartDiscordBranch(g) PROVE LiveIsMarked'
  BY <1>2 DEF StartDiscordBranch, slotVars, promptVars
<1>3. ASSUME NEW g \in Gates, AcquireSlot(g) PROVE LiveIsMarked'
  BY <1>3 DEF AcquireSlot, gateVars, promptVars, MayAcquireSlot
<1>4. ASSUME NEW g \in Gates, SkipTerminalBranch(g) PROVE LiveIsMarked'
  BY <1>4 DEF SkipTerminalBranch, gateVars, slotVars, promptVars
<1>5. ASSUME NEW g \in Gates, BackendStepsFlag(g) PROVE LiveIsMarked'
  BY <1>5 DEF BackendStepsFlag, gateVars, slotVars, promptVars
<1>6. ASSUME NEW g \in Gates, BackendChecksFlag(g) PROVE LiveIsMarked'
  BY <1>6 DEF BackendChecksFlag, gateVars, slotVars, promptVars
<1>7. ASSUME NEW g \in Gates, BackendSetsFlag(g) PROVE LiveIsMarked'
  BY <1>7 DEF BackendSetsFlag, GoDriver, gateVars, slotVars
<1>8. ASSUME NEW g \in Gates, ArmDeadline(g) PROVE LiveIsMarked'
  BY <1>8 DEF ArmDeadline, slotVars, promptVars
<1>9. ASSUME NEW g \in Gates, WaitForAnswer(g) PROVE LiveIsMarked'
  BY <1>9 DEF WaitForAnswer, gateVars, slotVars, promptVars
<1>10. ASSUME NEW g \in Gates, CheckBranches(g) PROVE LiveIsMarked'
  BY <1>10 DEF CheckBranches, gateVars, slotVars, promptVars
<1>11. ASSUME NEW g \in Gates, ReturnAnswer(g) PROVE LiveIsMarked'
  BY <1>11 DEF ReturnAnswer, gateVars, slotVars, promptVars
<1>12. ASSUME NEW g \in Gates, CloseGate(g) PROVE LiveIsMarked'
  BY <1>12 DEF CloseGate, slotVars, promptVars
<1>13. ASSUME NEW g \in Gates, GoLive(g) PROVE LiveIsMarked'
  BY <1>13 DEF GoLive, GoDriver
<1>14. ASSUME NEW g \in Gates, TooLateForPrompt(g) PROVE LiveIsMarked'
  BY <1>14 DEF TooLateForPrompt, GoDriver, gateVars, slotVars
<1>15. ASSUME NEW g \in Gates, PromptExits(g) PROVE LiveIsMarked'
  BY <1>15 DEF PromptExits, GoDriver, gateVars, slotVars
<1>16. ASSUME NEW g \in Gates, TerminalResolves(g) PROVE LiveIsMarked'
  BY <1>16 DEF TerminalResolves, GoDriver, slotVars
<1>17. ASSUME NEW g \in Gates, ReleaseSlot(g) PROVE LiveIsMarked'
  BY <1>17 DEF ReleaseSlot, GoDriver
<1>18. ASSUME NEW g \in Gates, DriverStepsFlag(g) PROVE LiveIsMarked'
  BY <1>18 DEF DriverStepsFlag, GoDriver, gateVars, slotVars
<1>19. ASSUME NEW g \in Gates, DriverChecksFlag(g) PROVE LiveIsMarked'
  BY <1>19 DEF DriverChecksFlag, GoDriver, gateVars, slotVars
<1>20. ASSUME NEW g \in Gates, DriverSetsFlag(g) PROVE LiveIsMarked'
  BY <1>20 DEF DriverSetsFlag, GoDriver, gateVars, slotVars
<1>21. ASSUME NEW g \in Gates, PromptAborts(g) PROVE LiveIsMarked'
  BY <1>21 DEF PromptAborts, gateVars, slotVars
<1>22. ASSUME NEW g \in Gates, PostBeforeAck(g) PROVE LiveIsMarked'
  BY <1>22 DEF PostBeforeAck, gateVars, slotVars, promptVars
<1>23. ASSUME NEW g \in Gates, Expire(g) PROVE LiveIsMarked'
  BY <1>23 DEF Expire, slotVars, promptVars
<1>24. ASSUME NEW g \in Gates, TellChannel(g) PROVE LiveIsMarked'
  BY <1>24 DEF TellChannel, gateVars, slotVars, promptVars
<1>25. ASSUME NEW g \in Gates, NEW a \in Answers, HumanAnswers(g, a) PROVE LiveIsMarked'
  BY <1>25 DEF HumanAnswers, GoDriver, gateVars, slotVars
<1>26. ASSUME NEW g \in Gates, NEW a \in Answers, ClickLookup(g, a) PROVE LiveIsMarked'
  BY <1>26 DEF ClickLookup, gateVars, slotVars, promptVars
<1>27. ASSUME ClickResolves PROVE LiveIsMarked'
  BY <1>27 DEF ClickResolves, slotVars, promptVars
<1>28. ASSUME ClickExits PROVE LiveIsMarked'
  BY <1>28 DEF ClickExits, gateVars, slotVars
<1>29. ASSUME UNCHANGED vars PROVE LiveIsMarked'
  BY <1>29 DEF vars, gateVars, slotVars, promptVars
<1> QED
  BY <1>1, <1>2, <1>3, <1>4, <1>5, <1>6, <1>7, <1>8, <1>9, <1>10, <1>11,
     <1>12, <1>13, <1>14, <1>15, <1>16, <1>17, <1>18, <1>19, <1>20, <1>21,
     <1>22, <1>23, <1>24, <1>25, <1>26, <1>27, <1>28, <1>29
     DEF Next, Listener, Backend, Driver, Human

LEMMA DecidedPromptIsLeavingNext == TypeOK /\ LiveIsMarked /\ DecidedPromptIsLeaving /\ [Next]_vars => DecidedPromptIsLeaving'
<1> SUFFICES ASSUME TypeOK /\ LiveIsMarked /\ DecidedPromptIsLeaving, [Next]_vars PROVE DecidedPromptIsLeaving'
  OBVIOUS
<1> USE DEF TypeOK, GateTypes, PromptTypes, DecidedPromptIsLeaving, Resolved,
     Answers
<1>1. ASSUME NEW g \in Gates, OpenGate(g) PROVE DecidedPromptIsLeaving'
  BY <1>1 DEF OpenGate, promptVars, farVars
<1>2. ASSUME NEW g \in Gates, StartDiscordBranch(g) PROVE DecidedPromptIsLeaving'
  BY <1>2 DEF StartDiscordBranch, promptVars
<1>3. ASSUME NEW g \in Gates, AcquireSlot(g) PROVE DecidedPromptIsLeaving'
  BY <1>3 DEF AcquireSlot, gateVars, promptVars, farVars
<1>4. ASSUME NEW g \in Gates, SkipTerminalBranch(g) PROVE DecidedPromptIsLeaving'
  BY <1>4 DEF SkipTerminalBranch, gateVars, promptVars, farVars
<1>5. ASSUME NEW g \in Gates, BackendStepsFlag(g) PROVE DecidedPromptIsLeaving'
  BY <1>5 DEF BackendStepsFlag, gateVars, promptVars, farVars
<1>6. ASSUME NEW g \in Gates, BackendChecksFlag(g) PROVE DecidedPromptIsLeaving'
  BY <1>6 DEF BackendChecksFlag, gateVars, promptVars, farVars
<1>7. ASSUME NEW g \in Gates, BackendSetsFlag(g) PROVE DecidedPromptIsLeaving'
  BY <1>7 DEF BackendSetsFlag, GoDriver, gateVars, farVars
<1>8. ASSUME NEW g \in Gates, ArmDeadline(g) PROVE DecidedPromptIsLeaving'
  BY <1>8 DEF ArmDeadline, promptVars, farVars
<1>9. ASSUME NEW g \in Gates, WaitForAnswer(g) PROVE DecidedPromptIsLeaving'
  BY <1>9 DEF WaitForAnswer, gateVars, promptVars, farVars
<1>10. ASSUME NEW g \in Gates, CheckBranches(g) PROVE DecidedPromptIsLeaving'
  BY <1>10 DEF CheckBranches, gateVars, promptVars, farVars
<1>11. ASSUME NEW g \in Gates, ReturnAnswer(g) PROVE DecidedPromptIsLeaving'
  BY <1>11 DEF ReturnAnswer, gateVars, promptVars
<1>12. ASSUME NEW g \in Gates, CloseGate(g) PROVE DecidedPromptIsLeaving'
  BY <1>12 DEF CloseGate, promptVars, farVars
<1>13. ASSUME NEW g \in Gates, GoLive(g) PROVE DecidedPromptIsLeaving'
  BY <1>13 DEF GoLive, GoDriver, farVars, MayGoLive
<1>14. ASSUME NEW g \in Gates, TooLateForPrompt(g) PROVE DecidedPromptIsLeaving'
  BY <1>14 DEF TooLateForPrompt, GoDriver, gateVars, farVars
<1>15. ASSUME NEW g \in Gates, PromptExits(g) PROVE DecidedPromptIsLeaving'
  BY <1>15 DEF PromptExits, GoDriver, gateVars, farVars
<1>16. ASSUME NEW g \in Gates, TerminalResolves(g) PROVE DecidedPromptIsLeaving'
  BY <1>16 DEF TerminalResolves, GoDriver, farVars, Resolve
<1>17. ASSUME NEW g \in Gates, ReleaseSlot(g) PROVE DecidedPromptIsLeaving'
  BY <1>17 DEF ReleaseSlot, GoDriver, farVars
<1>18. ASSUME NEW g \in Gates, DriverStepsFlag(g) PROVE DecidedPromptIsLeaving'
  BY <1>18 DEF DriverStepsFlag, GoDriver, gateVars, farVars
<1>19. ASSUME NEW g \in Gates, DriverChecksFlag(g) PROVE DecidedPromptIsLeaving'
  BY <1>19 DEF DriverChecksFlag, GoDriver, gateVars, farVars
<1>20. ASSUME NEW g \in Gates, DriverSetsFlag(g) PROVE DecidedPromptIsLeaving'
  BY <1>20 DEF DriverSetsFlag, GoDriver, gateVars, farVars
<1>21. ASSUME NEW g \in Gates, PromptAborts(g) PROVE DecidedPromptIsLeaving'
  BY <1>21 DEF PromptAborts, gateVars, farVars
<1>22. ASSUME NEW g \in Gates, PostBeforeAck(g) PROVE DecidedPromptIsLeaving'
  BY <1>22 DEF PostBeforeAck, gateVars, promptVars
<1>23. ASSUME NEW g \in Gates, Expire(g) PROVE DecidedPromptIsLeaving'
  BY <1>23 DEF Expire, promptVars
<1>24. ASSUME NEW g \in Gates, TellChannel(g) PROVE DecidedPromptIsLeaving'
  BY <1>24 DEF TellChannel, gateVars, promptVars
<1>25. ASSUME NEW g \in Gates, NEW a \in Answers, HumanAnswers(g, a) PROVE DecidedPromptIsLeaving'
  BY <1>25 DEF HumanAnswers, GoDriver, gateVars, farVars
<1>26. ASSUME NEW g \in Gates, NEW a \in Answers, ClickLookup(g, a) PROVE DecidedPromptIsLeaving'
  BY <1>26 DEF ClickLookup, gateVars, promptVars, Idle
<1>27. ASSUME ClickResolves PROVE DecidedPromptIsLeaving'
  BY <1>27 DEF ClickResolves, promptVars, Resolve, PromptToExit, LiveIsMarked, FarTypes,
         Presses, Idle
<1>28. ASSUME ClickExits PROVE DecidedPromptIsLeaving'
  BY <1>28 DEF ClickExits, gateVars, FarTypes, Presses, Idle
<1>29. ASSUME UNCHANGED vars PROVE DecidedPromptIsLeaving'
  BY <1>29 DEF vars, gateVars, promptVars, farVars
<1> QED
  BY <1>1, <1>2, <1>3, <1>4, <1>5, <1>6, <1>7, <1>8, <1>9, <1>10, <1>11,
     <1>12, <1>13, <1>14, <1>15, <1>16, <1>17, <1>18, <1>19, <1>20, <1>21,
     <1>22, <1>23, <1>24, <1>25, <1>26, <1>27, <1>28, <1>29
     DEF Next, Listener, Backend, Driver, Human

(* An operable prompt before a decided gate has an exit on its way         *)
(* (go_live and resolve, approvals_state.py).                              *)
THEOREM DecidedPromptAlwaysLeaves == Spec => []DecidedPromptIsLeaving
<1>1. Init => Launched /\ SlotOwned /\ LiveIsMarked /\ DecidedPromptIsLeaving
  BY DEF Init, Launched, SlotOwned, LiveIsMarked, DecidedPromptIsLeaving,
         Prompting, Starting
<1> QED
  BY <1>1, TypeCorrect, LaunchedNext, SlotOwnedNext, LiveIsMarkedNext,
     DecidedPromptIsLeavingNext, PTL DEF Spec

-----------------------------------------------------------------------------
(* The compare-and-swap.                                                   *)

LEMMA RulingKeptNext == TypeOK /\ [Next]_vars => RulingKept
<1> SUFFICES ASSUME TypeOK, [Next]_vars PROVE RulingKept
  OBVIOUS
<1> USE DEF TypeOK, GateTypes, RulingKept, Resolved
<1>1. ASSUME NEW g \in Gates, OpenGate(g) PROVE RulingKept
  BY <1>1 DEF OpenGate
<1>2. ASSUME NEW g \in Gates, StartDiscordBranch(g) PROVE RulingKept
  BY <1>2 DEF StartDiscordBranch
<1>3. ASSUME NEW g \in Gates, AcquireSlot(g) PROVE RulingKept
  BY <1>3 DEF AcquireSlot, gateVars
<1>4. ASSUME NEW g \in Gates, SkipTerminalBranch(g) PROVE RulingKept
  BY <1>4 DEF SkipTerminalBranch, gateVars
<1>5. ASSUME NEW g \in Gates, BackendStepsFlag(g) PROVE RulingKept
  BY <1>5 DEF BackendStepsFlag, gateVars
<1>6. ASSUME NEW g \in Gates, BackendChecksFlag(g) PROVE RulingKept
  BY <1>6 DEF BackendChecksFlag, gateVars
<1>7. ASSUME NEW g \in Gates, BackendSetsFlag(g) PROVE RulingKept
  BY <1>7 DEF BackendSetsFlag, gateVars
<1>8. ASSUME NEW g \in Gates, ArmDeadline(g) PROVE RulingKept
  BY <1>8 DEF ArmDeadline
<1>9. ASSUME NEW g \in Gates, WaitForAnswer(g) PROVE RulingKept
  BY <1>9 DEF WaitForAnswer, gateVars
<1>10. ASSUME NEW g \in Gates, CheckBranches(g) PROVE RulingKept
  BY <1>10 DEF CheckBranches, gateVars
<1>11. ASSUME NEW g \in Gates, ReturnAnswer(g) PROVE RulingKept
  BY <1>11 DEF ReturnAnswer, gateVars
<1>12. ASSUME NEW g \in Gates, CloseGate(g) PROVE RulingKept
  BY <1>12 DEF CloseGate
<1>13. ASSUME NEW g \in Gates, GoLive(g) PROVE RulingKept
  BY <1>13 DEF GoLive
<1>14. ASSUME NEW g \in Gates, TooLateForPrompt(g) PROVE RulingKept
  BY <1>14 DEF TooLateForPrompt, gateVars
<1>15. ASSUME NEW g \in Gates, PromptExits(g) PROVE RulingKept
  BY <1>15 DEF PromptExits, gateVars
<1>16. ASSUME NEW g \in Gates, TerminalResolves(g) PROVE RulingKept
  BY <1>16 DEF TerminalResolves, Resolve
<1>17. ASSUME NEW g \in Gates, ReleaseSlot(g) PROVE RulingKept
  BY <1>17 DEF ReleaseSlot
<1>18. ASSUME NEW g \in Gates, DriverStepsFlag(g) PROVE RulingKept
  BY <1>18 DEF DriverStepsFlag, gateVars
<1>19. ASSUME NEW g \in Gates, DriverChecksFlag(g) PROVE RulingKept
  BY <1>19 DEF DriverChecksFlag, gateVars
<1>20. ASSUME NEW g \in Gates, DriverSetsFlag(g) PROVE RulingKept
  BY <1>20 DEF DriverSetsFlag, gateVars
<1>21. ASSUME NEW g \in Gates, PromptAborts(g) PROVE RulingKept
  BY <1>21 DEF PromptAborts, gateVars
<1>22. ASSUME NEW g \in Gates, PostBeforeAck(g) PROVE RulingKept
  BY <1>22 DEF PostBeforeAck, gateVars
<1>23. ASSUME NEW g \in Gates, Expire(g) PROVE RulingKept
  BY <1>23 DEF Expire
<1>24. ASSUME NEW g \in Gates, TellChannel(g) PROVE RulingKept
  BY <1>24 DEF TellChannel, gateVars
<1>25. ASSUME NEW g \in Gates, NEW a \in Answers, HumanAnswers(g, a) PROVE RulingKept
  BY <1>25 DEF HumanAnswers, gateVars
<1>26. ASSUME NEW g \in Gates, NEW a \in Answers, ClickLookup(g, a) PROVE RulingKept
  BY <1>26 DEF ClickLookup, gateVars
<1>27. ASSUME ClickResolves PROVE RulingKept
  BY <1>27 DEF ClickResolves, Resolve
<1>28. ASSUME ClickExits PROVE RulingKept
  BY <1>28 DEF ClickExits, gateVars
<1>29. ASSUME UNCHANGED vars PROVE RulingKept
  BY <1>29 DEF vars, gateVars
<1> QED
  BY <1>1, <1>2, <1>3, <1>4, <1>5, <1>6, <1>7, <1>8, <1>9, <1>10, <1>11,
     <1>12, <1>13, <1>14, <1>15, <1>16, <1>17, <1>18, <1>19, <1>20, <1>21,
     <1>22, <1>23, <1>24, <1>25, <1>26, <1>27, <1>28, <1>29
     DEF Next, Listener, Backend, Driver, Human

(* The first answer is final (SwitchState.resolve).                        *)
THEOREM FirstAnswerIsFinal == Spec => RulingNeverChanges
  BY TypeCorrect, RulingKeptNext, PTL DEF Spec, RulingNeverChanges

-----------------------------------------------------------------------------
(* The core's flag.                                                        *)

(* The approvals the flag is up for: from raising it to lowering it.       *)
UpFor(g) ==
  \/ backend[g] \in {"flagCheck", "flagSet"}
  \/ driver[g] \in {"build", "live", "resolve", "release", "flag"}
Counted == {g \in Gates : UpFor(g)}

(* A transition that was taken and not applied yet belongs to a thread at  *)
(* its check or its setter, and a prompt thread's is FALSE.                *)
StepsPlaced ==
  \A g \in Gates :
    /\ flagStep[<<"b", g>>] # NoStep => backend[g] \in {"flagCheck", "flagSet"}
    /\ flagStep[<<"d", g>>] # NoStep =>
         driver[g] \in {"flagCheck", "flagSet"} /\ flagStep[<<"d", g>>].target = FALSE

(* The flag that is up although nothing is counted is about to be lowered  *)
(* by the newest transition.                                               *)
Lowering ==
  coreFlag /\ flagCount = 0 =>
    \E g \in Gates : flagStep[<<"d", g>>] # NoStep /\ FlagIsCurrent("d", g)

(* The count is the number of those approvals, and the flag follows it.    *)
FlagTold ==
  /\ IsFiniteSet(Counted) /\ flagCount = Cardinality(Counted)
  /\ StepsPlaced /\ Lowering

(* Every approval the flag is up for can be counted in and out.            *)
LEMMA CountedMoves ==
  ASSUME FlagTold
  PROVE  /\ flagCount \in Nat /\ (flagCount = 0 <=> Counted = {})
         /\ \A g : /\ g \notin Counted => Cardinality(Counted \cup {g}) = flagCount + 1
                   /\ g \in Counted => Cardinality(Counted \ {g}) = flagCount - 1
         /\ \A g : IsFiniteSet(Counted \cup {g}) /\ IsFiniteSet(Counted \ {g})
  BY FS_CardinalityType, FS_EmptySet, FS_AddElement, FS_RemoveElement, FS_Subset DEF FlagTold

(* The pending transition of a thread is gone.                             *)
Dropped(who, g) == flagStep' = [flagStep EXCEPT ![<<who, g>>] = NoStep]

(* The pending transitions, thread by thread, decide StepsPlaced.          *)
LEMMA StepsPlacedNext ==
  ASSUME \A g \in Gates :
           /\ flagStep'[<<"b", g>>] # NoStep => backend'[g] \in {"flagCheck", "flagSet"}
           /\ flagStep'[<<"d", g>>] # NoStep =>
                driver'[g] \in {"flagCheck", "flagSet"} /\ flagStep'[<<"d", g>>].target = FALSE
  PROVE  StepsPlaced'
  BY Zenon DEF StepsPlaced, NoStep

(* A step that changes neither the flag nor who is counted, and brings no  *)
(* thread out of its check or its setter.                                  *)
LEMMA FlagStays ==
  ASSUME FlagTold, UNCHANGED flagVars,
         \A g \in Gates : /\ UpFor(g)' <=> UpFor(g)
                          /\ backend[g] \in {"flagCheck", "flagSet"} => backend'[g] = backend[g]
                          /\ driver[g] \in {"flagCheck", "flagSet"} => driver'[g] = driver[g]
  PROVE  FlagTold'
<1>1. Counted' = Counted
  BY DEF Counted
<1>2. StepsPlaced'
  BY DEF FlagTold, StepsPlaced, flagVars, NoStep
<1>3. Lowering'
  BY DEF FlagTold, Lowering, flagVars, FlagIsCurrent, NoStep
<1> QED
  BY <1>1, <1>2, <1>3 DEF FlagTold, flagVars

(* The executor thread raises the flag for its approval.                   *)
LEMMA FlagRaised ==
  ASSUME TypeOK, Launched, FlagTold, NEW g \in Gates, BackendStepsFlag(g)
  PROVE  FlagTold'
<1> USE DEF TypeOK, FlagTypes, BackTypes, PromptTypes
<1>1. /\ backend[g] = "flag" /\ backend'[g] = "flagCheck" /\ driver' = driver /\ driver[g] = "none"
      /\ \A h \in Gates \ {g} : backend'[h] = backend[h]
      /\ flagCount' = flagCount + 1
  BY DEF BackendStepsFlag, GoBackend, promptVars, RaiseFlag, StepFlag, Launched
<1>2. \A h \in Gates : h \in Counted' <=> h \in Counted \cup {g}
  BY <1>1 DEF Counted, UpFor
<1>3. Counted' = Counted \cup {g} /\ g \notin Counted
  BY <1>1, <1>2 DEF Counted, UpFor
<1>4. IsFiniteSet(Counted') /\ flagCount' = Cardinality(Counted')
  BY <1>1, <1>3, CountedMoves
<1>5. \A h \in Gates : /\ h # g => flagStep'[<<"b", h>>] = flagStep[<<"b", h>>]
                       /\ flagStep'[<<"d", h>>] = flagStep[<<"d", h>>]
  BY DEF BackendStepsFlag, RaiseFlag, StepFlag, Steppers
<1>6. StepsPlaced'
  <2>1. ASSUME NEW h \in Gates
        PROVE  /\ flagStep'[<<"b", h>>] # NoStep => backend'[h] \in {"flagCheck", "flagSet"}
               /\ flagStep'[<<"d", h>>] # NoStep =>
                    driver'[h] \in {"flagCheck", "flagSet"} /\ flagStep'[<<"d", h>>].target = FALSE
    <3>1. StepsPlaced
      BY DEF FlagTold
    <3> HIDE DEF TypeOK, FlagTypes, BackTypes, PromptTypes
    <3> QED
      BY <1>1, <1>5, <3>1, Zenon DEF StepsPlaced
  <2> QED
    BY <2>1, StepsPlacedNext
<1>7. Lowering'
  BY <1>1, CountedMoves DEF Lowering
<1> QED
  BY <1>4, <1>6, <1>7 DEF FlagTold

(* The prompt thread lowers it: the last one takes the transition.         *)
LEMMA FlagLowered ==
  ASSUME TypeOK, Launched, FlagTold, NEW g \in Gates, DriverStepsFlag(g)
  PROVE  FlagTold'
<1> USE DEF TypeOK, FlagTypes, BackTypes, PromptTypes
<1>1. /\ driver[g] = "flag" /\ driver'[g] = "flagCheck" /\ backend' = backend
      /\ backend[g] \notin {"flagCheck", "flagSet"}
      /\ \A h \in Gates \ {g} : driver'[h] = driver[h]
  BY DEF DriverStepsFlag, GoDriver, backVars, Launched
<1>2. g \in Counted /\ flagCount # 0
  BY <1>1, CountedMoves DEF Counted, UpFor
<1>3. \A h \in Gates : h \in Counted' <=> h \in Counted \ {g}
  BY <1>1 DEF Counted, UpFor
<1>4. Counted' = Counted \ {g}
  BY <1>3 DEF Counted
<1>5. flagCount' = flagCount - 1
  BY <1>2 DEF DriverStepsFlag, LowerFlag, StepFlag
<1>6. IsFiniteSet(Counted') /\ flagCount' = Cardinality(Counted')
  BY <1>2, <1>4, <1>5, CountedMoves
<1>7. IF flagCount = 1
      THEN /\ flagGen' = flagGen + 1
           /\ flagStep' = [flagStep EXCEPT ![<<"d", g>>] = [gen |-> flagGen + 1, target |-> flagCount' > 0]]
      ELSE UNCHANGED <<flagGen, flagStep>>
  BY <1>2, <1>5 DEF DriverStepsFlag, LowerFlag, StepFlag
<1>8. \A h \in Gates : /\ flagStep'[<<"b", h>>] = flagStep[<<"b", h>>]
                       /\ h # g => flagStep'[<<"d", h>>] = flagStep[<<"d", h>>]
  BY <1>7 DEF Steppers
<1>9. flagCount = 1 =>
        /\ flagStep'[<<"d", g>>].gen = flagGen' /\ flagStep'[<<"d", g>>].target = FALSE
        /\ flagStep'[<<"d", g>>] # NoStep
  <2>1. ASSUME flagCount = 1
        PROVE  /\ flagStep'[<<"d", g>>] = [gen |-> flagGen + 1, target |-> flagCount' > 0]
               /\ flagGen' = flagGen + 1 /\ ~(flagCount' > 0)
    BY <1>5, <1>7, <2>1 DEF Steppers
  <2>2. ASSUME flagCount = 1 PROVE flagGen' # 0
    BY <1>7, <2>2
  <2> QED
    <3>1. ASSUME flagCount = 1 PROVE flagStep'[<<"d", g>>].gen = flagGen + 1
      BY <2>1, <3>1
    <3>2. ASSUME flagCount = 1 PROVE flagStep'[<<"d", g>>].target = FALSE
      <4> DEFINE on == flagCount' > 0
      <4>1. on = FALSE
        BY <2>1, <3>2
      <4>2. flagStep'[<<"d", g>>] = [gen |-> flagGen + 1, target |-> on]
        BY <2>1, <3>2, Zenon
      <4> HIDE DEF on
      <4> QED
        BY <4>1, <4>2
    <3>3. NoStep.gen = 0
      BY DEF NoStep
    <3> QED
      BY <2>1, <2>2, <3>1, <3>2, <3>3
<1>10. StepsPlaced'
  <2>1. flagCount # 1 => flagStep'[<<"d", g>>] = flagStep[<<"d", g>>]
    BY <1>7
  <2> QED
    <3>1. ASSUME NEW h \in Gates
          PROVE  /\ flagStep'[<<"b", h>>] # NoStep => backend'[h] \in {"flagCheck", "flagSet"}
                 /\ flagStep'[<<"d", h>>] # NoStep =>
                      driver'[h] \in {"flagCheck", "flagSet"} /\ flagStep'[<<"d", h>>].target = FALSE
      <4>1. StepsPlaced
        BY DEF FlagTold
      <4>2. CASE h = g
        <5>1. flagStep[<<"d", g>>] # NoStep => flagStep[<<"d", g>>].target = FALSE
          BY <4>1, Zenon DEF StepsPlaced
        <5> HIDE DEF TypeOK, FlagTypes, BackTypes, PromptTypes
        <5> QED
          BY <1>1, <1>8, <1>9, <2>1, <4>1, <4>2, <5>1, Zenon DEF StepsPlaced
      <4>3. CASE h # g
        <5> HIDE DEF TypeOK, FlagTypes, BackTypes, PromptTypes
        <5> QED
          BY <1>1, <1>8, <4>1, <4>3, Zenon DEF StepsPlaced
      <4> QED
        BY <4>2, <4>3
    <3> QED
      BY <3>1, StepsPlacedNext
<1>11. Lowering'
  <2>1. flagCount' = 0 => flagCount = 1
    BY <1>5
  <2> QED
    BY <1>9, <2>1 DEF Lowering, FlagIsCurrent, NoStep
<1> QED
  BY <1>6, <1>10, <1>11 DEF FlagTold

(* A transition that a newer one has overtaken is dropped at the check.    *)
LEMMA FlagChecked ==
  ASSUME TypeOK, FlagTold, NEW g \in Gates, BackendChecksFlag(g) \/ DriverChecksFlag(g)
  PROVE  FlagTold'
<1> USE DEF TypeOK, FlagTypes, BackTypes, PromptTypes
<1>1. PICK w \in {"b", "d"} :
        /\ UNCHANGED flagVars \/ (Dropped(w, g) /\ ~FlagIsCurrent(w, g) /\ UNCHANGED <<flagCount, flagGen, coreFlag>>)
        /\ w = "b" => GoBackend(g, "flagCheck", "flagSet") /\ driver' = driver
        /\ w = "d" => GoDriver(g, "flagCheck", "flagSet") /\ backend' = backend
  BY DEF BackendChecksFlag, DriverChecksFlag, CheckFlag, Dropped, promptVars, backVars
<1>2. \A h \in Gates : h \in Counted' <=> h \in Counted
  BY <1>1 DEF Counted, UpFor, GoBackend, GoDriver
<1>3. Counted' = Counted
  BY <1>2 DEF Counted
<1>4. \A h \in Gates, v \in {"b", "d"} :
        \/ flagStep'[<<v, h>>] = flagStep[<<v, h>>]
        \/ flagStep'[<<v, h>>] = NoStep /\ ~FlagIsCurrent(v, h)
  BY <1>1 DEF Dropped, Steppers, flagVars
<1>5. \A h \in Gates :
        /\ backend[h] \in {"flagCheck", "flagSet"} => backend'[h] \in {"flagCheck", "flagSet"}
        /\ driver[h] \in {"flagCheck", "flagSet"} => driver'[h] \in {"flagCheck", "flagSet"}
  BY <1>1 DEF GoBackend, GoDriver
<1>6. UNCHANGED <<flagCount, flagGen, coreFlag>>
  BY <1>1 DEF flagVars
<1>7. StepsPlaced'
  BY <1>4, <1>5 DEF FlagTold, StepsPlaced, NoStep
<1>8. Lowering'
  BY <1>4, <1>6 DEF FlagTold, Lowering, FlagIsCurrent, NoStep
<1> QED
  BY <1>3, <1>6, <1>7, <1>8 DEF FlagTold

(* The executor thread sets what it took while its own approval counts.    *)
LEMMA FlagSetByExecutor ==
  ASSUME TypeOK, Launched, FlagTold, NEW g \in Gates, BackendSetsFlag(g)
  PROVE  FlagTold'
<1> USE DEF TypeOK, FlagTypes, BackTypes, PromptTypes
<1>1. /\ backend[g] = "flagSet" /\ backend'[g] = "arm" /\ driver'[g] = "build" /\ driver[g] = "none"
      /\ \A h \in Gates \ {g} : backend'[h] = backend[h] /\ driver'[h] = driver[h]
      /\ UNCHANGED <<flagCount, flagGen>>
      /\ Dropped("b", g) \/ (flagStep' = flagStep /\ flagStep[<<"b", g>>] = NoStep)
  BY DEF BackendSetsFlag, GoBackend, ApplyFlag, Dropped, flagVars, Launched
<1>2. \A h \in Gates : h \in Counted' <=> h \in Counted
  BY <1>1 DEF Counted, UpFor
<1>3. Counted' = Counted /\ g \in Counted
  BY <1>1, <1>2 DEF Counted, UpFor
<1>4. \A h \in Gates :
        /\ flagStep'[<<"b", h>>] = IF h = g THEN NoStep ELSE flagStep[<<"b", h>>]
        /\ flagStep'[<<"d", h>>] = flagStep[<<"d", h>>]
  BY <1>1 DEF Dropped, Steppers
<1>5. StepsPlaced'
  <2>1. ASSUME NEW h \in Gates
        PROVE  /\ flagStep'[<<"b", h>>] # NoStep => backend'[h] \in {"flagCheck", "flagSet"}
               /\ flagStep'[<<"d", h>>] # NoStep =>
                    driver'[h] \in {"flagCheck", "flagSet"} /\ flagStep'[<<"d", h>>].target = FALSE
    <3>1. StepsPlaced
      BY DEF FlagTold
    <3> HIDE DEF TypeOK, FlagTypes, BackTypes, PromptTypes
    <3> QED
      BY <1>1, <1>4, <3>1, Zenon DEF StepsPlaced
  <2> QED
    BY <2>1, StepsPlacedNext
<1>6. Lowering'
  BY <1>1, <1>3, CountedMoves DEF Lowering
<1> QED
  BY <1>1, <1>3, <1>5, <1>6 DEF FlagTold

(* The same by the prompt thread, which sets FALSE.                        *)
LEMMA FlagSetByPrompt ==
  ASSUME TypeOK, FlagTold, NEW g \in Gates, DriverSetsFlag(g)
  PROVE  FlagTold'
<1> USE DEF TypeOK, FlagTypes, BackTypes, PromptTypes
<1>1. /\ driver[g] = "flagSet" /\ driver'[g] = "done" /\ backend' = backend
      /\ \A h \in Gates \ {g} : driver'[h] = driver[h]
      /\ UNCHANGED <<flagCount, flagGen>>
      /\ IF flagStep[<<"d", g>>] = NoStep THEN UNCHANGED <<flagStep, coreFlag>>
         ELSE coreFlag' = flagStep[<<"d", g>>].target /\ Dropped("d", g)
  BY DEF DriverSetsFlag, GoDriver, ApplyFlag, Dropped, flagVars, backVars
<1>2. \A h \in Gates : h \in Counted' <=> h \in Counted
  BY <1>1 DEF Counted, UpFor
<1>3. Counted' = Counted
  BY <1>2 DEF Counted
<1>4. \A h \in Gates :
        /\ flagStep'[<<"b", h>>] = flagStep[<<"b", h>>]
        /\ flagStep'[<<"d", h>>] = IF h = g THEN NoStep ELSE flagStep[<<"d", h>>]
  BY <1>1 DEF Dropped, Steppers
<1>5. StepsPlaced'
  <2>1. ASSUME NEW h \in Gates
        PROVE  /\ flagStep'[<<"b", h>>] # NoStep => backend'[h] \in {"flagCheck", "flagSet"}
               /\ flagStep'[<<"d", h>>] # NoStep =>
                    driver'[h] \in {"flagCheck", "flagSet"} /\ flagStep'[<<"d", h>>].target = FALSE
    <3>1. StepsPlaced
      BY DEF FlagTold
    <3> HIDE DEF TypeOK, FlagTypes, BackTypes, PromptTypes
    <3> QED
      BY <1>1, <1>4, <3>1, Zenon DEF StepsPlaced
  <2> QED
    BY <2>1, StepsPlacedNext
<1>6. Lowering'
  BY <1>1, <1>4 DEF FlagTold, StepsPlaced, Lowering, FlagIsCurrent, NoStep
<1> QED
  BY <1>1, <1>3, <1>5, <1>6 DEF FlagTold

(* Every step keeps the flag told.                                         *)
LEMMA FlagToldNext ==
  ASSUME TypeOK, Launched, SlotOwned, FlagTold, [Next]_vars
  PROVE  FlagTold'
<1> USE DEF TypeOK, BackTypes, PromptTypes
<1> DEFINE Calm == {"idle", "submit", "branch", "flag", "arm", "wait", "branches", "answered",
                    "close", "done"}
           Up == {"build", "live", "resolve", "release", "flag"}
<1>1. ASSUME NEW g \in Gates, NEW to \in Calm, backend[g] \in Calm,
             backend' = [backend EXCEPT ![g] = to], driver' = driver, UNCHANGED flagVars
      PROVE  FlagTold'
  BY <1>1, FlagStays DEF UpFor
<1>2. ASSUME NEW g \in Gates, NEW to \in Up, driver[g] \in Up,
             driver' = [driver EXCEPT ![g] = to], backend' = backend, UNCHANGED flagVars
      PROVE  FlagTold'
  BY <1>2, FlagStays DEF UpFor
<1>3. ASSUME UNCHANGED <<driver, backend, flagVars>> PROVE FlagTold'
  BY <1>3, FlagStays DEF UpFor
<1>4. ASSUME NEW g \in Gates, Backend(g) PROVE FlagTold'
  <2>1. CASE \/ OpenGate(g) \/ StartDiscordBranch(g) \/ AcquireSlot(g) \/ SkipTerminalBranch(g)
             \/ ArmDeadline(g) \/ WaitForAnswer(g) \/ CheckBranches(g) \/ ReturnAnswer(g)
             \/ CloseGate(g)
    <3>1. backend[g] \in Calm /\ \E to \in Calm : backend' = [backend EXCEPT ![g] = to]
      BY <2>1 DEF OpenGate, StartDiscordBranch, AcquireSlot, SkipTerminalBranch, ArmDeadline,
                  WaitForAnswer, CheckBranches, ReturnAnswer, CloseGate, GoBackend
    <3>2. driver' = driver /\ UNCHANGED flagVars
      BY <2>1 DEF OpenGate, StartDiscordBranch, AcquireSlot, SkipTerminalBranch, ArmDeadline,
                  WaitForAnswer, CheckBranches, ReturnAnswer, CloseGate, promptVars
    <3> QED
      BY <1>1, <3>1, <3>2
  <2> QED
    BY <1>4, <2>1,
       FlagRaised, FlagChecked, FlagSetByExecutor DEF Backend
<1>5. ASSUME NEW g \in Gates, Driver(g) PROVE FlagTold'
  <2>1. CASE GoLive(g) \/ TooLateForPrompt(g) \/ PromptExits(g) \/ TerminalResolves(g)
    <3>1. PICK to \in Up : driver' = [driver EXCEPT ![g] = to]
      BY <2>1 DEF GoLive, TooLateForPrompt, PromptExits, TerminalResolves, GoDriver
    <3>2. driver[g] \in Up /\ backend' = backend /\ UNCHANGED flagVars
      BY <2>1 DEF GoLive, TooLateForPrompt, PromptExits, TerminalResolves, GoDriver, backVars
    <3> QED
      BY <1>2, <3>1, <3>2
  <2>2. CASE ReleaseSlot(g)
    <3>1. driver[g] = "release" /\ slot = g
      BY <2>2 DEF ReleaseSlot, GoDriver, SlotOwned, Prompting
    <3> QED
      BY <1>2, <2>2, <3>1 DEF ReleaseSlot, GoDriver, backVars
  <2> QED
    BY <1>5, <2>1, <2>2, FlagLowered, FlagChecked, FlagSetByPrompt DEF Driver
<1>6. ASSUME NEW g \in Gates, Human(g) PROVE FlagTold'
  <2>1. CASE PromptAborts(g)
    BY <1>2, <2>1 DEF PromptAborts, backVars
  <2>2. ASSUME NEW a \in Answers, HumanAnswers(g, a) PROVE FlagTold'
    BY <1>2, <2>2 DEF HumanAnswers, GoDriver, backVars
  <2>3. ASSUME NEW a \in Answers, ClickLookup(g, a) PROVE FlagTold'
    BY <1>3, <2>3 DEF ClickLookup, promptVars, backVars
  <2> QED
    BY <1>6, <2>1, <2>2, <2>3 DEF Human
<1>7. ASSUME NEW g \in Gates, PostBeforeAck(g) \/ Expire(g) \/ TellChannel(g) PROVE FlagTold'
  BY <1>3, <1>7 DEF PostBeforeAck, Expire, TellChannel, promptVars, backVars
<1>8. ASSUME Listener \/ UNCHANGED vars PROVE FlagTold'
  BY <1>3, <1>8 DEF Listener, ClickResolves, ClickExits, vars, promptVars, backVars
<1> QED
  BY <1>4, <1>5, <1>6, <1>7, <1>8 DEF Next

(* Once no approval owns stdin and every transition has been applied, the  *)
(* core's flag is down again, however the setters ran outside the lock     *)
(* (step_flag, flag_is_current, _apply_flag).                              *)
THEOREM TheFlagComesDown == Spec => []QuietMeansClear
<1>1. Init => Launched /\ SlotOwned /\ FlagTold
  <2> SUFFICES ASSUME Init PROVE Launched /\ SlotOwned /\ FlagTold
    OBVIOUS
  <2>1. Counted = {}
    BY DEF Init, Counted, UpFor
  <2>2. StepsPlaced /\ Lowering
    BY DEF Init, StepsPlaced, Lowering, Steppers, NoStep
  <2> QED
    BY <2>1, <2>2, FS_EmptySet DEF Init, Launched, SlotOwned, Prompting, Starting, FlagTold
<1>2. TypeOK /\ FlagTold => QuietMeansClear
  <2> SUFFICES ASSUME TypeOK, FlagTold,
                      \A g \in Gates : ~Starting(g) /\ driver[g] \in {"none", "done"}
               PROVE  flagCount = 0 /\ ~coreFlag
    BY DEF QuietMeansClear
  <2>1. Counted = {}
    BY DEF Counted, UpFor, Starting
  <2>2. flagCount = 0
    BY <2>1, CountedMoves
  <2>3. \A g \in Gates : flagStep[<<"d", g>>] = NoStep
    BY DEF FlagTold, StepsPlaced
  <2> QED
    BY <2>2, <2>3 DEF FlagTold, Lowering
<1> QED
  BY <1>1, <1>2, TypeCorrect, LaunchedNext, SlotOwnedNext, FlagToldNext, PTL DEF Spec

-----------------------------------------------------------------------------
(* The switch taken down under waiting approvals.                          *)

(* Every variable stays in its range over a teardown as well.              *)
LEMMA TeardownTypes == TypeOK /\ [NextTeardown]_tvars => TypeOK'
<1> SUFFICES ASSUME TypeOK, [NextTeardown]_tvars PROVE TypeOK'
  OBVIOUS
<1>1. CASE Next \/ UNCHANGED vars
  BY <1>1, TypeNext
<1>2. CASE Uninstall
  <2>1. GateTypes'
    BY <1>2 DEF TypeOK, GateTypes, Uninstall, Reset, CancelTimers
  <2>2. SlotTypes'
    BY <1>2 DEF TypeOK, SlotTypes, Uninstall, Reset
  <2>3. FlagTypes'
    BY <1>2 DEF TypeOK, FlagTypes, Uninstall, Reset
  <2>4. UNCHANGED <<promptVars, backVars, farVars>>
    BY <1>2 DEF Uninstall
  <2> QED
    BY <2>1, <2>2, <2>3, <2>4, PromptFrame, BackFrame, FarFrame DEF TypeOK
<1> QED
  BY <1>1, <1>2 DEF NextTeardown, tvars

(* The slot changes by being taken when it is free, by being given back by *)
(* its owner, or by the teardown.                                          *)
LEMMA SlotMoves ==
  ASSUME TypeOK, Next
  PROVE  \/ slot' = slot
         \/ slot = NoGate
         \/ \E h \in Gates : slot = h /\ ReleaseSlot(h)
<1>1. ASSUME NEW g \in Gates, Backend(g) PROVE slot' = slot \/ slot = NoGate
  BY <1>1 DEF Backend, OpenGate, StartDiscordBranch, AcquireSlot, MayAcquireSlot, SkipTerminalBranch,
              BackendStepsFlag, BackendChecksFlag, BackendSetsFlag, ArmDeadline, WaitForAnswer,
              CheckBranches, ReturnAnswer, CloseGate, slotVars
<1>2. ASSUME NEW g \in Gates, Driver(g) PROVE slot' = slot \/ (slot = g /\ ReleaseSlot(g))
  <2>1. CASE ReleaseSlot(g)
    BY <2>1 DEF ReleaseSlot
  <2>2. CASE ~ReleaseSlot(g)
    BY <1>2, <2>2 DEF Driver, GoLive, TooLateForPrompt, PromptExits, TerminalResolves, DriverStepsFlag,
                      DriverChecksFlag, DriverSetsFlag, slotVars
  <2> QED
    BY <2>1, <2>2
<1>3. ASSUME NEW g \in Gates, Human(g) \/ PostBeforeAck(g) \/ Expire(g) \/ TellChannel(g)
      PROVE  slot' = slot
  BY <1>3 DEF Human, PromptAborts, HumanAnswers, ClickLookup, PostBeforeAck, Expire, TellChannel, slotVars
<1>4. ASSUME Listener PROVE slot' = slot
  BY <1>4 DEF Listener, ClickResolves, ClickExits, slotVars
<1> QED
  BY <1>1, <1>2, <1>3, <1>4 DEF Next

(* A prompt that outlived the teardown never frees the slot of another     *)
(* approval: release_slot is its owner's.                                  *)
THEOREM OnlyTheOwnerFrees == TeardownSpec => SlotFreedByOwner
<1>1. TypeOK /\ [NextTeardown]_tvars =>
        [\A g \in Gates :
           slot = g /\ slot' # g /\ UNCHANGED installed =>
             driver[g] = "release" /\ driver'[g] = "flag"]_tvars
  <2> SUFFICES ASSUME TypeOK, [NextTeardown]_tvars, NEW g \in Gates,
                      slot = g, slot' # g, UNCHANGED installed
               PROVE  driver[g] = "release" /\ driver'[g] = "flag"
    OBVIOUS
  <2>1. Next
    BY DEF NextTeardown, Uninstall, tvars, vars, slotVars
  <2>2. slot # NoGate
    OBVIOUS
  <2>3. ReleaseSlot(g)
    BY <2>1, <2>2, SlotMoves
  <2> QED
    BY <2>3 DEF ReleaseSlot, GoDriver, TypeOK, PromptTypes
<1>2. InitTeardown => TypeOK
  BY TypeInit DEF InitTeardown
<1> QED
  BY <1>1, <1>2, TeardownTypes, PTL DEF TeardownSpec, SlotFreedByOwner
=============================================================================
