-------------------------- MODULE ApprovalTeardown --------------------------
(***************************************************************************)
(* The approval switch taken down while approvals are waiting (uninstall   *)
(* of cp_discord/approvals.py, reset of approvals_state.py).  The threads  *)
(* of those approvals are not stopped: they go on over the emptied state.  *)
(***************************************************************************)
EXTENDS ApprovalSwitch

VARIABLE installed  \* approvals._installed: new approvals come to this backend

tvars == <<vars, installed>>

InitTeardown == Init /\ installed = TRUE

(* cancel_timer for every gate the state still knows.                      *)
CancelTimers ==
  timer' = [g \in Gates |-> IF g \in registered THEN "none" ELSE timer[g]]

Reset ==
  /\ CancelTimers
  /\ registered' = {}
  /\ mark' = "empty" /\ slot' = NoGate
  /\ flagCount' = 0 /\ flagGen' = 0

Uninstall ==
  /\ installed
  /\ installed' = FALSE
  /\ Reset
  /\ UNCHANGED <<resolution, winner, discordAlive, handle, coreFlag, flagStep,
                 promptVars, backVars, farVars>>

(* Once the core has its own backend again, no gate is opened.             *)
StillHere == (registered' \subseteq registered \/ installed) /\ UNCHANGED installed

NextTeardown == (Next /\ StillHere) \/ Uninstall

TeardownFairness ==
  /\ WF_tvars(Listener /\ StillHere)
  /\ \A g \in Gates :
       /\ WF_tvars(Backend(g) /\ StillHere)
       /\ WF_tvars(Driver(g) /\ StillHere)
       /\ WF_tvars(Expire(g) /\ StillHere)

TeardownSpec == InitTeardown /\ [][NextTeardown]_tvars /\ TeardownFairness

-----------------------------------------------------------------------------
(* Taking the switch down loses no answer: whoever answered before or      *)
(* after, the approval returns.                                            *)
AnswerSurvivesTeardown ==
  \A g \in Gates : Resolved(g) ~> backend[g] = "done"

(* A prompt that outlived the teardown never gives back a slot that meanwhile *)
(* belongs to another approval: only its owner frees stdin (release_slot).    *)
SlotFreedByOwner ==
  [][\A g \in Gates :
       slot = g /\ slot' # g /\ UNCHANGED installed =>
         driver[g] = "release" /\ driver'[g] = "flag"]_tvars
=============================================================================
