----------------------------- MODULE ThreadLife -----------------------------
(* What the bridge promises of Discord threads, whoever serves: a thread    *)
(* belongs to the session it was opened for, for good; it is archived, not  *)
(* deleted (INV-C3), and only after its session released or died (INV-C13); *)
(* and no thread is opened for nobody.                                      *)
EXTENDS Naturals

CONSTANTS Sessions, NoSession, Threads

VARIABLES
  ended,     \* the sessions that released or whose process is gone
  owner,     \* the session each thread was opened for
  archived   \* the threads the bridge archived

lifeVars == <<ended, owner, archived>>

Init ==
  /\ ended = {}
  /\ owner = [t \in Threads |-> NoSession]
  /\ archived = {}

End(s) ==
  /\ s \notin ended
  /\ ended' = ended \cup {s}
  /\ UNCHANGED <<owner, archived>>

\* A session may still be given a thread after its end: the request was
\* already on its way.
Open(s, t) ==
  /\ owner[t] = NoSession
  /\ owner' = [owner EXCEPT ![t] = s]
  /\ UNCHANGED <<ended, archived>>

Archive(t) ==
  /\ owner[t] \in ended
  /\ archived' = archived \cup {t}
  /\ UNCHANGED <<ended, owner>>

Next ==
  \/ \E s \in Sessions : End(s) \/ \E t \in Threads : Open(s, t)
  \/ \E t \in Threads : Archive(t)

Spec == Init /\ [][Next]_lifeVars
=============================================================================
