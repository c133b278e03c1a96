------------------------------ MODULE MCBridge ------------------------------
(* A small instance of the bridge: two sessions start over one database.    *)
EXTENDS Bridge

CONSTANTS me, other, a1, a2, alice, bob

BothSessions == {me, other}
OnlyMe == {me}
TwoAddresses == {a1, a2}
TwoPeople == {alice, bob}
OneCaller == {"accept"}
ThreeKinds == {"open", "post", "archive"}
NotThere == {a1}
SomeLayers == {4, 6}

As(a, p) == [addr |-> a, principal |-> p]
Lists(talkers, approvers) ==
  [r \in Roles |-> IF r = "talker" THEN talkers ELSE approvers]

\* Nothing yet, and tables of another time: alice decides, at a2 too.
NoTables == [bound |-> [a \in Addresses |-> Nobody], holders |-> Lists({}, {})]
OldTables == [bound |-> [a \in Addresses |-> alice], holders |-> Lists({bob}, {alice})]
SomeLeftovers == {NoTables, OldTables}

SomeSettings == {
  Lists(<<>>, <<>>),
  Lists(<<As(a1, alice)>>, <<As(a1, Nobody), As(a2, bob)>>),
  Lists(<<As(a2, bob)>>, <<As(a1, bob)>>),
  Lists(<<As(a2, bob)>>, <<As(Nobody, Nobody)>>) }

\* The life of the bridge is followed for one of the outcomes of the sync, and
\* with one thing out of the ordinary at a time: a second on_ready while the
\* session only registers and releases, or a join that times out.
OneSyncFollowed ==
  watch # "none" => /\ bound = [a \in Addresses |-> IF a = a1 THEN alice ELSE bob]
                     /\ sync[me].stage = "roles" /\ wrote # {}
                     /\ \A p \in Starters \ {me} : sync[p] = Before

OneOddity ==
  /\ made > 1 => beats + reports + overran = 0 /\ raised = {}
  /\ overran > 0 => raised = {}
=============================================================================
