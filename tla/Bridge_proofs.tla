---------------------------- MODULE Bridge_proofs ----------------------------
(***************************************************************************)
(* Four theorems about the bridge: it is there as a whole or not at all    *)
(* for any number of layers of which any above C3 may raise; the right     *)
(* people have their roles and are in the thread, for any sessions,        *)
(* settings and tables; the gateway's queue keeps every job, in order; and *)
(* an end in time is a clean end.                                          *)
(***************************************************************************)
EXTENDS Bridge, SequenceTheorems, FiniteSetTheorems, TLAPS

-----------------------------------------------------------------------------
(* What each statement does to the session that issues it.                  *)

Item == [role : Roles, entry : Entry]
Both == <<"talker", "approver">>
Progress == [stage : Stages, todo : Seq(Item), wanted : [Roles -> SUBSET Principals],
             role : Roles, left : {Both, <<"approver">>, <<>>},
             grant : SUBSET Principals, revoke : SUBSET Principals]

Typed ==
  /\ bound \in [Addresses -> Principals \cup {Nobody}]
  /\ holders \in [Roles -> SUBSET Principals]
  /\ sync \in [Starters -> Progress]
  /\ wrote \subseteq Starters

\* What p may still have to do before it has changed any role.
Unwritten(p) ==
  sync[p].stage \notin {"roles", "raised"} =>
    /\ p \notin wrote /\ sync[p].grant = {} /\ sync[p].revoke = {}
    /\ sync[p].stage = "resolve" => sync[p].left = Both

\* At the beginning nothing is written and everything has its type.
LEMMA TypedInit == IdentitiesInit => Typed /\ \A p \in Starters : Unwritten(p)
<1> SUFFICES ASSUME IdentitiesInit PROVE Typed /\ \A p \in Starters : Unwritten(p)
  OBVIOUS
<1>1. Before \in Progress
  BY DEF Before, Progress, Stages, Roles, Both
<1>2. Typed
  BY <1>1, IdentitiesAssumption DEF IdentitiesInit, Typed, Roles
<1>3. \A p \in Starters : Unwritten(p)
  BY DEF IdentitiesInit, Unwritten, Before
<1> QED
  BY <1>2, <1>3

\* A session that begins has both roles before it.
LEMMA TypedBegin ==
  ASSUME Typed, NEW p \in Starters, NEW setting \in Settings, BeginSync(p, setting)
  PROVE  /\ Typed'
         /\ sync'[p].stage \in {"resolve", "skipped"} /\ sync'[p].left = Both
         /\ sync'[p].grant = sync[p].grant /\ sync'[p].revoke = sync[p].revoke
<1> DEFINE todo == Tagged("talker", setting["talker"]) \o Tagged("approver", setting["approver"])
<1>1. setting \in [Roles -> Seq(Entry)]
  BY IdentitiesAssumption
<1>2. ASSUME NEW r \in Roles PROVE Tagged(r, setting[r]) \in Seq(Item)
  <2>1. setting[r] \in Seq(Entry)
    BY <1>1
  <2>2. /\ Len(setting[r]) \in Nat /\ DOMAIN setting[r] = 1 .. Len(setting[r])
        /\ \A i \in 1 .. Len(setting[r]) : setting[r][i] \in Entry
    BY <2>1
  <2>3. Tagged(r, setting[r]) \in [1 .. Len(setting[r]) -> Item]
    BY <2>2 DEF Tagged, Item
  <2> QED
    BY <2>2, <2>3
<1>3. todo \in Seq(Item)
  BY <1>2, ConcatProperties DEF Roles
<1>4. sync[p] \in Progress /\ sync' = [sync EXCEPT ![p] =
        [sync[p] EXCEPT !.stage = IF todo = <<>> THEN "skipped" ELSE "resolve",
                        !.todo = todo, !.left = Both]]
  BY DEF BeginSync, Typed, Both
<1> HIDE DEF todo
<1>5. sync'[p] \in Progress
  BY <1>3, <1>4 DEF Progress, Stages, Typed, Both
<1>6. UNCHANGED <<bound, holders, wrote>>
  BY DEF BeginSync
<1>7. sync' \in [Starters -> Progress]
  BY <1>4, <1>5 DEF Typed
<1> QED
  BY <1>4, <1>6, <1>7 DEF Typed, Progress

\* It resolves an entry, or refuses the configuration.
LEMMA ResolveFacts ==
  ASSUME Typed, NEW p \in Starters, ResolveEntry(p)
  PROVE  /\ Typed' /\ sync[p].stage = "resolve"
         /\ sync'[p].stage \in {"resolve", "refused"} /\ sync'[p].left = sync[p].left
         /\ sync'[p].grant = sync[p].grant /\ sync'[p].revoke = sync[p].revoke
         /\ \A q \in Starters \ {p} : sync'[q] = sync[q]
         /\ holders' = holders /\ wrote' = wrote
<1> DEFINE item == Head(sync[p].todo)
           who  == PrincipalOf(item.entry)
<1>1. sync[p] \in Progress /\ sync[p].todo \in Seq(Item) /\ sync[p].todo # <<>>
  BY DEF ResolveEntry, Typed, Progress
<1>2. item \in Item /\ Tail(sync[p].todo) \in Seq(Item)
  BY <1>1, HeadTailProperties
<1>3. item.entry \in Entry /\ item.role \in Roles
  BY <1>2 DEF Item
<1>4. CASE who = Nobody
  <2>1. /\ sync' = [sync EXCEPT ![p] = [sync[p] EXCEPT !.stage = "refused"]]
        /\ UNCHANGED <<bound, holders, wrote>>
    BY <1>4 DEF ResolveEntry
  <2>2. [sync[p] EXCEPT !.stage = "refused"] \in Progress
    BY <1>1 DEF Progress, Stages
  <2> QED
    BY <1>1, <2>1, <2>2 DEF Typed, Progress, ResolveEntry
<1>5. CASE who # Nobody
  <2>1. /\ sync' = [sync EXCEPT ![p] = [sync[p] EXCEPT !.todo = Tail(sync[p].todo),
                       !.wanted = [sync[p].wanted EXCEPT ![item.role] = @ \cup {who}]]]
        /\ bound' = [bound EXCEPT ![item.entry.addr] = who] /\ UNCHANGED <<holders, wrote>>
    <3> DEFINE w == Wanting(p, item.role, who)
    <3>1. sync' = [sync EXCEPT ![p].todo = Tail(@), ![p].wanted = w]
      BY <1>5 DEF ResolveEntry
    <3>2. bound' = [bound EXCEPT ![item.entry.addr] = who] /\ UNCHANGED <<holders, wrote>>
      BY <1>5 DEF ResolveEntry
    <3> HIDE DEF item, who, w
    <3>3. sync' = [sync EXCEPT ![p] = [sync[p] EXCEPT !.todo = Tail(@), !.wanted = w]]
      BY <1>1, <3>1 DEF Typed, Progress
    <3> QED
      BY <3>2, <3>3 DEF w, Wanting
  <2>2. item.entry.addr \in Addresses /\ who \in Principals
    BY <1>3, <1>5 DEF PrincipalOf, Entry, Typed
  <2> HIDE DEF item, who
  <2>3. [sync[p].wanted EXCEPT ![item.role] = @ \cup {who}] \in [Roles -> SUBSET Principals]
    BY <1>1, <1>3, <2>2 DEF Progress
  <2>4. [sync[p] EXCEPT !.todo = Tail(sync[p].todo),
           !.wanted = [sync[p].wanted EXCEPT ![item.role] = @ \cup {who}]] \in Progress
    BY <1>1, <1>2, <2>3 DEF Progress
  <2>5. bound' \in [Addresses -> Principals \cup {Nobody}]
    BY <2>1, <2>2 DEF Typed
  <2> QED
    BY <1>1, <2>1, <2>4, <2>5 DEF Typed, Progress, ResolveEntry
<1> QED
  BY <1>4, <1>5

\* It compares the next role.
LEMMA ReadFacts ==
  ASSUME Typed, NEW p \in Starters, ReadHolders(p)
  PROVE  LET r == Head(sync[p].left)
         IN /\ Typed' /\ r \in Roles /\ sync[p].left \in {Both, <<"approver">>}
            /\ sync[p].grant = {} /\ sync[p].revoke = {}
            /\ sync'[p].stage = "roles" /\ sync'[p].left = Tail(sync[p].left)
            /\ sync'[p].role = r /\ sync'[p].wanted = sync[p].wanted
            /\ sync'[p].grant = sync[p].wanted[r] \ holders[r]
            /\ sync'[p].revoke = holders[r] \ sync[p].wanted[r]
            /\ \A q \in Starters \ {p} : sync'[q] = sync[q]
            /\ holders' = holders /\ wrote' = wrote
<1> DEFINE r == Head(sync[p].left)
<1>1. sync[p] \in Progress /\ sync[p].left # <<>> /\ sync[p].todo = <<>>
  BY DEF ReadHolders, MayRead, Typed
<1>2. sync[p].left \in {Both, <<"approver">>}
  BY <1>1 DEF Progress
<1>3. r \in Roles /\ Tail(sync[p].left) \in {Both, <<"approver">>, <<>>}
  <2>1. CASE sync[p].left = Both
    <3>1. Head(Both) = "talker" /\ Tail(Both) = <<"approver">>
      BY DEF Both
    <3> QED
      BY <2>1, <3>1 DEF Roles
  <2>2. CASE sync[p].left = <<"approver">>
    BY <2>2 DEF Roles
  <2> QED
    BY <1>2, <2>1, <2>2
<1>4. /\ sync' = [sync EXCEPT ![p] = [sync[p] EXCEPT !.stage = "roles", !.role = r,
            !.left = Tail(sync[p].left), !.grant = sync[p].wanted[r] \ holders[r],
            !.revoke = holders[r] \ sync[p].wanted[r]]]
      /\ UNCHANGED <<bound, holders, wrote>>
  <2>1. (IF sync[p].todo = <<>> THEN "roles" ELSE sync[p].stage) = "roles"
    BY <1>1
  <2> QED
    BY <1>1, <2>1 DEF ReadHolders
<1> HIDE DEF r
<1>5. sync[p].wanted[r] \in SUBSET Principals /\ holders[r] \in SUBSET Principals
  BY <1>1, <1>3 DEF Progress, Typed
<1>6. [sync[p] EXCEPT !.stage = "roles", !.role = r,
            !.left = Tail(sync[p].left), !.grant = sync[p].wanted[r] \ holders[r],
            !.revoke = holders[r] \ sync[p].wanted[r]] \in Progress
  BY <1>1, <1>3, <1>5 DEF Progress, Stages
<1>7. Typed'
  BY <1>4, <1>6 DEF Typed
<1>8. sync[p].grant = {} /\ sync[p].revoke = {}
  BY DEF ReadHolders, MayRead
<1> QED
  BY <1>1, <1>2, <1>3, <1>4, <1>7, <1>8 DEF r, Typed, Progress

\* It gives the role to one who misses it.
LEMMA GrantFacts ==
  ASSUME Typed, NEW p \in Starters, Grant(p)
  PROVE  /\ Typed'
         /\ \E x \in sync[p].grant :
              /\ holders' = [holders EXCEPT ![sync[p].role] = @ \cup {x}]
              /\ sync'[p] = [sync[p] EXCEPT !.grant = @ \ {x}]
         /\ sync[p].role \in Roles
         /\ \A q \in Starters \ {p} : sync'[q] = sync[q]
         /\ wrote' = wrote \cup {p}
<1>1. PICK x \in sync[p].grant :
        /\ holders' = [holders EXCEPT ![sync[p].role] = @ \cup {x}]
        /\ sync' = [sync EXCEPT ![p] = [sync[p] EXCEPT !.grant = @ \ {x}]]
  BY DEF Grant
<1>2. sync[p] \in Progress
  BY DEF Typed
<1>3. sync[p].role \in Roles /\ x \in Principals /\ sync[p].grant \subseteq Principals
  BY <1>2 DEF Progress
<1>4. [sync[p] EXCEPT !.grant = @ \ {x}] \in Progress
  BY <1>2, <1>3 DEF Progress
<1>5. UNCHANGED bound /\ wrote' = wrote \cup {p}
  BY DEF Grant
<1>6. holders' \in [Roles -> SUBSET Principals]
  BY <1>1, <1>3 DEF Typed
<1> QED
  BY <1>1, <1>3, <1>4, <1>5, <1>6 DEF Typed

\* It takes the role from one who is not listed.
LEMMA RevokeFacts ==
  ASSUME Typed, NEW p \in Starters, Revoke(p)
  PROVE  /\ Typed'
         /\ \E x \in sync[p].revoke :
              /\ holders' = [holders EXCEPT ![sync[p].role] = @ \ {x}]
              /\ sync'[p] = [sync[p] EXCEPT !.revoke = @ \ {x}]
         /\ sync[p].role \in Roles
         /\ \A q \in Starters \ {p} : sync'[q] = sync[q]
         /\ wrote' = wrote \cup {p}
<1>1. PICK x \in sync[p].revoke :
        /\ holders' = [holders EXCEPT ![sync[p].role] = @ \ {x}]
        /\ sync' = [sync EXCEPT ![p] = [sync[p] EXCEPT !.revoke = @ \ {x}]]
  BY DEF Revoke
<1>2. sync[p] \in Progress
  BY DEF Typed
<1>3. sync[p].role \in Roles /\ sync[p].revoke \subseteq Principals
  BY <1>2 DEF Progress
<1>4. [sync[p] EXCEPT !.revoke = @ \ {x}] \in Progress
  BY <1>2, <1>3 DEF Progress
<1>5. UNCHANGED bound /\ wrote' = wrote \cup {p}
  BY DEF Revoke
<1>6. holders' \in [Roles -> SUBSET Principals]
  BY <1>1, <1>3 DEF Typed
<1> QED
  BY <1>1, <1>3, <1>4, <1>5, <1>6 DEF Typed

\* A statement raises.
LEMMA RaiseFacts ==
  ASSUME Typed, NEW p \in Starters, DatabaseRaises(p)
  PROVE  /\ Typed' /\ sync'[p].stage = "raised"
         /\ \A q \in Starters \ {p} : sync'[q] = sync[q]
         /\ holders' = holders /\ wrote' = wrote
<1>1. sync' = [sync EXCEPT ![p] = [sync[p] EXCEPT !.stage = "raised"]]
      /\ UNCHANGED <<bound, holders, wrote>>
  BY DEF DatabaseRaises
<1>2. sync[p] \in Progress /\ [sync[p] EXCEPT !.stage = "raised"] \in Progress
  BY DEF Typed, Progress, Stages
<1>3. Typed'
  BY <1>1, <1>2 DEF Typed
<1> QED
  BY <1>1, <1>2, <1>3 DEF Typed, Progress

-----------------------------------------------------------------------------
(* Exactly the listed.                                                      *)

\* The sessions that came to the roles want what p wants.
Agreed(p) == \A q \in Starters :
  sync[q].stage \in {"roles", "raised"} => sync[q].wanted = sync[p].wanted

\* What p has compared of a role differs from the list by what p has still to do.
Settling(p, r) ==
  /\ sync[p].wanted[r] \ holders[r] \subseteq (IF sync[p].role = r THEN sync[p].grant ELSE {})
  /\ holders[r] \ sync[p].wanted[r] \subseteq (IF sync[p].role = r THEN sync[p].revoke ELSE {})

Compared(p) == IF sync[p].left = <<>> THEN Roles ELSE {"talker"}

Exact(p) ==
  sync[p].stage = "roles" =>
    /\ sync[p].left \in {<<"approver">>, <<>>}
    /\ sync[p].grant \subseteq sync[p].wanted[sync[p].role]
    /\ sync[p].revoke \cap sync[p].wanted[sync[p].role] = {}
    /\ Agreed(p) => \A r \in Compared(p) : Settling(p, r)

Reconciling == Typed /\ \A p \in Starters : Unwritten(p) /\ Exact(p)

\* Before anybody starts nothing has been compared.
LEMMA ReconcilingInit == IdentitiesInit => Reconciling
<1> SUFFICES ASSUME IdentitiesInit PROVE Reconciling
  OBVIOUS
<1>1. \A p \in Starters : sync[p].stage = "before"
  BY DEF IdentitiesInit, Before
<1> QED
  BY <1>1, TypedInit DEF Reconciling, Exact

\* The invariant is what the properties need.
LEMMA ReconcilingEnough == Reconciling => IdentitiesSound
<1> SUFFICES ASSUME Reconciling PROVE IdentitiesSound
  OBVIOUS
<1>1. IdentitiesTypeOK
  BY DEF Reconciling, Typed, Progress, IdentitiesTypeOK
<1>2. RefusedChangesNoRole
  BY DEF Reconciling, Unwritten, RefusedChangesNoRole
<1>3. ASSUME NEW p \in Starters, Reconciled(p), Agreed(p)
      PROVE holders = sync[p].wanted
  <2>1. Compared(p) = Roles /\ sync[p].stage = "roles"
    BY <1>3 DEF Reconciled, Compared
  <2>2. \A r \in Roles : Settling(p, r)
    BY <1>3, <2>1 DEF Reconciling, Exact
  <2>3. sync[p].grant = {} /\ sync[p].revoke = {}
    BY <1>3 DEF Reconciled
  <2>4. ASSUME NEW r \in Roles PROVE holders[r] = sync[p].wanted[r]
    <3>1. sync[p].wanted[r] \ holders[r] \subseteq {} /\ holders[r] \ sync[p].wanted[r] \subseteq {}
      BY <2>2, <2>3 DEF Settling
    <3>2. \A x : x \in holders[r] <=> x \in sync[p].wanted[r]
      BY <3>1
    <3> QED
      BY <3>2, Zenon
  <2>5. holders \in [Roles -> SUBSET Principals] /\ sync[p].wanted \in [Roles -> SUBSET Principals]
    BY DEF Reconciling, Typed, Progress
  <2> QED
    BY <2>4, <2>5
<1>4. ListedHoldRoles
  BY <1>3 DEF ListedHoldRoles, Agreed
<1> QED
  BY <1>1, <1>2, <1>4 DEF IdentitiesSound

\* A step of p that writes no role keeps what is said of every other session.
LEMMA OthersKeep ==
  ASSUME Reconciling, Typed', NEW p \in Starters,
         \A q \in Starters \ {p} : sync'[q] = sync[q],
         holders' = holders, wrote' = wrote,
         sync[p].stage \in {"roles", "raised"} =>
           sync'[p].stage \in {"roles", "raised"} /\ sync'[p].wanted = sync[p].wanted,
         NEW q \in Starters \ {p}
  PROVE  Unwritten(q)' /\ Exact(q)'
<1>1. sync'[q] = sync[q]
  OBVIOUS
<1>2. Unwritten(q)'
  BY <1>1 DEF Reconciling, Unwritten
<1>3. Agreed(q)' => Agreed(q)
  <2> SUFFICES ASSUME Agreed(q)', NEW o \in Starters, sync[o].stage \in {"roles", "raised"}
               PROVE  sync[o].wanted = sync[q].wanted
    BY DEF Agreed
  <2>1. sync'[o].stage \in {"roles", "raised"} /\ sync'[o].wanted = sync[o].wanted
    <3>1. CASE o = p
      BY <3>1
    <3>2. CASE o # p
      BY <3>2
    <3> QED
      BY <3>1, <3>2
  <2> QED
    BY <1>1, <2>1 DEF Agreed
<1>4. \A r \in Roles : Settling(q, r) => Settling(q, r)'
  BY <1>1 DEF Settling
<1>5. Compared(q)' = Compared(q) /\ Compared(q) \subseteq Roles
  BY <1>1 DEF Compared, Roles
<1>6. Exact(q)'
  BY <1>1, <1>3, <1>4, <1>5 DEF Reconciling, Exact
<1> QED
  BY <1>2, <1>6

\* A step of p that gives the role a listed one, or takes it from one who is not.
LEMMA WriteKeeps ==
  ASSUME Reconciling, Typed', NEW p \in Starters, NEW x, sync[p].stage = "roles",
         LET r == sync[p].role
         IN \/ /\ x \in sync[p].grant /\ holders' = [holders EXCEPT ![r] = @ \cup {x}]
               /\ sync'[p] = [sync[p] EXCEPT !.grant = @ \ {x}]
            \/ /\ x \in sync[p].revoke /\ holders' = [holders EXCEPT ![r] = @ \ {x}]
               /\ sync'[p] = [sync[p] EXCEPT !.revoke = @ \ {x}],
         \A q \in Starters \ {p} : sync'[q] = sync[q],
         wrote' = wrote \cup {p}
  PROVE  Reconciling'
<1> DEFINE r == sync[p].role
<1>1. sync[p] \in Progress /\ r \in Roles /\ holders \in [Roles -> SUBSET Principals]
  BY DEF Reconciling, Typed, Progress
<1>2. /\ sync[p].grant \subseteq sync[p].wanted[r]
      /\ sync[p].revoke \cap sync[p].wanted[r] = {}
  BY DEF Reconciling, Exact
<1>3. /\ x \in sync[p].grant \/ x \in sync[p].revoke
      /\ x \in sync[p].wanted[r] => holders' = [holders EXCEPT ![r] = @ \cup {x}]
      /\ x \notin sync[p].wanted[r] => holders' = [holders EXCEPT ![r] = @ \ {x}]
  BY <1>2
<1>4. \A o \in Starters : sync'[o].stage = sync[o].stage /\ sync'[o].wanted = sync[o].wanted
                          /\ sync'[o].left = sync[o].left /\ sync'[o].role = sync[o].role
  <2>1. /\ sync'[p].stage = sync[p].stage /\ sync'[p].wanted = sync[p].wanted
        /\ sync'[p].left = sync[p].left /\ sync'[p].role = sync[p].role
    BY <1>1 DEF Progress
  <2>2. ASSUME NEW o \in Starters, o # p PROVE sync'[o] = sync[o]
    BY <2>2
  <2> QED
    BY <2>1, <2>2
<1>5. ASSUME NEW o \in Starters PROVE Agreed(o)' <=> Agreed(o)
  BY <1>4 DEF Agreed
<1>6. ASSUME NEW o \in Starters PROVE Unwritten(o)'
  <2>1. CASE o = p
    BY <1>4, <2>1 DEF Unwritten
  <2>2. CASE o # p
    BY <2>2 DEF Unwritten, Reconciling
  <2> QED
    BY <2>1, <2>2
<1>7. ASSUME NEW o \in Starters,
             sync[o].wanted = sync[p].wanted, NEW s \in Roles, Settling(o, s)
      PROVE  Settling(o, s)'
  <2>1. sync'[o].wanted = sync[o].wanted /\ sync'[o].role = sync[o].role
    BY <1>4
  <2>2. CASE s # r
    <3>1. holders'[s] = holders[s]
      BY <1>1, <1>3, <2>2
    <3>2. CASE o = p
      BY <1>7, <2>1, <2>2, <3>1, <3>2 DEF Settling
    <3>3. CASE o # p
      BY <1>7, <3>1, <3>3 DEF Settling
    <3> QED
      BY <3>2, <3>3
  <2>3. CASE s = r /\ x \in sync[p].wanted[r]
    <3>1. holders'[s] = holders[s] \cup {x}
      BY <1>1, <1>3, <2>3
    <3>2. CASE o = p
      <4>1. sync'[p].grant \cup {x} = sync[p].grant \cup {x} /\ sync'[p].revoke = sync[p].revoke
        BY <1>1, <1>2, <2>3 DEF Progress
      <4> QED
        BY <1>7, <2>1, <2>3, <3>1, <3>2, <4>1 DEF Settling
    <3>3. CASE o # p
      BY <1>7, <2>3, <3>1, <3>3 DEF Settling
    <3> QED
      BY <3>2, <3>3
  <2>4. CASE s = r /\ x \notin sync[p].wanted[r]
    <3>1. holders'[s] = holders[s] \ {x}
      BY <1>1, <1>3, <2>4
    <3>2. CASE o = p
      <4>1. sync'[p].revoke \cup {x} = sync[p].revoke \cup {x} /\ sync'[p].grant = sync[p].grant
        BY <1>1, <1>2, <2>4 DEF Progress
      <4> QED
        BY <1>7, <2>1, <2>4, <3>1, <3>2, <4>1 DEF Settling
    <3>3. CASE o # p
      BY <1>7, <2>4, <3>1, <3>3 DEF Settling
    <3> QED
      BY <3>2, <3>3
  <2> QED
    BY <2>2, <2>3, <2>4
<1>8. ASSUME NEW o \in Starters PROVE Exact(o)'
  <2> SUFFICES ASSUME sync'[o].stage = "roles" PROVE Exact(o)'
    BY DEF Exact
  <2>1. sync[o].stage = "roles" /\ Exact(o) /\ Compared(o)' = Compared(o) /\ Compared(o) \subseteq Roles
    BY <1>4 DEF Reconciling, Compared, Roles
  <2>2. sync'[o].grant \subseteq sync[o].grant /\ sync'[o].revoke \subseteq sync[o].revoke
    <3>1. CASE o = p
      BY <1>1, <3>1 DEF Progress
    <3>2. CASE o # p
      BY <3>2
    <3> QED
      BY <3>1, <3>2
  <2>3. ASSUME Agreed(o)', NEW s \in Compared(o) PROVE Settling(o, s)'
    <3>1. Agreed(o) /\ sync[o].wanted = sync[p].wanted
      BY <1>5, <2>3 DEF Agreed
    <3>2. Settling(o, s)
      BY <2>1, <2>3, <3>1 DEF Exact
    <3> QED
      BY <1>7, <2>1, <2>3, <3>1, <3>2
  <2>4. /\ sync'[o].left \in {<<"approver">>, <<>>}
        /\ sync'[o].grant \subseteq sync'[o].wanted[sync'[o].role]
        /\ sync'[o].revoke \cap sync'[o].wanted[sync'[o].role] = {}
    BY <1>4, <2>1, <2>2 DEF Exact
  <2> QED
    BY <2>1, <2>3, <2>4 DEF Exact
<1> QED
  BY <1>6, <1>8 DEF Reconciling

\* A session that begins, resolves an entry or is thrown out changes no role and
\* is not at the roles afterwards.
LEMMA NoRoleKeeps ==
  ASSUME Reconciling, Typed', NEW p \in Starters,
         \A q \in Starters \ {p} : sync'[q] = sync[q],
         holders' = holders, wrote' = wrote,
         sync'[p].stage # "roles",
         sync[p].stage \in {"roles", "raised"} =>
           sync'[p].stage = "raised" /\ sync'[p].wanted = sync[p].wanted,
         sync'[p].stage # "raised" =>
           /\ sync'[p].grant = sync[p].grant /\ sync'[p].revoke = sync[p].revoke
           /\ sync'[p].stage = "resolve" => sync'[p].left = Both
  PROVE  Reconciling'
<1>1. ASSUME NEW q \in Starters, q # p PROVE Unwritten(q)' /\ Exact(q)'
  BY <1>1, OthersKeep
<1>2. Exact(p)'
  BY DEF Exact
<1>3. Unwritten(p)'
  BY DEF Reconciling, Unwritten
<1> QED
  BY <1>1, <1>2, <1>3 DEF Reconciling

\* A session compares the next role: what it finds missing or unlisted it has to do.
LEMMA ReadKeeps ==
  ASSUME Reconciling, NEW p \in Starters, ReadHolders(p)
  PROVE  Reconciling'
<1>1. PICK r \in Roles :
      /\ r = Head(sync[p].left)
      /\ Typed' /\ sync[p].left \in {Both, <<"approver">>}
      /\ sync[p].grant = {} /\ sync[p].revoke = {}
      /\ sync'[p].stage = "roles" /\ sync'[p].left = Tail(sync[p].left)
      /\ sync'[p].role = r /\ sync'[p].wanted = sync[p].wanted
      /\ sync'[p].grant = sync[p].wanted[r] \ holders[r]
      /\ sync'[p].revoke = holders[r] \ sync[p].wanted[r]
      /\ \A q \in Starters \ {p} : sync'[q] = sync[q]
      /\ holders' = holders /\ wrote' = wrote
  BY ReadFacts DEF Reconciling
<1>2. ASSUME NEW q \in Starters, q # p PROVE Unwritten(q)' /\ Exact(q)'
  BY <1>1, <1>2, OthersKeep
<1>3. Unwritten(p)'
  BY <1>1 DEF Unwritten
<1>4. Settling(p, r)'
  BY <1>1 DEF Settling
<1>5. CASE sync[p].left = Both
  <2>1. r = "talker" /\ sync'[p].left = <<"approver">>
    BY <1>1, <1>5 DEF Both
  <2>2. Compared(p)' = {"talker"}
    BY <2>1 DEF Compared
  <2>3. Exact(p)'
    BY <1>1, <1>4, <2>1, <2>2 DEF Exact
  <2> QED
    BY <1>1, <1>2, <1>3, <2>3 DEF Reconciling
<1>6. CASE sync[p].left = <<"approver">>
  <2>1. r = "approver" /\ sync'[p].left = <<>> /\ sync[p].stage = "roles"
    <3>1. r = "approver" /\ sync'[p].left = <<>> /\ <<"approver">> # Both
      BY <1>1, <1>6 DEF Both
    <3>2. sync[p].stage \in {"resolve", "roles"}
      BY DEF ReadHolders, Writing
    <3> QED
      BY <1>6, <3>1, <3>2 DEF Reconciling, Unwritten
  <2>2. Agreed(p)' => Agreed(p)
    <3> SUFFICES ASSUME Agreed(p)', NEW o \in Starters, sync[o].stage \in {"roles", "raised"}
                 PROVE  sync[o].wanted = sync[p].wanted
      BY DEF Agreed
    <3>1. CASE o = p
      BY <3>1
    <3>2. CASE o # p
      BY <1>1, <3>2 DEF Agreed
    <3> QED
      BY <3>1, <3>2
  <2>3. Agreed(p) => Settling(p, "talker")
    BY <1>6, <2>1 DEF Reconciling, Exact, Compared
  <2>4. Settling(p, "talker") => Settling(p, "talker")'
    BY <1>1, <2>1 DEF Settling
  <2>5. Compared(p)' = Roles
    BY <2>1 DEF Compared
  <2>6. Exact(p)'
    BY <1>1, <1>4, <2>1, <2>2, <2>3, <2>4, <2>5 DEF Exact, Roles
  <2> QED
    BY <1>1, <1>2, <1>3, <2>6 DEF Reconciling
<1> QED
  BY <1>1, <1>5, <1>6

\* No statement of any session breaks the invariant.
LEMMA ReconcilingStep ==
  ASSUME Reconciling, NEW p \in Starters,
         SyncStep(p) \/ \E setting \in Settings : BeginSync(p, setting)
  PROVE  Reconciling'
<1>1. ASSUME NEW setting \in Settings, BeginSync(p, setting) PROVE Reconciling'
  <2>1. /\ Typed' /\ sync'[p].stage \in {"resolve", "skipped"} /\ sync'[p].left = Both
        /\ sync'[p].grant = sync[p].grant /\ sync'[p].revoke = sync[p].revoke
    BY <1>1, TypedBegin DEF Reconciling
  <2>2. sync[p].stage = "before" /\ holders' = holders /\ wrote' = wrote
        /\ \A q \in Starters \ {p} : sync'[q] = sync[q]
    BY <1>1 DEF BeginSync, Reconciling, Typed
  <2> QED
    BY <2>1, <2>2, NoRoleKeeps
<1>2. CASE ResolveEntry(p)
  <2>1. sync[p].left = Both
    BY <1>2, ResolveFacts DEF Reconciling, Unwritten
  <2> QED
    BY <1>2, <2>1, ResolveFacts, NoRoleKeeps DEF Reconciling
<1>3. CASE ReadHolders(p)
  BY <1>3, ReadKeeps
<1>4. CASE Grant(p)
  <2>1. sync[p].stage = "roles"
    BY <1>4 DEF Grant, Writing, Reconciling, Unwritten
  <2> QED
    BY <1>4, <2>1, GrantFacts, WriteKeeps DEF Reconciling
<1>5. CASE Revoke(p)
  <2>1. sync[p].stage = "roles"
    BY <1>5 DEF Revoke, Writing, Reconciling, Unwritten
  <2> QED
    BY <1>5, <2>1, RevokeFacts, WriteKeeps DEF Reconciling
<1>6. CASE DatabaseRaises(p)
  <2>1. sync'[p].wanted = sync[p].wanted
    BY <1>6 DEF DatabaseRaises, Reconciling, Typed, Progress
  <2> QED
    BY <1>6, <2>1, RaiseFacts, NoRoleKeeps DEF Reconciling
<1> QED
  BY <1>1, <1>2, <1>3, <1>4, <1>5, <1>6 DEF SyncStep

\* And it says nothing of anything but the tables and the sessions' progress.
LEMMA ReconcilingStutter == Reconciling /\ UNCHANGED identityVars => Reconciling'
<1> SUFFICES ASSUME Reconciling, UNCHANGED identityVars PROVE Reconciling'
  OBVIOUS
<1>1. bound' = bound /\ holders' = holders /\ sync' = sync /\ wrote' = wrote
  BY DEF identityVars
<1>2. Typed'
  BY <1>1 DEF Reconciling, Typed
<1>3. ASSUME NEW p \in Starters PROVE Unwritten(p)' /\ Exact(p)'
  <2>1. \A r : Settling(p, r)' <=> Settling(p, r)
    BY <1>1 DEF Settling
  <2> QED
    BY <1>1, <2>1 DEF Reconciling, Unwritten, Exact, Agreed, Compared
<1> QED
  BY <1>2, <1>3 DEF Reconciling

-----------------------------------------------------------------------------
(* The layers.                                                              *)

Phases == {"off", "sync", "install", "up", "down", "joinWorker", "joinBeat",
           "joinWatch", "joinAccept", "joinPump", "ended"}

\* What is in effect and never raised is what _installed counts.
Counted ==
  /\ installed \in 0 .. LayerCount /\ up \subseteq Layers
  /\ \A k \in Layers : k \in up \ raised <=> k <= installed

\* And what it counts is bounded by what the main thread is doing.
InPhase ==
  /\ main \in Phases
  /\ main \in {"off", "sync", "ended"} => installed = 0
  /\ main \in {"off", "sync", "install"} => raised = {}
  /\ main = "install" => installed < LayerCount
  /\ main = "up" => installed = LayerCount

Whole == Counted /\ InPhase

\* There are at least the three layers with threads of their own.
LEMMA LayersCounted == LayerCount \in Nat /\ LayerCount >= 3
  BY BridgeAssumption DEF C3

\* At the beginning no layer is there and none is counted.
LEMMA WholeInit == Init => Whole
<1> SUFFICES ASSUME Init PROVE Whole
  OBVIOUS
<1>1. main = "off" /\ installed = 0 /\ up = {} /\ raised = {}
  BY DEF Init
<1> QED
  BY <1>1, LayersCounted DEF Whole, Counted, InPhase, Phases, Layers

\* The invariant is what the property needs.
LEMMA WholeEnough == Whole => AllOrNothing
<1> SUFFICES ASSUME Whole PROVE AllOrNothing
  OBVIOUS
<1> USE LayersCounted DEF Whole, Counted, InPhase, Layers
<1>1. ASSUME main = "up" PROVE up = Layers
  <2>1. \A k \in Layers : k <= installed
    BY <1>1
  <2>2. \A k \in Layers : k \in up
    BY <2>1
  <2> QED
    BY <2>2, Zenon DEF Whole, Counted
<1>2. ASSUME NEW k \in up \ raised PROVE 1 .. k \subseteq up
  <2>1. k \in Layers /\ k <= installed
    OBVIOUS
  <2>2. ASSUME NEW j \in 1 .. k PROVE j \in up
    <3>1. j \in Layers /\ j <= installed
      BY <2>1
    <3> QED
      BY <3>1
  <2> QED
    BY <2>2
<1>3. main = "ended" => up \subseteq raised
  OBVIOUS
<1> QED
  BY <1>1, <1>2, <1>3 DEF AllOrNothing

\* on_startup before the first layer.
LEMMA WholeStart == Whole /\ (Activate \/ SyncEnds) => Whole'
<1> SUFFICES ASSUME Whole, Activate \/ SyncEnds PROVE Whole'
  OBVIOUS
<1>1. /\ main \in {"off", "sync"} /\ main' \in {"sync", "install", "ended"}
      /\ installed' = installed /\ up' = up /\ raised' = raised
  BY DEF Activate, SyncEnds, MainGo
<1>2. Counted'
  BY <1>1 DEF Whole, Counted
<1>3. InPhase'
  BY <1>1, LayersCounted DEF Whole, InPhase, Phases
<1> QED
  BY <1>2, <1>3 DEF Whole

\* A layer comes up or refuses, and the roll back begins.
LEMMA WholeInstall == Whole /\ (InstallLayer \/ LayerRefuses \/ Shutdown) => Whole'
<1> SUFFICES ASSUME Whole, InstallLayer \/ LayerRefuses \/ Shutdown PROVE Whole'
  OBVIOUS
<1> USE LayersCounted DEF Whole, Counted, InPhase, Phases, Layers
<1>1. CASE InstallLayer
  <2>1. /\ installed' = installed + 1 /\ up' = up \cup {installed + 1}
        /\ raised' = raised /\ installed < LayerCount
        /\ main' = IF installed + 1 = LayerCount THEN "up" ELSE "install"
    BY <1>1 DEF InstallLayer
  <2>2. installed + 1 \in Layers
    BY <2>1, LayersCounted
  <2>3. installed + 1 \notin raised
    BY <1>1 DEF InstallLayer
  <2>4. Counted'
    BY <2>1, <2>2, <2>3, LayersCounted
  <2>5. InPhase'
    BY <2>1, LayersCounted, <1>1 DEF InstallLayer
  <2> QED
    BY <2>4, <2>5
<1>2. CASE LayerRefuses
  BY <1>2 DEF LayerRefuses, MainGo, RollsBack
<1>3. CASE Shutdown
  BY <1>3 DEF Shutdown, MainGo
<1> QED
  BY <1>1, <1>2, <1>3

\* The topmost layer goes, or raises and stays in effect uncounted.
LEMMA WholeDown ==
  Whole /\ (TakeDown \/ CloseMailbox \/ StopClient \/ StopSupervisor \/ AllDown) => Whole'
<1> SUFFICES ASSUME Whole,
                    TakeDown \/ CloseMailbox \/ StopClient \/ StopSupervisor \/ AllDown
             PROVE Whole'
  OBVIOUS
<1> USE LayersCounted DEF Whole, Counted, InPhase, Phases, Layers, Uninstalled, Topmost
<1>1. CASE TakeDown
  <2>1. installed > 0 /\ installed' = installed - 1 /\ main = "down" /\ main' = main
    BY <1>1 DEF TakeDown
  <2>2. \/ up' = up \ {installed} /\ raised' = raised
        \/ up' = up /\ raised' = raised \cup {installed}
    BY <1>1 DEF TakeDown
  <2>3. installed' \in 0 .. LayerCount
    BY <2>1, LayersCounted
  <2>4. up' \subseteq up /\ up \subseteq Layers
    BY <2>2
  <2>5. ASSUME NEW k \in Layers PROVE k \in up' \ raised' <=> k <= installed'
    <3>1. k <= installed' <=> k <= installed /\ k # installed
      BY <2>1, LayersCounted
    <3>2. k \in up' \ raised' <=> k \in up \ raised /\ k # installed
      BY <2>2
    <3> QED
      BY <3>1, <3>2
  <2> QED
    BY <2>1, <2>3, <2>4, <2>5
<1>2. CASE CloseMailbox
  BY <1>2 DEF CloseMailbox, MainGo, C3
<1>3. CASE StopClient
  BY <1>3 DEF StopClient, MainGo, C2
<1>4. CASE StopSupervisor
  BY <1>4 DEF StopSupervisor, MainGo, C1
<1>5. CASE AllDown
  BY <1>5 DEF AllDown, MainGo
<1> QED
  BY <1>1, <1>2, <1>3, <1>4, <1>5

\* The joins move the main thread and nothing it counts.
LEMMA WholeJoin ==
  Whole /\ (JoinThread \/ StopBroker \/ CloseGateway \/ GatewayClosed) => Whole'
  BY DEF Whole, Counted, InPhase, Phases, Layers, JoinThread, StopBroker, CloseGateway,
         GatewayClosed, Joined, MainGo

\* Everybody else leaves the layers alone.
LEMMA WholeOthers == Whole /\ UNCHANGED mainVars => Whole'
  BY DEF Whole, Counted, InPhase, mainVars

\* Only on_startup and on_shutdown move the main thread.
LEMMA OthersLeaveMain ==
  (\/ Identify \/ Beat \/ Work \/ Elect \/ AcceptReturns \/ Discord
   \/ \E s \in Senders : Serve(s) \/ RefuseUnknown(s) \/ NobodyThere(s)
   \/ \E q \in Queues : Pump(q)) => UNCHANGED mainVars
<1>1. Identify \/ AcceptReturns \/ Discord \/ Elect => UNCHANGED mainVars
  BY DEF Identify, AcceptReturns, Discord, Elect
<1>2. Beat \/ Work => UNCHANGED mainVars
  BY DEF Beat, Work
<1>3. ASSUME NEW s \in Senders
      PROVE Serve(s) \/ RefuseUnknown(s) \/ NobodyThere(s) => UNCHANGED mainVars
  BY DEF Serve, RefuseUnknown, NobodyThere
<1>4. ASSUME NEW q \in Queues PROVE Pump(q) => UNCHANGED mainVars
  BY DEF Pump, StartJob, CreateThread, AddApprover, EndJob
<1> QED
  BY <1>1, <1>2, <1>3, <1>4

\* No step breaks it.
LEMMA WholeNext == Whole /\ [Next]_vars => Whole'
<1> SUFFICES ASSUME Whole, [Next]_vars PROVE Whole'
  OBVIOUS
<1>1. CASE Main
  BY <1>1, WholeStart, WholeInstall, WholeDown, WholeJoin DEF Main
<1>2. CASE Shutdown
  BY <1>2, WholeInstall
<1>3. CASE UNCHANGED vars
  BY <1>3, WholeOthers DEF vars, mainVars
<1>4. CASE Next /\ ~Main /\ ~Shutdown
  BY <1>4, OthersLeaveMain, WholeOthers DEF Next
<1> QED
  BY <1>1, <1>2, <1>3, <1>4

\* A layer is in effect only over all the layers below it, the bridge that is up
\* has them all, and in the end only what would not go is left
\* (_install_components, _uninstall_components).
THEOREM WholeOrNothing == Spec => []AllOrNothing
<1>1. Init => Whole
  BY WholeInit
<1>2. Whole /\ [Next]_vars => Whole'
  BY WholeNext
<1>3. Whole => AllOrNothing
  BY WholeEnough
<1> QED
  BY <1>1, <1>2, <1>3, PTL DEF Spec

-----------------------------------------------------------------------------
(* The people: the identities, and the approvers of a new thread.           *)

Doing == [act : {"nothing", "record", "create", "archive", "invite"},
        thread : 0 .. MaxThreads, left : SUBSET Addresses, due : SUBSET Addresses]

\* Whoever is not left to be added is in the thread, if Discord lets him.
Invited(q) ==
  doing[q].act = "invite" =>
    /\ doing[q].thread \in Threads
    /\ (doing[q].due \ doing[q].left) \ Unreachable \subseteq members[doing[q].thread]

Inviting ==
  /\ mapped \in 0 .. MaxThreads
  /\ doing \in [Queues -> Doing]
  /\ members \in [Threads -> SUBSET Addresses]
  /\ \A q \in Queues : Invited(q)

\* At the beginning nobody is being invited.
LEMMA InvitingInit == Init => Inviting
<1> SUFFICES ASSUME Init PROVE Inviting
  OBVIOUS
<1>1. Nothing \in Doing
  BY BridgeAssumption DEF Nothing, Doing
<1> QED
  BY <1>1, BridgeAssumption DEF Init, Inviting, Invited, Nothing

\* Once none is left, everyone who was due is there.
LEMMA InvitingEnough == Inviting => ApproversInvited
  BY DEF Inviting, Invited, ApproversInvited

\* A job starts: it knows at most the thread that is mapped.
LEMMA InvitingStart ==
  ASSUME Inviting, NEW q \in Queues, StartJob(q)
  PROVE  Inviting'
<1>1. members' = members
  BY DEF StartJob
<1>2. \/ mapped' = mapped /\ doing' = doing
      \/ /\ mapped' \in {0, mapped}
         /\ \E kind : doing' = [doing EXCEPT ![q] = Awaits(kind)]
  BY DEF StartJob
<1>3. ASSUME NEW kind PROVE Awaits(kind) \in Doing /\ Awaits(kind).act # "invite"
  <2>1. \A act \in {"nothing", "record", "create", "archive"}, t \in {0, mapped} :
           LET d == [act |-> act, thread |-> t, left |-> {}, due |-> {}]
           IN d \in Doing /\ d.act # "invite"
    BY BridgeAssumption DEF Doing, Inviting
  <2>2. \E act \in {"nothing", "record", "create", "archive"}, t \in {0, mapped} :
           Awaits(kind) = [act |-> act, thread |-> t, left |-> {}, due |-> {}]
    <3>1. CASE Awaits(kind) = [Nothing EXCEPT !.act = "record", !.thread = mapped]
      BY <3>1 DEF Nothing
    <3>2. CASE Awaits(kind) = [Nothing EXCEPT !.act = "create"]
      BY <3>2 DEF Nothing
    <3>3. CASE Awaits(kind) = [Nothing EXCEPT !.act = "archive", !.thread = mapped]
      BY <3>3 DEF Nothing
    <3>4. CASE Awaits(kind) = Nothing
      BY <3>4 DEF Nothing
    <3> QED
      BY <3>1, <3>2, <3>3, <3>4, Zenon DEF Awaits
  <2> QED
    BY <2>1, <2>2
<1> QED
  BY <1>1, <1>2, <1>3, BridgeAssumption DEF Inviting, Invited

\* A thread is created: everybody due is left to be added.
LEMMA InvitingCreate ==
  ASSUME Inviting, NEW q \in Queues, CreateThread(q)
  PROVE  Inviting'
<1>1. PICK t \in Threads :
        /\ mapped' = t
        /\ doing' = [doing EXCEPT ![q] =
             [act |-> "invite", thread |-> t,
              left |-> ApproverAddresses, due |-> ApproverAddresses]]
  BY DEF CreateThread
<1>2. members' = members
  BY DEF CreateThread
<1>3. [act |-> "invite", thread |-> t, left |-> ApproverAddresses, due |-> ApproverAddresses] \in Doing
  BY BridgeAssumption DEF Doing, Threads, ApproverAddresses
<1>4. mapped' \in 0 .. MaxThreads
  BY <1>1, BridgeAssumption DEF Threads
<1>5. doing' \in [Queues -> Doing]
  BY <1>1, <1>3 DEF Inviting
<1>6. ASSUME NEW r \in Queues PROVE Invited(r)'
  BY <1>1, <1>2 DEF Inviting, Invited
<1> QED
  BY <1>2, <1>4, <1>5, <1>6 DEF Inviting

\* One more is added, or refused by Discord.
LEMMA InvitingAdd ==
  ASSUME Inviting, NEW q \in Queues, AddApprover(q)
  PROVE  Inviting'
<1>1. PICK a \in doing[q].left :
        /\ doing' = [doing EXCEPT ![q] = [doing[q] EXCEPT !.left = @ \ {a}]]
        /\ members' = [members EXCEPT ![doing[q].thread] = @ \cup ({a} \ Unreachable)]
  BY DEF AddApprover
<1>2. doing[q] \in Doing /\ doing[q].act = "invite" /\ doing[q].thread \in Threads /\ mapped' = mapped
  BY DEF AddApprover, Inviting, Invited
<1>3. a \in Addresses
  BY <1>1, <1>2 DEF Doing
<1>4. [doing[q] EXCEPT !.left = @ \ {a}] \in Doing
  BY <1>2 DEF Doing
<1>5. doing' \in [Queues -> Doing] /\ members' \in [Threads -> SUBSET Addresses]
  BY <1>1, <1>2, <1>3, <1>4 DEF Inviting
<1>6. \A t \in Threads : members[t] \subseteq members'[t]
  BY <1>1 DEF Inviting
<1>7. {a} \ Unreachable \subseteq members'[doing[q].thread]
  BY <1>1, <1>2 DEF Inviting
<1>8. Invited(q)'
  <2>1. /\ doing'[q].thread = doing[q].thread /\ doing'[q].due = doing[q].due
        /\ doing'[q].left = doing[q].left \ {a}
    BY <1>1, <1>2 DEF Inviting, Doing
  <2>2. (doing[q].due \ doing[q].left) \ Unreachable \subseteq members'[doing[q].thread]
    BY <1>2, <1>6 DEF Inviting, Invited
  <2> QED
    BY <1>2, <1>7, <2>1, <2>2 DEF Invited
<1>9. ASSUME NEW r \in Queues, r # q PROVE Invited(r)'
  <2>1. doing'[r] = doing[r]
    BY <1>1, <1>9 DEF Inviting
  <2> QED
    BY <1>6, <2>1 DEF Inviting, Invited
<1> QED
  BY <1>2, <1>5, <1>8, <1>9 DEF Inviting

\* A job ends.
LEMMA InvitingEnd ==
  ASSUME Inviting, NEW q \in Queues, EndJob(q)
  PROVE  Inviting'
<1>1. /\ doing' = [doing EXCEPT ![q] = Nothing] /\ mapped' = mapped /\ members' = members
  BY DEF EndJob
<1>2. Nothing \in Doing /\ Nothing.act # "invite"
  BY BridgeAssumption DEF Nothing, Doing
<1> QED
  BY <1>1, <1>2 DEF Inviting, Invited

\* Nobody else touches a job or a thread's members.
LEMMA OnlyPumpsInvite ==
  (\/ Main \/ Shutdown \/ Identify
   \/ Beat \/ Work \/ Elect \/ AcceptReturns \/ Discord
   \/ \E s \in Senders : Serve(s) \/ RefuseUnknown(s) \/ NobodyThere(s)) => UNCHANGED worldVars
<1>1. Activate \/ SyncEnds \/ LayerRefuses \/ TakeDown \/ CloseMailbox \/ StopClient
        => UNCHANGED worldVars
  BY DEF Activate, SyncEnds, LayerRefuses, TakeDown, CloseMailbox, StopClient, threadVars
<1>2. InstallLayer => UNCHANGED worldVars
  BY DEF InstallLayer, Starts
<1>3. StopSupervisor \/ JoinThread \/ StopBroker \/ CloseGateway \/ GatewayClosed \/ AllDown
        => UNCHANGED worldVars
  BY DEF StopSupervisor, JoinThread, StopBroker, CloseGateway, GatewayClosed, AllDown, threadVars
<1>4. Shutdown \/ Identify \/ Elect \/ AcceptReturns \/ Discord => UNCHANGED worldVars
  BY DEF Shutdown, Identify, Elect, AcceptReturns, Discord, threadVars
<1>5. Beat \/ Work => UNCHANGED worldVars
  BY DEF Beat, Work
<1>6. ASSUME NEW s \in Senders
      PROVE Serve(s) \/ RefuseUnknown(s) \/ NobodyThere(s) => UNCHANGED worldVars
  BY DEF Serve, RefuseUnknown, NobodyThere
<1> QED
  BY <1>1, <1>2, <1>3, <1>4, <1>5, <1>6 DEF Main

\* No step breaks it.
LEMMA InvitingNext == Inviting /\ [Next]_vars => Inviting'
<1> SUFFICES ASSUME Inviting, [Next]_vars PROVE Inviting'
  OBVIOUS
<1>1. CASE UNCHANGED worldVars
  BY <1>1 DEF worldVars, Inviting, Invited
<1>2. CASE \E q \in Queues : Pump(q)
  BY <1>2, InvitingStart, InvitingCreate, InvitingAdd, InvitingEnd DEF Pump
<1>3. UNCHANGED vars => UNCHANGED worldVars
  BY DEF vars, threadVars
<1> QED
  BY <1>1, <1>2, <1>3, OnlyPumpsInvite DEF Next

\* The tables and the sessions' progress change by the statements alone.
LEMMA OnlyStatementsIdentify ==
  Next => \/ UNCHANGED identityVars
          \/ \E p \in Starters : SyncStep(p) \/ \E setting \in Settings : BeginSync(p, setting)
<1>1. SyncEnds \/ LayerRefuses \/ TakeDown \/ CloseMailbox \/ StopClient \/ InstallLayer
        => UNCHANGED identityVars
  BY DEF SyncEnds, LayerRefuses, TakeDown, CloseMailbox, StopClient, InstallLayer
<1>2. StopSupervisor \/ JoinThread \/ StopBroker \/ CloseGateway \/ GatewayClosed \/ AllDown
        => UNCHANGED identityVars
  BY DEF StopSupervisor, JoinThread, StopBroker, CloseGateway, GatewayClosed, AllDown
<1>3. Shutdown \/ Elect \/ AcceptReturns \/ Discord \/ Beat \/ Work => UNCHANGED identityVars
  BY DEF Shutdown, Elect, AcceptReturns, Discord, Beat, Work
<1>4. ASSUME NEW s \in Senders
      PROVE Serve(s) \/ RefuseUnknown(s) \/ NobodyThere(s) => UNCHANGED identityVars
  BY DEF Serve, RefuseUnknown, NobodyThere
<1>5. ASSUME NEW q \in Queues PROVE Pump(q) => UNCHANGED identityVars
  BY DEF Pump, StartJob, CreateThread, AddApprover, EndJob
<1>6. Activate => \/ UNCHANGED identityVars
                  \/ \E setting \in Settings : BeginSync(Me, setting)
  BY DEF Activate
<1>7. Me \in Starters
  BY BridgeAssumption
<1>8. Identify => \E p \in Starters : SyncStep(p) \/ \E setting \in Settings : BeginSync(p, setting)
  BY DEF Identify
<1> QED
  BY <1>1, <1>2, <1>3, <1>4, <1>5, <1>6, <1>7, <1>8 DEF Next, Main

\* Who may decide is who is listed, however the sessions' statements interleave
\* and whichever of them raise; a session whose configuration is refused has
\* changed nobody's role; and every approver of the moment is added to the
\* thread that is made, as far as Discord lets it (sync_from_config,
\* add_approvers).
THEOREM TheRightPeople == Spec => []RightPeople
<1>1. Init => Reconciling /\ Inviting
  BY ReconcilingInit, InvitingInit DEF Init
<1>2. Reconciling /\ [Next]_vars => Reconciling'
  <2>1. UNCHANGED vars => UNCHANGED identityVars
    BY DEF vars
  <2> QED
    BY <2>1, OnlyStatementsIdentify, ReconcilingStep, ReconcilingStutter
<1>3. Inviting /\ [Next]_vars => Inviting'
  BY InvitingNext
<1>4. Reconciling /\ Inviting => RightPeople
  BY ReconcilingEnough, InvitingEnough DEF RightPeople
<1> QED
  BY <1>1, <1>2, <1>3, <1>4, PTL DEF Spec

-----------------------------------------------------------------------------
(* Lists of jobs: which are in them, once each, in which order.             *)

Entries == Job \cup {Stop}
JobName(j) == <<j.by, j.n>>
Named(s) == {JobName(j) : j \in JobsOf(s) \ {Stop}}
NoneTwice(s) ==
  \A i, j \in 1 .. Len(s) :
    s[i] # Stop /\ s[j] # Stop /\ JobName(s[i]) = JobName(s[j]) => i = j

\* The sentinel and the absence of a job are no jobs.
LEMMA JobsAreJobs == /\ Stop \notin Job /\ NoJob \notin Job /\ Stop # NoJob
                     /\ \A j \in Job : /\ j.by \in Callers /\ j.n \in 1 .. MaxJobs
                                       /\ j.kind \in Kinds /\ j.held \in BOOLEAN
<1>1. \A j \in Job : j.n \in 1 .. MaxJobs /\ j.by \in Callers /\ j.kind \in Kinds /\ j.held \in BOOLEAN
  BY DEF Job
<1>2. \A j \in Job : "n" \in DOMAIN j
  BY DEF Job
<1>3. "n" \notin DOMAIN Stop /\ "n" \notin DOMAIN NoJob
  BY DEF Stop, NoJob
<1>4. Stop.by = "close" /\ NoJob.by = "nobody"
  BY DEF Stop, NoJob
<1> QED
  BY <1>1, <1>2, <1>3, <1>4

\* What a list of work is, by its elements.
LEMMA ListFacts ==
  ASSUME NEW S, NEW s \in Seq(S)
  PROVE  /\ Len(s) \in Nat /\ DOMAIN s = 1 .. Len(s)
         /\ JobsOf(s) = {s[i] : i \in 1 .. Len(s)} /\ JobsOf(s) \subseteq S
         /\ s # <<>> => Len(s) >= 1
BY LenProperties, EmptySeq DEF JobsOf

\* An empty list.
LEMMA NoWork == JobsOf(<<>>) = {} /\ Named(<<>>) = {} /\ NoneTwice(<<>>) /\ Ordered(<<>>)
BY DEF JobsOf, Named, NoneTwice, Ordered

\* A list of one job, or of none.
LEMMA OnlyOne ==
  /\ Only(NoJob) = <<>>
  /\ \A j \in Job : /\ Only(j) \in Seq(Job) /\ JobsOf(Only(j)) = {j}
                    /\ Named(Only(j)) = {JobName(j)} /\ NoneTwice(Only(j))
<1>1. Only(NoJob) = <<>>
  BY DEF Only
<1>2. ASSUME NEW j \in Job
      PROVE  /\ Only(j) \in Seq(Job) /\ JobsOf(Only(j)) = {j}
             /\ Named(Only(j)) = {JobName(j)} /\ NoneTwice(Only(j))
  <2>1. Only(j) = <<j>>
    BY JobsAreJobs DEF Only
  <2>2. JobsOf(Only(j)) = {j}
    BY <2>1 DEF JobsOf
  <2>3. Named(Only(j)) = {JobName(j)}
    BY <2>2, JobsAreJobs DEF Named
  <2> QED
    BY <2>1, <2>2, <2>3 DEF NoneTwice
<1> QED
  BY <1>1, <1>2

\* One more at the end.
LEMMA JobsAppended ==
  ASSUME NEW S, NEW s \in Seq(S), NEW j \in S
  PROVE  JobsOf(Append(s, j)) = JobsOf(s) \cup {j}
<1> DEFINE t == Append(s, j)
<1>1. /\ t \in Seq(S) /\ Len(t) = Len(s) + 1 /\ Len(s) \in Nat
      /\ \A i \in 1 .. Len(s) : t[i] = s[i]
      /\ t[Len(s) + 1] = j
  BY AppendProperties, LenProperties
<1>2. JobsOf(t) = {t[i] : i \in 1 .. Len(s) + 1} /\ JobsOf(s) = {s[i] : i \in 1 .. Len(s)}
  BY <1>1, ListFacts
<1> HIDE DEF t
<1>3. \A i \in 1 .. Len(s) + 1 : i \in 1 .. Len(s) \/ i = Len(s) + 1
  BY <1>1
<1>4. 1 .. Len(s) \subseteq 1 .. Len(s) + 1 /\ Len(s) + 1 \in 1 .. Len(s) + 1
  BY <1>1
<1>5. JobsOf(t) = JobsOf(s) \cup {j}
  BY <1>1, <1>2, <1>3, <1>4
<1> QED
  BY <1>5 DEF t

\* The oldest is taken.
LEMMA JobsTaken ==
  ASSUME NEW S, NEW s \in Seq(S), s # <<>>
  PROVE  /\ Head(s) = s[1] /\ Head(s) \in JobsOf(s)
         /\ JobsOf(s) = JobsOf(Tail(s)) \cup {Head(s)}
<1> DEFINE t == Tail(s)
<1>1. /\ t \in Seq(S) /\ Len(t) = Len(s) - 1 /\ Len(s) \in Nat /\ Len(s) >= 1
      /\ \A i \in 1 .. Len(t) : t[i] = s[i + 1]
  BY HeadTailProperties, ListFacts
<1>2. JobsOf(t) = {t[i] : i \in 1 .. Len(s) - 1} /\ JobsOf(s) = {s[i] : i \in 1 .. Len(s)}
  BY <1>1, ListFacts
<1>3. Head(s) = s[1]
  OBVIOUS
<1> HIDE DEF t
<1>4. ASSUME NEW i \in 1 .. Len(s) PROVE s[i] \in JobsOf(t) \cup {s[1]}
  <2>1. CASE i = 1
    BY <2>1
  <2>2. CASE i # 1
    <3>1. i - 1 \in 1 .. Len(s) - 1 /\ t[i - 1] = s[i]
      BY <1>1, <2>2
    <3> QED
      BY <1>2, <3>1
  <2> QED
    BY <2>1, <2>2
<1>5. ASSUME NEW i \in 1 .. Len(s) - 1 PROVE t[i] \in JobsOf(s)
  <2>1. i + 1 \in 1 .. Len(s) /\ t[i] = s[i + 1]
    BY <1>1
  <2> QED
    BY <1>2, <2>1
<1>6. 1 \in 1 .. Len(s)
  BY <1>1
<1>7. JobsOf(s) = JobsOf(t) \cup {s[1]}
  BY <1>2, <1>4, <1>5, <1>6
<1> QED
  BY <1>2, <1>3, <1>6, <1>7 DEF t

\* A job that is not yet in a list is added to it.
LEMMA NamesAppended ==
  ASSUME NEW s \in Seq(Entries), NEW j \in Job, NoneTwice(s), JobName(j) \notin Named(s)
  PROVE  /\ Append(s, j) \in Seq(Entries)
         /\ Named(Append(s, j)) = Named(s) \cup {JobName(j)} /\ NoneTwice(Append(s, j))
<1> DEFINE t == Append(s, j)
<1>1. j \in Entries /\ j # Stop
  BY JobsAreJobs DEF Entries
<1>2. /\ t \in Seq(Entries) /\ Len(t) = Len(s) + 1 /\ Len(s) \in Nat
      /\ \A i \in 1 .. Len(s) : t[i] = s[i]
      /\ t[Len(s) + 1] = j
  BY <1>1, AppendProperties, LenProperties
<1>3. JobsOf(t) = JobsOf(s) \cup {j}
  BY <1>1, JobsAppended
<1>4. \A i \in 1 .. Len(s) : s[i] # Stop => JobName(s[i]) \in Named(s)
  BY ListFacts DEF Named
<1> HIDE DEF t
<1>5. Named(t) = Named(s) \cup {JobName(j)}
  BY <1>1, <1>3 DEF Named
<1>6. NoneTwice(t)
  <2> SUFFICES ASSUME NEW i \in 1 .. Len(t), NEW k \in 1 .. Len(t), t[i] # Stop, t[k] # Stop,
                      JobName(t[i]) = JobName(t[k])
               PROVE  i = k
    BY DEF NoneTwice
  <2>1. /\ i \in 1 .. Len(s) \/ i = Len(s) + 1
        /\ k \in 1 .. Len(s) \/ k = Len(s) + 1
    BY <1>2
  <2>2. CASE i \in 1 .. Len(s) /\ k \in 1 .. Len(s)
    BY <1>2, <2>2 DEF NoneTwice
  <2>3. CASE i \in 1 .. Len(s) /\ k = Len(s) + 1
    BY <1>2, <1>4, <2>3
  <2>4. CASE i = Len(s) + 1 /\ k \in 1 .. Len(s)
    BY <1>2, <1>4, <2>4
  <2> QED
    BY <2>1, <2>2, <2>3, <2>4
<1> QED
  BY <1>2, <1>5, <1>6 DEF t

\* The sentinel is added.
LEMMA StopAppended ==
  ASSUME NEW s \in Seq(Entries), NoneTwice(s)
  PROVE  /\ Append(s, Stop) \in Seq(Entries)
         /\ Named(Append(s, Stop)) = Named(s) /\ NoneTwice(Append(s, Stop))
<1> DEFINE t == Append(s, Stop)
<1>1. Stop \in Entries
  BY DEF Entries
<1>2. /\ t \in Seq(Entries) /\ Len(t) = Len(s) + 1 /\ Len(s) \in Nat
      /\ \A i \in 1 .. Len(s) : t[i] = s[i]
      /\ t[Len(s) + 1] = Stop
  BY <1>1, AppendProperties, LenProperties
<1>3. JobsOf(t) = JobsOf(s) \cup {Stop}
  BY <1>1, JobsAppended
<1> HIDE DEF t
<1>4. Named(t) = Named(s)
  BY <1>3 DEF Named
<1>5. \A i \in 1 .. Len(t) : t[i] # Stop => i \in 1 .. Len(s) /\ t[i] = s[i]
  BY <1>2
<1>6. NoneTwice(t)
  BY <1>5 DEF NoneTwice
<1> QED
  BY <1>2, <1>4, <1>6 DEF t

\* The oldest is taken out of a list that has nothing twice.
LEMMA NamesTaken ==
  ASSUME NEW s \in Seq(Entries), s # <<>>, NoneTwice(s)
  PROVE  /\ Tail(s) \in Seq(Entries) /\ Head(s) \in Entries /\ NoneTwice(Tail(s))
         /\ Head(s) = Stop => Named(Tail(s)) = Named(s)
         /\ Head(s) # Stop => /\ JobName(Head(s)) \in Named(s)
                              /\ Named(Tail(s)) = Named(s) \ {JobName(Head(s))}
<1> DEFINE t == Tail(s)
<1>1. /\ t \in Seq(Entries) /\ Len(t) = Len(s) - 1 /\ Len(s) \in Nat /\ Len(s) >= 1
      /\ \A i \in 1 .. Len(t) : t[i] = s[i + 1]
      /\ Head(s) \in Entries
  BY HeadTailProperties, ListFacts
<1>2. /\ Head(s) = s[1] /\ Head(s) \in JobsOf(s)
      /\ JobsOf(s) = JobsOf(t) \cup {Head(s)}
  BY JobsTaken
<1>3. JobsOf(t) = {t[i] : i \in 1 .. Len(t)}
  BY <1>1, ListFacts
<1> HIDE DEF t
<1>4. NoneTwice(t)
  <2> SUFFICES ASSUME NEW i \in 1 .. Len(t), NEW k \in 1 .. Len(t), t[i] # Stop, t[k] # Stop,
                      JobName(t[i]) = JobName(t[k])
               PROVE  i = k
    BY DEF NoneTwice
  <2>1. i + 1 \in 1 .. Len(s) /\ k + 1 \in 1 .. Len(s)
    BY <1>1
  <2>2. i + 1 = k + 1
    BY <1>1, <2>1 DEF NoneTwice
  <2> QED
    BY <2>2
<1>5. ASSUME NEW i \in 1 .. Len(t), t[i] # Stop, Head(s) # Stop
      PROVE  JobName(t[i]) # JobName(Head(s))
  <2>1. i + 1 \in 1 .. Len(s) /\ 1 \in 1 .. Len(s) /\ i + 1 # 1
    BY <1>1
  <2> QED
    BY <1>1, <1>2, <1>5, <2>1 DEF NoneTwice
<1>6. Head(s) = Stop => Named(t) = Named(s)
  BY <1>2 DEF Named
<1>7. ASSUME Head(s) # Stop
      PROVE  JobName(Head(s)) \in Named(s) /\ Named(t) = Named(s) \ {JobName(Head(s))}
  <2>1. \A j \in JobsOf(t) \ {Stop} : JobName(j) # JobName(Head(s))
    BY <1>3, <1>5, <1>7
  <2> QED
    BY <1>2, <1>7, <2>1 DEF Named
<1> QED
  BY <1>1, <1>4, <1>6, <1>7 DEF t

\* A job is asked for after all that stand before it.
LEMMA OrderAppended ==
  ASSUME NEW S, NEW s \in Seq(S), NEW j \in S, Ordered(s),
         \A k \in JobsOf(s) : AskedBefore(k, j)
  PROVE  Ordered(Append(s, j))
<1> DEFINE t == Append(s, j)
<1>1. /\ t \in Seq(S) /\ Len(t) = Len(s) + 1 /\ Len(s) \in Nat
      /\ \A i \in 1 .. Len(s) : t[i] = s[i]
      /\ t[Len(s) + 1] = j
  BY AppendProperties, LenProperties
<1>2. DOMAIN t = 1 .. Len(s) + 1 /\ DOMAIN s = 1 .. Len(s)
  BY <1>1, LenProperties
<1>3. \A i \in 1 .. Len(s) : s[i] \in JobsOf(s)
  BY ListFacts
<1> HIDE DEF t
<1>4. ASSUME NEW i \in 1 .. Len(s) + 1, NEW k \in 1 .. Len(s) + 1, i < k
      PROVE  AskedBefore(t[i], t[k])
  <2>1. i \in 1 .. Len(s)
    BY <1>1, <1>4
  <2>2. CASE k \in 1 .. Len(s)
    BY <1>1, <1>2, <1>4, <2>1, <2>2 DEF Ordered
  <2>3. CASE k = Len(s) + 1
    BY <1>1, <1>3, <2>1, <2>3
  <2> QED
    BY <1>1, <2>2, <2>3
<1>5. Ordered(t)
  BY <1>2, <1>4 DEF Ordered
<1> QED
  BY <1>5 DEF t

\* What stands behind the oldest is asked for after it.
LEMMA OrderTaken ==
  ASSUME NEW S, NEW s \in Seq(S), s # <<>>, Ordered(s)
  PROVE  Ordered(Tail(s)) /\ \A k \in JobsOf(Tail(s)) : AskedBefore(Head(s), k)
<1> DEFINE t == Tail(s)
<1>1. /\ t \in Seq(S) /\ Len(t) = Len(s) - 1 /\ Len(s) \in Nat /\ Len(s) >= 1
      /\ \A i \in 1 .. Len(t) : t[i] = s[i + 1]
  BY HeadTailProperties, ListFacts
<1>2. Head(s) = s[1]
  OBVIOUS
<1>3. DOMAIN t = 1 .. Len(t) /\ DOMAIN s = 1 .. Len(s) /\ JobsOf(t) = {t[i] : i \in 1 .. Len(t)}
  BY <1>1, ListFacts
<1> HIDE DEF t
<1>4. \A i \in 1 .. Len(t) : i + 1 \in 1 .. Len(s) /\ 1 \in 1 .. Len(s) /\ 1 < i + 1
  BY <1>1
<1>5. Ordered(t)
  <2> SUFFICES ASSUME NEW i \in 1 .. Len(t), NEW k \in 1 .. Len(t), i < k
               PROVE  AskedBefore(t[i], t[k])
    BY <1>3 DEF Ordered
  <2>1. i + 1 < k + 1
    BY <1>1
  <2> QED
    BY <1>1, <1>3, <1>4, <2>1 DEF Ordered
<1>6. \A i \in 1 .. Len(t) : AskedBefore(s[1], t[i])
  BY <1>1, <1>3, <1>4 DEF Ordered
<1> QED
  BY <1>2, <1>3, <1>5, <1>6 DEF t

\* Two lists in order, the first before the second.
LEMMA OrderJoined ==
  ASSUME NEW S, NEW s \in Seq(S), NEW t \in Seq(S), Ordered(s), Ordered(t),
         \A j \in JobsOf(s), k \in JobsOf(t) : AskedBefore(j, k)
  PROVE  Ordered(s \o t) /\ JobsOf(s \o t) = JobsOf(s) \cup JobsOf(t)
<1> DEFINE u == s \o t
<1>1. /\ u \in Seq(S) /\ Len(u) = Len(s) + Len(t) /\ Len(s) \in Nat /\ Len(t) \in Nat
      /\ \A i \in 1 .. Len(s) + Len(t) : u[i] = IF i <= Len(s) THEN s[i] ELSE t[i - Len(s)]
  BY ConcatProperties, LenProperties
<1>2. /\ DOMAIN u = 1 .. Len(s) + Len(t) /\ DOMAIN s = 1 .. Len(s) /\ DOMAIN t = 1 .. Len(t)
      /\ JobsOf(u) = {u[i] : i \in 1 .. Len(s) + Len(t)}
      /\ JobsOf(s) = {s[i] : i \in 1 .. Len(s)} /\ JobsOf(t) = {t[i] : i \in 1 .. Len(t)}
  BY <1>1, ListFacts
<1> HIDE DEF u
<1>3. ASSUME NEW i \in 1 .. Len(s) + Len(t)
      PROVE  \/ i \in 1 .. Len(s) /\ u[i] = s[i]
             \/ i > Len(s) /\ i - Len(s) \in 1 .. Len(t) /\ u[i] = t[i - Len(s)]
  BY <1>1
<1>4. ASSUME NEW i \in 1 .. Len(s) + Len(t), NEW k \in 1 .. Len(s) + Len(t), i < k
      PROVE  AskedBefore(u[i], u[k])
  <2>1. CASE i \in 1 .. Len(s) /\ u[i] = s[i] /\ k \in 1 .. Len(s) /\ u[k] = s[k]
    BY <1>2, <1>4, <2>1 DEF Ordered
  <2>2. CASE /\ i \in 1 .. Len(s) /\ u[i] = s[i]
             /\ k > Len(s) /\ k - Len(s) \in 1 .. Len(t) /\ u[k] = t[k - Len(s)]
    BY <1>2, <2>2
  <2>3. CASE /\ i > Len(s) /\ i - Len(s) \in 1 .. Len(t) /\ u[i] = t[i - Len(s)]
             /\ k > Len(s) /\ k - Len(s) \in 1 .. Len(t) /\ u[k] = t[k - Len(s)]
    <3>1. i - Len(s) < k - Len(s)
      BY <1>1, <1>4
    <3> QED
      BY <1>2, <2>3, <3>1 DEF Ordered
  <2>4. ~(i > Len(s) /\ k \in 1 .. Len(s))
    BY <1>1, <1>4
  <2>5. \/ i \in 1 .. Len(s) /\ u[i] = s[i]
        \/ i > Len(s) /\ i - Len(s) \in 1 .. Len(t) /\ u[i] = t[i - Len(s)]
    BY <1>3
  <2>6. \/ k \in 1 .. Len(s) /\ u[k] = s[k]
        \/ k > Len(s) /\ k - Len(s) \in 1 .. Len(t) /\ u[k] = t[k - Len(s)]
    BY <1>3
  <2> QED
    BY <2>1, <2>2, <2>3, <2>4, <2>5, <2>6, Zenon
<1>5. ASSUME NEW i \in 1 .. Len(s) PROVE s[i] \in JobsOf(u)
  <2>1. i \in 1 .. Len(s) + Len(t) /\ u[i] = s[i]
    BY <1>1
  <2> QED
    BY <1>2, <2>1
<1>6. ASSUME NEW i \in 1 .. Len(t) PROVE t[i] \in JobsOf(u)
  <2>1. PICK k \in 1 .. Len(s) + Len(t) : ~(k <= Len(s)) /\ k - Len(s) = i
    <3>1. /\ i + Len(s) \in 1 .. Len(s) + Len(t)
          /\ ~(i + Len(s) <= Len(s)) /\ (i + Len(s)) - Len(s) = i
      BY <1>1
    <3> QED
      BY <3>1
  <2>2. u[k] = t[i]
    BY <1>1, <2>1
  <2> QED
    BY <1>2, <2>2
<1>7. JobsOf(u) = JobsOf(s) \cup JobsOf(t)
  BY <1>2, <1>3, <1>5, <1>6
<1>8. Ordered(u)
  BY <1>2, <1>4 DEF Ordered
<1> QED
  BY <1>7, <1>8 DEF u

-----------------------------------------------------------------------------
(* The places a job can be in.                                              *)

Hand(c)   == <<"hand", c>>
InQueue(q) == <<"queue", q>>
InPump(q) == <<"pump", q>>
InRan(q)  == <<"ran", q>>
InHeld    == <<"list", "held">>
InRefill  == <<"list", "refill">>
InDropped == <<"list", "dropped">>

\* Each place is one of these.
LEMMA PlaceCases ==
  /\ \A c \in Callers : Hand(c) \in Places
  /\ \A q \in Queues : InQueue(q) \in Places /\ InPump(q) \in Places /\ InRan(q) \in Places
  /\ InHeld \in Places /\ InRefill \in Places /\ InDropped \in Places
  /\ \A p \in Places :
       \/ \E c \in Callers : p = Hand(c)
       \/ \E q \in Queues : p = InQueue(q) \/ p = InPump(q) \/ p = InRan(q)
       \/ p = InHeld \/ p = InRefill \/ p = InDropped
BY DEF Hand, InQueue, InPump, InRan, InHeld, InRefill, InDropped, Places

\* And no two of them are the same.
LEMMA PlacesDiffer ==
  /\ InHeld # InRefill /\ InHeld # InDropped /\ InRefill # InDropped
  /\ \A c : Hand(c) # InHeld /\ Hand(c) # InRefill /\ Hand(c) # InDropped
  /\ \A q : /\ InQueue(q) # InHeld /\ InQueue(q) # InRefill /\ InQueue(q) # InDropped
            /\ InPump(q) # InHeld /\ InPump(q) # InRefill /\ InPump(q) # InDropped
            /\ InRan(q) # InHeld /\ InRan(q) # InRefill /\ InRan(q) # InDropped
  /\ \A q, r : InQueue(q) # InPump(r) /\ InQueue(q) # InRan(r) /\ InPump(q) # InRan(r)
  /\ \A c, q : Hand(c) # InQueue(q) /\ Hand(c) # InPump(q) /\ Hand(c) # InRan(q)
  /\ \A c, d : /\ Hand(c) = Hand(d) => c = d
               /\ InQueue(c) = InQueue(d) => c = d
               /\ InPump(c) = InPump(d) => c = d
               /\ InRan(c) = InRan(d) => c = d
BY DEF Hand, InQueue, InPump, InRan, InHeld, InRefill, InDropped

\* What is in them, before and after a step.
LEMMA Contents ==
  /\ \A c \in Callers : At(Hand(c)) = Only(handing[c].job)
  /\ \A q \in Queues : /\ At(InQueue(q)) = queue[q]
                       /\ At(InPump(q)) = Only(pump[q].job)
                       /\ At(InRan(q)) = ran[q]
  /\ At(InHeld) = held /\ At(InRefill) = refill /\ At(InDropped) = dropped
BY DEF At, Hand, InQueue, InPump, InRan, InHeld, InRefill, InDropped

LEMMA ContentsNext ==
  /\ \A c \in Callers : At(Hand(c))' = Only(handing'[c].job)
  /\ \A q \in Queues : /\ At(InQueue(q))' = queue'[q]
                       /\ At(InPump(q))' = Only(pump'[q].job)
                       /\ At(InRan(q))' = ran'[q]
  /\ At(InHeld)' = held' /\ At(InRefill)' = refill' /\ At(InDropped)' = dropped'
BY DEF At, Hand, InQueue, InPump, InRan, InHeld, InRefill, InDropped

\* Every job that was asked for is in one place, once.
Requested == UNION {{c} \X (1 .. asked[c]) : c \in Callers}
Apart ==
  /\ \A p \in Places : NoneTwice(At(p))
  /\ \A p, r \in Places : p # r => Named(At(p)) \cap Named(At(r)) = {}
  /\ UNION {Named(At(p)) : p \in Places} = Requested

\* The jobs X go from a to b, and D from b to d.
Moves(a, b, d, X, D) ==
  /\ a \in Places /\ b \in Places /\ d \in Places /\ a # b /\ b # d /\ a # d
  /\ X \subseteq Named(At(a)) /\ D \subseteq Named(At(b)) \cup X
  /\ Named(At(a)') = Named(At(a)) \ X
  /\ Named(At(b)') = (Named(At(b)) \cup X) \ D
  /\ Named(At(d)') = Named(At(d)) \cup D
  /\ NoneTwice(At(a)') /\ NoneTwice(At(b)') /\ NoneTwice(At(d)')
  /\ \A p \in Places \ {a, b, d} : At(p)' = At(p)
  /\ asked' = asked

\* Then they are still in one place.
LEMMA JobsMove ==
  ASSUME Apart, NEW a, NEW b, NEW d, NEW X, NEW D, Moves(a, b, d, X, D)
  PROVE  Apart'
<1> USE DEF Moves
<1>1. PICK f : f = [p \in Places |-> Named(At(p))]
  OBVIOUS
<1>2. PICK g : g = [p \in Places |-> Named(At(p)')]
  OBVIOUS
<1>3. /\ X \subseteq f[a] /\ D \subseteq f[b] \cup X
      /\ g[a] = f[a] \ X /\ g[b] = (f[b] \cup X) \ D /\ g[d] = f[d] \cup D
      /\ \A p \in Places \ {a, b, d} : g[p] = f[p]
  BY <1>1, <1>2
<1>4. \A p, r \in Places : p # r => f[p] \cap f[r] = {}
  BY <1>1 DEF Apart
<1>5. UNION {f[p] : p \in Places} = Requested
  <2>1. \A p \in Places : f[p] = Named(At(p))
    BY <1>1
  <2> QED
    BY <2>1 DEF Apart
<1>6. ASSUME NEW p \in Places, NEW r \in Places, p # r PROVE g[p] \cap g[r] = {}
  <2>1. /\ f[p] \cap f[r] = {} /\ f[a] \cap f[b] = {} /\ f[a] \cap f[d] = {} /\ f[b] \cap f[d] = {}
        /\ p # a => f[p] \cap f[a] = {}
        /\ p # b => f[p] \cap f[b] = {}
        /\ p # d => f[p] \cap f[d] = {}
        /\ r # a => f[r] \cap f[a] = {}
        /\ r # b => f[r] \cap f[b] = {}
        /\ r # d => f[r] \cap f[d] = {}
    BY <1>4, <1>6
  <2>2. CASE p \in {a, b, d}
    <3>1. CASE r \in {a, b, d}
      BY <1>3, <1>6, <2>1, <2>2, <3>1
    <3>2. CASE r \notin {a, b, d}
      BY <1>3, <1>6, <2>1, <2>2, <3>2
    <3> QED
      BY <3>1, <3>2
  <2>3. CASE p \notin {a, b, d}
    <3>1. CASE r \in {a, b, d}
      BY <1>3, <1>6, <2>1, <2>3, <3>1
    <3>2. CASE r \notin {a, b, d}
      BY <1>3, <1>6, <2>1, <2>3, <3>2
    <3> QED
      BY <3>1, <3>2
  <2> QED
    BY <2>2, <2>3
<1>7. UNION {g[p] : p \in Places} = UNION {f[p] : p \in Places}
  <2>1. ASSUME NEW p \in Places PROVE g[p] \subseteq UNION {f[r] : r \in Places}
    BY <1>3
  <2>2. ASSUME NEW p \in Places PROVE f[p] \subseteq UNION {g[r] : r \in Places}
    <3>1. f[p] \subseteq g[p] \cup g[a] \cup g[b] \cup g[d]
      BY <1>3
    <3> QED
      BY <3>1
  <2> QED
    BY <2>1, <2>2
<1>8. \A p \in Places : g[p] = Named(At(p)')
  BY <1>2
<1>9. UNION {Named(At(p)') : p \in Places} = UNION {g[p] : p \in Places}
  BY <1>8
<1>10. Requested' = Requested
  BY DEF Requested
<1>11. \A p \in Places : NoneTwice(At(p)')
  BY DEF Apart
<1>12. Places' = Places
  BY DEF Places, Queues
<1> QED
  BY <1>5, <1>6, <1>7, <1>8, <1>9, <1>10, <1>11, <1>12 DEF Apart

\* Nothing moves.
LEMMA NothingMoves ==
  ASSUME Apart, UNCHANGED <<asked, handing, held, refill, dropped, ran>>,
         \A q \in Queues : pump'[q].job = pump[q].job,
         \A q \in Queues : /\ Named(queue'[q]) = Named(queue[q])
                          /\ NoneTwice(queue'[q])
  PROVE  Apart'
<1>1. \A p \in Places : Named(At(p)') = Named(At(p)) /\ NoneTwice(At(p)')
  <2> SUFFICES ASSUME NEW p \in Places
               PROVE  Named(At(p)') = Named(At(p)) /\ NoneTwice(At(p)')
    OBVIOUS
  <2>1. CASE \E q \in Queues : p = InQueue(q)
    BY <2>1, Contents, ContentsNext
  <2>2. CASE ~\E q \in Queues : p = InQueue(q)
    <3>1. At(p)' = At(p)
      BY <2>2, PlaceCases, Contents, ContentsNext
    <3> QED
      BY <3>1 DEF Apart
  <2> QED
    BY <2>1, <2>2
<1>2. Requested' = Requested
  BY DEF Requested
<1>3. Places' = Places
  BY DEF Places, Queues
<1>4. \A p, r \in Places : p # r => Named(At(p)') \cap Named(At(r)') = {}
  BY <1>1 DEF Apart
<1>5. UNION {Named(At(p)') : p \in Places} = UNION {Named(At(p)) : p \in Places}
  BY <1>1
<1> QED
  BY <1>1, <1>2, <1>3, <1>4, <1>5 DEF Apart

-----------------------------------------------------------------------------
(* The inductive invariant.                                                 *)

PumpSteps == {"none", "new", "rest", "busy", "dead"}
NoPump == [pc |-> "none", on |-> 0, job |-> NoJob]

QueueTyped ==
  /\ asked \in [Callers -> 0 .. MaxJobs]
  /\ handing \in [Callers -> [job : Job \cup {NoJob}, to : 0 .. MaxReady]]
  /\ held \in Seq(Job) /\ refill \in Seq(Job) /\ dropped \in Seq(Job)
  /\ made \in 0 .. MaxReady /\ current \in {0, made}
  /\ queue \in [Queues -> Seq(Entries)] /\ ran \in [Queues -> Seq(Job)]
  /\ pump \in [Queues -> [pc : PumpSteps, on : 0 .. MaxReady, job : Job \cup {NoJob}]]
  /\ ready \in {"login", "swap", "refill", "fetch", "ready"}
  /\ channel \in BOOLEAN /\ shut \in BOOLEAN

\* A caller hands over the job it asked for last.
HandsRight ==
  \A c \in Callers :
    IF handing[c].job = NoJob THEN handing[c] = Free
    ELSE /\ handing[c].job.by = c /\ handing[c].job.n = asked[c]
         /\ ~handing[c].job.held /\ handing[c].to <= made

\* What is held is marked so, and only on_ready has any of it in hand.
HeldRight ==
  /\ Len(held) <= MaxHeld
  /\ \A j \in JobsOf(held) \cup JobsOf(refill) : j.held
  /\ refill # <<>> => ready = "refill"

\* A pump works on its own queue; while on_ready runs the newest has not begun.
PumpsRight ==
  /\ \A q \in Queues :
       /\ q > made => pump[q] = NoPump /\ queue[q] = <<>> /\ ran[q] = <<>>
       /\ pump[q].pc = "new" => q = made /\ ran[q] = <<>>
       /\ pump[q].pc \in {"rest", "busy"} => pump[q].on = q
       /\ pump[q].pc = "busy" <=> pump[q].job # NoJob
  /\ OnReadyRuns => made \in Queues /\ pump[made].pc = "new"
  /\ ready = "swap" => \A j \in JobsOf(queue[made]) \ {Stop} : ~j.held
  /\ ~shut => current = made

\* What a queue finished, does and has yet to do are in order.
LineOrder(q) ==
  /\ Ordered(ran[q]) /\ Ordered(queue[q])
  /\ \A j \in JobsOf(ran[q]), k \in JobsOf(queue[q]) : AskedBefore(j, k)
  /\ pump[q].job # NoJob =>
       /\ \A j \in JobsOf(ran[q]) : AskedBefore(j, pump[q].job)
       /\ \A k \in JobsOf(queue[q]) : AskedBefore(pump[q].job, k)

QueueOrder ==
  ~shut =>
    /\ Ordered(held) /\ Ordered(refill)
    /\ ready = "refill" =>
         \A j \in JobsOf(queue[made]), k \in JobsOf(refill) : AskedBefore(j, k)
    /\ \A q \in Queues : LineOrder(q)
    /\ \A d \in JobsOf(dropped), h \in JobsOf(held) : h.by = d.by => d.n < h.n

QueueInv == QueueTyped /\ HandsRight /\ HeldRight /\ PumpsRight /\ QueueOrder /\ Apart

\* A job that is handed over is newer than every other of its caller.
LEMMA NewestInHand ==
  ASSUME QueueInv, NEW c \in Callers, handing[c].job # NoJob, NEW p \in Places, p # Hand(c),
         NEW k \in JobsOf(At(p)), k # Stop, k \in Job, k.by = c
  PROVE  k.n < handing[c].job.n
<1>1. /\ handing[c].job \in Job /\ handing[c].job.by = c /\ handing[c].job.n = asked[c]
      /\ asked[c] \in 0 .. MaxJobs
  BY DEF QueueInv, QueueTyped, HandsRight
<1>2. JobName(handing[c].job) \in Named(At(Hand(c)))
  BY <1>1, Contents, OnlyOne
<1>3. JobName(k) \in Named(At(p))
  BY DEF Named
<1>4. Named(At(Hand(c))) \cap Named(At(p)) = {}
  BY PlaceCases DEF QueueInv, Apart
<1>5. JobName(k) \in Requested
  BY <1>3 DEF QueueInv, Apart
<1>6. k.n \in 1 .. asked[c]
  BY <1>5, <1>1 DEF Requested, JobName
<1>7. k.n # handing[c].job.n
  BY <1>1, <1>2, <1>3, <1>4 DEF JobName
<1> QED
  BY <1>1, <1>6, <1>7

\* Nothing was asked for yet.
LEMMA QueueInvInit == QueueInit => QueueInv
<1> SUFFICES ASSUME QueueInit PROVE QueueInv
  OBVIOUS
<1> USE QueueAssumption
<1>0. <<>> \in Seq(Job) /\ <<>> \in Seq(Entries) /\ Len(<<>>) = 0
  BY EmptySeq
<1>1. QueueTyped
  <2>1. /\ asked \in [Callers -> 0 .. MaxJobs] /\ made \in 0 .. MaxReady /\ current \in {0, made}
        /\ ready \in {"login", "swap", "refill", "fetch", "ready"}
    BY DEF QueueInit
  <2>2. handing \in [Callers -> [job : Job \cup {NoJob}, to : 0 .. MaxReady]]
    BY DEF QueueInit, Free
  <2>3. held \in Seq(Job) /\ refill \in Seq(Job) /\ dropped \in Seq(Job)
    BY <1>0 DEF QueueInit
  <2>4. queue \in [Queues -> Seq(Entries)] /\ ran \in [Queues -> Seq(Job)]
    BY <1>0 DEF QueueInit
  <2>5. pump \in [Queues -> [pc : PumpSteps, on : 0 .. MaxReady, job : Job \cup {NoJob}]]
    BY DEF QueueInit, PumpSteps
  <2>6. channel \in BOOLEAN /\ shut \in BOOLEAN
    BY DEF QueueInit
  <2> QED
    BY <2>1, <2>2, <2>3, <2>4, <2>5, <2>6 DEF QueueTyped
<1>2. HandsRight
  BY DEF QueueInit, HandsRight, Free
<1>3. HeldRight
  BY <1>0, NoWork DEF QueueInit, HeldRight
<1>4. PumpsRight
  <2>1. \A q \in Queues : pump[q] = NoPump /\ queue[q] = <<>> /\ ran[q] = <<>>
    BY DEF QueueInit, NoPump
  <2>2. ~OnReadyRuns /\ ready # "swap" /\ current = made
    BY DEF QueueInit, OnReadyRuns
  <2>3. NoPump.pc = "none" /\ NoPump.job = NoJob
    BY DEF NoPump
  <2> QED
    BY <2>1, <2>2, <2>3 DEF PumpsRight
<1>5. QueueOrder
  <2>1. \A q \in Queues : LineOrder(q)
    BY NoWork DEF QueueInit, LineOrder
  <2> QED
    BY <2>1, NoWork DEF QueueInit, QueueOrder
<1>6. Apart
  <2>1. \A p \in Places : At(p) = <<>>
    <3>1. \A c \in Callers : Only(handing[c].job) = <<>>
      BY OnlyOne DEF QueueInit, Free
    <3>2. \A q \in Queues : Only(pump[q].job) = <<>>
      BY OnlyOne DEF QueueInit
    <3> QED
      BY <3>1, <3>2, PlaceCases, Contents DEF QueueInit
  <2>2. \A p \in Places : Named(At(p)) = {} /\ NoneTwice(At(p))
    BY <2>1, NoWork
  <2>3. Requested = {}
    BY DEF QueueInit, Requested
  <2> QED
    BY <2>2, <2>3 DEF Apart
<1> QED
  BY <1>1, <1>2, <1>3, <1>4, <1>5, <1>6 DEF QueueInv

-----------------------------------------------------------------------------
(* The callers.                                                             *)

Asks(c, kind) ==
  /\ Schedule(c, kind)
  /\ UNCHANGED <<held, dropped, current, made, queue, pump, ready, refill, channel, ran, shut>>

\* A new job gets a number nobody has.
LEMMA InvAsks ==
  ASSUME QueueInv, NEW c \in Callers, NEW kind \in Kinds, Asks(c, kind)
  PROVE  QueueInv'
<1> USE QueueAssumption
<1> DEFINE job == [by |-> c, n |-> asked[c] + 1, kind |-> kind, held |-> FALSE]
<1>1. QueueTyped /\ HandsRight /\ HeldRight /\ PumpsRight /\ QueueOrder /\ Apart
  BY DEF QueueInv
<1>2. /\ handing[c] = Free /\ asked[c] < MaxJobs
      /\ asked' = [asked EXCEPT ![c] = @ + 1]
      /\ handing' = [handing EXCEPT ![c] = [job |-> job, to |-> current]]
      /\ UNCHANGED <<held, dropped, current, made, queue, pump, ready, refill, channel, ran, shut>>
  BY DEF Asks, Schedule
<1>3. asked[c] \in 0 .. MaxJobs /\ asked[c] + 1 \in 1 .. MaxJobs
  BY <1>1, <1>2 DEF QueueTyped
<1>4. job \in Job /\ job # NoJob
  <2>1. job \in Job
    BY <1>3, Zenon DEF Job
  <2> QED
    BY <2>1, JobsAreJobs
<1>5. /\ \A d \in Callers \ {c} : asked'[d] = asked[d] /\ handing'[d] = handing[d]
      /\ asked'[c] = asked[c] + 1
      /\ handing'[c].job = job /\ handing'[c].to = current
  BY <1>1, <1>2 DEF QueueTyped
<1> HIDE DEF job
<1>6. QueueTyped'
  <2>1. asked' \in [Callers -> 0 .. MaxJobs]
    BY <1>1, <1>2, <1>3 DEF QueueTyped
  <2>2. current \in 0 .. MaxReady
    BY <1>1 DEF QueueTyped
  <2>3. handing' \in [Callers -> [job : Job \cup {NoJob}, to : 0 .. MaxReady]]
    BY <1>1, <1>2, <1>4, <2>2 DEF QueueTyped
  <2> QED
    BY <1>1, <1>2, <2>1, <2>3 DEF QueueTyped
<1>7. HandsRight'
  <2>1. job.by = c /\ job.n = asked[c] + 1 /\ ~job.held
    BY DEF job
  <2>2. current <= made
    BY <1>1 DEF QueueTyped
  <2> SUFFICES ASSUME NEW d \in Callers
               PROVE  IF handing'[d].job = NoJob THEN handing'[d] = Free
                      ELSE /\ handing'[d].job.by = d /\ handing'[d].job.n = asked'[d]
                           /\ ~handing'[d].job.held /\ handing'[d].to <= made'
    BY DEF HandsRight, Free, NoJob
  <2>3. CASE d = c
    BY <1>2, <1>4, <1>5, <2>1, <2>2, <2>3
  <2>4. CASE d # c
    BY <1>1, <1>2, <1>5, <2>4 DEF HandsRight
  <2> QED
    BY <2>3, <2>4
<1>8. HeldRight'
  BY <1>1, <1>2 DEF HeldRight
<1>9. PumpsRight'
  BY <1>1, <1>2 DEF PumpsRight, OnReadyRuns, Queues, NoPump
<1>10. QueueOrder'
  <2>1. \A q \in Queues : LineOrder(q) => LineOrder(q)'
    BY <1>2 DEF LineOrder
  <2> QED
    BY <1>1, <1>2, <2>1 DEF QueueOrder, Queues
<1>11. Apart'
  <2>1. \A p \in Places \ {Hand(c)} : At(p)' = At(p)
    BY <1>2, <1>5, PlaceCases, PlacesDiffer, Contents, ContentsNext
  <2>2. /\ Named(At(Hand(c))) = {} /\ At(Hand(c))' = Only(job) /\ Hand(c) \in Places
        /\ Named(At(Hand(c))') = {JobName(job)} /\ NoneTwice(At(Hand(c))')
    <3>1. At(Hand(c)) = <<>> /\ At(Hand(c))' = Only(job)
      BY <1>2, <1>5, Contents, ContentsNext, OnlyOne DEF Free
    <3> QED
      BY <1>4, <3>1, OnlyOne, NoWork, PlaceCases
  <2>3. JobName(job) \notin Requested
    <3>1. JobName(job) = <<c, asked[c] + 1>>
      BY DEF JobName, job
    <3>2. asked[c] + 1 \notin 1 .. asked[c]
      BY <1>3
    <3> QED
      BY <3>1, <3>2 DEF Requested
  <2>4. Requested' = Requested \cup {JobName(job)}
    <3>1. JobName(job) = <<c, asked[c] + 1>>
      BY DEF JobName, job
    <3>2. 1 .. asked'[c] = 1 .. asked[c] \cup {asked[c] + 1}
      BY <1>3, <1>5
    <3>3. \A x : x \in Requested' <=> x \in Requested \cup {JobName(job)}
      <4> TAKE x
      <4>1. x \in Requested' <=> \E d \in Callers : x \in {d} \X (1 .. asked'[d])
        BY DEF Requested
      <4>2. x \in Requested <=> \E d \in Callers : x \in {d} \X (1 .. asked[d])
        BY DEF Requested
      <4>3. x \in {c} \X (1 .. asked'[c]) <=> x \in {c} \X (1 .. asked[c]) \/ x = <<c, asked[c] + 1>>
        BY <3>2
      <4>4. \A d \in Callers \ {c} : x \in {d} \X (1 .. asked'[d]) <=> x \in {d} \X (1 .. asked[d])
        BY <1>5
      <4> QED
        BY <3>1, <4>1, <4>2, <4>3, <4>4
    <3> QED
      BY <3>3
  <2>5. Places' = Places
    BY DEF Places, Queues
  <2>6. \A p \in Places : JobName(job) \notin Named(At(p))
    BY <1>1, <2>3 DEF Apart
  <2>7. \A p \in Places : NoneTwice(At(p)')
    BY <1>1, <2>1, <2>2 DEF Apart
  <2>8. \A p, r \in Places : p # r => Named(At(p)') \cap Named(At(r)') = {}
    BY <1>1, <2>1, <2>2, <2>6 DEF Apart
  <2>9. UNION {Named(At(p)') : p \in Places} = (UNION {Named(At(p)) : p \in Places}) \cup {JobName(job)}
    <3>1. \A p \in Places : Named(At(p)') = Named(At(p)) \cup (IF p = Hand(c) THEN {JobName(job)} ELSE {})
      BY <2>1, <2>2
    <3>2. PICK f : f = [p \in Places |-> Named(At(p))]
      OBVIOUS
    <3>3. PICK g : g = [p \in Places |-> Named(At(p)')]
      OBVIOUS
    <3>4. \A p \in Places : g[p] = f[p] \cup (IF p = Hand(c) THEN {JobName(job)} ELSE {})
      BY <3>1, <3>2, <3>3
    <3>5. UNION {g[p] : p \in Places} = (UNION {f[p] : p \in Places}) \cup {JobName(job)}
      BY <2>2, <3>4
    <3>6. UNION {f[p] : p \in Places} = UNION {Named(At(p)) : p \in Places}
      BY <3>2
    <3>7. UNION {g[p] : p \in Places} = UNION {Named(At(p)') : p \in Places}
      BY <3>3
    <3> QED
      BY <3>5, <3>6, <3>7
  <2>10. UNION {Named(At(p)') : p \in Places} = Requested'
    BY <1>1, <2>4, <2>9 DEF Apart
  <2> QED
    BY <2>5, <2>7, <2>8, <2>10 DEF Apart
<1> QED
  BY <1>6, <1>7, <1>8, <1>9, <1>10, <1>11 DEF QueueInv

\* The list of held jobs takes one in, and may push the oldest out.
LEMMA HeldNow ==
  ASSUME held \in Seq(Job), dropped \in Seq(Job), Len(held) <= MaxHeld,
         NEW job \in Job, HoldJob(job)
  PROVE  LET j == [job EXCEPT !.held = TRUE]
         IN /\ j \in Job /\ JobName(j) = JobName(job) /\ j.held /\ j.by = job.by /\ j.n = job.n
            /\ \/ /\ held' = Append(held, j) /\ dropped' = dropped
                  /\ Len(held) < MaxHeld
               \/ /\ held' = Tail(Append(held, j))
                  /\ dropped' = Append(dropped, Head(Append(held, j)))
                  /\ Len(held) = MaxHeld
<1> USE QueueAssumption
<1> DEFINE j == [job EXCEPT !.held = TRUE]
           all == Append(held, j)
<1>1. j \in Job
  BY Zenon DEF Job
<1>2. JobName(j) = JobName(job) /\ j.by = job.by /\ j.n = job.n
  BY DEF Job, JobName
<1>3. j.held
  <2>1. DOMAIN job = {"by", "n", "kind", "held"}
    BY DEF Job
  <2> QED
    BY <2>1, Zenon
<1> HIDE DEF j
<1>4. /\ all \in Seq(Job) /\ Len(all) = Len(held) + 1 /\ Len(held) \in Nat /\ all # <<>>
  BY <1>1, AppendProperties, LenProperties
<1>5. /\ held' = SubSeq(all, IF Len(all) > MaxHeld THEN Len(all) - MaxHeld + 1 ELSE 1, Len(all))
      /\ dropped' = dropped \o SubSeq(all, 1, Len(all) - MaxHeld)
  BY DEF HoldJob, KeepNewest, j
<1> HIDE DEF all
<1>6. CASE Len(held) < MaxHeld
  <2>1. Len(all) <= MaxHeld /\ Len(all) - MaxHeld < 1 /\ Len(all) - MaxHeld \in Int
    BY <1>4, <1>6
  <2>2. held' = all
    <3>1. held' = SubSeq(all, 1, Len(all))
      <4>1. ~(Len(all) > MaxHeld)
        BY <1>4, <2>1
      <4> QED
        BY <1>5, <4>1
    <3> QED
      BY <1>4, <3>1, SubSeqFull
  <2>3. SubSeq(all, 1, Len(all) - MaxHeld) = <<>>
    BY <2>1, SubSeqEmpty
  <2>4. dropped' = dropped
    BY <1>5, <2>3, ConcatEmptySeq
  <2> QED
    BY <1>1, <1>2, <1>3, <1>6, <2>2, <2>4 DEF all, j
<1>7. CASE ~(Len(held) < MaxHeld)
  <2>1. Len(held) = MaxHeld /\ Len(all) = MaxHeld + 1
    BY <1>4, <1>7
  <2>2. held' = SubSeq(all, 2, Len(all))
    BY <1>5, <2>1
  <2>3. held' = Tail(all)
    BY <1>4, <2>2, TailIsSubSeq
  <2>4. SubSeq(all, 1, Len(all) - MaxHeld) = SubSeq(all, 1, 1)
    BY <2>1
  <2>5. SubSeq(all, 1, 1) = <<Head(all)>>
    <3> DEFINE one == SubSeq(all, 1, 1)
    <3>1. \A i \in 1 .. 1 : all[i] \in Job
      BY <1>4, <2>1, LenProperties
    <3>2. one \in Seq(Job) /\ Len(one) = 1 /\ one[1] = all[1]
      BY <3>1, SubSeqProperties
    <3>3. <<Head(all)>> \in Seq(Job) /\ Len(<<Head(all)>>) = 1 /\ <<Head(all)>>[1] = all[1]
      BY <1>4, HeadTailProperties
    <3> HIDE DEF one
    <3>4. \A i \in 1 .. Len(one) : one[i] = <<Head(all)>>[i]
      BY <3>2, <3>3
    <3>5. one = <<Head(all)>>
      BY <3>2, <3>3, <3>4, SeqEqual
    <3> QED
      BY <3>5 DEF one
  <2>6. dropped' = Append(dropped, Head(all))
    <3>1. Head(all) \in Job
      BY <1>4, HeadTailProperties
    <3>2. Append(dropped, Head(all)) = dropped \o <<Head(all)>>
      BY <3>1, AppendIsConcat
    <3> QED
      BY <1>5, <2>4, <2>5, <3>2
  <2> QED
    BY <1>1, <1>2, <1>3, <2>1, <2>3, <2>6 DEF all, j
<1> QED
  BY <1>6, <1>7

\* It comes from somewhere else.
LEMMA ApartHeld ==
  ASSUME held \in Seq(Job), dropped \in Seq(Job), Len(held) <= MaxHeld,
         NEW job \in Job, HoldJob(job), Apart,
         NEW a \in Places, a # InHeld, a # InDropped,
         JobName(job) \in Named(At(a)),
         Named(At(a)') = Named(At(a)) \ {JobName(job)}, NoneTwice(At(a)'),
         \A p \in Places \ {a, InHeld, InDropped} : At(p)' = At(p),
         asked' = asked
  PROVE  /\ Apart'
         /\ held' \in Seq(Job) /\ dropped' \in Seq(Job) /\ Len(held') <= MaxHeld
         /\ \A k \in JobsOf(held') : k \in JobsOf(held) \/ k.held
<1> USE QueueAssumption
<1>1. PICK j \in Job :
        /\ JobName(j) = JobName(job) /\ j.held
        /\ \/ held' = Append(held, j) /\ dropped' = dropped /\ Len(held) < MaxHeld
           \/ /\ held' = Tail(Append(held, j))
              /\ dropped' = Append(dropped, Head(Append(held, j)))
              /\ Len(held) = MaxHeld
  BY HeldNow
<1>2. /\ At(InHeld) = held /\ At(InDropped) = dropped
      /\ At(InHeld)' = held' /\ At(InDropped)' = dropped'
      /\ InHeld \in Places /\ InDropped \in Places /\ InHeld # InDropped
  BY Contents, ContentsNext, PlaceCases, PlacesDiffer
<1>3. /\ NoneTwice(held) /\ NoneTwice(dropped)
      /\ JobName(j) \notin Named(held) /\ JobName(j) \notin Named(dropped)
      /\ Named(held) \cap Named(dropped) = {}
  BY <1>1, <1>2 DEF Apart
<1>4. Job \subseteq Entries /\ held \in Seq(Entries) /\ dropped \in Seq(Entries) /\ Stop \notin Job
  BY JobsAreJobs, SeqMonotonic DEF Entries
<1> DEFINE all == Append(held, j)
<1>5. /\ all \in Seq(Entries) /\ all \in Seq(Job) /\ Len(all) = Len(held) + 1 /\ all # <<>>
      /\ Named(all) = Named(held) \cup {JobName(j)} /\ NoneTwice(all)
      /\ JobsOf(all) = JobsOf(held) \cup {j}
  BY <1>3, <1>4, NamesAppended, AppendProperties, JobsAppended
<1>6. CASE held' = all /\ dropped' = dropped /\ Len(held) < MaxHeld
  <2>1. Apart'
    <3>1. Moves(a, InHeld, InDropped, {JobName(j)}, {})
      BY <1>1, <1>2, <1>3, <1>5, <1>6 DEF Moves
    <3> QED
      BY <3>1, JobsMove
  <2>2. Len(held) + 1 <= MaxHeld
    BY <1>6, LenProperties
  <2> QED
    BY <1>1, <1>5, <1>6, <2>1, <2>2
<1>7. CASE held' = Tail(all) /\ dropped' = Append(dropped, Head(all)) /\ Len(held) = MaxHeld
  <2> HIDE DEF all
  <2>1. /\ Head(all) \in Job /\ Tail(all) \in Seq(Job) /\ Len(Tail(all)) = Len(all) - 1
        /\ JobsOf(all) = JobsOf(Tail(all)) \cup {Head(all)}
    BY <1>5, HeadTailProperties, JobsTaken
  <2>2. /\ JobName(Head(all)) \in Named(all)
        /\ Named(held') = Named(all) \ {JobName(Head(all))} /\ NoneTwice(held')
    BY <1>4, <1>5, <1>7, <2>1, NamesTaken
  <2>3. JobName(Head(all)) \notin Named(dropped)
    BY <1>3, <1>5, <2>2
  <2>4. Named(dropped') = Named(dropped) \cup {JobName(Head(all))} /\ NoneTwice(dropped')
    BY <1>3, <1>4, <1>7, <2>1, <2>3, NamesAppended
  <2>5. {JobName(Head(all))} \subseteq Named(At(InHeld)) \cup {JobName(j)}
    BY <1>2, <1>5, <2>2
  <2>6. Named(held') = (Named(held) \cup {JobName(j)}) \ {JobName(Head(all))}
    BY <1>5, <2>2
  <2>7. Apart'
    <3>1. Moves(a, InHeld, InDropped, {JobName(j)}, {JobName(Head(all))})
      BY <1>1, <1>2, <2>2, <2>4, <2>5, <2>6 DEF Moves
    <3> QED
      BY <3>1, JobsMove
  <2>8. dropped' \in Seq(Job)
    BY <1>7, <2>1, AppendProperties
  <2>9. Len(held') <= MaxHeld
    BY <1>5, <1>7, <2>1, LenProperties
  <2> QED
    BY <1>1, <1>5, <1>7, <2>1, <2>7, <2>8, <2>9
<1> QED
  BY <1>1, <1>6, <1>7

\* And it is the newest.
LEMMA OrderHeld ==
  ASSUME held \in Seq(Job), dropped \in Seq(Job), Len(held) <= MaxHeld,
         NEW job \in Job, HoldJob(job), Ordered(held),
         \A d \in JobsOf(dropped), h \in JobsOf(held) : h.by = d.by => d.n < h.n,
         \A k \in JobsOf(held) \cup JobsOf(dropped) : k.by = job.by => k.n < job.n,
         \A k \in JobsOf(held) : k.held
  PROVE  /\ Ordered(held')
         /\ \A d \in JobsOf(dropped'), h \in JobsOf(held') : h.by = d.by => d.n < h.n
<1> USE QueueAssumption
<1>1. PICK j \in Job :
        /\ j.by = job.by /\ j.n = job.n /\ j.held
        /\ \/ held' = Append(held, j) /\ dropped' = dropped
           \/ /\ held' = Tail(Append(held, j))
              /\ dropped' = Append(dropped, Head(Append(held, j)))
  BY HeldNow
<1>2. JobsOf(held) \subseteq Job /\ JobsOf(dropped) \subseteq Job /\ Stop \notin Job
  BY ListFacts, JobsAreJobs
<1> DEFINE all == Append(held, j)
<1>3. \A k \in JobsOf(held) : AskedBefore(k, j)
  BY <1>1, <1>2 DEF AskedBefore
<1>4. /\ all \in Seq(Job) /\ all # <<>> /\ JobsOf(all) = JobsOf(held) \cup {j} /\ Ordered(all)
  BY <1>3, AppendProperties, JobsAppended, OrderAppended
<1>5. \A d \in JobsOf(dropped), h \in JobsOf(all) : h.by = d.by => d.n < h.n
  BY <1>1, <1>4
<1>6. CASE held' = all /\ dropped' = dropped
  BY <1>4, <1>5, <1>6
<1>7. CASE held' = Tail(all) /\ dropped' = Append(dropped, Head(all))
  <2> HIDE DEF all
  <2>1. /\ Head(all) \in Job /\ Head(all) \in JobsOf(all)
        /\ JobsOf(all) = JobsOf(Tail(all)) \cup {Head(all)}
        /\ Ordered(Tail(all)) /\ \A k \in JobsOf(Tail(all)) : AskedBefore(Head(all), k)
    BY <1>4, HeadTailProperties, JobsTaken, OrderTaken
  <2>2. \A k \in JobsOf(all) : k.held = TRUE /\ k \in Job
    BY <1>1, <1>2, <1>4, JobsAreJobs
  <2>3. \A k \in JobsOf(Tail(all)) : k.by = Head(all).by => Head(all).n < k.n
    BY <1>2, <2>1, <2>2 DEF AskedBefore
  <2>4. JobsOf(dropped') = JobsOf(dropped) \cup {Head(all)}
    BY <1>7, <2>1, JobsAppended
  <2> QED
    BY <1>5, <1>7, <2>1, <2>3, <2>4
<1> QED
  BY <1>1, <1>6, <1>7

\* A caller that saw no queue puts its job to the held ones.
LEMMA InvHold ==
  ASSUME QueueInv, NEW c \in Callers, Hold(c)
  PROVE  QueueInv'
<1>1. QueueTyped /\ HandsRight /\ HeldRight /\ PumpsRight /\ QueueOrder /\ Apart
  BY DEF QueueInv
<1>2. PICK job \in Job :
        /\ job = handing[c].job /\ job # NoJob /\ HoldJob(job)
        /\ handing' = [handing EXCEPT ![c] = Free]
        /\ job.by = c
        /\ UNCHANGED <<asked, current, made, queue, pump, ready, refill, channel, ran, shut>>
  BY <1>1 DEF Hold, QueueTyped, HandsRight
<1>3. held \in Seq(Job) /\ dropped \in Seq(Job) /\ Len(held) <= MaxHeld
  BY <1>1 DEF QueueTyped, HeldRight
<1>4. /\ \A d \in Callers \ {c} : handing'[d] = handing[d]
      /\ handing'[c] = Free /\ handing'[c].job = NoJob
  BY <1>1, <1>2 DEF QueueTyped, Free
<1>5. /\ Hand(c) \in Places /\ Hand(c) # InHeld /\ Hand(c) # InDropped
      /\ Named(At(Hand(c))) = {JobName(job)}
      /\ Named(At(Hand(c))') = {} /\ NoneTwice(At(Hand(c))')
  <2>1. At(Hand(c)) = Only(job) /\ At(Hand(c))' = <<>>
    BY <1>2, <1>4, Contents, ContentsNext, OnlyOne
  <2> QED
    BY <2>1, OnlyOne, NoWork, PlaceCases, PlacesDiffer
<1>6. \A p \in Places \ {Hand(c), InHeld, InDropped} : At(p)' = At(p)
  BY <1>2, <1>4, PlaceCases, PlacesDiffer, Contents, ContentsNext
<1>7. /\ Apart'
      /\ held' \in Seq(Job) /\ dropped' \in Seq(Job) /\ Len(held') <= MaxHeld
      /\ \A k \in JobsOf(held') : k \in JobsOf(held) \/ k.held
  <2>1. asked' = asked /\ JobName(job) \in Named(At(Hand(c)))
        /\ Named(At(Hand(c))') = Named(At(Hand(c))) \ {JobName(job)}
    BY <1>2, <1>5
  <2> QED
    BY <1>1, <1>2, <1>3, <1>5, <1>6, <2>1, ApartHeld
<1>8. QueueTyped'
  <2>1. handing' \in [Callers -> [job : Job \cup {NoJob}, to : 0 .. MaxReady]]
    BY <1>1, <1>2, QueueAssumption DEF QueueTyped, Free
  <2> QED
    BY <1>1, <1>2, <1>7, <2>1 DEF QueueTyped
<1>9. HandsRight'
  BY <1>1, <1>2, <1>4 DEF HandsRight, Free
<1>10. HeldRight'
  BY <1>1, <1>2, <1>7 DEF HeldRight
<1>11. PumpsRight'
  BY <1>1, <1>2 DEF PumpsRight, OnReadyRuns, Queues, NoPump
<1>12. QueueOrder'
  <2>1. \A q \in Queues : LineOrder(q) => LineOrder(q)'
    BY <1>2 DEF LineOrder
  <2>2. \A k \in JobsOf(held) \cup JobsOf(dropped) : k.by = job.by => k.n < job.n
    <3>1. JobsOf(held) \subseteq Job /\ JobsOf(dropped) \subseteq Job /\ Stop \notin Job
      BY <1>3, ListFacts, JobsAreJobs
    <3>2. /\ At(InHeld) = held /\ At(InDropped) = dropped
          /\ InHeld \in Places /\ InDropped \in Places
      BY Contents, PlaceCases
    <3> QED
      BY <1>2, <1>5, <3>1, <3>2, NewestInHand
  <2>3. ASSUME ~shut
        PROVE  /\ Ordered(held')
               /\ \A d \in JobsOf(dropped'), h \in JobsOf(held') : h.by = d.by => d.n < h.n
    <3>1. /\ Ordered(held)
          /\ \A d \in JobsOf(dropped), h \in JobsOf(held) : h.by = d.by => d.n < h.n
      BY <1>1, <2>3 DEF QueueOrder
    <3>2. \A k \in JobsOf(held) : k.held
      BY <1>1 DEF HeldRight
    <3> QED
      BY <1>2, <1>3, <2>2, <3>1, <3>2, OrderHeld
  <2> QED
    BY <1>1, <1>2, <2>1, <2>3 DEF QueueOrder, Queues
<1> QED
  BY <1>7, <1>8, <1>9, <1>10, <1>11, <1>12 DEF QueueInv

\* A caller puts its job into the queue it saw.
LEMMA InvPut ==
  ASSUME QueueInv, NEW c \in Callers, Put(c)
  PROVE  QueueInv'
<1> USE QueueAssumption
<1>1. QueueTyped /\ HandsRight /\ HeldRight /\ PumpsRight /\ QueueOrder /\ Apart
  BY DEF QueueInv
<1>2. PICK job \in Job, q \in Queues :
        /\ job = handing[c].job /\ job # NoJob /\ q = handing[c].to /\ q <= made
        /\ job.by = c /\ ~job.held
        /\ queue' = [queue EXCEPT ![q] = Append(@, job)]
        /\ handing' = [handing EXCEPT ![c] = Free]
        /\ UNCHANGED <<asked, held, dropped, current, made, pump, ready, refill, channel, ran, shut>>
  <2>1. handing[c] \in [job : Job \cup {NoJob}, to : 0 .. MaxReady]
    BY <1>1 DEF QueueTyped
  <2>2. handing[c].to \in Queues /\ handing[c].job \in Job
    BY <2>1 DEF Put, Queues
  <2>3. handing[c].to <= made /\ handing[c].job.by = c /\ ~handing[c].job.held
    BY <1>1, <2>2, JobsAreJobs DEF HandsRight
  <2> QED
    BY <2>2, <2>3 DEF Put
<1>3. /\ \A d \in Callers \ {c} : handing'[d] = handing[d]
      /\ handing'[c] = Free /\ handing'[c].job = NoJob
  BY <1>1, <1>2 DEF QueueTyped, Free
<1>4. /\ \A r \in Queues \ {q} : queue'[r] = queue[r]
      /\ queue'[q] = Append(queue[q], job)
      /\ queue[q] \in Seq(Entries) /\ ran[q] \in Seq(Job) /\ pump[q].job \in Job \cup {NoJob}
      /\ queue \in [Queues -> Seq(Entries)]
  BY <1>1, <1>2 DEF QueueTyped
<1>5. /\ Hand(c) \in Places /\ InQueue(q) \in Places /\ InRan(q) \in Places
      /\ Hand(c) # InQueue(q) /\ InDropped \in Places
      /\ Hand(c) # InDropped /\ InQueue(q) # InDropped
      /\ At(InQueue(q)) = queue[q] /\ At(InQueue(q))' = queue'[q]
      /\ At(InDropped)' = At(InDropped)
  BY <1>2, PlaceCases, PlacesDiffer, Contents, ContentsNext
<1>6. /\ Named(At(Hand(c))) = {JobName(job)}
      /\ Named(At(Hand(c))') = {} /\ NoneTwice(At(Hand(c))')
  <2>1. At(Hand(c)) = Only(job) /\ At(Hand(c))' = <<>>
    BY <1>2, <1>3, Contents, ContentsNext, OnlyOne
  <2> QED
    BY <2>1, OnlyOne, NoWork
<1>7. ASSUME NEW p \in Places \ {Hand(c), InQueue(q)} PROVE At(p)' = At(p)
  <2>1. CASE \E d \in Callers : p = Hand(d)
    BY <1>3, <2>1, Contents, ContentsNext
  <2>2. CASE \E r \in Queues : p = InQueue(r)
    BY <1>4, <2>2, Contents, ContentsNext
  <2>3. CASE \E r \in Queues : p = InPump(r) \/ p = InRan(r)
    BY <1>2, <2>3, Contents, ContentsNext
  <2>4. CASE p = InHeld \/ p = InRefill \/ p = InDropped
    BY <1>2, <2>4, Contents, ContentsNext
  <2> QED
    BY <2>1, <2>2, <2>3, <2>4, PlaceCases
<1>8. /\ queue'[q] \in Seq(Entries) /\ NoneTwice(queue'[q])
      /\ Named(queue'[q]) = Named(queue[q]) \cup {JobName(job)}
  <2>1. NoneTwice(queue[q]) /\ JobName(job) \notin Named(queue[q])
    BY <1>1, <1>5, <1>6 DEF Apart
  <2> QED
    BY <1>4, <2>1, NamesAppended
<1>9. Apart'
  <2>1. NoneTwice(At(InDropped)')
    BY <1>1, <1>5 DEF Apart
  <2>2. Moves(Hand(c), InQueue(q), InDropped, {JobName(job)}, {})
    BY <1>2, <1>5, <1>6, <1>7, <1>8, <2>1 DEF Moves
  <2> QED
    BY <1>1, <2>2, JobsMove
<1>10. QueueTyped'
  <2>1. queue' \in [Queues -> Seq(Entries)]
    BY <1>2, <1>4, <1>8
  <2> QED
    BY <1>1, <1>2, <2>1 DEF QueueTyped, Free
<1>11. HandsRight'
  BY <1>1, <1>2, <1>3 DEF HandsRight, Free
<1>12. HeldRight'
  BY <1>1, <1>2 DEF HeldRight
<1>13. JobsOf(queue'[q]) = JobsOf(queue[q]) \cup {job}
  BY <1>2, <1>4, JobsAppended DEF Entries
<1>14. PumpsRight'
  <2>1. made \in 0 .. MaxReady
    BY <1>1 DEF QueueTyped
  <2>2. \A r \in Queues : r > made => queue'[r] = queue[r]
    BY <1>2, <1>4, <2>1 DEF Queues
  <2>3. OnReadyRuns => made \in Queues
    BY <1>1 DEF PumpsRight
  <2>4. ready = "swap" => \A j \in JobsOf(queue'[made]) \ {Stop} : ~j.held
    BY <1>1, <1>2, <1>4, <1>13, <2>3 DEF PumpsRight, OnReadyRuns
  <2> QED
    BY <1>1, <1>2, <2>2, <2>4 DEF PumpsRight, OnReadyRuns, Queues
<1>15. QueueOrder'
  <2>1. \A k \in JobsOf(ran[q]) \cup JobsOf(queue[q]) : AskedBefore(k, job)
    <3>1. JobsOf(ran[q]) \subseteq Job /\ JobsOf(queue[q]) \subseteq Entries
      BY <1>4, ListFacts
    <3>2. At(InRan(q)) = ran[q] /\ At(InQueue(q)) = queue[q] /\ Hand(c) # InRan(q)
      BY <1>2, Contents, PlacesDiffer
    <3>3. ASSUME NEW k \in JobsOf(ran[q]) \cup JobsOf(queue[q]), k # Stop, k.by = c
          PROVE  k.n < job.n
      BY <1>2, <1>5, <3>1, <3>2, <3>3, NewestInHand DEF Entries
    <3> QED
      BY <1>2, <3>3 DEF AskedBefore
  <2>2. pump[q].job # NoJob => AskedBefore(pump[q].job, job)
    <3>1. /\ At(InPump(q)) = Only(pump[q].job) /\ Hand(c) # InPump(q) /\ InPump(q) \in Places
          /\ pump[q].job # NoJob => JobsOf(At(InPump(q))) = {pump[q].job} /\ pump[q].job \in Job
      BY <1>2, <1>4, Contents, PlacesDiffer, PlaceCases, OnlyOne
    <3>2. ASSUME pump[q].job # NoJob, pump[q].job # Stop, pump[q].job.by = c
          PROVE  pump[q].job.n < job.n
      BY <1>2, <3>1, <3>2, NewestInHand
    <3> QED
      BY <1>2, <3>2 DEF AskedBefore
  <2>3. ASSUME LineOrder(q) PROVE LineOrder(q)'
    <3>1. job \in Entries
      BY DEF Entries
    <3>2. Ordered(queue'[q])
      BY <1>4, <2>1, <2>3, <3>1, OrderAppended DEF LineOrder
    <3> QED
      BY <1>2, <1>13, <2>1, <2>2, <2>3, <3>2 DEF LineOrder
  <2>4. \A r \in Queues : LineOrder(r) => LineOrder(r)'
    <3> SUFFICES ASSUME NEW r \in Queues, LineOrder(r) PROVE LineOrder(r)'
      OBVIOUS
    <3>1. CASE r = q
      BY <2>3, <3>1
    <3>2. CASE r # q
      BY <1>2, <1>4, <3>2 DEF LineOrder
    <3> QED
      BY <3>1, <3>2
  <2>5. ASSUME ~shut, ready = "refill"
        PROVE  \A j \in JobsOf(queue'[made]), k \in JobsOf(refill) : AskedBefore(j, k)
    <3>1. made \in Queues
      BY <1>1, <2>5 DEF PumpsRight, OnReadyRuns
    <3>2. \A j \in JobsOf(queue[made]), k \in JobsOf(refill) : AskedBefore(j, k)
      BY <1>1, <2>5 DEF QueueOrder
    <3>3. \A k \in JobsOf(refill) : AskedBefore(job, k)
      <4>1. \A k \in JobsOf(refill) : k.held = TRUE
        <5>1. JobsOf(refill) \subseteq Job
          BY <1>1, ListFacts DEF QueueTyped
        <5> QED
          BY <1>1, <5>1, JobsAreJobs DEF HeldRight
      <4>2. job.held = FALSE
        BY <1>2, JobsAreJobs
      <4> QED
        BY <4>1, <4>2 DEF AskedBefore
    <3>4. JobsOf(queue'[made]) \subseteq JobsOf(queue[made]) \cup {job}
      BY <1>4, <1>13, <3>1
    <3> QED
      BY <3>2, <3>3, <3>4
  <2> QED
    BY <1>1, <1>2, <2>4, <2>5 DEF QueueOrder, Queues
<1> QED
  BY <1>9, <1>10, <1>11, <1>12, <1>14, <1>15 DEF QueueInv

-----------------------------------------------------------------------------
(* on_ready.                                                                *)

\* A new queue is empty, and its pump has not begun.
LEMMA InvStartPump ==
  ASSUME QueueInv, StartPump
  PROVE  QueueInv'
<1> USE QueueAssumption
<1>1. QueueTyped /\ HandsRight /\ HeldRight /\ PumpsRight /\ QueueOrder /\ Apart
  BY DEF QueueInv
<1>2. /\ ready \in {"login", "ready"} /\ made < MaxReady
      /\ \A q \in Queues : pump[q].pc # "new"
      /\ made' = made + 1 /\ current' = made + 1
      /\ pump' = [pump EXCEPT ![made + 1].pc = "new"]
      /\ ready' = "swap"
      /\ UNCHANGED <<asked, handing, held, dropped, queue, refill, channel, ran, shut>>
  BY DEF StartPump
<1>3. made \in 0 .. MaxReady /\ made + 1 \in Queues /\ made + 1 > made /\ refill = <<>>
  BY <1>1, <1>2 DEF QueueTyped, Queues, HeldRight
<1>4. /\ pump[made + 1] = NoPump /\ queue[made + 1] = <<>> /\ ran[made + 1] = <<>>
  BY <1>1, <1>3 DEF PumpsRight
<1>5. /\ \A q \in Queues \ {made + 1} : pump'[q] = pump[q]
      /\ pump'[made + 1].pc = "new" /\ pump'[made + 1].job = NoJob
      /\ \A q \in Queues : pump'[q].job = pump[q].job
  BY <1>1, <1>2, <1>3, <1>4 DEF QueueTyped, NoPump
<1>6. Apart'
  <2>1. \A q \in Queues : Named(queue'[q]) = Named(queue[q]) /\ NoneTwice(queue'[q])
    BY <1>1, <1>2, PlaceCases, Contents DEF Apart
  <2> QED
    BY <1>1, <1>2, <1>5, <2>1, NothingMoves
<1>7. QueueTyped'
  <2>1. pump' \in [Queues -> [pc : PumpSteps, on : 0 .. MaxReady, job : Job \cup {NoJob}]]
    BY <1>1, <1>2, <1>3 DEF QueueTyped, PumpSteps
  <2>2. made + 1 \in 0 .. MaxReady
    BY <1>2, <1>3
  <2> QED
    BY <1>1, <1>2, <2>1, <2>2 DEF QueueTyped
<1>8. HandsRight'
  <2> SUFFICES ASSUME NEW c \in Callers
               PROVE  IF handing[c].job = NoJob THEN handing[c] = Free
                      ELSE /\ handing[c].job.by = c /\ handing[c].job.n = asked[c]
                           /\ ~handing[c].job.held /\ handing[c].to <= made + 1
    BY <1>2 DEF HandsRight, Free, NoJob
  <2>1. handing[c].to \in 0 .. MaxReady
    BY <1>1 DEF QueueTyped
  <2>2. handing[c].to <= made => handing[c].to <= made + 1
    BY <1>3, <2>1
  <2> QED
    BY <1>1, <2>2 DEF HandsRight
<1>9. HeldRight'
  BY <1>1, <1>2, <1>3 DEF HeldRight
<1>10. PumpsRight'
  <2>1. ASSUME NEW q \in Queues
        PROVE  /\ q > made + 1 => pump'[q] = NoPump /\ queue[q] = <<>> /\ ran[q] = <<>>
               /\ pump'[q].pc = "new" => q = made + 1 /\ ran[q] = <<>>
               /\ pump'[q].pc \in {"rest", "busy"} => pump'[q].on = q
               /\ pump'[q].pc = "busy" <=> pump'[q].job # NoJob
    <3>1. CASE q = made + 1
      BY <1>3, <1>4, <1>5, <3>1
    <3>2. CASE q # made + 1
      <4>1. q > made + 1 => q > made
        BY <1>3 DEF Queues
      <4> QED
        BY <1>1, <1>2, <1>5, <3>2, <4>1 DEF PumpsRight
    <3> QED
      BY <3>1, <3>2
  <2>2. \A j \in JobsOf(queue[made + 1]) \ {Stop} : ~j.held
    BY <1>4, NoWork
  <2>3. Queues' = Queues /\ NoPump' = NoPump
    BY DEF Queues, NoPump, NoJob
  <2> QED
    BY <1>2, <1>3, <1>5, <2>1, <2>2, <2>3 DEF PumpsRight
<1>11. QueueOrder'
  <2>1. \A q \in Queues : LineOrder(q) => LineOrder(q)'
    BY <1>2, <1>5 DEF LineOrder
  <2> QED
    BY <1>1, <1>2, <2>1 DEF QueueOrder, Queues
<1> QED
  BY <1>6, <1>7, <1>8, <1>9, <1>10, <1>11 DEF QueueInv

\* The held jobs leave together; the new queue has none of them yet.
LEMMA InvSwapHeld ==
  ASSUME QueueInv, SwapHeld
  PROVE  QueueInv'
<1> USE QueueAssumption
<1>1. QueueTyped /\ HandsRight /\ HeldRight /\ PumpsRight /\ QueueOrder /\ Apart
  BY DEF QueueInv
<1>2. /\ ready = "swap" /\ refill' = held /\ held' = <<>> /\ ready' = "refill"
      /\ UNCHANGED <<asked, handing, dropped, current, made, queue, pump, channel, ran, shut>>
  BY DEF SwapHeld, OldestFirst
<1>3. held \in Seq(Job) /\ refill = <<>> /\ <<>> \in Seq(Job) /\ Len(<<>>) = 0
  BY <1>1, <1>2, EmptySeq DEF QueueTyped, HeldRight
<1>4. /\ InHeld \in Places /\ InRefill \in Places /\ InDropped \in Places
      /\ InHeld # InRefill /\ InHeld # InDropped /\ InRefill # InDropped
      /\ At(InHeld) = held /\ At(InRefill) = refill
      /\ At(InHeld)' = held' /\ At(InRefill)' = refill' /\ At(InDropped)' = At(InDropped)
  BY <1>2, PlaceCases, PlacesDiffer, Contents, ContentsNext
<1>5. Apart'
  <2>1. \A p \in Places \ {InHeld, InRefill} : At(p)' = At(p)
    BY <1>2, PlaceCases, Contents, ContentsNext
  <2>2. NoneTwice(At(InDropped)') /\ NoneTwice(held) /\ NoneTwice(<<>>)
    BY <1>1, <1>4, NoWork DEF Apart
  <2>3. Named(<<>>) = {}
    BY NoWork
  <2>4. Moves(InHeld, InRefill, InDropped, Named(held), {})
    BY <1>2, <1>3, <1>4, <2>1, <2>2, <2>3 DEF Moves
  <2> QED
    BY <1>1, <2>4, JobsMove
<1>6. QueueTyped'
  BY <1>1, <1>2, <1>3 DEF QueueTyped
<1>7. HandsRight'
  BY <1>1, <1>2 DEF HandsRight, Free, NoJob
<1>8. HeldRight'
  BY <1>1, <1>2, <1>3, NoWork DEF HeldRight
<1>9. PumpsRight'
  BY <1>1, <1>2 DEF PumpsRight, OnReadyRuns, Queues, NoPump
<1>10. QueueOrder'
  <2>1. \A q \in Queues : LineOrder(q) => LineOrder(q)'
    BY <1>2 DEF LineOrder
  <2>2. \A j \in JobsOf(queue[made]), k \in JobsOf(held) : AskedBefore(j, k)
    <3>1. made \in Queues
      BY <1>1, <1>2 DEF PumpsRight, OnReadyRuns
    <3>2. JobsOf(queue[made]) \subseteq Entries /\ JobsOf(held) \subseteq Job
      BY <1>1, <3>1, ListFacts DEF QueueTyped
    <3>3. \A j \in JobsOf(queue[made]) \ {Stop} : j.held = FALSE
      BY <1>1, <1>2, <3>2, JobsAreJobs DEF PumpsRight, Entries
    <3>4. \A k \in JobsOf(held) : k.held = TRUE
      BY <1>1, <3>2, JobsAreJobs DEF HeldRight
    <3> QED
      BY <3>3, <3>4 DEF AskedBefore
  <2> QED
    BY <1>1, <1>2, <2>1, <2>2, NoWork DEF QueueOrder, Queues
<1> QED
  BY <1>5, <1>6, <1>7, <1>8, <1>9, <1>10 DEF QueueInv

\* The oldest held job is scheduled again.
LEMMA RefillTaken ==
  ASSUME QueueInv, Refill
  PROVE  /\ ready = "refill" /\ refill # <<>> /\ refill' = Tail(refill)
         /\ Head(refill) \in Job /\ Tail(refill) \in Seq(Job) /\ Head(refill).held
         /\ JobsOf(refill) = JobsOf(Tail(refill)) \cup {Head(refill)}
         /\ InRefill \in Places /\ At(InRefill) = refill /\ At(InRefill)' = Tail(refill)
         /\ JobName(Head(refill)) \in Named(refill)
         /\ Named(Tail(refill)) = Named(refill) \ {JobName(Head(refill))}
         /\ NoneTwice(Tail(refill))
         /\ made \in Queues /\ current \in {0, made}
         /\ UNCHANGED <<asked, handing, current, made, pump, ready, channel, ran, shut>>
<1>1. QueueTyped /\ HeldRight /\ PumpsRight /\ Apart
  BY DEF QueueInv
<1>2. /\ ready = "refill" /\ refill # <<>> /\ refill' = Tail(refill)
      /\ UNCHANGED <<asked, handing, current, made, pump, ready, channel, ran, shut>>
  BY DEF Refill
<1>3. refill \in Seq(Job) /\ refill \in Seq(Entries) /\ Stop \notin Job
  BY <1>1, SeqMonotonic, JobsAreJobs DEF QueueTyped, Entries
<1>4. /\ Head(refill) \in Job /\ Tail(refill) \in Seq(Job)
      /\ JobsOf(refill) = JobsOf(Tail(refill)) \cup {Head(refill)}
  BY <1>2, <1>3, HeadTailProperties, JobsTaken
<1>5. InRefill \in Places /\ At(InRefill) = refill /\ At(InRefill)' = Tail(refill)
  BY <1>2, PlaceCases, Contents, ContentsNext
<1>6. NoneTwice(refill)
  BY <1>1, <1>5 DEF Apart
<1>7. /\ JobName(Head(refill)) \in Named(refill)
      /\ Named(Tail(refill)) = Named(refill) \ {JobName(Head(refill))}
      /\ NoneTwice(Tail(refill))
  BY <1>2, <1>3, <1>4, <1>6, NamesTaken
<1>8. Head(refill).held
  BY <1>1, <1>4 DEF HeldRight
<1>9. made \in Queues /\ current \in {0, made}
  BY <1>1, <1>2 DEF PumpsRight, OnReadyRuns, QueueTyped
<1> QED
  BY <1>2, <1>4, <1>5, <1>7, <1>8, <1>9

\* After close() it is held again.
LEMMA InvRefillHeld ==
  ASSUME QueueInv, Refill, current = 0
  PROVE  QueueInv'
<1>1. QueueTyped /\ HandsRight /\ HeldRight /\ PumpsRight /\ QueueOrder /\ Apart
  BY DEF QueueInv
<1>2. PICK job \in Job :
        /\ job = Head(refill) /\ HoldJob(job) /\ queue' = queue
        /\ JobName(job) \in Named(refill)
        /\ Named(Tail(refill)) = Named(refill) \ {JobName(job)}
  BY RefillTaken DEF Refill
<1>3. /\ ready = "refill" /\ refill' = Tail(refill) /\ Tail(refill) \in Seq(Job)
      /\ JobsOf(refill) = JobsOf(Tail(refill)) \cup {Head(refill)}
      /\ NoneTwice(Tail(refill))
      /\ UNCHANGED <<asked, handing, current, made, pump, ready, channel, ran, shut, queue>>
  BY <1>2, RefillTaken
<1>4. held \in Seq(Job) /\ dropped \in Seq(Job) /\ Len(held) <= MaxHeld
  BY <1>1 DEF QueueTyped, HeldRight
<1>5. /\ InRefill \in Places /\ InRefill # InHeld /\ InRefill # InDropped
      /\ At(InRefill) = refill /\ At(InRefill)' = Tail(refill)
  BY PlacesDiffer, RefillTaken
<1>6. \A p \in Places \ {InRefill, InHeld, InDropped} : At(p)' = At(p)
  BY <1>3, PlaceCases, Contents, ContentsNext
<1>7. /\ Apart'
      /\ held' \in Seq(Job) /\ dropped' \in Seq(Job) /\ Len(held') <= MaxHeld
      /\ \A k \in JobsOf(held') : k \in JobsOf(held) \/ k.held
  <2>1. asked' = asked /\ JobName(job) \in Named(At(InRefill))
        /\ Named(At(InRefill)') = Named(At(InRefill)) \ {JobName(job)} /\ NoneTwice(At(InRefill)')
    BY <1>2, <1>3, <1>5
  <2> QED
    BY <1>1, <1>2, <1>4, <1>5, <1>6, <2>1, ApartHeld
<1>8. shut
  <2>1. made # 0
    BY RefillTaken DEF Queues
  <2> QED
    BY <1>1, <2>1 DEF PumpsRight
<1>9. QueueTyped'
  BY <1>1, <1>3, <1>7 DEF QueueTyped
<1>10. HandsRight'
  BY <1>1, <1>3 DEF HandsRight, Free, NoJob
<1>11. HeldRight'
  BY <1>1, <1>3, <1>7 DEF HeldRight
<1>12. PumpsRight'
  BY <1>1, <1>3 DEF PumpsRight, OnReadyRuns, Queues, NoPump
<1>13. QueueOrder'
  BY <1>3, <1>8 DEF QueueOrder
<1> QED
  BY <1>7, <1>9, <1>10, <1>11, <1>12, <1>13 DEF QueueInv

\* Otherwise it goes into the new queue, behind those that were held before it.
LEMMA InvRefillQueued ==
  ASSUME QueueInv, Refill, current # 0
  PROVE  QueueInv'
<1>1. QueueTyped /\ HandsRight /\ HeldRight /\ PumpsRight /\ QueueOrder /\ Apart
  BY DEF QueueInv
<1>2. PICK job \in Job, q \in Queues :
        /\ job = Head(refill) /\ q = made /\ q = current /\ job.held
        /\ queue' = [queue EXCEPT ![q] = Append(@, job)]
        /\ held' = held /\ dropped' = dropped
        /\ JobName(job) \in Named(refill)
        /\ Named(Tail(refill)) = Named(refill) \ {JobName(job)}
  BY RefillTaken DEF Refill
<1>3. /\ ready = "refill" /\ refill # <<>> /\ refill' = Tail(refill) /\ Tail(refill) \in Seq(Job)
      /\ JobsOf(refill) = JobsOf(Tail(refill)) \cup {job}
      /\ NoneTwice(Tail(refill)) /\ refill \in Seq(Job)
      /\ UNCHANGED <<asked, handing, current, made, pump, ready, channel, ran, shut, held, dropped>>
  BY <1>1, <1>2, RefillTaken DEF QueueTyped
<1>4. /\ \A r \in Queues \ {q} : queue'[r] = queue[r]
      /\ queue'[q] = Append(queue[q], job)
      /\ queue[q] \in Seq(Entries) /\ queue \in [Queues -> Seq(Entries)]
  BY <1>1, <1>2 DEF QueueTyped
<1>5. /\ InRefill \in Places /\ InQueue(q) \in Places /\ InDropped \in Places
      /\ InRefill # InQueue(q) /\ InRefill # InDropped /\ InQueue(q) # InDropped
      /\ At(InRefill) = refill /\ At(InRefill)' = Tail(refill)
      /\ At(InQueue(q)) = queue[q] /\ At(InQueue(q))' = queue'[q]
      /\ At(InDropped)' = At(InDropped)
  BY <1>2, <1>3, PlaceCases, PlacesDiffer, Contents, ContentsNext
<1>6. ASSUME NEW p \in Places \ {InRefill, InQueue(q)} PROVE At(p)' = At(p)
  <2>1. CASE \E r \in Queues : p = InQueue(r)
    BY <1>4, <2>1, Contents, ContentsNext
  <2>2. CASE ~\E r \in Queues : p = InQueue(r)
    BY <1>3, <2>2, PlaceCases, Contents, ContentsNext
  <2> QED
    BY <2>1, <2>2
<1>7. /\ queue'[q] \in Seq(Entries) /\ NoneTwice(queue'[q])
      /\ Named(queue'[q]) = Named(queue[q]) \cup {JobName(job)}
  <2>1. NoneTwice(queue[q]) /\ JobName(job) \notin Named(queue[q])
    BY <1>1, <1>2, <1>5 DEF Apart
  <2> QED
    BY <1>4, <2>1, NamesAppended
<1>8. Apart'
  <2>1. NoneTwice(At(InDropped)')
    BY <1>1, <1>5 DEF Apart
  <2>2. Moves(InRefill, InQueue(q), InDropped, {JobName(job)}, {})
    BY <1>2, <1>3, <1>5, <1>6, <1>7, <2>1 DEF Moves
  <2> QED
    BY <1>1, <2>2, JobsMove
<1>9. QueueTyped'
  <2>1. queue' \in [Queues -> Seq(Entries)]
    BY <1>2, <1>4, <1>7
  <2> QED
    BY <1>1, <1>3, <2>1 DEF QueueTyped
<1>10. HandsRight'
  BY <1>1, <1>3 DEF HandsRight, Free, NoJob
<1>11. HeldRight'
  BY <1>1, <1>3 DEF HeldRight
<1>12. PumpsRight'
  <2>1. \A r \in Queues : r > made => queue'[r] = queue[r]
    BY <1>2, <1>4 DEF Queues
  <2> QED
    BY <1>1, <1>3, <2>1 DEF PumpsRight, OnReadyRuns, Queues, NoPump
<1>13. QueueOrder'
  <2>1. SUFFICES ASSUME ~shut PROVE QueueOrder'
    BY <1>3 DEF QueueOrder
  <2>2. /\ Ordered(held) /\ Ordered(refill) /\ \A r \in Queues : LineOrder(r)
        /\ \A d \in JobsOf(dropped), h \in JobsOf(held) : h.by = d.by => d.n < h.n
        /\ \A j \in JobsOf(queue[q]), k \in JobsOf(refill) : AskedBefore(j, k)
    BY <1>1, <1>2, <1>3, <2>1 DEF QueueOrder
  <2>3. Ordered(Tail(refill)) /\ \A k \in JobsOf(Tail(refill)) : AskedBefore(job, k)
    BY <1>2, <1>3, <2>2, OrderTaken
  <2>4. /\ ran[q] = <<>> /\ pump[q].job = NoJob
    BY <1>1, <1>2, <1>3 DEF PumpsRight, OnReadyRuns
  <2>5. JobsOf(queue'[q]) = JobsOf(queue[q]) \cup {job}
    BY <1>2, <1>4, JobsAppended DEF Entries
  <2>6. LineOrder(q)'
    <3>1. Ordered(queue'[q])
      BY <1>2, <1>3, <1>4, <2>2, OrderAppended DEF LineOrder, Entries
    <3> QED
      BY <1>3, <2>4, <3>1, NoWork DEF LineOrder
  <2>7. \A r \in Queues : LineOrder(r)'
    <3> SUFFICES ASSUME NEW r \in Queues PROVE LineOrder(r)'
      OBVIOUS
    <3>1. CASE r = q
      BY <2>6, <3>1
    <3>2. CASE r # q
      BY <1>3, <1>4, <2>2, <3>2 DEF LineOrder
    <3> QED
      BY <3>1, <3>2
  <2>8. \A j \in JobsOf(queue'[q]), k \in JobsOf(Tail(refill)) : AskedBefore(j, k)
    BY <1>3, <2>2, <2>3, <2>5
  <2> QED
    BY <1>2, <1>3, <2>2, <2>3, <2>7, <2>8 DEF QueueOrder, Queues
<1> QED
  BY <1>8, <1>9, <1>10, <1>11, <1>12, <1>13 DEF QueueInv

-----------------------------------------------------------------------------
(* The pumps, and the end.                                                  *)

\* Steps that touch no job.
LEMMA InvQuiet ==
  ASSUME QueueInv,
         UNCHANGED <<asked, handing, held, dropped, made, queue, refill, ran>>,
         QueueTyped', PumpsRight',
         shut => shut',
         ready' = "refill" => ready = "refill",
         \A q \in Queues : pump'[q].job = pump[q].job,
         refill # <<>> => ready' = "refill"
  PROVE  QueueInv'
<1>1. QueueTyped /\ HandsRight /\ HeldRight /\ PumpsRight /\ QueueOrder /\ Apart
  BY DEF QueueInv
<1>2. HandsRight'
  BY <1>1 DEF HandsRight, Free, NoJob
<1>3. HeldRight'
  BY <1>1 DEF HeldRight
<1>4. QueueOrder'
  <2>1. \A q \in Queues : LineOrder(q) => LineOrder(q)'
    BY DEF LineOrder
  <2> QED
    BY <1>1, <2>1 DEF QueueOrder, Queues
<1>5. Apart'
  <2>1. \A q \in Queues : Named(queue'[q]) = Named(queue[q]) /\ NoneTwice(queue'[q])
    BY <1>1, PlaceCases, Contents DEF Apart
  <2> QED
    BY <1>1, <2>1, NothingMoves
<1> QED
  BY <1>2, <1>3, <1>4, <1>5 DEF QueueInv

\* The channel is looked for, a pump begins, close() forgets the loop.
LEMMA InvFind == QueueInv /\ (FindChannel \/ FetchChannel) => QueueInv'
<1> SUFFICES ASSUME QueueInv, FindChannel \/ FetchChannel PROVE QueueInv'
  OBVIOUS
<1>1. QueueTyped /\ PumpsRight /\ HeldRight
  BY DEF QueueInv
<1>2. /\ UNCHANGED <<asked, handing, held, dropped, current, made, queue, pump, refill, ran, shut>>
      /\ ready' \in {"ready", "fetch"} /\ channel' \in {channel, TRUE} /\ refill = <<>>
  <2>1. refill = <<>>
    BY <1>1 DEF FindChannel, FetchChannel, HeldRight
  <2> QED
    BY <2>1 DEF FindChannel, FetchChannel
<1>3. QueueTyped'
  <2>1. channel' \in BOOLEAN
    BY <1>1, <1>2 DEF QueueTyped
  <2> QED
    BY <1>1, <1>2, <2>1 DEF QueueTyped
<1>4. PumpsRight'
  BY <1>1, <1>2 DEF PumpsRight, OnReadyRuns, Queues, NoPump
<1> QED
  BY <1>2, <1>3, <1>4, InvQuiet

LEMMA InvBindPump ==
  ASSUME QueueInv, NEW q \in Queues, BindPump(q)
  PROVE  QueueInv'
<1> USE QueueAssumption
<1>1. QueueTyped /\ PumpsRight /\ HeldRight
  BY DEF QueueInv
<1>2. /\ pump[q].pc = "new" /\ ~OnReadyRuns
      /\ pump' = [pump EXCEPT ![q].pc = IF current = 0 THEN "dead" ELSE "rest", ![q].on = current]
      /\ UNCHANGED <<asked, handing, held, dropped, current, made, queue, ready,
                     refill, channel, ran, shut>>
  BY DEF BindPump
<1>3. q = made /\ current \in {0, made} /\ pump[q].job = NoJob /\ current \in 0 .. MaxReady
  BY <1>1, <1>2 DEF PumpsRight, QueueTyped
<1>4. /\ \A r \in Queues \ {q} : pump'[r] = pump[r]
      /\ pump'[q].pc = IF current = 0 THEN "dead" ELSE "rest"
      /\ pump'[q].on = current /\ pump'[q].job = NoJob
  BY <1>1, <1>2, <1>3 DEF QueueTyped
<1>5. QueueTyped'
  <2>1. pump' \in [Queues -> [pc : PumpSteps, on : 0 .. MaxReady, job : Job \cup {NoJob}]]
    <3>1. pump \in [Queues -> [pc : PumpSteps, on : 0 .. MaxReady, job : Job \cup {NoJob}]]
      BY <1>1 DEF QueueTyped
    <3>2. pump' = [pump EXCEPT ![q] = [pump[q] EXCEPT !.pc = IF current = 0 THEN "dead" ELSE "rest",
                                                     !.on = current]]
      BY <1>2
    <3>3. [pump[q] EXCEPT !.pc = IF current = 0 THEN "dead" ELSE "rest", !.on = current]
            \in [pc : PumpSteps, on : 0 .. MaxReady, job : Job \cup {NoJob}]
      BY <1>3, <3>1 DEF PumpSteps
    <3> QED
      BY <3>1, <3>2, <3>3
  <2> QED
    BY <1>1, <1>2, <2>1 DEF QueueTyped
<1>6. PumpsRight'
  <2>1. ~(q > made)
    BY <1>3 DEF Queues
  <2>2. ASSUME NEW r \in Queues
        PROVE  /\ r > made => pump'[r] = NoPump /\ queue[r] = <<>> /\ ran[r] = <<>>
               /\ pump'[r].pc = "new" => r = made /\ ran[r] = <<>>
               /\ pump'[r].pc \in {"rest", "busy"} => pump'[r].on = r
               /\ pump'[r].pc = "busy" <=> pump'[r].job # NoJob
    <3>1. CASE r = q
      BY <1>3, <1>4, <2>1, <3>1
    <3>2. CASE r # q
      BY <1>1, <1>4, <3>2 DEF PumpsRight
    <3> QED
      BY <3>1, <3>2
  <2>3. Queues' = Queues /\ NoPump' = NoPump /\ ~OnReadyRuns' /\ ready' # "swap" /\ (~shut => current = made)
    BY <1>1, <1>2 DEF Queues, NoPump, NoJob, OnReadyRuns, PumpsRight
  <2> QED
    BY <1>2, <2>2, <2>3 DEF PumpsRight
<1>7. \A r \in Queues : pump'[r].job = pump[r].job
  BY <1>3, <1>4
<1> QED
  BY <1>1, <1>2, <1>5, <1>6, <1>7, InvQuiet DEF HeldRight

LEMMA InvForget ==
  ASSUME QueueInv, Forget
  PROVE  QueueInv'
<1>1. QueueTyped /\ PumpsRight /\ HeldRight
  BY DEF QueueInv
<1>2. /\ current' = 0 /\ shut' = TRUE
      /\ UNCHANGED <<asked, handing, held, dropped, made, queue, pump, ready, refill, channel, ran>>
  BY DEF Forget
<1>3. QueueTyped'
  BY <1>1, <1>2 DEF QueueTyped
<1>4. PumpsRight'
  BY <1>1, <1>2 DEF PumpsRight, OnReadyRuns, Queues, NoPump
<1> QED
  BY <1>1, <1>2, <1>3, <1>4, InvQuiet DEF HeldRight

\* A pump takes the next job, or the sentinel that ends it.
TakesNext(q) ==
  /\ NextJob(q)
  /\ UNCHANGED <<asked, handing, held, dropped, current, made, ready, refill, channel, ran, shut>>

LEMMA InvTakesNext ==
  ASSUME QueueInv, NEW q \in Queues, TakesNext(q)
  PROVE  QueueInv'
<1> USE QueueAssumption
<1>1. QueueTyped /\ HandsRight /\ HeldRight /\ PumpsRight /\ QueueOrder /\ Apart
  BY DEF QueueInv
<1>2. /\ pump[q].pc = "rest" /\ pump[q].on = q /\ pump[q].job = NoJob /\ ~OnReadyRuns
  BY <1>1 DEF TakesNext, NextJob, PumpsRight
<1>3. PICK first \in Entries :
        /\ first = Head(queue[q]) /\ queue[q] # <<>>
        /\ queue' = [queue EXCEPT ![q] = Tail(@)]
        /\ pump' = [pump EXCEPT ![q] = [pump[q] EXCEPT
                       !.pc = IF first = Stop THEN "dead" ELSE "busy",
                       !.job = IF first = Stop THEN NoJob ELSE first]]
        /\ UNCHANGED <<asked, handing, held, dropped, current, made, ready, refill, channel, ran, shut>>
  <2>1. /\ queue[q] # <<>> /\ queue' = [queue EXCEPT ![q] = Tail(@)]
        /\ pump' = [pump EXCEPT ![q].pc = IF Head(queue[q]) = Stop THEN "dead" ELSE "busy",
                                ![q].job = IF Head(queue[q]) = Stop THEN NoJob ELSE Head(queue[q])]
        /\ UNCHANGED <<asked, handing, held, dropped, current, made, ready, refill, channel, ran, shut>>
    BY <1>2 DEF TakesNext, NextJob
  <2>2. Head(queue[q]) \in Entries
    BY <1>1, <2>1, HeadTailProperties DEF QueueTyped
  <2> QED
    BY <2>1, <2>2
<1>4. /\ \A r \in Queues \ {q} : queue'[r] = queue[r] /\ pump'[r] = pump[r]
      /\ queue'[q] = Tail(queue[q]) /\ queue[q] \in Seq(Entries)
      /\ pump'[q].pc = (IF first = Stop THEN "dead" ELSE "busy")
      /\ pump'[q].job = (IF first = Stop THEN NoJob ELSE first) /\ pump'[q].on = q
      /\ queue \in [Queues -> Seq(Entries)]
  BY <1>1, <1>2, <1>3 DEF QueueTyped
<1>5. Stop \notin Job /\ NoJob \notin Job /\ (first # Stop => first \in Job /\ first # NoJob)
  BY JobsAreJobs DEF Entries
<1>6. /\ At(InQueue(q)) = queue[q] /\ At(InQueue(q))' = Tail(queue[q])
      /\ At(InPump(q)) = <<>> /\ At(InPump(q))' = Only(pump'[q].job)
      /\ InQueue(q) \in Places /\ InPump(q) \in Places /\ InDropped \in Places
      /\ InQueue(q) # InPump(q) /\ InPump(q) # InDropped /\ InQueue(q) # InDropped
      /\ At(InDropped)' = At(InDropped)
  BY <1>2, <1>3, <1>4, PlaceCases, PlacesDiffer, Contents, ContentsNext, OnlyOne
<1>7. NoneTwice(queue[q])
  BY <1>1, <1>6 DEF Apart
<1>8. /\ Tail(queue[q]) \in Seq(Entries) /\ NoneTwice(Tail(queue[q]))
      /\ first = Stop => Named(Tail(queue[q])) = Named(queue[q])
      /\ first # Stop => /\ JobName(first) \in Named(queue[q])
                         /\ Named(Tail(queue[q])) = Named(queue[q]) \ {JobName(first)}
  BY <1>3, <1>4, <1>7, NamesTaken
<1>9. Apart'
  <2>1. CASE first = Stop
    <3>1. \A r \in Queues : pump'[r].job = pump[r].job
      BY <1>2, <1>4, <2>1
    <3>2. \A r \in Queues : Named(queue'[r]) = Named(queue[r]) /\ NoneTwice(queue'[r])
      <4>1. \A r \in Queues : NoneTwice(queue[r])
        BY <1>1, PlaceCases, Contents DEF Apart
      <4> QED
        BY <1>4, <1>8, <2>1, <4>1
    <3> QED
      BY <1>1, <1>3, <3>1, <3>2, NothingMoves
  <2>2. CASE first # Stop
    <3>1. ASSUME NEW p \in Places \ {InQueue(q), InPump(q)} PROVE At(p)' = At(p)
      <4>1. CASE \E r \in Queues : p = InQueue(r) \/ p = InPump(r)
        BY <1>4, <4>1, Contents, ContentsNext
      <4>2. CASE ~\E r \in Queues : p = InQueue(r) \/ p = InPump(r)
        BY <1>3, <4>2, PlaceCases, Contents, ContentsNext
      <4> QED
        BY <4>1, <4>2
    <3>2. /\ Named(At(InPump(q))) = {} /\ Named(At(InPump(q))') = {JobName(first)}
          /\ NoneTwice(At(InPump(q))')
      BY <1>4, <1>5, <1>6, <2>2, OnlyOne, NoWork
    <3>3. NoneTwice(At(InDropped)')
      BY <1>1, <1>6 DEF Apart
    <3>4. Moves(InQueue(q), InPump(q), InDropped, {JobName(first)}, {})
      BY <1>3, <1>6, <1>8, <2>2, <3>1, <3>2, <3>3 DEF Moves
    <3> QED
      BY <1>1, <3>4, JobsMove
  <2> QED
    BY <2>1, <2>2
<1>10. QueueTyped'
  <2>1. queue' \in [Queues -> Seq(Entries)]
    BY <1>3, <1>4, <1>8
  <2>2. pump' \in [Queues -> [pc : PumpSteps, on : 0 .. MaxReady, job : Job \cup {NoJob}]]
    <3>1. pump \in [Queues -> [pc : PumpSteps, on : 0 .. MaxReady, job : Job \cup {NoJob}]]
      BY <1>1 DEF QueueTyped
    <3>2. [pump[q] EXCEPT !.pc = IF first = Stop THEN "dead" ELSE "busy",
                          !.job = IF first = Stop THEN NoJob ELSE first]
            \in [pc : PumpSteps, on : 0 .. MaxReady, job : Job \cup {NoJob}]
      BY <1>5, <3>1 DEF PumpSteps
    <3> QED
      BY <1>3, <3>1, <3>2
  <2> QED
    BY <1>1, <1>3, <2>1, <2>2 DEF QueueTyped
<1>11. HandsRight'
  BY <1>1, <1>3 DEF HandsRight, Free, NoJob
<1>12. HeldRight'
  BY <1>1, <1>3 DEF HeldRight
<1>13. PumpsRight'
  <2>1. ~(q > made)
    <3>1. NoPump.pc = "none"
      BY DEF NoPump
    <3> QED
      BY <1>1, <1>2, <3>1 DEF PumpsRight
  <2>2. ASSUME NEW r \in Queues
        PROVE  /\ r > made => pump'[r] = NoPump /\ queue'[r] = <<>> /\ ran[r] = <<>>
               /\ pump'[r].pc = "new" => r = made /\ ran[r] = <<>>
               /\ pump'[r].pc \in {"rest", "busy"} => pump'[r].on = r
               /\ pump'[r].pc = "busy" <=> pump'[r].job # NoJob
    <3>1. CASE r = q
      BY <1>4, <1>5, <2>1, <3>1
    <3>2. CASE r # q
      BY <1>1, <1>4, <3>2 DEF PumpsRight
    <3> QED
      BY <3>1, <3>2
  <2>3. /\ Queues' = Queues /\ NoPump' = NoPump /\ ~OnReadyRuns' /\ ready' # "swap"
        /\ (~shut => current = made)
    BY <1>1, <1>2, <1>3 DEF Queues, NoPump, NoJob, OnReadyRuns, PumpsRight
  <2> QED
    BY <1>3, <2>2, <2>3 DEF PumpsRight
<1>14. QueueOrder'
  <2>1. JobsOf(queue[q]) = JobsOf(Tail(queue[q])) \cup {first}
    BY <1>3, <1>4, JobsTaken
  <2>2. ASSUME LineOrder(q) PROVE LineOrder(q)'
    <3>1. /\ Ordered(Tail(queue[q])) /\ \A k \in JobsOf(Tail(queue[q])) : AskedBefore(first, k)
      BY <1>3, <1>4, <2>2, OrderTaken DEF LineOrder
    <3>2. /\ Ordered(ran[q])
          /\ \A j \in JobsOf(ran[q]), k \in JobsOf(Tail(queue[q])) \cup {first} : AskedBefore(j, k)
      BY <2>1, <2>2 DEF LineOrder
    <3>3. pump'[q].job # NoJob => pump'[q].job = first
      BY <1>4
    <3> QED
      BY <1>3, <1>4, <3>1, <3>2, <3>3 DEF LineOrder
  <2>3. \A r \in Queues : LineOrder(r) => LineOrder(r)'
    <3> SUFFICES ASSUME NEW r \in Queues, LineOrder(r) PROVE LineOrder(r)'
      OBVIOUS
    <3>1. CASE r = q
      BY <2>2, <3>1
    <3>2. CASE r # q
      BY <1>3, <1>4, <3>2 DEF LineOrder
    <3> QED
      BY <3>1, <3>2
  <2>4. ready # "refill"
    BY <1>2 DEF OnReadyRuns
  <2> QED
    BY <1>1, <1>3, <2>3, <2>4 DEF QueueOrder, Queues
<1> QED
  BY <1>9, <1>10, <1>11, <1>12, <1>13, <1>14 DEF QueueInv

\* A pump finishes its job, which goes behind what it has finished.
Finishes(q) ==
  /\ JobDone(q)
  /\ UNCHANGED <<asked, handing, held, dropped, current, made, queue, ready, refill, channel, shut>>

LEMMA InvFinishes ==
  ASSUME QueueInv, NEW q \in Queues, Finishes(q)
  PROVE  QueueInv'
<1> USE QueueAssumption
<1>1. QueueTyped /\ HandsRight /\ HeldRight /\ PumpsRight /\ QueueOrder /\ Apart
  BY DEF QueueInv
<1>2. PICK job \in Job :
        /\ job = pump[q].job /\ job # NoJob /\ pump[q].on = q /\ ~OnReadyRuns
        /\ pump' = [pump EXCEPT ![q] = [pump[q] EXCEPT !.pc = "rest", !.job = NoJob]]
        /\ ran' = [ran EXCEPT ![q] = Append(@, job)]
        /\ UNCHANGED <<asked, handing, held, dropped, current, made, queue, ready, refill, channel, shut>>
  <2>1. pump[q].pc = "busy" /\ pump[q].job # NoJob /\ pump[q].on = q /\ ~OnReadyRuns
    BY <1>1 DEF Finishes, JobDone, PumpsRight
  <2>2. pump[q].job \in Job
    BY <1>1, <2>1 DEF QueueTyped
  <2>3. /\ pump' = [pump EXCEPT ![q].pc = "rest", ![q].job = NoJob]
        /\ ran' = [ran EXCEPT ![q] = Append(@, pump[q].job)]
        /\ UNCHANGED <<asked, handing, held, dropped, current, made, queue, ready, refill, channel, shut>>
    BY <2>1 DEF Finishes, JobDone
  <2> QED
    BY <2>1, <2>2, <2>3
<1>3. /\ \A r \in Queues \ {q} : ran'[r] = ran[r] /\ pump'[r] = pump[r]
      /\ ran'[q] = Append(ran[q], job) /\ ran[q] \in Seq(Job)
      /\ pump'[q].pc = "rest" /\ pump'[q].job = NoJob /\ pump'[q].on = q
      /\ ran \in [Queues -> Seq(Job)]
  BY <1>1, <1>2 DEF QueueTyped
<1>4. ran[q] \in Seq(Entries) /\ Append(ran[q], job) \in Seq(Job)
  BY <1>3, SeqMonotonic, AppendProperties DEF Entries
<1>5. /\ At(InPump(q)) = Only(job) /\ At(InPump(q))' = <<>>
      /\ At(InRan(q)) = ran[q] /\ At(InRan(q))' = ran'[q]
      /\ InPump(q) \in Places /\ InRan(q) \in Places /\ InDropped \in Places
      /\ InPump(q) # InRan(q) /\ InPump(q) # InDropped /\ InRan(q) # InDropped
      /\ At(InDropped)' = At(InDropped)
  BY <1>2, <1>3, PlaceCases, PlacesDiffer, Contents, ContentsNext, OnlyOne
<1>6. Named(At(InPump(q))) = {JobName(job)}
  BY <1>5, OnlyOne
<1>7. /\ NoneTwice(ran'[q]) /\ Named(ran'[q]) = Named(ran[q]) \cup {JobName(job)}
  <2>1. NoneTwice(ran[q]) /\ JobName(job) \notin Named(ran[q])
    BY <1>1, <1>5, <1>6 DEF Apart
  <2> QED
    BY <1>3, <1>4, <2>1, NamesAppended
<1>8. Apart'
  <2>1. ASSUME NEW p \in Places \ {InPump(q), InRan(q)} PROVE At(p)' = At(p)
    <3>1. CASE \E r \in Queues : p = InRan(r) \/ p = InPump(r)
      BY <1>3, <3>1, Contents, ContentsNext
    <3>2. CASE ~\E r \in Queues : p = InRan(r) \/ p = InPump(r)
      BY <1>2, <3>2, PlaceCases, Contents, ContentsNext
    <3> QED
      BY <3>1, <3>2
  <2>2. NoneTwice(At(InDropped)')
    BY <1>1, <1>5 DEF Apart
  <2>3. Moves(InPump(q), InRan(q), InDropped, {JobName(job)}, {})
    BY <1>2, <1>5, <1>6, <1>7, <2>1, <2>2, NoWork DEF Moves
  <2> QED
    BY <1>1, <2>3, JobsMove
<1>9. QueueTyped'
  <2>1. ran' \in [Queues -> Seq(Job)]
    BY <1>2, <1>3, <1>4
  <2>2. pump' \in [Queues -> [pc : PumpSteps, on : 0 .. MaxReady, job : Job \cup {NoJob}]]
    BY <1>1, <1>2 DEF QueueTyped, PumpSteps
  <2> QED
    BY <1>1, <1>2, <2>1, <2>2 DEF QueueTyped
<1>10. HandsRight'
  BY <1>1, <1>2 DEF HandsRight, Free, NoJob
<1>11. HeldRight'
  BY <1>1, <1>2 DEF HeldRight
<1>12. PumpsRight'
  <2>1. ~(q > made)
    <3>1. NoPump.job = NoJob
      BY DEF NoPump
    <3> QED
      BY <1>1, <1>2, <3>1 DEF PumpsRight
  <2>2. ASSUME NEW r \in Queues
        PROVE  /\ r > made => pump'[r] = NoPump /\ queue[r] = <<>> /\ ran'[r] = <<>>
               /\ pump'[r].pc = "new" => r = made /\ ran'[r] = <<>>
               /\ pump'[r].pc \in {"rest", "busy"} => pump'[r].on = r
               /\ pump'[r].pc = "busy" <=> pump'[r].job # NoJob
    <3>1. CASE r = q
      BY <1>3, <2>1, <3>1
    <3>2. CASE r # q
      BY <1>1, <1>3, <3>2 DEF PumpsRight
    <3> QED
      BY <3>1, <3>2
  <2>3. /\ Queues' = Queues /\ NoPump' = NoPump /\ ~OnReadyRuns' /\ ready' # "swap"
        /\ (~shut => current = made)
    BY <1>1, <1>2 DEF Queues, NoPump, NoJob, OnReadyRuns, PumpsRight
  <2> QED
    BY <1>2, <2>2, <2>3 DEF PumpsRight
<1>13. QueueOrder'
  <2>1. JobsOf(ran'[q]) = JobsOf(ran[q]) \cup {job}
    BY <1>3, JobsAppended
  <2>2. ASSUME LineOrder(q) PROVE LineOrder(q)'
    <3>1. Ordered(ran'[q])
      BY <1>2, <1>3, <2>2, OrderAppended DEF LineOrder
    <3> QED
      BY <1>2, <1>3, <2>1, <2>2, <3>1 DEF LineOrder
  <2>3. \A r \in Queues : LineOrder(r) => LineOrder(r)'
    <3> SUFFICES ASSUME NEW r \in Queues, LineOrder(r) PROVE LineOrder(r)'
      OBVIOUS
    <3>1. CASE r = q
      BY <2>2, <3>1
    <3>2. CASE r # q
      BY <1>2, <1>3, <3>2 DEF LineOrder
    <3> QED
      BY <3>1, <3>2
  <2> QED
    BY <1>1, <1>2, <2>3 DEF QueueOrder, Queues
<1> QED
  BY <1>8, <1>9, <1>10, <1>11, <1>12, <1>13 DEF QueueInv

\* close() puts the sentinel into the queue that is current.
LEMMA InvCloseBegin ==
  ASSUME QueueInv, CloseBegin
  PROVE  QueueInv'
<1>1. QueueTyped /\ HandsRight /\ HeldRight /\ PumpsRight /\ QueueOrder /\ Apart
  BY DEF QueueInv
<1>2. /\ queue' = IF current = 0 THEN queue
                  ELSE [queue EXCEPT ![current] = Append(@, Stop)]
      /\ UNCHANGED <<asked, handing, held, dropped, current, made, pump, ready,
                     refill, channel, ran, shut>>
  BY DEF CloseBegin
<1>3. /\ queue \in [Queues -> Seq(Entries)] /\ made \in 0 .. MaxReady /\ current \in 0 .. made
      /\ Stop \in Entries
  BY <1>1 DEF QueueTyped, Entries
<1>4. ASSUME NEW q \in Queues
      PROVE  queue'[q] = queue[q] \/ (q <= made /\ queue'[q] = Append(queue[q], Stop))
  BY <1>2, <1>3 DEF Queues
<1>5. ASSUME NEW q \in Queues
      PROVE  /\ queue'[q] \in Seq(Entries) /\ JobsOf(queue'[q]) \subseteq JobsOf(queue[q]) \cup {Stop}
             /\ Named(queue'[q]) = Named(queue[q]) /\ NoneTwice(queue'[q])
             /\ Ordered(queue[q]) => Ordered(queue'[q])
             /\ q > made => queue'[q] = queue[q]
  <2>1. queue[q] \in Seq(Entries) /\ NoneTwice(queue[q])
    BY <1>1, <1>3, PlaceCases, Contents DEF Apart
  <2>2. /\ Append(queue[q], Stop) \in Seq(Entries) /\ Named(Append(queue[q], Stop)) = Named(queue[q])
        /\ NoneTwice(Append(queue[q], Stop))
    BY <2>1, StopAppended
  <2>3. JobsOf(Append(queue[q], Stop)) = JobsOf(queue[q]) \cup {Stop}
    BY <1>3, <2>1, JobsAppended
  <2>4. Ordered(queue[q]) => Ordered(Append(queue[q], Stop))
    <3>1. \A k \in JobsOf(queue[q]) : AskedBefore(k, Stop)
      BY DEF AskedBefore
    <3> QED
      BY <1>3, <2>1, <3>1, OrderAppended
  <2>5. CASE queue'[q] = queue[q]
    BY <2>1, <2>5
  <2>6. CASE q <= made /\ queue'[q] = Append(queue[q], Stop)
    <3>1. ~(q > made)
      BY <1>3, <2>6 DEF Queues
    <3> QED
      BY <2>2, <2>3, <2>4, <2>6, <3>1
  <2> QED
    BY <1>4, <2>5, <2>6
<1>6. Apart'
  BY <1>1, <1>2, <1>5, NothingMoves
<1>7. QueueTyped'
  <2>1. queue' \in [Queues -> Seq(Entries)]
    <3>1. DOMAIN queue' = Queues /\ queue' = [q \in Queues |-> queue'[q]]
      BY <1>2, <1>3
    <3> QED
      BY <1>5, <3>1
  <2> QED
    BY <1>1, <1>2, <2>1 DEF QueueTyped
<1>8. HandsRight'
  BY <1>1, <1>2 DEF HandsRight, Free, NoJob
<1>9. HeldRight'
  BY <1>1, <1>2 DEF HeldRight
<1>10. PumpsRight'
  <2>1. \A q \in Queues : q > made => queue'[q] = queue[q]
    BY <1>5
  <2>2. ASSUME ready = "swap" PROVE \A j \in JobsOf(queue'[made]) \ {Stop} : ~j.held
    <3>1. made \in Queues
      BY <1>1, <2>2 DEF PumpsRight, OnReadyRuns
    <3>2. JobsOf(queue'[made]) \subseteq JobsOf(queue[made]) \cup {Stop}
      BY <1>5, <3>1
    <3> QED
      BY <1>1, <2>2, <3>2 DEF PumpsRight
  <2> QED
    BY <1>1, <1>2, <2>1, <2>2 DEF PumpsRight, OnReadyRuns, Queues, NoPump, NoJob, Stop
<1>11. QueueOrder'
  <2>1. \A j, k : j = Stop \/ k = Stop => AskedBefore(j, k)
    BY DEF AskedBefore
  <2>2. ASSUME NEW q \in Queues, LineOrder(q) PROVE LineOrder(q)'
    <3>1. Ordered(ran[q]) /\ Ordered(queue'[q])
      BY <1>5, <2>2 DEF LineOrder
    <3>2. \A j \in JobsOf(ran[q]), k \in JobsOf(queue'[q]) : AskedBefore(j, k)
      BY <1>5, <2>1, <2>2 DEF LineOrder
    <3>3. \A k \in JobsOf(queue'[q]) : pump[q].job # NoJob => AskedBefore(pump[q].job, k)
      BY <1>5, <2>1, <2>2 DEF LineOrder
    <3> QED
      BY <1>2, <2>2, <3>1, <3>2, <3>3 DEF LineOrder
  <2>3. ASSUME ready = "refill", \A j \in JobsOf(queue[made]), k \in JobsOf(refill) : AskedBefore(j, k)
        PROVE  \A j \in JobsOf(queue'[made]), k \in JobsOf(refill) : AskedBefore(j, k)
    <3>1. made \in Queues
      BY <1>1, <2>3 DEF PumpsRight, OnReadyRuns
    <3> QED
      BY <1>5, <2>1, <2>3, <3>1
  <2> QED
    BY <1>1, <1>2, <2>2, <2>3 DEF QueueOrder, Queues
<1> QED
  BY <1>6, <1>7, <1>8, <1>9, <1>10, <1>11 DEF QueueInv

-----------------------------------------------------------------------------
(* What the invariant says.                                                 *)

\* The line of a queue is in order: only its own pump has a job of it in hand.
LEMMA LinesInOrder ==
  ASSUME QueueInv, ~shut, NEW q \in Queues
  PROVE  Ordered(Line(q)) /\ Cardinality(InHand(q)) <= 1
<1>1. QueueTyped /\ PumpsRight /\ LineOrder(q)
  BY DEF QueueInv, QueueOrder
<1>2. \A p \in Queues : pump[p].job # NoJob => pump[p].on = p
  BY <1>1 DEF PumpsRight
<1>3. InHand(q) = IF pump[q].job = NoJob THEN {} ELSE {q}
  BY <1>2 DEF InHand
<1>4. Cardinality({}) = 0 /\ Cardinality({q}) = 1
  BY FS_EmptySet, FS_Singleton
<1>5. JobInHand(q) = pump[q].job
  BY <1>3 DEF JobInHand
<1>6. ran[q] \in Seq(Entries) /\ queue[q] \in Seq(Entries) /\ pump[q].job \in Job \cup {NoJob}
  <2>1. ran[q] \in Seq(Job)
    BY <1>1 DEF QueueTyped
  <2> QED
    BY <1>1, <2>1, SeqMonotonic DEF QueueTyped, Entries
<1> DEFINE one == Only(pump[q].job)
<1>7. /\ one \in Seq(Entries) /\ Ordered(one)
      /\ JobsOf(one) = IF pump[q].job = NoJob THEN {} ELSE {pump[q].job}
  <2>1. CASE pump[q].job = NoJob
    BY <2>1, OnlyOne, NoWork, EmptySeq
  <2>2. CASE pump[q].job # NoJob
    <3>1. one = <<pump[q].job>> /\ pump[q].job \in Job
      BY <1>6, <2>2 DEF Only
    <3>2. Ordered(one)
      BY <3>1 DEF Ordered
    <3> QED
      BY <2>2, <3>1, <3>2, OnlyOne DEF Entries
  <2> QED
    BY <2>1, <2>2
<1>8. Line(q) = ran[q] \o one \o queue[q]
  BY <1>5 DEF Line
<1> HIDE DEF one
<1>9. Ordered(ran[q] \o one) /\ JobsOf(ran[q] \o one) = JobsOf(ran[q]) \cup JobsOf(one)
  BY <1>1, <1>6, <1>7, OrderJoined DEF LineOrder
<1>10. ran[q] \o one \in Seq(Entries)
  BY <1>6, <1>7, ConcatProperties
<1>11. \A j \in JobsOf(ran[q] \o one), k \in JobsOf(queue[q]) : AskedBefore(j, k)
  BY <1>1, <1>7, <1>9 DEF LineOrder
<1>12. Ordered((ran[q] \o one) \o queue[q])
  BY <1>1, <1>6, <1>9, <1>10, <1>11, OrderJoined DEF LineOrder
<1> QED
  BY <1>3, <1>4, <1>8, <1>12

\* Every job has one spot.
LEMMA OneSpot == QueueInv => InOnePlace
<1> SUFFICES ASSUME QueueInv PROVE InOnePlace
  OBVIOUS
<1>1. QueueTyped /\ Apart
  BY DEF QueueInv
<1>2. ASSUME NEW p \in Places PROVE At(p) \in Seq(Entries)
  <2>1. Job \subseteq Entries /\ \A s \in Seq(Job) : s \in Seq(Entries)
    BY SeqMonotonic DEF Entries
  <2>2. \A j \in Job \cup {NoJob} : Only(j) \in Seq(Job)
    BY OnlyOne, EmptySeq
  <2>3. CASE \E c \in Callers : p = Hand(c)
    BY <1>1, <2>1, <2>2, <2>3, Contents DEF QueueTyped
  <2>4. CASE \E q \in Queues : p = InQueue(q) \/ p = InPump(q) \/ p = InRan(q)
    BY <1>1, <2>1, <2>2, <2>4, Contents DEF QueueTyped
  <2>5. CASE p = InHeld \/ p = InRefill \/ p = InDropped
    BY <1>1, <2>1, <2>5, Contents DEF QueueTyped
  <2> QED
    BY <2>3, <2>4, <2>5, PlaceCases
<1>3. \A p \in Places : DOMAIN At(p) = 1 .. Len(At(p))
  BY <1>2, ListFacts
<1>4. ASSUME NEW s \in Spots
      PROVE  /\ s.place \in Places /\ s.nth \in 1 .. Len(At(s.place))
             /\ At(s.place)[s.nth] # Stop
             /\ <<s.by, s.n>> = JobName(At(s.place)[s.nth])
             /\ s = [place |-> s.place, nth |-> s.nth, by |-> At(s.place)[s.nth].by,
                     n |-> At(s.place)[s.nth].n]
             /\ <<s.by, s.n>> \in Named(At(s.place))
  <2>1. PICK p \in Places : \E i \in DOMAIN At(p) :
          At(p)[i] # Stop /\ s = [place |-> p, nth |-> i, by |-> At(p)[i].by, n |-> At(p)[i].n]
    BY DEF Spots
  <2>2. PICK i \in DOMAIN At(p) :
          At(p)[i] # Stop /\ s = [place |-> p, nth |-> i, by |-> At(p)[i].by, n |-> At(p)[i].n]
    BY <2>1
  <2>3. At(p)[i] \in JobsOf(At(p)) \ {Stop}
    BY <2>2 DEF JobsOf
  <2>4. JobName(At(p)[i]) \in Named(At(p))
    BY <2>3 DEF Named
  <2>5. s.place = p /\ s.nth = i /\ s.by = At(p)[i].by /\ s.n = At(p)[i].n
    BY <2>2
  <2> QED
    BY <1>3, <2>2, <2>4, <2>5 DEF JobName
<1>5. ASSUME NEW s \in Spots, NEW t \in Spots, s.by = t.by, s.n = t.n PROVE s = t
  <2>1. s.place = t.place
    BY <1>1, <1>4, <1>5 DEF Apart
  <2>2. JobName(At(s.place)[s.nth]) = JobName(At(t.place)[t.nth])
    <3>1. <<s.by, s.n>> = <<t.by, t.n>>
      BY <1>5
    <3> QED
      BY <1>4, <3>1
  <2>3. s.nth = t.nth
    <3>1. PICK line : line = At(s.place)
      OBVIOUS
    <3>2. NoneTwice(line)
      BY <1>1, <1>4, <3>1 DEF Apart
    <3>3. /\ s.nth \in 1 .. Len(line) /\ t.nth \in 1 .. Len(line)
          /\ line[s.nth] # Stop /\ line[t.nth] # Stop
          /\ JobName(line[s.nth]) = JobName(line[t.nth])
      BY <1>4, <2>1, <2>2, <3>1
    <3> QED
      BY <3>2, <3>3 DEF NoneTwice
  <2> QED
    BY <1>4, <2>1, <2>3
<1>6. ASSUME NEW x, x \in Requested PROVE \E s \in Spots : x = <<s.by, s.n>>
  <2>1. PICK p \in Places : x \in Named(At(p))
    BY <1>1, <1>6 DEF Apart
  <2>2. PICK i \in DOMAIN At(p) : At(p)[i] # Stop /\ x = JobName(At(p)[i])
    BY <2>1 DEF Named, JobsOf
  <2>3. [place |-> p, nth |-> i, by |-> At(p)[i].by, n |-> At(p)[i].n] \in Spots
    BY <2>2 DEF Spots
  <2> QED
    BY <2>2, <2>3 DEF JobName
<1>7. ASSUME NEW s \in Spots PROVE <<s.by, s.n>> \in Requested
  BY <1>1, <1>4 DEF Apart
<1>8. {<<s.by, s.n>> : s \in Spots} = Requested
  BY <1>6, <1>7
<1> QED
  BY <1>5, <1>8 DEF InOnePlace, Requested

\* The invariant is at least the property.
LEMMA QueueInvEnough == QueueInv => QueueSound
<1> SUFFICES ASSUME QueueInv PROVE QueueSound
  OBVIOUS
<1>1. QueueTyped /\ QueueOrder
  BY DEF QueueInv
<1>2. QueueTypeOK
  <2>1. /\ JobsOf(held) \subseteq Job /\ JobsOf(refill) \subseteq Job /\ JobsOf(dropped) \subseteq Job
    BY <1>1, ListFacts DEF QueueTyped
  <2>2. \A q \in Queues : /\ JobsOf(queue[q]) \subseteq Job \cup {Stop}
                         /\ JobsOf(ran[q]) \subseteq Job
                         /\ pump[q].job \in Job \cup {NoJob}
    BY <1>1, ListFacts DEF QueueTyped, Entries
  <2>3. current \in 0 .. made /\ made \in 0 .. MaxReady
    BY <1>1 DEF QueueTyped
  <2> QED
    BY <1>1, <2>1, <2>2, <2>3 DEF QueueTyped, QueueTypeOK
<1>3. OrderKept
  BY <1>1, LinesInOrder DEF OrderKept, QueueOrder
<1>4. OldestDropped
  BY <1>1 DEF OldestDropped, QueueOrder
<1> QED
  BY <1>2, <1>3, <1>4, OneSpot DEF QueueSound

-----------------------------------------------------------------------------
\* The queue's steps, whoever takes them.
QueueNext ==
  \/ \E c \in Callers, kind \in Kinds : Asks(c, kind)
  \/ \E c \in Callers : HandOver(c)
  \/ StartPump \/ LoopStep \/ CloseBegin \/ Forget
  \/ \E q \in Queues : TakesNext(q) \/ Finishes(q)

\* No step of them breaks the invariant.
LEMMA QueueInvNext == QueueInv /\ [QueueNext]_queueVars => QueueInv'
<1> SUFFICES ASSUME QueueInv, [QueueNext]_queueVars PROVE QueueInv'
  OBVIOUS
<1>1. ASSUME NEW c \in Callers, NEW kind \in Kinds, Asks(c, kind) PROVE QueueInv'
  BY <1>1, InvAsks
<1>2. ASSUME NEW c \in Callers, HandOver(c) PROVE QueueInv'
  BY <1>2, InvHold, InvPut DEF HandOver
<1>3. ASSUME LoopStep PROVE QueueInv'
  <2>1. ASSUME Refill PROVE QueueInv'
    BY <2>1, InvRefillHeld, InvRefillQueued
  <2> QED
    BY <1>3, <2>1, InvSwapHeld, InvFind, InvBindPump DEF LoopStep
<1>4. ASSUME UNCHANGED queueVars PROVE QueueInv'
  <2>1. UNCHANGED <<asked, handing, held, dropped, current, made, queue, pump, ready, refill,
                   channel, ran, shut>>
    BY <1>4 DEF queueVars
  <2>2. QueueTyped'
    BY <2>1 DEF QueueInv, QueueTyped
  <2>3. PumpsRight'
    BY <2>1 DEF QueueInv, PumpsRight, OnReadyRuns, Queues, NoPump
  <2> QED
    BY <2>1, <2>2, <2>3, InvQuiet DEF QueueInv, HeldRight
<1> QED
  BY <1>1, <1>2, <1>3, <1>4, InvStartPump, InvCloseBegin, InvForget, InvTakesNext, InvFinishes
     DEF QueueNext

\* What the bridge does to its queue.
LEMMA BridgeSteps == [Next]_vars => [QueueNext]_queueVars
<1> SUFFICES ASSUME [Next]_vars PROVE [QueueNext]_queueVars
  OBVIOUS
<1>1. "accept" \in Callers /\ "open" \in Kinds /\ "post" \in Kinds /\ "archive" \in Kinds
  BY BridgeAssumption
<1>2. ASSUME NEW kind \in Kinds, AskGateway(kind) PROVE QueueNext
  BY <1>1, <1>2 DEF AskGateway, Asks, QueueNext
<1>3. ASSUME Main PROVE [QueueNext]_queueVars
  <2>1. ASSUME CloseGateway PROVE QueueNext
    BY <2>1 DEF CloseGateway, QueueNext
  <2>2. ASSUME GatewayClosed PROVE QueueNext
    BY <2>2 DEF GatewayClosed, QueueNext
  <2>3. ASSUME \/ Activate \/ SyncEnds \/ InstallLayer \/ LayerRefuses
               \/ TakeDown \/ CloseMailbox \/ StopClient \/ StopSupervisor
               \/ JoinThread \/ StopBroker \/ AllDown
        PROVE  UNCHANGED queueVars
    BY <2>3 DEF Activate, SyncEnds, InstallLayer, LayerRefuses, TakeDown, CloseMailbox,
                StopClient, StopSupervisor, JoinThread, StopBroker, AllDown
  <2> QED
    BY <1>3, <2>1, <2>2, <2>3 DEF Main
<1>4. ASSUME NEW s \in Senders, Serve(s) \/ RefuseUnknown(s) \/ NobodyThere(s)
      PROVE  [QueueNext]_queueVars
  <2>1. ASSUME Serve(s) PROVE [QueueNext]_queueVars
    <3>1. OnRegister(s) \/ OnFrame(s)
      BY <2>1 DEF Serve
    <3>2. ASSUME OnRegister(s) PROVE [QueueNext]_queueVars
      BY <1>1, <1>2, <3>2 DEF OnRegister
    <3>3. ASSUME OnFrame(s) PROVE [QueueNext]_queueVars
      BY <1>1, <1>2, <3>3 DEF OnFrame
    <3> QED
      BY <3>1, <3>2, <3>3
  <2> QED
    BY <1>4, <2>1 DEF RefuseUnknown, NobodyThere
<1>5. ASSUME NEW q \in Queues, Pump(q) PROVE [QueueNext]_queueVars
  <2>1. ASSUME StartJob(q) PROVE QueueNext
    BY <2>1 DEF StartJob, TakesNext, QueueNext
  <2>2. ASSUME EndJob(q) PROVE QueueNext
    BY <2>2 DEF EndJob, Finishes, QueueNext
  <2> QED
    BY <1>5, <2>1, <2>2 DEF Pump, CreateThread, AddApprover
<1>6. ASSUME AcceptReturns PROVE QueueNext
  BY <1>1, <1>6 DEF AcceptReturns, QueueNext
<1>7. ASSUME Discord PROVE QueueNext
  BY <1>7 DEF Discord, QueueNext
<1>8. ASSUME Shutdown \/ Identify \/ Beat \/ Work \/ Elect \/ UNCHANGED vars
      PROVE  UNCHANGED queueVars
  BY <1>8 DEF Shutdown, Identify, Beat, Work, Elect, vars
<1> QED
  BY <1>3, <1>4, <1>5, <1>6, <1>7, <1>8 DEF Next

\* No job of the gateway is lost, doubled or overtaken by a later one of its
\* kind on its way from a thread of the broker to the client's loop, however
\* late and however often the client gets ready; what the bound pushes out is
\* the oldest (broker_gateway.py:94-134).
THEOREM TheQueueIsSound == Spec => []QueueSound
<1>1. Init => QueueInv
  BY QueueInvInit DEF Init
<1>2. QueueInv /\ [Next]_vars => QueueInv'
  BY BridgeSteps, QueueInvNext
<1>3. QueueInv => QueueSound
  BY QueueInvEnough
<1> QED
  BY <1>1, <1>2, <1>3, PTL DEF Spec

-----------------------------------------------------------------------------
(* Good-bye: who may still say what, from on_startup to the end.            *)

Words == {"none", "register", "heartbeat", "report", "release", "healed"}

LinkTyped ==
  /\ record \in [known : BOOLEAN, claimed : BOOLEAN, thread : 0 .. MaxThreads]
  /\ send \in [Senders -> [method : Words, again : Words]]
  /\ overran \in Nat

\* Once C3 was taken down and every join was in time, its worker has ended.
Unwound == \/ main = "down" /\ installed < C3
           \/ main \in {"joinBeat", "joinWatch", "joinAccept", "joinPump"}
           \/ main = "ended" /\ served

WorkerRight ==
  /\ main \in {"off", "sync"} => worker = "none" /\ ~served
  /\ main = "install" => /\ worker = (IF installed >= C3 THEN "run" ELSE "none")
                         /\ installed >= C2 => sink
                         /\ ~served
  /\ main = "up" \/ (main = "down" /\ installed >= C3) => worker = "run" /\ sink
  /\ main = "up" => ~served
  /\ main = "joinWorker" => /\ installed = C2 /\ sink
                            /\ worker \in {"closing", "released", "gone"}
  /\ main \in {"joinBeat", "joinWatch", "joinAccept", "joinPump"} => installed < C3
  /\ Unwound /\ overran = 0 => worker = "gone"

\* Only a worker that is closing sends the release.
ReleaseLast ==
  worker \in {"none", "run", "closing"} =>
    /\ ~released
    /\ \A s \in Senders : send[s].method # "release" /\ send[s].again # "release"

\* A frame is under way, and the session registered, only after a broker was found;
\* and that broker serves until the worker has ended.
BrokerFound ==
  /\ record.known \/ joined \/ (\E s \in Senders : send[s] # NoFrame) => addressed
  /\ addressed /\ overran = 0 => serving \/ worker = "gone"

\* The release of a session that the broker knows is on its way.
GoodBye ==
  overran = 0 /\ served /\ ~released =>
    /\ record.known /\ worker # "gone"
    /\ worker = "released" => send["worker"] = Frame("release")

Farewell == LinkTyped /\ WorkerRight /\ ReleaseLast /\ BrokerFound /\ GoodBye

\* At the beginning there is nobody to say good-bye.
LEMMA FarewellInit == Init => Farewell
<1> SUFFICES ASSUME Init PROVE Farewell
  OBVIOUS
<1>1. /\ main = "off" /\ worker = "none" /\ served = FALSE /\ released = FALSE
      /\ addressed = FALSE /\ joined = FALSE /\ overran = 0 /\ record = Unknown
      /\ send = [s \in Senders |-> NoFrame]
  BY DEF Init
<1>2. NoFrame \in [method : Words, again : Words] /\ NoFrame.method = "none" /\ NoFrame.again = "none"
  BY DEF NoFrame, Words
<1>3. Unknown \in [known : BOOLEAN, claimed : BOOLEAN, thread : 0 .. MaxThreads] /\ ~Unknown.known
  BY BridgeAssumption DEF Unknown
<1>4. \A s \in Senders : send[s] = NoFrame
  BY <1>1
<1>5. LinkTyped
  BY <1>1, <1>2, <1>3 DEF LinkTyped
<1>6. WorkerRight
  BY <1>1 DEF WorkerRight, Unwound
<1> QED
  BY <1>1, <1>2, <1>3, <1>4, <1>5, <1>6 DEF Farewell, ReleaseLast, BrokerFound, GoodBye

\* on_startup.
LEMMA FarewellStart ==
  Whole /\ Farewell /\ (Activate \/ SyncEnds \/ InstallLayer \/ LayerRefuses \/ Shutdown)
    => Farewell'
<1> SUFFICES ASSUME Whole, Farewell,
                    Activate \/ SyncEnds \/ InstallLayer \/ LayerRefuses \/ Shutdown
             PROVE  Farewell'
  OBVIOUS
<1> USE DEF Farewell
<1>1. installed \in 0 .. LayerCount /\ LayerCount \in Nat /\ LayerCount >= 3
  BY LayersCounted DEF Whole, Counted
<1>2. /\ C1 = 1 /\ C2 = 2 /\ C3 = 3
      /\ UNCHANGED <<record, send, overran, released, addressed, joined, serving>>
  BY DEF C1, C2, C3, Activate, SyncEnds, InstallLayer, LayerRefuses, Shutdown, Starts, threadVars,
         brokerVars, clientVars, worldVars, pastVars
<1>3. LinkTyped'
  BY <1>2 DEF LinkTyped
<1>4. CASE Activate \/ SyncEnds
  <2>1. /\ main \in {"off", "sync"} /\ main' \in {"sync", "install", "ended"}
        /\ main = "off" => main' # "install"
        /\ UNCHANGED <<installed, worker, sink, served>> /\ installed = 0
    BY <1>4 DEF Activate, SyncEnds, MainGo, threadVars, clientVars, pastVars, Whole, InPhase
  <2>2. WorkerRight'
    BY <1>2, <2>1 DEF WorkerRight, Unwound
  <2> QED
    BY <1>2, <1>3, <2>1, <2>2 DEF ReleaseLast, BrokerFound, GoodBye
<1>5. CASE InstallLayer
  <2>1. /\ main = "install" /\ installed' = installed + 1 /\ installed < LayerCount
        /\ main' = IF installed' = LayerCount THEN "up" ELSE "install"
        /\ sink' = (sink \/ installed' = C2)
        /\ worker' = IF installed' = C3 THEN "run" ELSE worker
        /\ served' = served
    BY <1>5 DEF InstallLayer, Starts, pastVars, Whole, InPhase
  <2>3. worker \in {"none", "run"} /\ worker' \in {"none", "run"} /\ ~served'
    BY <2>1 DEF WorkerRight
  <2>4. installed' >= C3 => worker' = "run"
    <3>1. installed' >= C3 => installed' = C3 \/ installed >= C3
      BY <1>1, <1>2, <2>1
    <3> QED
      BY <2>1, <3>1 DEF WorkerRight
  <2>5. installed' >= C2 => sink'
    <3>1. installed' >= C2 => installed' = C2 \/ installed >= C2
      BY <1>1, <1>2, <2>1
    <3> QED
      BY <2>1, <3>1, Zenon DEF WorkerRight
  <2>6. ~(installed' >= C3) => worker' = "none"
    <3>1. ~(installed' >= C3) => installed' # C3 /\ ~(installed >= C3)
      BY <1>1, <1>2, <2>1
    <3> QED
      BY <2>1, <3>1 DEF WorkerRight
  <2>7. main' = "up" => installed' >= C3 /\ installed' >= C2
    BY <1>1, <1>2, <2>1
  <2>8. main' \in {"install", "up"}
    BY <2>1
  <2>2. WorkerRight'
    BY <2>3, <2>4, <2>5, <2>6, <2>7, <2>8 DEF WorkerRight, Unwound
  <2> QED
    BY <1>2, <1>3, <2>2, <2>3 DEF ReleaseLast, BrokerFound, GoodBye
<1>6. CASE LayerRefuses \/ Shutdown
  <2>1. /\ main' = "down" /\ installed' = installed /\ installed >= 3
        /\ UNCHANGED <<worker, sink>> /\ served' = record.known
        /\ worker = "run" /\ sink
    <3>1. CASE Shutdown
      BY <1>1, <3>1 DEF Shutdown, MainGo, threadVars, clientVars, Whole, InPhase, WorkerRight
    <3>2. CASE LayerRefuses
      <4>1. installed + 1 \notin {1, 2, 3}
        BY <1>2, <3>2, BridgeAssumption DEF LayerRefuses
      <4>2. installed >= 3
        BY <1>1, <4>1
      <4> QED
        <5>1. /\ main = "install" /\ main' = "down" /\ installed' = installed
              /\ UNCHANGED <<worker, sink>> /\ served' = record.known
          BY <3>2 DEF LayerRefuses, MainGo, RollsBack, threadVars, clientVars
        <5>2. installed >= C3 /\ installed >= C2
          BY <1>1, <1>2, <4>2
        <5>3. worker = "run" /\ sink
          BY <5>1, <5>2, Zenon DEF WorkerRight
        <5> QED
          BY <4>2, <5>1, <5>3
    <3> QED
      BY <1>6, <3>1, <3>2
  <2>2. WorkerRight'
    BY <1>1, <1>2, <2>1 DEF WorkerRight, Unwound
  <2> QED
    BY <1>2, <1>3, <2>1, <2>2 DEF ReleaseLast, BrokerFound, GoodBye
<1> QED
  BY <1>4, <1>5, <1>6

\* on_shutdown: the layers go, the top one first.
LEMMA FarewellDown ==
  Whole /\ Farewell /\ (TakeDown \/ CloseMailbox \/ StopClient \/ StopSupervisor \/ AllDown)
    => Farewell'
<1> SUFFICES ASSUME Whole, Farewell,
                    TakeDown \/ CloseMailbox \/ StopClient \/ StopSupervisor \/ AllDown
             PROVE  Farewell'
  OBVIOUS
<1> USE DEF Farewell
<1>1. installed \in 0 .. LayerCount /\ LayerCount \in Nat /\ C1 = 1 /\ C2 = 2 /\ C3 = 3
  BY LayersCounted DEF Whole, Counted, C1, C2, C3
<1>2. /\ UNCHANGED <<record, send, overran, released, addressed, joined, serving, served>>
      /\ main = "down"
  BY DEF TakeDown, CloseMailbox, StopClient, StopSupervisor, AllDown, MainGo, threadVars,
         brokerVars, clientVars, worldVars, pastVars
<1>3. LinkTyped'
  BY <1>2 DEF LinkTyped
<1>4. CASE TakeDown \/ AllDown
  <2>1. /\ UNCHANGED <<worker, sink>> /\ main' \in {"down", "ended"}
        /\ main' = "down" => installed > 3 /\ installed' = installed - 1
        /\ main' = "ended" => installed = 0 /\ installed' = installed
    BY <1>1, <1>2, <1>4 DEF TakeDown, AllDown, MainGo, Topmost, Uninstalled, threadVars, clientVars
  <2>2. WorkerRight'
    BY <1>1, <1>2, <2>1 DEF WorkerRight, Unwound
  <2> QED
    BY <1>2, <1>3, <2>1, <2>2 DEF ReleaseLast, BrokerFound, GoodBye
<1>5. CASE CloseMailbox
  <2>1. /\ main' = "joinWorker" /\ worker' = "closing" /\ sink' = sink
        /\ installed = 3 /\ installed' = 2
    BY <1>1, <1>5 DEF CloseMailbox, MainGo, Topmost, Uninstalled
  <2>2. worker = "run" /\ sink
    BY <1>1, <1>2, <2>1 DEF WorkerRight
  <2>3. WorkerRight'
    BY <1>1, <1>2, <2>1, <2>2 DEF WorkerRight, Unwound
  <2> QED
    BY <1>2, <1>3, <2>1, <2>2, <2>3 DEF ReleaseLast, BrokerFound, GoodBye
<1>6. CASE StopClient \/ StopSupervisor
  <2>1. /\ main' \in {"joinBeat", "joinWatch"} /\ worker' = worker
        /\ installed < 3 /\ installed' < 3
    BY <1>1, <1>6 DEF StopClient, StopSupervisor, MainGo, Topmost, Uninstalled, threadVars, clientVars
  <2>2. WorkerRight'
    BY <1>1, <1>2, <2>1 DEF WorkerRight, Unwound
  <2> QED
    BY <1>2, <1>3, <2>1, <2>2 DEF ReleaseLast, BrokerFound, GoodBye
<1> QED
  BY <1>4, <1>5, <1>6

\* And each of their threads is waited for.
LEMMA FarewellJoin ==
  Whole /\ Farewell /\ (JoinThread \/ StopBroker \/ CloseGateway \/ GatewayClosed) => Farewell'
<1> SUFFICES ASSUME Whole, Farewell, JoinThread \/ StopBroker \/ CloseGateway \/ GatewayClosed
             PROVE  Farewell'
  OBVIOUS
<1> USE DEF Farewell
<1>1. installed \in 0 .. LayerCount /\ LayerCount \in Nat /\ C1 = 1 /\ C2 = 2 /\ C3 = 3
  BY LayersCounted DEF Whole, Counted, C1, C2, C3
<1>2. UNCHANGED <<record, send, released, addressed, joined, served, installed, worker, sink>>
  BY DEF JoinThread, StopBroker, CloseGateway, GatewayClosed, threadVars, brokerVars, clientVars,
         worldVars
<1>3. /\ overran' \in Nat
      /\ overran' = 0 => overran = 0
      /\ main = "joinWorker" /\ main' = "down" /\ overran' = 0 => worker = "gone"
  BY DEF JoinThread, StopBroker, CloseGateway, GatewayClosed, Joined, MainGo, Finished, WorkerEnded,
         LinkTyped
<1>4. /\ main \in {"joinWorker", "joinBeat", "joinWatch", "joinAccept", "joinPump"}
      /\ main' \in {"down", "joinAccept", "joinPump"}
      /\ main = "joinWorker" => main' = "down"
      /\ serving' # serving => main = "joinWatch"
  BY DEF JoinThread, StopBroker, CloseGateway, GatewayClosed, Joined, MainGo, threadVars, brokerVars
<1>5. LinkTyped'
  BY <1>2, <1>3 DEF LinkTyped
<1>6. WorkerRight'
  BY <1>1, <1>2, <1>3, <1>4 DEF WorkerRight, Unwound
<1>7. BrokerFound'
  <2>1. serving' # serving /\ overran' = 0 => worker = "gone"
    BY <1>3, <1>4 DEF WorkerRight, Unwound
  <2> QED
    BY <1>2, <1>3, <2>1 DEF BrokerFound
<1>8. ReleaseLast' /\ GoodBye'
  BY <1>2, <1>3 DEF ReleaseLast, GoodBye
<1> QED
  BY <1>5, <1>6, <1>7, <1>8

Wires == [method : Words, again : Words]

\* The frame of one thread changes.
LEMMA OneFrame ==
  ASSUME LinkTyped, NEW s \in Senders, NEW f \in Wires, send' = [send EXCEPT ![s] = f]
  PROVE  /\ send' \in [Senders -> Wires]
         /\ \A t \in Senders : send'[t] = IF t = s THEN f ELSE send[t]
BY DEF LinkTyped, Wires

\* The frames there are.
LEMMA FrameFacts ==
  /\ NoFrame \in Wires /\ NoFrame.method = "none" /\ NoFrame.again = "none"
  /\ \A w \in Words : Frame(w) \in Wires /\ Frame(w).method = w /\ Frame(w).again = "none"
  /\ {"none", "register", "heartbeat", "report", "release"} \subseteq Words
BY DEF NoFrame, Frame, Wires, Words

\* What concerns the worker alone.
LEMMA FarewellQuiet ==
  WorkerRight /\ UNCHANGED <<main, installed, worker, sink, served, overran>> => WorkerRight'
BY DEF WorkerRight, Unwound

\* A heartbeat or a registration sets out.
LEMMA FarewellBeat == Farewell /\ Beat => Farewell'
<1> SUFFICES ASSUME Farewell, Beat PROVE Farewell'
  OBVIOUS
<1> USE DEF Farewell
<1>1. UNCHANGED <<main, installed, worker, sink, served, overran, released, serving, record>>
  BY DEF Beat, mainVars, brokerVars, pastVars
<1>2. "beat" \in Senders /\ "worker" \in Senders /\ "beat" # "worker"
  BY DEF Senders
<1>3. WorkerRight'
  BY <1>1, FarewellQuiet
<1>4. CASE UNCHANGED <<send, addressed, joined>>
  BY <1>1, <1>3, <1>4 DEF LinkTyped, ReleaseLast, BrokerFound, GoodBye
<1>5. CASE /\ send' = [send EXCEPT !["beat"] = Frame("register")]
           /\ serving /\ addressed' = TRUE /\ joined' = FALSE
  <2>1. /\ send' \in [Senders -> Wires]
        /\ \A t \in Senders : send'[t] = IF t = "beat" THEN Frame("register") ELSE send[t]
        /\ Frame("register").method # "release" /\ Frame("register").again # "release"
    BY <1>2, <1>5, OneFrame, FrameFacts
  <2>2. LinkTyped' /\ ReleaseLast'
    BY <1>1, <2>1 DEF LinkTyped, Wires, ReleaseLast
  <2>3. BrokerFound'
    BY <1>1, <1>5 DEF BrokerFound
  <2>4. GoodBye'
    BY <1>1, <1>2, <2>1 DEF GoodBye
  <2> QED
    BY <1>3, <2>2, <2>3, <2>4
<1>6. CASE /\ send' = [send EXCEPT !["beat"] = Frame("heartbeat")]
           /\ joined /\ UNCHANGED <<addressed, joined>>
  <2>1. /\ send' \in [Senders -> Wires]
        /\ \A t \in Senders : send'[t] = IF t = "beat" THEN Frame("heartbeat") ELSE send[t]
        /\ Frame("heartbeat").method # "release" /\ Frame("heartbeat").again # "release"
    BY <1>2, <1>6, OneFrame, FrameFacts
  <2>2. LinkTyped' /\ ReleaseLast'
    BY <1>1, <2>1 DEF LinkTyped, Wires, ReleaseLast
  <2>3. BrokerFound'
    BY <1>1, <1>6 DEF BrokerFound
  <2>4. GoodBye'
    BY <1>1, <1>2, <2>1 DEF GoodBye
  <2> QED
    BY <1>3, <2>2, <2>3, <2>4
<1> QED
  BY <1>4, <1>5, <1>6 DEF Beat, Register

\* The worker sends what it has, then the release, then it ends.
LEMMA FarewellWork == Whole /\ Farewell /\ Work => Farewell'
<1> SUFFICES ASSUME Whole, Farewell, Work PROVE Farewell'
  OBVIOUS
<1> USE DEF Farewell
<1>1. /\ UNCHANGED <<main, installed, sink, served, overran, released, serving, record, addressed,
                     joined>>
      /\ send["worker"] = NoFrame
  BY DEF Work, mainVars, brokerVars, pastVars, Answered
<1>2. "worker" \in Senders
  BY DEF Senders
<1>3. CASE /\ worker = "run" /\ worker' = worker
           /\ Deliver("report")
  <2>1. WorkerRight'
    BY <1>1, <1>3, FarewellQuiet
  <2>2. CASE send' = send
    BY <1>1, <1>3, <2>1, <2>2 DEF LinkTyped, ReleaseLast, BrokerFound, GoodBye
  <2>3. CASE send' = [send EXCEPT !["worker"] = Frame("report")] /\ addressed
    <3>1. /\ send' \in [Senders -> Wires]
          /\ \A t \in Senders : send'[t] = IF t = "worker" THEN Frame("report") ELSE send[t]
          /\ Frame("report").method # "release" /\ Frame("report").again # "release"
      BY <1>2, <2>3, OneFrame, FrameFacts
    <3>2. LinkTyped' /\ ReleaseLast'
      BY <1>1, <1>3, <3>1 DEF LinkTyped, Wires, ReleaseLast
    <3>3. BrokerFound'
      BY <1>1, <1>3, <2>3 DEF BrokerFound
    <3>4. GoodBye'
      BY <1>1, <1>3, <3>1 DEF GoodBye
    <3> QED
      BY <2>1, <3>2, <3>3, <3>4
  <2> QED
    BY <1>3, <2>2, <2>3 DEF Deliver
<1>4. CASE /\ worker = "closing" /\ worker' = "released"
           /\ Deliver("release")
  <2>1. WorkerRight'
    BY <1>1, <1>4 DEF WorkerRight, Unwound
  <2>2. CASE send' = send /\ ~(sink /\ addressed)
    <3>1. ~(overran = 0 /\ served /\ ~released)
      <4>1. overran = 0 /\ served /\ ~released => addressed
        BY DEF GoodBye, BrokerFound
      <4>2. overran = 0 /\ served => main = "joinWorker"
        <5>1. main \in Phases /\ installed \in 0 .. LayerCount /\ LayerCount \in Nat
          BY LayersCounted DEF Whole, InPhase, Counted
        <5> QED
          BY <1>4, <5>1 DEF WorkerRight, Unwound, Phases, C3
      <4>3. main = "joinWorker" => sink
        BY DEF WorkerRight
      <4> QED
        BY <2>2, <4>1, <4>2, <4>3, Zenon
    <3> QED
      BY <1>1, <1>4, <2>1, <2>2, <3>1 DEF LinkTyped, ReleaseLast, BrokerFound, GoodBye
  <2>3. CASE send' = [send EXCEPT !["worker"] = Frame("release")] /\ addressed
    <3>1. /\ send' \in [Senders -> Wires]
          /\ \A t \in Senders : send'[t] = IF t = "worker" THEN Frame("release") ELSE send[t]
      BY <1>2, <2>3, OneFrame, FrameFacts
    <3>2. LinkTyped' /\ ReleaseLast'
      BY <1>1, <1>4, <3>1 DEF LinkTyped, Wires, ReleaseLast
    <3>3. BrokerFound'
      BY <1>1, <1>4, <2>3 DEF BrokerFound
    <3>4. GoodBye'
      BY <1>1, <1>2, <1>4, <3>1 DEF GoodBye
    <3> QED
      BY <2>1, <3>2, <3>3, <3>4
  <2> QED
    BY <1>4, <2>2, <2>3 DEF Deliver
<1>5. CASE worker = "released" /\ worker' = "gone" /\ send' = send
  <2>1. WorkerRight'
    BY <1>1, <1>5 DEF WorkerRight, Unwound
  <2>2. Frame("release") # NoFrame
    BY FrameFacts
  <2>3. GoodBye'
    BY <1>1, <1>5, <2>2 DEF GoodBye
  <2> QED
    BY <1>1, <1>5, <2>1, <2>3 DEF LinkTyped, ReleaseLast, BrokerFound
<1> QED
  BY <1>3, <1>4, <1>5 DEF Work

\* The broker that serves answers a frame.
LEMMA FarewellServe ==
  ASSUME Farewell, NEW s \in Senders, Serve(s)
  PROVE  Farewell'
<1> USE DEF Farewell
<1>1. /\ UNCHANGED <<main, installed, worker, sink, served, overran, serving, addressed>>
      /\ serving /\ send[s] # NoFrame
      /\ send' = [send EXCEPT ![s] = AfterAnswer(s)]
      /\ OnRegister(s) \/ OnFrame(s)
  BY DEF Serve, mainVars
<1>2. WorkerRight'
  BY <1>1, FarewellQuiet
<1>3. send[s] \in Wires
  BY DEF LinkTyped, Wires
<1>4. /\ AfterAnswer(s) \in Wires
      /\ AfterAnswer(s).method \in {"none", send[s].again}
      /\ AfterAnswer(s).again \in {"none", "healed"}
  BY <1>3, FrameFacts DEF AfterAnswer, Wires, Words
<1>5. /\ send' \in [Senders -> Wires]
      /\ \A t \in Senders : send'[t] = IF t = s THEN AfterAnswer(s) ELSE send[t]
  BY <1>1, <1>4, OneFrame
<1>6. /\ record' \in [known : BOOLEAN, claimed : BOOLEAN, thread : 0 .. MaxThreads]
      /\ \/ record'.known /\ released' = released
         \/ send[s].method = "release" /\ released'
         \/ record' = record /\ released' = released
  <2>1. CASE OnRegister(s)
    <3>1. PICK b : record' = [record EXCEPT !.known = TRUE, !.claimed = b] /\ b \in BOOLEAN
      BY <2>1 DEF OnRegister, LinkTyped
    <3> QED
      BY <2>1, <3>1 DEF OnRegister, LinkTyped
  <2>2. CASE OnFrame(s)
    <3>1. Unknown \in [known : BOOLEAN, claimed : BOOLEAN, thread : 0 .. MaxThreads]
      BY BridgeAssumption DEF Unknown
    <3>2. \/ record' = record /\ released' = released
          \/ record' = Unknown /\ send[s].method = "release" /\ released'
      BY <2>2 DEF OnFrame
    <3> QED
      BY <3>1, <3>2 DEF LinkTyped
  <2> QED
    BY <1>1, <2>1, <2>2
<1>7. addressed
  BY <1>1 DEF BrokerFound
<1>8. LinkTyped'
  BY <1>1, <1>5, <1>6 DEF LinkTyped, Wires
<1>9. ReleaseLast'
  BY <1>1, <1>4, <1>5, <1>6 DEF ReleaseLast
<1>10. BrokerFound'
  BY <1>1, <1>7 DEF BrokerFound
<1>11. GoodBye'
  <2> SUFFICES ASSUME overran = 0, served, ~released'
               PROVE  /\ record'.known /\ worker # "gone"
                      /\ worker = "released" => send'["worker"] = Frame("release")
    BY <1>1 DEF GoodBye
  <2>1. ~released /\ send[s].method # "release"
    <3>1. CASE OnRegister(s)
      BY <3>1 DEF OnRegister
    <3>2. CASE OnFrame(s)
      BY <3>2 DEF OnFrame
    <3> QED
      BY <1>1, <3>1, <3>2
  <2>2. /\ record.known /\ worker # "gone"
        /\ worker = "released" => send["worker"] = Frame("release")
    BY <2>1 DEF GoodBye
  <2>3. worker = "released" => s # "worker"
    BY <2>1, <2>2, FrameFacts
  <2> QED
    BY <1>5, <1>6, <2>1, <2>2, <2>3 DEF Senders
<1> QED
  BY <1>2, <1>8, <1>9, <1>10, <1>11

\* It knows nobody of that name, or nobody is there.
LEMMA FarewellRefused ==
  ASSUME Farewell, NEW s \in Senders, RefuseUnknown(s) \/ NobodyThere(s)
  PROVE  Farewell'
<1> USE DEF Farewell
<1>1. /\ UNCHANGED <<main, installed, worker, sink, served, overran, released, serving, record,
                     addressed>>
      /\ send[s] # NoFrame
      /\ ~record.known \/ ~serving
  BY FrameFacts DEF RefuseUnknown, NobodyThere, mainVars, brokerVars, pastVars
<1>2. WorkerRight'
  BY <1>1, FarewellQuiet
<1>3. send[s] \in Wires
  BY DEF LinkTyped, Wires
<1>4. addressed
  BY <1>1 DEF BrokerFound
<1>5. PICK f \in Wires : /\ send' = [send EXCEPT ![s] = f]
                         /\ f.method \in {"none", "register"}
                         /\ f.again \in {"none", send[s].method}
  <2>1. ASSUME NEW w \in Words
        PROVE  [method |-> "register", again |-> w] \in Wires
    BY FrameFacts DEF Wires
  <2>2. send[s].method \in Words
    BY <1>3 DEF Wires
  <2>3. CASE RefuseUnknown(s)
    BY <2>1, <2>2, <2>3, FrameFacts DEF RefuseUnknown
  <2>4. CASE NobodyThere(s)
    BY <2>4, FrameFacts DEF NobodyThere
  <2> QED
    BY <2>3, <2>4
<1>6. /\ send' \in [Senders -> Wires]
      /\ \A t \in Senders : send'[t] = IF t = s THEN f ELSE send[t]
  BY <1>5, OneFrame
<1>7. LinkTyped'
  BY <1>1, <1>6 DEF LinkTyped, Wires
<1>8. ReleaseLast'
  BY <1>1, <1>5, <1>6 DEF ReleaseLast
<1>9. BrokerFound'
  BY <1>1, <1>4 DEF BrokerFound
<1>10. ~(overran = 0 /\ served /\ ~released)
  BY <1>1, <1>4 DEF GoodBye, BrokerFound
<1>11. GoodBye'
  BY <1>1, <1>10 DEF GoodBye
<1> QED
  BY <1>2, <1>7, <1>8, <1>9, <1>11

\* A job that ends writes the thread into the record, no more.
LEMMA FarewellEnd ==
  ASSUME Farewell, Inviting, NEW q \in Queues, EndJob(q)
  PROVE  Farewell'
<1> USE DEF Farewell
<1>1. /\ UNCHANGED <<main, installed, worker, sink, served, overran, released, serving, send,
                     addressed, joined>>
      /\ record' = record \/ record' = [record EXCEPT !.thread = doing[q].thread]
  BY DEF EndJob, mainVars, clientVars, pastVars
<1>2. doing[q].thread \in 0 .. MaxThreads
  BY DEF Inviting, Doing
<1>3. /\ record' \in [known : BOOLEAN, claimed : BOOLEAN, thread : 0 .. MaxThreads]
      /\ record'.known = record.known
  BY <1>1, <1>2, Zenon DEF LinkTyped
<1>4. WorkerRight'
  BY <1>1, FarewellQuiet
<1> QED
  BY <1>1, <1>3, <1>4 DEF LinkTyped, ReleaseLast, BrokerFound, GoodBye

\* Everybody else has nothing to do with it.
LEMMA FarewellOthers ==
  ASSUME Farewell,
         \/ Identify \/ Elect \/ AcceptReturns \/ Discord \/ UNCHANGED vars
         \/ \E q \in Queues : StartJob(q) \/ CreateThread(q) \/ AddApprover(q)
  PROVE  Farewell'
<1> USE DEF Farewell
<1>1. /\ UNCHANGED <<main, installed, worker, sink, served, overran, released, send, record,
                     addressed, joined>>
      /\ serving' = serving \/ serving' = TRUE
  <2>1. CASE Identify \/ Elect \/ AcceptReturns \/ Discord \/ UNCHANGED vars
    BY <2>1 DEF Identify, Elect, AcceptReturns, Discord, vars, mainVars, brokerVars, clientVars,
                threadVars, pastVars
  <2>2. ASSUME NEW q \in Queues, StartJob(q) \/ CreateThread(q) \/ AddApprover(q)
        PROVE  UNCHANGED <<mainVars, brokerVars, clientVars, pastVars>>
    BY <2>2 DEF StartJob, CreateThread, AddApprover
  <2> QED
    BY <2>1, <2>2 DEF mainVars, brokerVars, clientVars, pastVars
<1>2. WorkerRight'
  BY <1>1, FarewellQuiet
<1> QED
  BY <1>1, <1>2 DEF LinkTyped, ReleaseLast, BrokerFound, GoodBye

\* No step breaks it.
LEMMA FarewellNext == Whole /\ Inviting /\ Farewell /\ [Next]_vars => Farewell'
<1> SUFFICES ASSUME Whole, Inviting, Farewell, [Next]_vars PROVE Farewell'
  OBVIOUS
<1>1. CASE Main \/ Shutdown
  BY <1>1, FarewellStart, FarewellDown, FarewellJoin DEF Main
<1>2. CASE Beat \/ Work
  BY <1>2, FarewellBeat, FarewellWork
<1>3. ASSUME NEW s \in Senders, Serve(s) \/ RefuseUnknown(s) \/ NobodyThere(s) PROVE Farewell'
  BY <1>3, FarewellServe, FarewellRefused
<1>4. ASSUME NEW q \in Queues, Pump(q) PROVE Farewell'
  BY <1>4, FarewellEnd, FarewellOthers DEF Pump
<1> QED
  BY <1>1, <1>2, <1>3, <1>4, FarewellOthers DEF Next

\* The good-bye was heard, when all joins were in time.
LEMMA FarewellEnough == Farewell /\ main = "ended" /\ served /\ overran = 0 => released
  BY DEF Farewell, WorkerRight, Unwound, GoodBye

-----------------------------------------------------------------------------
(* The archive: it is asked for last, and it runs last.                     *)

Everywhere == (UNION {JobsOf(At(p)) : p \in Places}) \ {Stop}
Seen(j) == j = Stop \/ \E k \in Everywhere : j.n = k.n /\ j.kind = k.kind
Carries == \A j \in Everywhere' : \E k \in Everywhere : j.n = k.n /\ j.kind = k.kind

\* Whatever is in one of the places is seen.
LEMMA SeenNow ==
  /\ \A c \in Callers : \A j \in JobsOf(Only(handing[c].job)) : Seen(j)
  /\ \A q \in Queues : /\ \A j \in JobsOf(queue[q]) : Seen(j)
                       /\ \A j \in JobsOf(Only(pump[q].job)) : Seen(j)
                       /\ \A j \in JobsOf(ran[q]) : Seen(j)
  /\ \A j \in JobsOf(held) \cup JobsOf(refill) \cup JobsOf(dropped) : Seen(j)
<1>1. \A p \in Places : \A j \in JobsOf(At(p)) : Seen(j)
  BY DEF Seen, Everywhere
<1>2. \A c \in Callers : Hand(c) \in Places /\ At(Hand(c)) = Only(handing[c].job)
  BY PlaceCases, Contents
<1>3. \A q \in Queues : /\ InQueue(q) \in Places /\ At(InQueue(q)) = queue[q]
                        /\ InPump(q) \in Places /\ At(InPump(q)) = Only(pump[q].job)
                        /\ InRan(q) \in Places /\ At(InRan(q)) = ran[q]
  BY PlaceCases, Contents
<1>4. /\ InHeld \in Places /\ At(InHeld) = held
      /\ InRefill \in Places /\ At(InRefill) = refill
      /\ InDropped \in Places /\ At(InDropped) = dropped
  BY PlaceCases, Contents
<1>5. \A c \in Callers : \A j \in JobsOf(Only(handing[c].job)) : Seen(j)
  BY <1>1, <1>2
<1>6. \A q \in Queues : /\ \A j \in JobsOf(queue[q]) : Seen(j)
                        /\ \A j \in JobsOf(Only(pump[q].job)) : Seen(j)
                        /\ \A j \in JobsOf(ran[q]) : Seen(j)
  BY <1>1, <1>3
<1>7. \A j \in JobsOf(held) \cup JobsOf(refill) \cup JobsOf(dropped) : Seen(j)
  BY <1>1, <1>4
<1> QED
  BY <1>5, <1>6, <1>7

\* And if whatever is in one of them next was seen, no job is new.
LEMMA CarriesAll ==
  ASSUME \A c \in Callers : \A j \in JobsOf(Only(handing'[c].job)) : Seen(j),
         \A q \in Queues : /\ \A j \in JobsOf(queue'[q]) : Seen(j)
                           /\ \A j \in JobsOf(Only(pump'[q].job)) : Seen(j)
                           /\ \A j \in JobsOf(ran'[q]) : Seen(j),
         \A j \in JobsOf(held') \cup JobsOf(refill') \cup JobsOf(dropped') : Seen(j)
  PROVE  Carries
<1>1. ASSUME NEW p \in Places PROVE \A j \in JobsOf(At(p)') : Seen(j)
  BY PlaceCases, ContentsNext
<1>2. Places' = Places
  BY DEF Places, Queues
<1>3. \A p : JobsOf(At(p))' = JobsOf(At(p)')
  BY DEF JobsOf
<1>4. Everywhere' = (UNION {JobsOf(At(p)') : p \in Places}) \ {Stop}
  BY <1>2, <1>3 DEF Everywhere
<1> QED
  BY <1>1, <1>4 DEF Carries, Seen

\* The held jobs take one in: it keeps its number and kind, and what is pushed
\* out was held before.
LEMMA HeldJobs ==
  ASSUME held \in Seq(Job), dropped \in Seq(Job), Len(held) <= MaxHeld,
         NEW job \in Job, HoldJob(job)
  PROVE  /\ \A k \in JobsOf(held') : k \in JobsOf(held) \/ (k.n = job.n /\ k.kind = job.kind)
         /\ \A k \in JobsOf(dropped') : k \in JobsOf(dropped) \/ k \in JobsOf(held)
<1> USE QueueAssumption
<1>1. PICK j \in Job : j = [job EXCEPT !.held = TRUE]
  BY HeldNow
<1>2. /\ j.n = job.n /\ j.kind = job.kind
      /\ \/ held' = Append(held, j) /\ dropped' = dropped
         \/ /\ held' = Tail(Append(held, j))
            /\ dropped' = Append(dropped, Head(Append(held, j)))
            /\ Len(held) = MaxHeld
  BY <1>1, HeldNow DEF Job
<1> DEFINE all == Append(held, j)
<1>3. /\ all \in Seq(Job) /\ all # <<>> /\ JobsOf(all) = JobsOf(held) \cup {j}
  BY JobsAppended, AppendProperties
<1>4. /\ Head(all) = all[1] /\ JobsOf(all) = JobsOf(Tail(all)) \cup {Head(all)} /\ Head(all) \in Job
  BY <1>3, JobsTaken, ListFacts
<1>5. Len(held) = MaxHeld => Head(all) \in JobsOf(held)
  <2>1. Len(held) \in Nat /\ \A i \in 1 .. Len(held) : all[i] = held[i]
    BY AppendProperties, LenProperties
  <2>2. Len(held) = MaxHeld => 1 \in 1 .. Len(held)
    BY <2>1
  <2> QED
    BY <1>4, <2>1, <2>2, ListFacts
<1> HIDE DEF all
<1>6. JobsOf(Append(dropped, Head(all))) = JobsOf(dropped) \cup {Head(all)}
  BY <1>4, JobsAppended
<1> QED
  BY <1>2, <1>3, <1>4, <1>5, <1>6 DEF all

\* A caller hands its job over.
LEMMA CarriesHandOver ==
  ASSUME QueueInv, NEW c \in Callers, HandOver(c)
  PROVE  Carries
<1>1. QueueTyped /\ HandsRight /\ HeldRight
  BY DEF QueueInv
<1>2. PICK job \in Job : job = handing[c].job
  BY <1>1 DEF HandOver, Hold, Put, QueueTyped
<1>3. Seen(job)
  BY <1>2, SeenNow, OnlyOne
<1>4. /\ handing' = [handing EXCEPT ![c] = Free]
      /\ UNCHANGED <<pump, refill, ran>>
  BY DEF HandOver, Hold, Put
<1>5. \A d \in Callers : handing'[d].job = NoJob \/ handing'[d] = handing[d]
  BY <1>1, <1>4 DEF QueueTyped, Free
<1>6. \A d \in Callers : \A j \in JobsOf(Only(handing'[d].job)) : Seen(j)
  BY <1>5, SeenNow, OnlyOne, NoWork
<1>7. CASE Hold(c)
  <2>1. HoldJob(job) /\ queue' = queue
    BY <1>2, <1>7 DEF Hold
  <2>2. /\ \A k \in JobsOf(held') : k \in JobsOf(held) \/ (k.n = job.n /\ k.kind = job.kind)
        /\ \A k \in JobsOf(dropped') : k \in JobsOf(dropped) \/ k \in JobsOf(held)
    BY <1>1, <2>1, HeldJobs DEF QueueTyped, HeldRight
  <2>3. \A k \in JobsOf(held') \cup JobsOf(dropped') : Seen(k)
    BY <1>3, <2>2, SeenNow, JobsAreJobs DEF Seen
  <2> QED
    BY <1>4, <1>6, <2>1, <2>3, SeenNow, CarriesAll
<1>8. CASE Put(c)
  <2>1. PICK q \in Queues : queue' = [queue EXCEPT ![q] = Append(@, job)]
    <3>1. handing[c] \in [job : Job \cup {NoJob}, to : 0 .. MaxReady]
      BY <1>1 DEF QueueTyped
    <3>2. handing[c].to \in Queues
      BY <1>8, <3>1, QueueAssumption DEF Put, Queues
    <3> QED
      BY <1>2, <1>8, <3>2 DEF Put
  <2>2. held' = held /\ dropped' = dropped
    BY <1>8 DEF Put
  <2>3. \A r \in Queues : \A j \in JobsOf(queue'[r]) : Seen(j)
    <3>1. JobsOf(Append(queue[q], job)) = JobsOf(queue[q]) \cup {job}
      <4>1. queue[q] \in Seq(Entries) /\ job \in Entries
        BY <1>1 DEF QueueTyped, Entries
      <4> QED
        BY <4>1, JobsAppended
    <3>2. \A r \in Queues : queue'[r] = queue[r] \/ queue'[r] = Append(queue[q], job)
      <4>1. queue \in [Queues -> Seq(Entries)]
        BY <1>1 DEF QueueTyped
      <4> QED
        BY <2>1, <4>1
    <3> QED
      BY <1>3, <3>1, <3>2, SeenNow
  <2> QED
    BY <1>4, <1>6, <2>2, <2>3, SeenNow, CarriesAll
<1> QED
  BY <1>7, <1>8 DEF HandOver

\* on_ready and close() move what there is.
LEMMA CarriesLoop ==
  ASSUME QueueInv, StartPump \/ LoopStep \/ CloseBegin \/ Forget
  PROVE  Carries
<1>1. QueueTyped /\ HeldRight
  BY DEF QueueInv
<1>2. /\ UNCHANGED <<handing, ran>>
      /\ \A q \in Queues : pump'[q].job = pump[q].job
  <2>1. pump \in [Queues -> [pc : PumpSteps, on : 0 .. MaxReady, job : Job \cup {NoJob}]]
    BY <1>1 DEF QueueTyped
  <2>2. CASE StartPump
    BY <2>1, <2>2 DEF StartPump
  <2>3. ASSUME NEW q \in Queues, BindPump(q)
        PROVE  UNCHANGED <<handing, ran>> /\ \A r \in Queues : pump'[r].job = pump[r].job
    BY <2>1, <2>3 DEF BindPump
  <2>4. CASE SwapHeld \/ Refill \/ FindChannel \/ FetchChannel \/ CloseBegin \/ Forget
    BY <2>4 DEF SwapHeld, Refill, FindChannel, FetchChannel, CloseBegin, Forget
  <2> QED
    BY <2>2, <2>3, <2>4 DEF LoopStep
<1>3. CASE UNCHANGED <<queue, held, refill, dropped>>
  BY <1>2, <1>3, SeenNow, CarriesAll
<1>4. CASE SwapHeld
  <2>1. held' = <<>> /\ refill' = held /\ UNCHANGED <<queue, dropped>>
    BY <1>4 DEF SwapHeld, OldestFirst
  <2> QED
    BY <1>2, <2>1, SeenNow, NoWork, CarriesAll
<1>5. CASE Refill
  <2>1. PICK job \in Job : job = Head(refill)
    BY <1>5, RefillTaken
  <2>2. refill' = Tail(refill) /\ JobsOf(refill) = JobsOf(Tail(refill)) \cup {job}
    BY <1>5, <2>1, RefillTaken
  <2>3. Seen(job)
    BY <2>2, SeenNow
  <2>4. CASE current = 0
    <3>1. HoldJob(job) /\ queue' = queue
      BY <1>5, <2>1, <2>4 DEF Refill
    <3>2. /\ \A k \in JobsOf(held') : k \in JobsOf(held) \/ (k.n = job.n /\ k.kind = job.kind)
          /\ \A k \in JobsOf(dropped') : k \in JobsOf(dropped) \/ k \in JobsOf(held)
      BY <1>1, <3>1, HeldJobs DEF QueueTyped, HeldRight
    <3>3. \A k \in JobsOf(held') \cup JobsOf(dropped') : Seen(k)
      BY <2>3, <3>2, SeenNow, JobsAreJobs DEF Seen
    <3> QED
      BY <1>2, <2>2, <3>1, <3>3, SeenNow, CarriesAll
  <2>5. CASE current # 0
    <3>1. /\ queue' = [queue EXCEPT ![current] = Append(@, job)] /\ UNCHANGED <<held, dropped>>
          /\ current \in Queues
      BY <1>5, <2>1, <2>5, RefillTaken DEF Refill
    <3>2. queue \in [Queues -> Seq(Entries)]
      BY <1>1 DEF QueueTyped
    <3>3. JobsOf(Append(queue[current], job)) = JobsOf(queue[current]) \cup {job}
      BY <3>1, <3>2, JobsAppended DEF Entries
    <3>4. \A r \in Queues : queue'[r] = queue[r] \/ queue'[r] = Append(queue[current], job)
      BY <3>1, <3>2
    <3>5. \A r \in Queues : \A j \in JobsOf(queue'[r]) : Seen(j)
      BY <2>3, <3>1, <3>3, <3>4, SeenNow
    <3> QED
      BY <1>2, <2>2, <3>1, <3>5, SeenNow, CarriesAll
  <2> QED
    BY <2>4, <2>5
<1>6. CASE CloseBegin
  <2>1. UNCHANGED <<held, refill, dropped>>
    BY <1>6 DEF CloseBegin
  <2>2. queue \in [Queues -> Seq(Entries)] /\ Stop \in Entries
    BY <1>1 DEF QueueTyped, Entries
  <2>3. \A r \in Queues : queue'[r] = queue[r] \/ queue'[r] = Append(queue[r], Stop)
    BY <1>6, <2>2 DEF CloseBegin
  <2>4. \A r \in Queues : JobsOf(Append(queue[r], Stop)) = JobsOf(queue[r]) \cup {Stop}
    BY <2>2, JobsAppended
  <2>5. \A r \in Queues : \A j \in JobsOf(queue'[r]) : Seen(j)
    <3>1. Seen(Stop)
      BY DEF Seen
    <3>2. \A r \in Queues : \A j \in JobsOf(Append(queue[r], Stop)) : Seen(j)
      BY <2>4, <3>1, SeenNow
    <3> QED
      BY <2>3, <3>2, SeenNow
  <2> QED
    BY <1>2, <2>1, <2>5, SeenNow, CarriesAll
<1>7. CASE FindChannel \/ FetchChannel \/ StartPump \/ Forget
  BY <1>3, <1>7 DEF FindChannel, FetchChannel, StartPump, Forget
<1>8. ASSUME NEW q \in Queues, BindPump(q) PROVE Carries
  BY <1>3, <1>8 DEF BindPump
<1> QED
  BY <1>4, <1>5, <1>6, <1>7, <1>8 DEF LoopStep

\* And so do the pumps.
LEMMA CarriesPump ==
  ASSUME QueueInv, NEW q \in Queues, TakesNext(q) \/ Finishes(q)
  PROVE  Carries
<1>1. QueueTyped /\ PumpsRight
  BY DEF QueueInv
<1>2. /\ queue \in [Queues -> Seq(Entries)] /\ ran \in [Queues -> Seq(Job)]
      /\ pump \in [Queues -> [pc : PumpSteps, on : 0 .. MaxReady, job : Job \cup {NoJob}]]
  BY <1>1 DEF QueueTyped
<1>3. pump[q].pc \in {"rest", "busy"} /\ pump[q].on = q
  BY <1>1 DEF PumpsRight, TakesNext, NextJob, Finishes, JobDone
<1>4. UNCHANGED <<handing, held, refill, dropped>>
  BY DEF TakesNext, Finishes
<1>5. CASE TakesNext(q)
  <2>1. /\ queue[q] # <<>> /\ queue' = [queue EXCEPT ![q] = Tail(@)] /\ ran' = ran
        /\ pump' = [pump EXCEPT ![q].pc = IF Head(queue[q]) = Stop THEN "dead" ELSE "busy",
                                ![q].job = IF Head(queue[q]) = Stop THEN NoJob
                                                                    ELSE Head(queue[q])]
    BY <1>3, <1>5 DEF TakesNext, NextJob
  <2>2. /\ Head(queue[q]) \in JobsOf(queue[q])
        /\ JobsOf(queue[q]) = JobsOf(Tail(queue[q])) \cup {Head(queue[q])}
        /\ Head(queue[q]) \in Entries
    BY <1>2, <2>1, JobsTaken, ListFacts
  <2>3. \A r \in Queues : queue'[r] = queue[r] \/ queue'[r] = Tail(queue[q])
    <3>1. DOMAIN queue = Queues /\ queue' = [queue EXCEPT ![q] = Tail(@)]
      BY <1>2, <2>1
    <3> QED
      BY <3>1, Zenon
  <2>4. \A r \in Queues : \/ pump'[r].job \in {pump[r].job, NoJob}
                          \/ pump'[r].job = Head(queue[q]) /\ Head(queue[q]) # Stop
    BY <1>2, <2>1
  <2>5. \A r \in Queues : \A j \in JobsOf(Only(pump'[r].job)) : Seen(j)
    <3>1. Seen(Head(queue[q]))
      BY <2>2, SeenNow
    <3>2. Head(queue[q]) # Stop => JobsOf(Only(Head(queue[q]))) = {Head(queue[q])}
      BY <2>2, OnlyOne DEF Entries
    <3> QED
      BY <2>4, <3>1, <3>2, SeenNow, OnlyOne, NoWork
  <2>6. \A r \in Queues : \A j \in JobsOf(queue'[r]) : Seen(j)
    BY <2>2, <2>3, SeenNow
  <2> QED
    BY <1>4, <2>1, <2>5, <2>6, SeenNow, CarriesAll
<1>6. CASE Finishes(q)
  <2>1. /\ pump[q].pc = "busy" /\ queue' = queue
        /\ pump' = [pump EXCEPT ![q].pc = "rest", ![q].job = NoJob]
        /\ ran' = [ran EXCEPT ![q] = Append(@, pump[q].job)]
    BY <1>3, <1>6 DEF Finishes, JobDone
  <2>2. pump[q].job \in Job
    BY <1>1, <1>2, <2>1 DEF PumpsRight
  <2>3. JobsOf(Append(ran[q], pump[q].job)) = JobsOf(ran[q]) \cup {pump[q].job}
    BY <1>2, <2>2, JobsAppended
  <2>4. Seen(pump[q].job)
    BY <2>2, SeenNow, OnlyOne
  <2>5. \A r \in Queues : ran'[r] = ran[r] \/ ran'[r] = Append(ran[q], pump[q].job)
    BY <1>2, <2>1
  <2>6. \A r \in Queues : \A j \in JobsOf(ran'[r]) : Seen(j)
    <3>1. \A j \in JobsOf(Append(ran[q], pump[q].job)) : Seen(j)
      BY <2>3, <2>4, SeenNow
    <3> QED
      BY <2>5, <3>1, SeenNow
  <2>7. \A r \in Queues : pump'[r].job \in {pump[r].job, NoJob}
    BY <1>2, <2>1
  <2>8. \A r \in Queues : \A j \in JobsOf(Only(pump'[r].job)) : Seen(j)
    BY <2>7, SeenNow, OnlyOne, NoWork
  <2> QED
    BY <1>4, <2>1, <2>6, <2>8, SeenNow, CarriesAll
<1> QED
  BY <1>5, <1>6

\* The archive is asked for once, and nothing is asked for after it.
LastWord ==
  released /\ ~reborn =>
    /\ ~record.known /\ asked["accept"] >= 1
    /\ \A j \in Everywhere : j.n = asked["accept"] => j.kind = "archive"

\* The job asked for last is not pushed out.
NewestStays ==
  made <= 1 /\ overran = 0 =>
    /\ OnReadyRuns => current = made
    /\ \A d \in JobsOf(dropped) : d.n < asked["accept"]

\* Every job has a number that was given out.
LEMMA NumbersGiven ==
  ASSUME QueueInv, NEW j \in Everywhere
  PROVE  j.n \in 1 .. asked["accept"] /\ asked["accept"] \in Nat
<1>1. PICK p \in Places : j \in JobsOf(At(p)) /\ j # Stop
  BY DEF Everywhere
<1>2. JobName(j) \in Requested
  BY <1>1 DEF QueueInv, Apart, Named
<1>3. asked["accept"] \in 0 .. MaxJobs
  BY BridgeAssumption DEF QueueInv, QueueTyped
<1> QED
  BY <1>2, <1>3, BridgeAssumption DEF Requested, JobName

\* At the beginning nothing was asked for.
LEMMA LastWordInit == Init => LastWord /\ NewestStays
<1> SUFFICES ASSUME Init PROVE LastWord /\ NewestStays
  OBVIOUS
<1>1. /\ released = FALSE /\ dropped = <<>> /\ ready = "login"
  BY DEF Init, QueueInit
<1> QED
  BY <1>1, NoWork DEF LastWord, NewestStays, OnReadyRuns

\* The broker handles a registration or a frame.
LEMMA LastWordServe ==
  ASSUME QueueInv, LastWord, NEW s \in Senders, LinkTyped, Serve(s)
  PROVE  LastWord'
<1>1. asked["accept"] \in Nat /\ asked \in [Callers -> 0 .. MaxJobs] /\ "accept" \in Callers
  BY BridgeAssumption DEF QueueInv, QueueTyped
<1>2. CASE OnRegister(s)
  BY <1>2 DEF OnRegister, LastWord
<1>3. CASE OnFrame(s) /\ released' = released
  BY <1>3 DEF OnFrame, LastWord
<1>4. CASE OnFrame(s) /\ ~(released' = released)
  <2>1. AskGateway("archive") /\ record' = Unknown
    BY <1>4 DEF OnFrame
  <2>2. /\ handing["accept"] = Free
        /\ asked' = [asked EXCEPT !["accept"] = @ + 1]
        /\ handing' = [handing EXCEPT !["accept"] =
              [job |-> [by |-> "accept", n |-> asked["accept"] + 1, kind |-> "archive",
                        held |-> FALSE], to |-> current]]
        /\ UNCHANGED <<held, dropped, queue, pump, refill, ran>>
    BY <2>1 DEF AskGateway, Schedule
  <2>3. asked'["accept"] = asked["accept"] + 1
    BY <1>1, <2>2
  <2>4. ~record'.known
    BY <2>1 DEF Unknown
  <2> DEFINE new == [by |-> "accept", n |-> asked["accept"] + 1, kind |-> "archive", held |-> FALSE]
  <2>5. new.kind = "archive"
    OBVIOUS
  <2>6. handing'["accept"].job = new
    <3>1. handing \in [Callers -> [job : Job \cup {NoJob}, to : 0 .. MaxReady]]
      BY DEF QueueInv, QueueTyped
    <3> QED
      BY <1>1, <2>2, <3>1
  <2> HIDE DEF new
  <2>7. ASSUME NEW j \in Everywhere', j.n = asked'["accept"] PROVE j.kind = "archive"
    <3>1. PICK p \in Places : j \in JobsOf(At(p)') /\ j # Stop
      <4>1. Places' = Places
        BY DEF Places, Queues
      <4>2. \A p : JobsOf(At(p))' = JobsOf(At(p)')
        BY DEF JobsOf
      <4> QED
        BY <2>7, <4>1, <4>2 DEF Everywhere
    <3>2. CASE p = Hand("accept")
      <4>1. At(p)' = Only(new)
        BY <1>1, <2>6, <3>2, ContentsNext
      <4>2. Only(new) \in {<<>>, <<new>>}
        BY DEF Only
      <4>3. JobsOf(<<new>>) = {new}
        BY DEF JobsOf
      <4>4. j = new
        BY <3>1, <4>1, <4>2, <4>3, NoWork
      <4> QED
        BY <2>5, <4>4
    <3>3. CASE p # Hand("accept")
      <4>1. At(p)' = At(p)
        BY <2>2, <3>3, PlaceCases, Contents, ContentsNext, BridgeAssumption
      <4>2. j \in Everywhere
        BY <3>1, <4>1 DEF Everywhere
      <4>3. j.n \in 1 .. asked["accept"]
        BY <4>2, NumbersGiven
      <4> QED
        BY <1>1, <2>3, <2>7, <4>3
    <3> QED
      BY <3>2, <3>3
  <2> QED
    BY <1>1, <2>3, <2>4, <2>7 DEF LastWord
<1> QED
  BY <1>2, <1>3, <1>4 DEF Serve

\* What the others do to the queue, and what they leave alone.
QueueStep ==
  \/ UNCHANGED queueVars \/ HandOver("accept") \/ StartPump \/ LoopStep \/ CloseBegin
  \/ GatewayClosed
  \/ \E q \in Queues : Pump(q) /\ (TakesNext(q) \/ Finishes(q))

\* No more than that.
LEMMA OthersQueue ==
  ASSUME LinkTyped, Inviting, [Next]_vars, ~\E s \in Senders : Serve(s)
  PROVE  /\ UNCHANGED <<released, reborn>> /\ record'.known = record.known
         /\ QueueStep
         /\ overran' = 0 => overran = 0
<1>1. CASE Main \/ Shutdown
  <2>1. UNCHANGED <<record, released, reborn>>
    <3>1. Activate \/ SyncEnds \/ InstallLayer \/ LayerRefuses \/ Shutdown \/ TakeDown \/ AllDown
            => UNCHANGED <<record, released, reborn>>
      BY DEF Activate, SyncEnds, InstallLayer, LayerRefuses, Shutdown, TakeDown, AllDown, Starts,
             threadVars, brokerVars, pastVars
    <3>2. CloseMailbox \/ StopClient \/ StopSupervisor \/ JoinThread \/ StopBroker \/ CloseGateway
            \/ GatewayClosed => UNCHANGED <<record, released, reborn>>
      BY DEF CloseMailbox, StopClient, StopSupervisor, JoinThread, StopBroker, CloseGateway,
             GatewayClosed, threadVars, brokerVars, pastVars
    <3> QED
      BY <1>1, <3>1, <3>2 DEF Main
  <2>2. overran' = 0 => overran = 0
    <3>1. Activate \/ SyncEnds \/ InstallLayer \/ LayerRefuses \/ Shutdown \/ TakeDown \/ AllDown
            \/ CloseMailbox \/ StopClient \/ StopSupervisor => UNCHANGED overran
      BY DEF Activate, SyncEnds, InstallLayer, LayerRefuses, Shutdown, TakeDown, AllDown,
             CloseMailbox, StopClient, StopSupervisor, threadVars, pastVars
    <3>2. JoinThread \/ StopBroker \/ CloseGateway \/ GatewayClosed
            => overran' = overran \/ overran' = overran + 1
      BY DEF JoinThread, StopBroker, CloseGateway, GatewayClosed, Joined
    <3> QED
      BY <1>1, <3>1, <3>2 DEF Main, LinkTyped
  <2>3. UNCHANGED queueVars \/ CloseGateway \/ GatewayClosed
    <3>1. Activate \/ SyncEnds \/ InstallLayer \/ LayerRefuses \/ Shutdown \/ TakeDown \/ AllDown
            => UNCHANGED queueVars
      BY DEF Activate, SyncEnds, InstallLayer, LayerRefuses, Shutdown, TakeDown, AllDown
    <3>2. CloseMailbox \/ StopClient \/ StopSupervisor \/ JoinThread \/ StopBroker
            => UNCHANGED queueVars
      BY DEF CloseMailbox, StopClient, StopSupervisor, JoinThread, StopBroker
    <3> QED
      BY <1>1, <3>1, <3>2 DEF Main
  <2>4. CloseGateway => CloseBegin
    BY DEF CloseGateway
  <2> QED
    BY <2>1, <2>2, <2>3, <2>4 DEF QueueStep
<1>2. CASE Identify \/ Beat \/ Work \/ Elect \/ UNCHANGED vars
  BY <1>2 DEF Identify, Beat, Work, Elect, vars, threadVars, brokerVars, pastVars, QueueStep
<1>3. CASE AcceptReturns \/ Discord
  <2>1. UNCHANGED <<record, released, reborn, overran>>
    BY <1>3 DEF AcceptReturns, Discord, threadVars, brokerVars, pastVars
  <2>2. HandOver("accept") \/ StartPump \/ LoopStep
    BY <1>3 DEF AcceptReturns, Discord
  <2> QED
    BY <2>1, <2>2 DEF QueueStep
<1>4. ASSUME NEW s \in Senders, RefuseUnknown(s) \/ NobodyThere(s)
      PROVE  UNCHANGED <<record, released, reborn, overran, queueVars>>
  BY <1>4 DEF RefuseUnknown, NobodyThere, brokerVars, pastVars
<1>5. ASSUME NEW q \in Queues, Pump(q)
      PROVE  /\ UNCHANGED <<released, reborn, overran>> /\ record'.known = record.known
             /\ UNCHANGED queueVars \/ TakesNext(q) \/ Finishes(q)
  <2>1. CASE StartJob(q)
    BY <2>1 DEF StartJob, TakesNext, brokerVars, pastVars
  <2>2. CASE CreateThread(q) \/ AddApprover(q)
    BY <2>2 DEF CreateThread, AddApprover, brokerVars, pastVars
  <2>3. CASE EndJob(q)
    <3>1. /\ UNCHANGED <<released, reborn, overran>> /\ Finishes(q)
          /\ record' = record \/ record' = [record EXCEPT !.thread = doing[q].thread]
      BY <2>3 DEF EndJob, Finishes, pastVars
    <3>2. record'.known = record.known
      BY <3>1, Zenon DEF LinkTyped
    <3> QED
      BY <3>1, <3>2
  <2> QED
    BY <1>5, <2>1, <2>2, <2>3 DEF Pump
<1> QED
  BY <1>1, <1>2, <1>3, <1>4, <1>5 DEF Next, QueueStep

\* None of it asks for anything.
LEMMA CarriesOn ==
  ASSUME QueueInv, QueueStep
  PROVE  Carries /\ asked' = asked
<1>1. CASE UNCHANGED queueVars
  <2>1. UNCHANGED <<asked, handing, held, dropped, queue, pump, refill, ran>>
    BY <1>1 DEF queueVars
  <2> QED
    BY <2>1, SeenNow, CarriesAll
<1>2. CASE HandOver("accept")
  BY <1>2, CarriesHandOver, BridgeAssumption DEF HandOver, Hold, Put
<1>3. CASE StartPump \/ LoopStep \/ CloseBegin \/ GatewayClosed
  <2>1. StartPump \/ LoopStep \/ CloseBegin \/ Forget
    BY <1>3 DEF GatewayClosed
  <2>2. Carries
    BY <2>1, CarriesLoop
  <2> QED
    BY <2>1, <2>2 DEF StartPump, LoopStep, SwapHeld, Refill, FindChannel, FetchChannel, BindPump,
                      CloseBegin, Forget
<1>4. ASSUME NEW q \in Queues, TakesNext(q) \/ Finishes(q) PROVE Carries /\ asked' = asked
  BY <1>4, CarriesPump DEF TakesNext, Finishes
<1> QED
  BY <1>1, <1>2, <1>3, <1>4 DEF QueueStep

\* No step breaks it.
LEMMA LastWordNext ==
  QueueInv /\ LinkTyped /\ Inviting /\ LastWord /\ [Next]_vars => LastWord'
<1> SUFFICES ASSUME QueueInv, LinkTyped, Inviting, LastWord, [Next]_vars PROVE LastWord'
  OBVIOUS
<1>1. CASE \E s \in Senders : Serve(s)
  BY <1>1, LastWordServe
<1>2. CASE ~\E s \in Senders : Serve(s)
  <2>1. /\ UNCHANGED <<released, reborn, asked>> /\ record'.known = record.known
        /\ Carries
    BY <1>2, OthersQueue, CarriesOn
  <2> QED
    BY <2>1 DEF LastWord, Carries
<1> QED
  BY <1>1, <1>2

\* A queue that is made once is not forgotten under on_ready: close() waits for
\* its pump; and the job that is handed over is newer than what is held.
LEMMA NewestStaysNext ==
  QueueInv /\ LinkTyped /\ Inviting /\ NewestStays /\ [Next]_vars => NewestStays'
<1> SUFFICES ASSUME QueueInv, LinkTyped, Inviting, NewestStays, [Next]_vars,
                    made' <= 1, overran' = 0
             PROVE  /\ OnReadyRuns' => current' = made'
                    /\ \A d \in JobsOf(dropped') : d.n < asked'["accept"]
  BY DEF NewestStays, JobsOf
<1>1. QueueTyped /\ PumpsRight /\ HeldRight
  BY DEF QueueInv
<1>2. /\ asked["accept"] \in Nat /\ asked \in [Callers -> 0 .. MaxJobs] /\ "accept" \in Callers
      /\ made \in Nat
      /\ \A d \in JobsOf(dropped) : d.n \in Nat
  <2>1. JobsOf(dropped) \subseteq Job
    BY <1>1, ListFacts DEF QueueTyped
  <2> QED
    BY <1>1, <2>1, BridgeAssumption, QueueAssumption, JobsAreJobs DEF QueueTyped
<1>3. CASE \E s \in Senders : Serve(s)
  <2>1. PICK s \in Senders : Serve(s)
    BY <1>3
  <2>2. /\ UNCHANGED <<made, overran, current, ready, dropped>>
        /\ asked' = asked \/ asked' = [asked EXCEPT !["accept"] = @ + 1]
    <3>1. UNCHANGED overran
      BY <2>1 DEF Serve
    <3>2. UNCHANGED queueVars \/ \E kind \in Kinds : AskGateway(kind)
      BY <2>1, BridgeAssumption DEF Serve, OnRegister, OnFrame
    <3> QED
      BY <3>1, <3>2 DEF AskGateway, Schedule, queueVars
  <2>3. asked'["accept"] \in {asked["accept"], asked["accept"] + 1}
    BY <1>2, <2>2
  <2>4. \A d \in JobsOf(dropped) : d.n < asked["accept"]
    BY <2>2 DEF NewestStays
  <2>5. \A d \in JobsOf(dropped) : d.n < asked'["accept"]
    BY <1>2, <2>3, <2>4
  <2>6. OnReadyRuns' => current' = made'
    BY <2>2 DEF NewestStays, OnReadyRuns
  <2> QED
    BY <2>2, <2>5, <2>6
<1>4. CASE ~\E s \in Senders : Serve(s)
  <2>1. QueueStep /\ overran = 0 /\ asked' = asked
    BY <1>4, OthersQueue, CarriesOn
  <2>2. CASE UNCHANGED queueVars
    BY <2>1, <2>2 DEF queueVars, NewestStays, OnReadyRuns
  <2>3. CASE HandOver("accept")
    <3>1. UNCHANGED <<made, current, ready>>
      BY <2>3 DEF HandOver, Hold, Put
    <3>2. \A d \in JobsOf(dropped) : d.n < asked["accept"]
      BY <2>1, <3>1 DEF NewestStays
    <3>3. CASE Hold("accept")
      <4>1. PICK job \in Job : /\ job = handing["accept"].job /\ job # NoJob /\ HoldJob(job)
                               /\ job.n = asked["accept"]
        BY <1>1, <1>2, <3>3 DEF Hold, QueueTyped, HandsRight, QueueInv
      <4>2. \A k \in JobsOf(dropped') : k \in JobsOf(dropped) \/ k \in JobsOf(held)
        BY <1>1, <4>1, HeldJobs DEF QueueTyped, HeldRight
      <4>3. ASSUME NEW k \in JobsOf(held) PROVE k.n < asked["accept"]
        <5>1. k \in Job
          BY <1>1, ListFacts DEF QueueTyped
        <5>2. k # Stop /\ k.by = "accept"
          BY <5>1, JobsAreJobs, BridgeAssumption
        <5>3. InHeld \in Places /\ At(InHeld) = held /\ InHeld # Hand("accept")
          BY PlaceCases, Contents, PlacesDiffer
        <5> QED
          BY <1>2, <4>1, <5>1, <5>2, <5>3, NewestInHand
      <4>4. \A d \in JobsOf(dropped') : d.n < asked["accept"]
        BY <3>2, <4>2, <4>3
      <4> QED
        BY <2>1, <3>1, <4>4 DEF NewestStays, OnReadyRuns
    <3>4. CASE Put("accept")
      BY <2>1, <3>1, <3>2, <3>4 DEF NewestStays, OnReadyRuns, Put
    <3> QED
      BY <2>3, <3>3, <3>4 DEF HandOver
  <2>4. CASE StartPump
    <3>1. made' = made + 1 /\ current' = made + 1 /\ dropped' = dropped
      BY <2>4 DEF StartPump
    <3> QED
      BY <1>2, <2>1, <3>1 DEF NewestStays
  <2>5. CASE LoopStep
    <3>1. UNCHANGED <<made, current>> /\ (OnReadyRuns' => OnReadyRuns)
      BY <2>5 DEF LoopStep, SwapHeld, Refill, FindChannel, FetchChannel, BindPump, OnReadyRuns
    <3>2. dropped' = dropped
      <4>1. CASE Refill
        <5>1. OnReadyRuns /\ made \in Queues
          BY <1>1, <4>1 DEF Refill, OnReadyRuns, PumpsRight
        <5>2. current # 0
          BY <2>1, <3>1, <5>1 DEF NewestStays, Queues
        <5> QED
          BY <4>1, <5>2 DEF Refill
      <4> QED
        BY <2>5, <4>1 DEF LoopStep, SwapHeld, FindChannel, FetchChannel, BindPump
    <3> QED
      BY <2>1, <3>1, <3>2 DEF NewestStays
  <2>6. CASE CloseBegin
    BY <2>1, <2>6 DEF CloseBegin, NewestStays, OnReadyRuns
  <2>7. CASE GatewayClosed
    <3>1. PumpStopped
      <4>1. overran' = overran \/ overran' = overran + 1
        BY <2>7 DEF GatewayClosed, Joined
      <4>2. overran' = overran
        BY <2>1
      <4>3. Finished("joinPump")
        BY <2>1, <2>7, <4>2 DEF GatewayClosed, Joined
      <4> QED
        BY <4>3 DEF Finished
    <3>2. UNCHANGED <<made, dropped, ready>>
      BY <2>7 DEF GatewayClosed, Forget
    <3>3. ~OnReadyRuns
      <4>1. OnReadyRuns => made # 0 /\ pump[made].pc = "new"
        BY <1>1 DEF PumpsRight, Queues
      <4> QED
        BY <3>1, <4>1 DEF PumpStopped
    <3> QED
      BY <2>1, <3>2, <3>3 DEF NewestStays, OnReadyRuns
  <2>8. ASSUME NEW q \in Queues, TakesNext(q) \/ Finishes(q)
        PROVE  UNCHANGED <<made, current, dropped, ready>>
    BY <2>8 DEF TakesNext, Finishes
  <2> QED
    BY <2>1, <2>2, <2>3, <2>4, <2>5, <2>6, <2>7, <2>8 DEF QueueStep, NewestStays, OnReadyRuns
<1> QED
  BY <1>3, <1>4

-----------------------------------------------------------------------------
(* The thread: open only while it is mapped, or about to be archived.       *)

LastKind(s, kind) == s # <<>> /\ s[Len(s)].kind = kind

PumpMaps(q) ==
  /\ doing[q].act # "nothing" => pump[q].job # NoJob
  /\ doing[q].act = "create" => pump[q].job.kind = "open" /\ mapped = 0
  /\ doing[q].act = "archive" => pump[q].job.kind = "archive"
  /\ pump[q].job # NoJob /\ pump[q].job.kind = "archive" => mapped = 0
  /\ pump[q].job = NoJob /\ LastKind(ran[q], "archive") => mapped = 0

OpenIsMapped ==
  /\ world \in [Threads -> {"none", "open", "archived"}]
  /\ made <= 1 =>
       /\ \A q \in Queues : PumpMaps(q)
       /\ \A t \in Threads : world[t] = "open" =>
            mapped = t \/ \E q \in Queues : doing[q].act = "archive" /\ doing[q].thread = t

\* At the beginning there is no thread.
LEMMA OpenInit == Init => OpenIsMapped
<1> SUFFICES ASSUME Init PROVE OpenIsMapped
  OBVIOUS
<1>1. /\ mapped = 0 /\ world = [t \in Threads |-> "none"]
      /\ \A q \in Queues : doing[q] = Nothing /\ Nothing.act = "nothing"
  BY DEF Init, Nothing
<1> QED
  BY <1>1 DEF OpenIsMapped, PumpMaps

\* As long as one queue was made there is one pump that works.
LEMMA OnlyPump ==
  ASSUME QueueInv, made <= 1, NEW q \in Queues, pump[q].job # NoJob
  PROVE  \A r \in Queues : pump[r].job # NoJob => r = q
<1>1. \A r \in Queues : pump[r].job # NoJob => r = 1
  <2>1. \A r \in Queues : r > made => pump[r] = NoPump
    BY DEF QueueInv, PumpsRight
  <2>2. made \in Nat /\ \A r \in Queues : r \in Nat /\ r >= 1
    BY QueueAssumption DEF QueueInv, QueueTyped, Queues
  <2>3. NoPump.job = NoJob
    BY DEF NoPump
  <2> QED
    BY <2>1, <2>2, <2>3
<1> QED
  BY <1>1

\* The job that ends the line.
LEMMA LastOne ==
  ASSUME NEW s \in Seq(Job), NEW j \in Job, NEW kind
  PROVE  LastKind(Append(s, j), kind) <=> j.kind = kind
<1>1. Append(s, j) # <<>> /\ Len(Append(s, j)) = Len(s) + 1 /\ Append(s, j)[Len(s) + 1] = j
  BY AppendProperties
<1> QED
  BY <1>1 DEF LastKind

\* A job starts: an archive takes the thread out of the map first.
LEMMA OpenStart ==
  ASSUME QueueInv, Inviting, OpenIsMapped, NEW q \in Queues, StartJob(q)
  PROVE  OpenIsMapped'
<1>1. /\ QueueTyped /\ PumpsRight
      /\ doing \in [Queues -> Doing] /\ mapped \in 0 .. MaxThreads
  BY DEF QueueInv, Inviting
<1>2. /\ pump[q].pc = "rest" /\ pump[q].on = q /\ queue[q] # <<>>
      /\ UNCHANGED <<made, ran, world>>
  BY <1>1 DEF StartJob, NextJob, PumpsRight
<1>3. PICK j \in Entries :
        /\ j = Head(queue[q])
        /\ pump' = [pump EXCEPT ![q].pc = IF j = Stop THEN "dead" ELSE "busy",
                                ![q].job = IF j = Stop THEN NoJob ELSE j]
        /\ IF j = Stop THEN UNCHANGED <<mapped, doing>>
           ELSE /\ doing' = [doing EXCEPT ![q] = Awaits(j.kind)]
                /\ mapped' = IF j.kind = "archive" THEN 0 ELSE mapped
  <2>1. queue[q] \in Seq(Entries)
    BY <1>1 DEF QueueTyped
  <2>2. Head(queue[q]) \in Entries
    BY <1>2, <2>1, HeadTailProperties
  <2> QED
    BY <1>2, <2>2 DEF StartJob, NextJob
<1>4. pump[q].job = NoJob
  BY <1>1, <1>2 DEF PumpsRight
<1>5. /\ pump'[q].job = IF j = Stop THEN NoJob ELSE j
      /\ \A r \in Queues \ {q} : pump'[r].job = pump[r].job
  <2>1. pump \in [Queues -> [pc : PumpSteps, on : 0 .. MaxReady, job : Job \cup {NoJob}]]
    BY <1>1 DEF QueueTyped
  <2> QED
    BY <1>3, <2>1
<1> SUFFICES ASSUME made <= 1
             PROVE  /\ \A r \in Queues : PumpMaps(r)'
                    /\ \A t \in Threads : world[t] = "open" =>
                         mapped' = t \/ \E r \in Queues : doing'[r].act = "archive" /\ doing'[r].thread = t
  BY <1>2 DEF OpenIsMapped
<1>6. /\ \A r \in Queues : PumpMaps(r)
      /\ \A t \in Threads : world[t] = "open" =>
           mapped = t \/ \E r \in Queues : doing[r].act = "archive" /\ doing[r].thread = t
  BY DEF OpenIsMapped
<1>7. CASE j = Stop
  <2>1. /\ UNCHANGED <<mapped, doing, ran>>
        /\ \A r \in Queues : pump'[r].job = pump[r].job
    BY <1>2, <1>3, <1>4, <1>5, <1>7
  <2>2. \A r \in Queues : PumpMaps(r)'
    BY <1>6, <2>1 DEF PumpMaps, LastKind
  <2> QED
    BY <1>6, <2>1, <2>2
<1>8. CASE j # Stop
  <2>1. /\ j \in Job /\ j # NoJob /\ pump'[q].job = j
        /\ doing'[q] = Awaits(j.kind) /\ \A r \in Queues \ {q} : doing'[r] = doing[r]
        /\ mapped' = IF j.kind = "archive" THEN 0 ELSE mapped
    BY <1>1, <1>3, <1>5, <1>8, JobsAreJobs DEF Entries
  <2>3. /\ Awaits(j.kind).act \in {"nothing", "record", "create", "archive"}
        /\ Awaits(j.kind).act = "create" => j.kind = "open" /\ mapped = 0
        /\ Awaits(j.kind).act = "archive" => j.kind = "archive" /\ Awaits(j.kind).thread = mapped
        /\ j.kind = "archive" /\ mapped # 0 => Awaits(j.kind).act = "archive"
    BY DEF Awaits, Nothing
  <2>4. \A r \in Queues \ {q} : pump'[r].job = NoJob /\ ran'[r] = <<>> /\ doing'[r].act = "nothing"
    <3>1. \A r \in Queues : r # q => r > made
      BY <1>1, <1>2, QueueAssumption DEF PumpsRight, QueueTyped, Queues, NoPump
    <3>2. \A r \in Queues \ {q} : pump[r] = NoPump /\ ran[r] = <<>>
      BY <1>1, <3>1 DEF PumpsRight
    <3>3. NoPump.job = NoJob
      BY DEF NoPump
    <3> QED
      BY <1>2, <1>5, <1>6, <2>1, <3>2, <3>3 DEF PumpMaps
  <2>5. PumpMaps(q)'
    BY <2>1, <2>3 DEF PumpMaps
  <2>6. \A r \in Queues \ {q} : PumpMaps(r)'
    BY <2>4 DEF PumpMaps, LastKind
  <2>7. \A r \in Queues : doing[r].act = "nothing"
    BY <1>4, <1>6, <2>1, <2>4 DEF PumpMaps
  <2>8. ASSUME NEW t \in Threads, world[t] = "open"
        PROVE  mapped' = t \/ \E r \in Queues : doing'[r].act = "archive" /\ doing'[r].thread = t
    <3>1. mapped = t /\ mapped # 0
      BY <1>6, <2>7, <2>8, BridgeAssumption DEF Threads
    <3> QED
      BY <2>1, <2>3, <3>1
  <2> QED
    BY <2>5, <2>6, <2>8
<1> QED
  BY <1>7, <1>8

\* The thread is made, and mapped.
LEMMA OpenCreate ==
  ASSUME QueueInv, Inviting, OpenIsMapped, NEW q \in Queues, CreateThread(q)
  PROVE  OpenIsMapped'
<1>1. /\ doing \in [Queues -> Doing] /\ doing[q].act = "create"
      /\ UNCHANGED <<made, pump, ran>>
  BY DEF Inviting, CreateThread, queueVars
<1>2. PICK t \in Threads :
        /\ world' = [world EXCEPT ![t] = "open"] /\ mapped' = t
        /\ doing' = [doing EXCEPT ![q] = [act |-> "invite", thread |-> t,
                                          left |-> ApproverAddresses, due |-> ApproverAddresses]]
  BY DEF CreateThread
<1>3. /\ doing'[q].act = "invite"
      /\ \A r \in Queues \ {q} : doing'[r] = doing[r]
  BY <1>1, <1>2
<1>4. /\ world' \in [Threads -> {"none", "open", "archived"}]
      /\ \A u \in Threads \ {t} : world'[u] = world[u]
  BY <1>2 DEF OpenIsMapped
<1> SUFFICES ASSUME made <= 1
             PROVE  /\ \A r \in Queues : PumpMaps(r)'
                    /\ \A u \in Threads : world'[u] = "open" =>
                         mapped' = u \/ \E r \in Queues : doing'[r].act = "archive" /\ doing'[r].thread = u
  BY <1>1, <1>4 DEF OpenIsMapped
<1>5. /\ \A r \in Queues : PumpMaps(r)
      /\ \A u \in Threads : world[u] = "open" =>
           mapped = u \/ \E r \in Queues : doing[r].act = "archive" /\ doing[r].thread = u
  BY DEF OpenIsMapped
<1>6. pump[q].job # NoJob /\ pump[q].job.kind = "open" /\ mapped = 0
  BY <1>1, <1>5 DEF PumpMaps
<1>7. \A r \in Queues \ {q} : pump[r].job = NoJob /\ doing[r].act = "nothing" /\ ran[r] = <<>>
  <2>1. \A r \in Queues \ {q} : pump[r].job = NoJob
    BY <1>6, OnlyPump
  <2>2. ASSUME NEW r \in Queues \ {q} PROVE ran[r] = <<>>
    <3>1. /\ q > made => pump[q] = NoPump
          /\ r > made => ran[r] = <<>>
      BY DEF QueueInv, PumpsRight
    <3>2. NoPump.job = NoJob
      BY DEF NoPump
    <3>3. r > made
      BY <1>6, <3>1, <3>2, QueueAssumption DEF QueueInv, QueueTyped, Queues
    <3> QED
      BY <3>1, <3>3
  <2> QED
    BY <1>5, <2>1, <2>2 DEF PumpMaps
<1>8. PumpMaps(q)'
  BY <1>1, <1>3, <1>6 DEF PumpMaps
<1>9. \A r \in Queues \ {q} : PumpMaps(r)'
  BY <1>1, <1>3, <1>7 DEF PumpMaps, LastKind
<1>10. ASSUME NEW u \in Threads, world'[u] = "open" PROVE u = t
  <2>1. u # t => world[u] = "open"
    BY <1>4, <1>10
  <2>2. \A r \in Queues : doing[r].act # "archive"
    BY <1>1, <1>7
  <2>3. ~(mapped = u)
    BY <1>6, BridgeAssumption DEF Threads
  <2> QED
    BY <1>5, <2>1, <2>2, <2>3
<1> QED
  BY <1>2, <1>8, <1>9, <1>10

\* An approver is added, or could not be.
LEMMA OpenAdd ==
  ASSUME Inviting, OpenIsMapped, NEW q \in Queues, AddApprover(q)
  PROVE  OpenIsMapped'
<1>1. /\ UNCHANGED <<made, pump, ran, mapped, world>>
      /\ doing \in [Queues -> Doing] /\ doing[q].act = "invite"
      /\ \E a : doing' = [doing EXCEPT ![q].left = @ \ {a}]
  BY DEF AddApprover, Inviting, queueVars
<1>2. \A r \in Queues : doing'[r].act = doing[r].act /\ doing'[r].thread = doing[r].thread
  <2>1. \A r \in Queues : doing[r] \in Doing
    BY <1>1
  <2>2. \A r \in Queues : DOMAIN doing[r] = {"act", "thread", "left", "due"}
    BY <2>1 DEF Doing
  <2> QED
    BY <1>1, <2>2
<1>3. (\A r \in Queues : PumpMaps(r)) => \A r \in Queues : PumpMaps(r)'
  BY <1>1, <1>2 DEF PumpMaps, LastKind
<1> QED
  BY <1>1, <1>2, <1>3 DEF OpenIsMapped

\* A job ends: the archive has done its work, while nothing else was mapped.
LEMMA OpenEnd ==
  ASSUME QueueInv, Inviting, OpenIsMapped, NEW q \in Queues, EndJob(q)
  PROVE  OpenIsMapped'
<1>1. /\ QueueTyped /\ PumpsRight /\ doing \in [Queues -> Doing]
  BY DEF QueueInv, Inviting
<1>2. /\ pump[q].pc = "busy" /\ UNCHANGED <<made, mapped>>
      /\ pump' = [pump EXCEPT ![q].pc = "rest", ![q].job = NoJob]
      /\ ran' = [ran EXCEPT ![pump[q].on] = Append(@, pump[q].job)]
      /\ doing' = [doing EXCEPT ![q] = Nothing]
      /\ doing[q].act # "create"
      /\ world' = IF doing[q].act = "archive"
                  THEN [world EXCEPT ![doing[q].thread] = "archived"] ELSE world
  BY DEF EndJob, JobDone
<1>3. /\ pump[q].on = q /\ pump[q].job # NoJob /\ pump[q].job \in Job
      /\ pump'[q].job = NoJob /\ \A r \in Queues \ {q} : pump'[r].job = pump[r].job
  <2>1. pump \in [Queues -> [pc : PumpSteps, on : 0 .. MaxReady, job : Job \cup {NoJob}]]
    BY <1>1 DEF QueueTyped
  <2>2. pump[q].on = q /\ pump[q].job # NoJob
    BY <1>1, <1>2 DEF PumpsRight
  <2> QED
    BY <1>2, <2>1, <2>2
<1>4. /\ ran'[q] = Append(ran[q], pump[q].job) /\ ran[q] \in Seq(Job)
      /\ \A r \in Queues \ {q} : ran'[r] = ran[r]
  BY <1>1, <1>2, <1>3 DEF QueueTyped
<1>5. /\ doing'[q].act = "nothing"
      /\ \A r \in Queues \ {q} : doing'[r] = doing[r]
  BY <1>1, <1>2 DEF Nothing
<1>6. /\ world' \in [Threads -> {"none", "open", "archived"}]
      /\ \A t \in Threads : world'[t] = "open" =>
           world[t] = "open" /\ ~(doing[q].act = "archive" /\ doing[q].thread = t)
  BY <1>2 DEF OpenIsMapped
<1> SUFFICES ASSUME made <= 1
             PROVE  /\ \A r \in Queues : PumpMaps(r)'
                    /\ \A t \in Threads : world'[t] = "open" =>
                         mapped = t \/ \E r \in Queues : doing'[r].act = "archive" /\ doing'[r].thread = t
  BY <1>2, <1>6 DEF OpenIsMapped
<1>7. /\ \A r \in Queues : PumpMaps(r)
      /\ \A t \in Threads : world[t] = "open" =>
           mapped = t \/ \E r \in Queues : doing[r].act = "archive" /\ doing[r].thread = t
  BY DEF OpenIsMapped
<1>8. PumpMaps(q)'
  <2>1. LastKind(ran'[q], "archive") => mapped = 0
    BY <1>3, <1>4, <1>7, LastOne DEF PumpMaps
  <2> QED
    BY <1>2, <1>3, <1>5, <2>1 DEF PumpMaps, LastKind
<1>9. ASSUME NEW r \in Queues \ {q} PROVE PumpMaps(r)'
  <2>1. /\ pump'[r].job = pump[r].job /\ ran'[r] = ran[r] /\ doing'[r] = doing[r]
        /\ mapped' = mapped
    BY <1>2, <1>3, <1>4, <1>5
  <2>2. PumpMaps(r)
    BY <1>7
  <2> QED
    BY <2>1, <2>2 DEF PumpMaps, LastKind
<1>10. ASSUME NEW t \in Threads, world'[t] = "open"
       PROVE  mapped = t \/ \E r \in Queues : doing'[r].act = "archive" /\ doing'[r].thread = t
  BY <1>5, <1>6, <1>7, <1>10
<1> QED
  BY <1>8, <1>9, <1>10

\* Everybody else leaves threads and jobs alone, and makes no second pump work.
LEMMA OpenOthers ==
  ASSUME QueueInv, OpenIsMapped, UNCHANGED worldVars,
         \/ UNCHANGED queueVars \/ \E kind \in Kinds : AskGateway(kind)
         \/ HandOver("accept") \/ StartPump \/ LoopStep \/ CloseBegin \/ Forget
  PROVE  OpenIsMapped'
<1>1. mapped' = mapped /\ doing' = doing /\ world' = world
  BY DEF worldVars
<1>2. /\ ran' = ran /\ made \in Nat /\ (made' = made \/ made' = made + 1)
      /\ \A q \in Queues : pump'[q].job = pump[q].job
  <2>1. /\ pump \in [Queues -> [pc : PumpSteps, on : 0 .. MaxReady, job : Job \cup {NoJob}]]
        /\ made \in Nat
    BY QueueAssumption DEF QueueInv, QueueTyped
  <2>2. CASE StartPump
    BY <2>1, <2>2 DEF StartPump
  <2>3. ASSUME NEW q \in Queues, BindPump(q)
        PROVE  UNCHANGED <<made, ran>> /\ \A r \in Queues : pump'[r].job = pump[r].job
    BY <2>1, <2>3 DEF BindPump
  <2>4. CASE SwapHeld \/ Refill \/ FindChannel \/ FetchChannel \/ CloseBegin \/ Forget
             \/ UNCHANGED queueVars
    <3>1. UNCHANGED <<made, ran, pump>>
      BY <2>4 DEF SwapHeld, Refill, FindChannel, FetchChannel, CloseBegin, Forget, queueVars
    <3> QED
      BY <2>1, <3>1
  <2>5. CASE HandOver("accept") \/ \E kind \in Kinds : AskGateway(kind)
    <3>1. UNCHANGED <<made, ran, pump>>
      BY <2>5 DEF HandOver, Hold, Put, AskGateway
    <3> QED
      BY <2>1, <3>1
  <2> QED
    BY <2>1, <2>2, <2>3, <2>4, <2>5 DEF LoopStep
<1>3. \A q \in Queues : PumpMaps(q) => PumpMaps(q)'
  BY <1>1, <1>2 DEF PumpMaps, LastKind
<1>4. made' <= 1 => made <= 1
  BY <1>2
<1> QED
  BY <1>1, <1>3, <1>4 DEF OpenIsMapped

\* No step breaks it.
LEMMA OpenNext ==
  QueueInv /\ LinkTyped /\ Inviting /\ OpenIsMapped /\ [Next]_vars => OpenIsMapped'
<1> SUFFICES ASSUME QueueInv, LinkTyped, Inviting, OpenIsMapped, [Next]_vars PROVE OpenIsMapped'
  OBVIOUS
<1>1. CASE \E q \in Queues : Pump(q)
  BY <1>1, OpenStart, OpenCreate, OpenAdd, OpenEnd DEF Pump
<1>2. CASE ~\E q \in Queues : Pump(q)
  <2>1. UNCHANGED worldVars
    BY <1>2, OnlyPumpsInvite DEF Next, vars, threadVars
  <2>2. CASE \E s \in Senders : Serve(s)
    <3>1. UNCHANGED queueVars \/ \E kind \in Kinds : AskGateway(kind)
      BY <2>2, BridgeAssumption DEF Serve, OnRegister, OnFrame
    <3> QED
      BY <2>1, <3>1, OpenOthers
  <2>3. CASE ~\E s \in Senders : Serve(s)
    <3>1. \/ UNCHANGED queueVars \/ HandOver("accept") \/ StartPump \/ LoopStep \/ CloseBegin
          \/ Forget
      BY <1>2, <2>3, OthersQueue DEF QueueStep, GatewayClosed
    <3> QED
      BY <2>1, <3>1, OpenOthers
  <2> QED
    BY <2>2, <2>3
<1> QED
  BY <1>1, <1>2

-----------------------------------------------------------------------------
(* The clean end.                                                           *)

EndInv == Whole /\ Inviting /\ QueueInv /\ Farewell /\ LastWord /\ NewestStays /\ OpenIsMapped

\* When all is settled the job asked for last was the last to run.
LEMMA LastRan ==
  ASSUME QueueInv, NewestStays, Settled, InOrder, made <= 1, overran = 0, asked["accept"] >= 1
  PROVE  \E q \in Queues : \E j \in Everywhere :
           j.n = asked["accept"] /\ LastKind(ran[q], j.kind)
<1>1. QueueTyped /\ HeldRight /\ PumpsRight /\ Apart
  BY DEF QueueInv
<1>2. /\ asked["accept"] \in 0 .. MaxJobs /\ "accept" \in Callers
      /\ \A q \in Queues : ran[q] \in Seq(Job)
  BY <1>1, BridgeAssumption DEF QueueTyped
<1>3. /\ held = <<>> /\ refill = <<>> /\ \A q \in Queues : queue[q] = <<>> /\ pump[q].job = NoJob
      /\ \A c \in Callers : handing[c].job = NoJob
  <2>1. held = <<>> /\ ~OnReadyRuns /\ \A q \in Queues : queue[q] = <<>>
    BY DEF Settled
  <2>2. refill = <<>>
    BY <1>1, <2>1 DEF HeldRight, OnReadyRuns
  <2>3. \A q \in Queues : pump[q].job = NoJob
    BY <1>1 DEF Settled, PumpsRight
  <2>4. \A c \in Callers : handing[c].job = NoJob
    BY BridgeAssumption DEF Settled, Answered, AcceptFree, Senders, Free
  <2> QED
    BY <2>1, <2>2, <2>3, <2>4
<1>4. <<"accept", asked["accept"]>> \in Requested
  BY <1>2, QueueAssumption DEF Requested
<1>5. PICK p \in Places : <<"accept", asked["accept"]>> \in Named(At(p))
  BY <1>1, <1>4 DEF Apart
<1>6. PICK j \in JobsOf(At(p)) : j # Stop /\ JobName(j) = <<"accept", asked["accept"]>>
  BY <1>5 DEF Named
<1>7. j.n = asked["accept"] /\ j \in Everywhere
  BY <1>6 DEF JobName, Everywhere
<1>8. p # InDropped
  BY <1>2, <1>6, <1>7, Contents DEF NewestStays
<1>9. PICK q \in Queues : p = InRan(q)
  <2>1. ASSUME \/ \E c \in Callers : p = Hand(c)
               \/ \E q \in Queues : p = InQueue(q) \/ p = InPump(q)
               \/ p = InHeld \/ p = InRefill
        PROVE  FALSE
    BY <1>3, <1>6, <2>1, Contents, OnlyOne, NoWork
  <2> QED
    BY <1>8, <2>1, PlaceCases
<1> DEFINE last == Len(ran[q])
<1>10. /\ last \in Nat /\ DOMAIN ran[q] = 1 .. last
       /\ JobsOf(ran[q]) = {ran[q][i] : i \in 1 .. last}
  BY <1>2, ListFacts
<1>11. PICK k \in 1 .. last : ran[q][k] = j
  BY <1>6, <1>9, <1>10, Contents
<1>12. k = last
  <2>1. last \in 1 .. last
    BY <1>10, <1>11
  <2>2. ran[q][last] \in JobsOf(ran[q]) /\ ran[q][last] \in Job
    BY <1>2, <1>10, <2>1, ListFacts
  <2>3. ran[q][last] \in Everywhere
    BY <1>9, <2>2, Contents, JobsAreJobs DEF Everywhere
  <2>4. ran[q][last].n \in 1 .. asked["accept"]
    BY <2>3, NumbersGiven
  <2>5. k < last => j.n < ran[q][last].n
    BY <1>10, <1>11, <2>1 DEF InOrder
  <2> QED
    BY <1>2, <1>7, <1>10, <1>11, <2>4, <2>5
<1>13. ran[q] # <<>>
  BY <1>10, <1>11
<1>14. LastKind(ran[q], j.kind)
  BY <1>11, <1>12, <1>13 DEF LastKind
<1> QED
  BY <1>7, <1>14

\* Then no thread is open, if that was the archive.
LEMMA CleanEnd == EndInv => CleanEndIsArchived
<1> SUFFICES ASSUME EndInv, main = "ended", served, overran = 0
             PROVE  /\ released
                    /\ Settled /\ InOrder /\ made <= 1 /\ ~reborn
                         => \A t \in Threads : world[t] # "open"
  BY DEF CleanEndIsArchived
<1>1. released
  BY FarewellEnough DEF EndInv
<1>2. ASSUME Settled, InOrder, made <= 1, ~reborn, NEW t \in Threads PROVE world[t] # "open"
  <2>1. /\ asked["accept"] >= 1
        /\ \A j \in Everywhere : j.n = asked["accept"] => j.kind = "archive"
    BY <1>1, <1>2 DEF EndInv, LastWord
  <2>2. PICK q \in Queues : LastKind(ran[q], "archive")
    BY <1>2, <2>1, LastRan DEF EndInv
  <2>3. \A r \in Queues : PumpMaps(r) /\ pump[r].job = NoJob
    BY <1>2 DEF EndInv, OpenIsMapped, Settled, QueueInv, PumpsRight
  <2>4. mapped = 0 /\ \A r \in Queues : doing[r].act = "nothing"
    BY <2>2, <2>3 DEF PumpMaps
  <2>5. mapped # t
    BY <2>4, BridgeAssumption DEF Threads
  <2> QED
    BY <1>2, <2>4, <2>5 DEF EndInv, OpenIsMapped
<1> QED
  BY <1>1, <1>2

\* Taking the bridge down says good-bye for a session the broker knows - the
\* release is heard - and then its thread is archived, unless a join timed out,
\* the heartbeat registered once more in between, or Discord came ready late or
\* twice (on_shutdown, Mailbox.close, Client.stop, Supervisor.stop,
\* DiscordGateway.close).
THEOREM TheEndIsClean == Spec => []CleanEndIsArchived
<1>1. Init => EndInv
  BY WholeInit, InvitingInit, QueueInvInit, FarewellInit, LastWordInit, OpenInit DEF Init, EndInv
<1>2. EndInv /\ [Next]_vars => EndInv'
  <2>1. EndInv /\ [Next]_vars => Whole' /\ Inviting' /\ QueueInv'
    BY WholeNext, InvitingNext, BridgeSteps, QueueInvNext DEF EndInv
  <2>2. EndInv /\ [Next]_vars => Farewell'
    BY FarewellNext DEF EndInv
  <2>3. EndInv /\ [Next]_vars => LastWord' /\ NewestStays' /\ OpenIsMapped'
    BY LastWordNext, NewestStaysNext, OpenNext DEF EndInv, Farewell
  <2> QED
    BY <2>1, <2>2, <2>3 DEF EndInv
<1>3. EndInv => CleanEndIsArchived
  BY CleanEnd
<1> QED
  BY <1>1, <1>2, <1>3, PTL DEF Spec

=============================================================================
