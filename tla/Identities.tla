----------------------------- MODULE Identities -----------------------------
(***************************************************************************)
(* Who may talk and who may approve: the tables of bindings.py, brought in *)
(* line with the configured lists by authz.sync_from_config whenever a     *)
(* session starts, and read by broker_autojoin.approver_ids whenever a     *)
(* thread is made.                                                         *)
(*                                                                         *)
(* The sessions of a machine share the database, and nothing but the       *)
(* database: every statement is a connection and a transaction of its own, *)
(* so two starting sessions interleave between any two of them.            *)
(***************************************************************************)
EXTENDS Naturals, Sequences, FiniteSets

CONSTANTS
  Starters,      \* the sessions that start
  Addresses,     \* discord:<user id>
  Principals,    \* the names behind them
  Nobody,        \* no principal, or an address that does not parse
  Settings,      \* what DISCORD_ALLOW_FROM and DISCORD_APPROVERS may say
  Leftovers,     \* what earlier configurations may have left in the tables
  DatabaseFails  \* whether a statement may raise

Roles == {"talker", "approver"}
Entry == [addr : Addresses \cup {Nobody}, principal : Principals \cup {Nobody}]

ASSUME IdentitiesAssumption ==
  /\ Nobody \notin Addresses \cup Principals
  /\ Settings \subseteq [Roles -> Seq(Entry)]
  /\ Leftovers \subseteq [bound : [Addresses -> Principals \cup {Nobody}],
                         holders : [Roles -> SUBSET Principals]]
  /\ DatabaseFails \in BOOLEAN

VARIABLES
  bound,   \* table bindings: address to principal
  holders, \* table principal_roles: role to principals
  sync,    \* how far each session is with sync_identities
  wrote    \* history: the sessions that changed a role

identityVars == <<bound, holders, sync, wrote>>

Stages == {"before", "resolve", "roles", "skipped", "refused", "raised"}
Before == [stage |-> "before", todo |-> <<>>, wanted |-> [r \in Roles |-> {}],
           role |-> "approver", left |-> <<>>, grant |-> {}, revoke |-> {}]

IdentitiesInit ==
  /\ \E old \in Leftovers : bound = old.bound /\ holders = old.holders
  /\ sync = [p \in Starters |-> Before]
  /\ wrote = {}

-----------------------------------------------------------------------------
(* sync_identities: first every entry of both lists is resolved, binding    *)
(* the explicit ones on the way.                                            *)

Tagged(r, list) == [i \in DOMAIN list |-> [role |-> r, entry |-> list[i]]]

BeginSync(p, setting) ==
  /\ sync[p].stage = "before"
  /\ LET todo == Tagged("talker", setting["talker"])
                   \o Tagged("approver", setting["approver"])
     IN sync' = [sync EXCEPT ![p].stage = IF todo = <<>> THEN "skipped" ELSE "resolve",
                             ![p].todo = todo,
                             ![p].left = <<"talker", "approver">>]
  /\ UNCHANGED <<bound, holders, wrote>>

Writing(p) == sync[p].stage \in {"resolve", "roles"}

PrincipalOf(e) ==
  IF e.addr = Nobody THEN Nobody
  ELSE IF e.principal # Nobody THEN e.principal ELSE bound[e.addr]

Wanting(p, r, who) == [sync[p].wanted EXCEPT ![r] = @ \cup {who}]

ResolveEntry(p) ==
  /\ sync[p].stage = "resolve" /\ sync[p].todo # <<>>
  /\ LET item == Head(sync[p].todo)
         who  == PrincipalOf(item.entry)
     IN IF who = Nobody
        THEN /\ sync' = [sync EXCEPT ![p].stage = "refused"]
             /\ UNCHANGED bound
        ELSE /\ sync' = [sync EXCEPT ![p].todo = Tail(@),
                                     ![p].wanted = Wanting(p, item.role, who)]
             /\ bound' = [bound EXCEPT ![item.entry.addr] = who]
  /\ UNCHANGED <<holders, wrote>>

-----------------------------------------------------------------------------
(* sync_from_config: then one role after the other, whoever is missing gets *)
(* it and whoever is not listed any more loses it.                          *)

MayReadEarly(p) ==  \* mutant
  /\ sync[p].left # <<>> /\ sync[p].grant = {} /\ sync[p].revoke = {}
  /\ \A i \in DOMAIN sync[p].todo : sync[p].todo[i].role # Head(sync[p].left)

MayRead(p) ==
  /\ sync[p].left # <<>> /\ sync[p].grant = {} /\ sync[p].revoke = {}
  /\ sync[p].todo = <<>>

ReadHolders(p) ==
  /\ Writing(p) /\ MayRead(p)
  /\ LET r == Head(sync[p].left)
     IN sync' = [sync EXCEPT ![p].stage = IF sync[p].todo = <<>> THEN "roles" ELSE @,
                             ![p].role = r,
                             ![p].left = Tail(@),
                             ![p].grant = sync[p].wanted[r] \ holders[r],
                             ![p].revoke = holders[r] \ sync[p].wanted[r]]
  /\ UNCHANGED <<bound, holders, wrote>>

Grant(p) ==
  /\ Writing(p)
  /\ \E x \in sync[p].grant :
       /\ holders' = [holders EXCEPT ![sync[p].role] = @ \cup {x}]
       /\ sync' = [sync EXCEPT ![p].grant = @ \ {x}]
  /\ wrote' = wrote \cup {p}
  /\ UNCHANGED bound

Revoke(p) ==
  /\ Writing(p) /\ sync[p].grant = {}
  /\ \E x \in sync[p].revoke :
       /\ holders' = [holders EXCEPT ![sync[p].role] = @ \ {x}]
       /\ sync' = [sync EXCEPT ![p].revoke = @ \ {x}]
  /\ wrote' = wrote \cup {p}
  /\ UNCHANGED bound

\* sqlite3 raises: nothing catches it before on_startup's caller.
DatabaseRaises(p) ==
  /\ DatabaseFails
  /\ Writing(p)
  /\ sync[p].todo # <<>> \/ sync[p].left # <<>> \/ sync[p].grant \cup sync[p].revoke # {}
  /\ sync' = [sync EXCEPT ![p].stage = "raised"]
  /\ UNCHANGED <<bound, holders, wrote>>

SyncStep(p) ==
  ResolveEntry(p) \/ ReadHolders(p) \/ Grant(p) \/ Revoke(p) \/ DatabaseRaises(p)

Reconciled(p) ==
  /\ sync[p].stage = "roles" /\ sync[p].left = <<>>
  /\ sync[p].grant = {} /\ sync[p].revoke = {}

Syncing(p) == Writing(p) /\ ~Reconciled(p)

\* approver_ids: every address of every approver.
ApproverAddresses == {a \in Addresses : bound[a] \in holders["approver"]}

-----------------------------------------------------------------------------
IdentitiesTypeOK ==
  /\ bound \in [Addresses -> Principals \cup {Nobody}]
  /\ holders \in [Roles -> SUBSET Principals]
  /\ \A p \in Starters :
       /\ sync[p].stage \in Stages
       /\ sync[p].wanted \in [Roles -> SUBSET Principals]
       /\ sync[p].grant \subseteq Principals /\ sync[p].revoke \subseteq Principals
  /\ wrote \subseteq Starters

\* When all is quiet and the sessions agreed, exactly the listed hold each
\* role, whatever the tables held before and however the sessions interleaved
\* ("whoever is no longer listed loses the role", authz.py:399-401).
ListedHoldRoles ==
  \A p \in Starters :
    (/\ Reconciled(p)
     /\ \A q \in Starters :
          /\ ~Syncing(q)
          /\ sync[q].stage \in {"roles", "raised"} => sync[q].wanted = sync[p].wanted)
      => holders = sync[p].wanted

\* A session that refuses its configuration has changed nobody's role.
RefusedChangesNoRole == \A p \in Starters : sync[p].stage = "refused" => p \notin wrote

IdentitiesSound == IdentitiesTypeOK /\ ListedHoldRoles /\ RefusedChangesNoRole
=============================================================================
