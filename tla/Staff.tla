-------------------------------- MODULE Staff --------------------------------
(***************************************************************************)
(* The people of one shop: suspension and removal, transfer of ownership,  *)
(* invitations and the accounts they or Google open, the shop's deletion.  *)
(* A request reads and checks first and writes later, in a transaction of  *)
(* its own, so two of them work on what the other is changing.             *)
(***************************************************************************)
EXTENDS Naturals, FiniteSets

CONSTANTS Staffers,     \* the shop's people at the start, with their roles
          Newcomer,     \* the owner of an address without an account
          Clerks,       \* requests the server works on at a time
          MaxInvites    \* bound on invitations

ASSUME StaffAssumption ==
  /\ Newcomer \notin DOMAIN Staffers /\ MaxInvites \in Nat
  /\ \E p \in DOMAIN Staffers : Staffers[p] = "OWNER"

VARIABLES people,    \* User rows
          owner,     \* Shop.ownerId
          invites,   \* Invitation rows by number, deleted ones included
          desk,      \* the request each clerk works on
          cutOff,    \* whom the shop passed to while they were being locked out, all once it is deleted
          answer,    \* whom the last Google sign-in of the newcomer's address got
          staffOps,  \* requests that may still come
          kinds      \* and of which kinds

staff == <<people, owner, cutOff, invites, desk, answer, staffOps, kinds>>
AllKinds == {"suspend", "delete", "transfer", "deleteShop", "invite", "revoke", "accept", "google"}

People == DOMAIN Staffers \cup {Newcomer}
Rank == [OWNER |-> 90, ADMIN |-> 80, MANAGER |-> 70, CASHIER |-> 60, NONE |-> 0]

\* Mutant: who has another role may act on it.
OutranksOther(a, b) == a # b

Outranks(a, b) == Rank[a] > Rank[b]
Management == {"OWNER", "ADMIN", "MANAGER"}
Admins == {"OWNER", "ADMIN"}

Idle == [kind |-> "idle"]
Absent == [role |-> "NONE", via |-> "none", active |-> FALSE, deleted |-> FALSE, version |-> 0, joined |-> 0]
Account(role, via, invite) ==
  [role |-> role, via |-> via, active |-> TRUE, deleted |-> FALSE, version |-> 0, joined |-> invite]

StaffInit ==
  /\ people = [p \in People |-> IF p = Newcomer THEN Absent ELSE Account(Staffers[p], "password", 0)]
  /\ owner = CHOOSE p \in DOMAIN Staffers : Staffers[p] = "OWNER"
  /\ cutOff = {} /\ invites = <<>> /\ desk = [c \in Clerks |-> Idle] /\ answer = "none"

\* A member of this shop (an account the newcomer opened alone has a shop of its own).
Member(p) == people[p].role # "NONE" /\ people[p].via # "google" /\ ~(p = Newcomer /\ people[p].joined = 0)

MayAct(p) == people[p].active /\ ~people[p].deleted

\* JwtStrategy and RolesGuard: who may send a request to this shop at all.
Calls(p, roles) == Member(p) /\ MayAct(p) /\ people[p].role \in roles

Ask(c, r) ==
  /\ desk[c] = Idle /\ staffOps > 0 /\ r.kind \in kinds
  /\ staffOps' = staffOps - 1
  /\ desk' = [desk EXCEPT ![c] = r]
  /\ UNCHANGED <<people, owner, cutOff, invites, answer, kinds>>

Close(c) == desk' = [desk EXCEPT ![c] = Idle]
Later(c, r) == desk' = [desk EXCEPT ![c] = r]

-----------------------------------------------------------------------------
(* Suspension, removal, ownership.                                         *)

AskSuspend(c, by, id) ==
  /\ Calls(by, Admins) /\ id # by /\ Member(id) /\ Outranks(people[by].role, people[id].role)
  /\ \E on \in BOOLEAN : Ask(c, [kind |-> "suspend", id |-> id, on |-> on])

AskDelete(c, by, id) ==
  /\ Calls(by, Admins) /\ id # by /\ Member(id) /\ Outranks(people[by].role, people[id].role)
  /\ Ask(c, [kind |-> "delete", id |-> id])

\* The user row first, the user's invitations in a statement of their own.
WriteSuspend(c) ==
  LET r == desk[c]
  IN /\ r.kind = "suspend"
     /\ people' = [people EXCEPT ![r.id].active = r.on, ![r.id].version = @ + 1]
     /\ IF r.on THEN Close(c) ELSE Later(c, [kind |-> "tidy", id |-> r.id])
     /\ UNCHANGED <<owner, cutOff, invites, answer, staffOps, kinds>>

WriteDelete(c) ==
  LET r == desk[c]
  IN /\ r.kind = "delete"
     /\ people' = [people EXCEPT ![r.id].deleted = TRUE, ![r.id].active = FALSE, ![r.id].version = @ + 1]
     /\ Later(c, [kind |-> "tidy", id |-> r.id])
     /\ UNCHANGED <<owner, cutOff, invites, answer, staffOps, kinds>>

Tidy(c) ==
  LET r == desk[c]
  IN /\ r.kind = "tidy"
     /\ invites' = [i \in DOMAIN invites |->
                      IF invites[i].by = r.id /\ invites[i].state = "unused"
                      THEN [invites[i] EXCEPT !.state = "gone"] ELSE invites[i]]
     /\ Close(c)
     /\ UNCHANGED <<people, owner, cutOff, answer, staffOps, kinds>>

AskTransfer(c, by, to) ==
  /\ Calls(by, {"OWNER"}) /\ owner = by
  /\ Member(to) /\ MayAct(to)
  /\ Ask(c, [kind |-> "transfer", by |-> by, to |-> to])

\* Mutant: the old owner is demoted last.
TransferDemotingLast(r) ==
  [p \in People |->
    IF p = r.by THEN [people[p] EXCEPT !.role = "ADMIN", !.version = @ + 1]
    ELSE IF p = r.to THEN [people[p] EXCEPT !.role = "OWNER", !.version = @ + 1] ELSE people[p]]

\* Demoted, then promoted: who passes the shop to themself stays its owner.
Transfer(r) ==
  [p \in People |->
    IF p = r.to THEN [people[p] EXCEPT !.role = "OWNER", !.version = @ + 1]
    ELSE IF p = r.by THEN [people[p] EXCEPT !.role = "ADMIN", !.version = @ + 1] ELSE people[p]]

\* Suspended, removed, or about to be.
LocksOut(r, p) == (r.kind = "delete" /\ r.id = p) \/ (r.kind = "suspend" /\ r.id = p /\ ~r.on)
LockedOut(p) == ~MayAct(p) \/ \E c \in Clerks : LocksOut(desk[c], p)

\* The transaction looks at nobody again.
WriteTransfer(c) ==
  LET r == desk[c]
  IN /\ r.kind = "transfer"
     /\ people' = Transfer(r) /\ owner' = r.to
     /\ cutOff' = IF LockedOut(r.to) THEN cutOff \cup {r.to} ELSE cutOff
     /\ Close(c)
     /\ UNCHANGED <<invites, answer, staffOps, kinds>>

AskDeleteShop(c, by) ==
  /\ Calls(by, {"OWNER"}) /\ owner = by
  /\ Ask(c, [kind |-> "deleteShop"])

WriteDeleteShop(c) ==
  /\ desk[c].kind = "deleteShop"
  /\ people' = [p \in People |->
       IF Member(p) THEN [people[p] EXCEPT !.deleted = TRUE, !.active = FALSE, !.version = @ + 1] ELSE people[p]]
  /\ cutOff' = People
  /\ Close(c)
  /\ UNCHANGED <<owner, invites, answer, staffOps, kinds>>

-----------------------------------------------------------------------------
(* Invitations.                                                            *)

AskInvite(c, by, role) ==
  /\ Calls(by, Management) /\ Outranks(people[by].role, role)
  /\ ~(Member(Newcomer) /\ ~people[Newcomer].deleted)
  /\ ~\E i \in DOMAIN invites : invites[i].state = "unused"
  /\ Ask(c, [kind |-> "invite", by |-> by, role |-> role])

WriteInvite(c) ==
  LET r == desk[c]
      n == Cardinality(DOMAIN invites) + 1
  IN /\ r.kind = "invite" /\ n <= MaxInvites
     /\ invites' = [i \in 1..n |->
          IF i = n THEN [by |-> r.by, role |-> r.role, state |-> "unused", mailed |-> FALSE] ELSE invites[i]]
     /\ Later(c, [kind |-> "mail", invite |-> n])
     /\ UNCHANGED <<people, owner, cutOff, answer, staffOps, kinds>>

\* The token travels by mail only; a row whose mail failed is removed.
Mail(c) ==
  LET r == desk[c]
  IN /\ r.kind = "mail"
     /\ \/ invites' = [invites EXCEPT ![r.invite].mailed = TRUE]
        \/ invites' = [invites EXCEPT ![r.invite].state = IF @ = "unused" THEN "gone" ELSE @]
     /\ Close(c)
     /\ UNCHANGED <<people, owner, cutOff, answer, staffOps, kinds>>

AskRevoke(c, by, i) ==
  /\ Calls(by, Management) /\ invites[i].state = "unused"
  /\ people[by].role \in Admins \/ invites[i].by = by
  /\ Ask(c, [kind |-> "revoke", invite |-> i])

\* delete by id: an invitation accepted meanwhile is deleted all the same.
WriteRevoke(c) ==
  LET r == desk[c]
  IN /\ r.kind = "revoke"
     /\ invites' = [invites EXCEPT ![r.invite].state = IF @ = "used" THEN "usedgone" ELSE "gone"]
     /\ Close(c)
     /\ UNCHANGED <<people, owner, cutOff, answer, staffOps, kinds>>

AskAccept(c, i) ==
  /\ invites[i].mailed /\ invites[i].state = "unused"
  /\ Ask(c, [kind |-> "accept", invite |-> i])

\* Mutant: the invitation is consumed before the transaction.
AcceptedUse(i) == invites[i].state = "unused"

\* The invitation is consumed and the account created together: an address taken
\* meanwhile rolls the use back.
Accepted(i) == invites[i].state = "unused" /\ people[Newcomer] = Absent

WriteAccept(c) ==
  LET r == desk[c]
      taken == people[Newcomer] # Absent
  IN /\ r.kind = "accept"
     /\ IF Accepted(r.invite)
        THEN /\ invites' = [invites EXCEPT ![r.invite].state = "used"]
             /\ people' = IF taken THEN people
                          ELSE [people EXCEPT ![Newcomer] = Account(invites[r.invite].role, "password", r.invite)]
        ELSE UNCHANGED <<invites, people>>
     /\ Close(c)
     /\ UNCHANGED <<owner, cutOff, answer, staffOps, kinds>>

-----------------------------------------------------------------------------
(* Google: an account of its own, or a refusal.                            *)

\* findOrCreateGoogleUser up to the creation.
AskGoogle(c) ==
  \/ /\ people[Newcomer].via = "google"
     /\ desk[c] = Idle /\ staffOps > 0 /\ "google" \in kinds /\ staffOps' = staffOps - 1 /\ answer' = "google"
     /\ UNCHANGED <<people, owner, cutOff, invites, desk, kinds>>
  \/ /\ people[Newcomer].via = "password"
     /\ desk[c] = Idle /\ staffOps > 0 /\ "google" \in kinds /\ staffOps' = staffOps - 1 /\ answer' = "refused"
     /\ UNCHANGED <<people, owner, cutOff, invites, desk, kinds>>
  \/ /\ people[Newcomer] = Absent
     /\ Ask(c, [kind |-> "google"])

\* Mutant: after a lost race the account is looked up by its address.
AfterRaceByEmail(account) == account.via

\* A lost race answers the account of this Google identity, or refuses.
AfterRace(account) == IF account.via = "google" THEN "google" ELSE "refused"

WriteGoogle(c) ==
  /\ desk[c].kind = "google"
  /\ IF people[Newcomer] = Absent
     THEN /\ people' = [people EXCEPT ![Newcomer] = Account("OWNER", "google", 0)] /\ answer' = "google"
     ELSE /\ answer' = AfterRace(people[Newcomer]) /\ UNCHANGED people
  /\ Close(c)
  /\ UNCHANGED <<owner, cutOff, invites, staffOps, kinds>>

-----------------------------------------------------------------------------

StaffStep ==
  \E c \in Clerks :
    \/ \E by, id \in People : AskSuspend(c, by, id) \/ AskDelete(c, by, id) \/ AskTransfer(c, by, id)
    \/ \E by \in People : AskDeleteShop(c, by)
    \/ \E by \in People, role \in {"MANAGER", "CASHIER"} : AskInvite(c, by, role)
    \/ \E by \in People, i \in DOMAIN invites : AskRevoke(c, by, i)
    \/ \E i \in DOMAIN invites : AskAccept(c, i)
    \/ AskGoogle(c)
    \/ WriteSuspend(c) \/ WriteDelete(c) \/ Tidy(c) \/ WriteTransfer(c) \/ WriteDeleteShop(c)
    \/ WriteInvite(c) \/ Mail(c) \/ WriteRevoke(c) \/ WriteAccept(c) \/ WriteGoogle(c)

-----------------------------------------------------------------------------
(* Properties.                                                             *)

\* However transfers, suspensions and removals interleave, the shop's owner has the
\* role OWNER, also after passing the shop to themself.
OwnerHoldsRole == people[owner].role = "OWNER"

\* The owner can act as long as the shop exists, unless a suspension or removal of them
\* crossed the transfer that made them the owner: nobody else locks an owner out.
OwnerNotLockedOut == MayAct(owner) \/ owner \in cutOff

\* A used invitation has its member, with the role it was for: a creation that fails
\* gives the invitation back.
UsedMeansJoined ==
  \A i \in DOMAIN invites : invites[i].state \in {"used", "usedgone"} => people[Newcomer].joined = i

\* A Google identity is answered with the account it opened, never with a password
\* account that took the address while it signed in.
GoogleGetsItsOwn == answer \in {"none", "google", "refused"} /\ (answer = "google" => people[Newcomer].via = "google")

\* The people of a shop together: its owner, its invitations, its Google accounts.
StaffSound == OwnerHoldsRole /\ OwnerNotLockedOut /\ UsedMeansJoined /\ GoogleGetsItsOwn
==============================================================================
