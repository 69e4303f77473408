--------------------------- MODULE SessionsProofs ---------------------------
(***************************************************************************)
(* The people of a shop (StaffSound) and the sessions of one of them       *)
(* (SessionsSound), for any staff, any browsers and any number of requests *)
(* under way.                                                              *)
(***************************************************************************)
EXTENDS Sessions, FiniteSetTheorems, TLAPS

-----------------------------------------------------------------------------
(* The people *)

AccountColumns == {"role", "via", "active", "deleted", "version", "joined"}

PeopleShaped ==
  /\ people = [p \in People |-> people[p]] /\ owner \in People
  /\ \A p \in People : DOMAIN people[p] = AccountColumns

InvitesShaped ==
  /\ \E n \in Nat : DOMAIN invites = 1 .. n
  /\ invites = [i \in DOMAIN invites |-> invites[i]]
  /\ \A i \in DOMAIN invites : DOMAIN invites[i] = {"by", "role", "state", "mailed"}

\* A request under way is about a person or an invitation that exists.
Fits(r) ==
  /\ r.kind = "transfer" => r.to \in People
  /\ r.kind \in {"accept", "revoke", "mail"} => r.invite \in DOMAIN invites

DesksShaped == desk = [c \in Clerks |-> desk[c]] /\ \A c \in Clerks : Fits(desk[c])

\* Nobody locks the owner out, now or with a request under way.
OwnerSafe == owner \in cutOff \/ ~LockedOut(owner)

StaffInv == PeopleShaped /\ InvitesShaped /\ DesksShaped /\ StaffSound /\ OwnerSafe

LEMMA StaffStarts == StaffInit => StaffInv
<1> SUFFICES ASSUME StaffInit PROVE StaffInv
  OBVIOUS
<1>1. owner \in DOMAIN Staffers /\ Staffers[owner] = "OWNER" /\ Newcomer \notin DOMAIN Staffers
  BY StaffAssumption DEF StaffInit
<1>2. people[owner].role = "OWNER" /\ people[Newcomer] = Absent
  BY <1>1 DEF StaffInit, People, Account
<1>3. PeopleShaped
  BY <1>1 DEF StaffInit, PeopleShaped, People, Account, Absent, AccountColumns
<1>4. InvitesShaped /\ DOMAIN invites = {}
  <2>1. DOMAIN invites = 1 .. 0
    BY DEF StaffInit
  <2> QED BY <2>1 DEF InvitesShaped, StaffInit
<1>5. DesksShaped
  BY DEF StaffInit, DesksShaped, Fits, Idle
<1>6. OwnerSafe
  BY <1>1 DEF StaffInit, OwnerSafe, LockedOut, LocksOut, MayAct, Account, People, Idle
<1>7. StaffSound
  BY <1>2, <1>4, <1>6 DEF StaffInit, StaffSound, OwnerHoldsRole, OwnerNotLockedOut, OwnerSafe, LockedOut,
     UsedMeansJoined, GoogleGetsItsOwn
<1> QED BY <1>3, <1>4, <1>5, <1>6, <1>7 DEF StaffInv

\* Everybody stays who they are: suspended, removed, with another version of their tokens.
SamePeople ==
  /\ people' = [p \in People |-> people'[p]]
  /\ \A p \in People : /\ DOMAIN people'[p] = AccountColumns
                       /\ \A k \in {"role", "via", "joined"} : people'[p][k] = people[p][k]

\* The invitations stay, and none becomes a used one.
SameInvites ==
  /\ DOMAIN invites' = DOMAIN invites
  /\ invites' = [i \in DOMAIN invites |-> invites'[i]]
  /\ \A i \in DOMAIN invites :
       /\ DOMAIN invites'[i] = DOMAIN invites[i]
       /\ invites'[i].state \in {"used", "usedgone"} => invites[i].state \in {"used", "usedgone"}

\* A clerk takes up a request, goes on with it or ends it.
DeskMoves(c, r) == desk' = [desk EXCEPT ![c] = r]

\* The requests of others are about what they were about.
LEMMA DesksKept ==
  ASSUME DesksShaped, NEW c, NEW r, Fits(r)', DeskMoves(c, r) \/ desk' = desk,
         DOMAIN invites \subseteq DOMAIN invites'
  PROVE  DesksShaped'
  BY DEF DesksShaped, Fits, DeskMoves

\* A step that does not lock the owner out and takes up no request to.
LEMMA OwnerKept ==
  ASSUME StaffInv, NEW c, NEW r, DeskMoves(c, r) \/ desk' = desk, owner' = owner, cutOff \subseteq cutOff',
         owner \notin cutOff' => (MayAct(owner) => MayAct(owner)') /\ ~LocksOut(r, owner)
  PROVE  OwnerSafe'
<1>1. \A d \in Clerks : desk'[d] = desk[d] \/ desk'[d] = r
  BY DEF StaffInv, DesksShaped, DeskMoves
<1>2. \A x : LocksOut(x, owner)' <=> LocksOut(x, owner)
  BY DEF LocksOut
<1> QED BY <1>1, <1>2 DEF StaffInv, OwnerSafe, LockedOut

\* Steps that change who nobody is and use no invitation.
LEMMA StaffKept ==
  ASSUME StaffInv, NEW c, NEW r, Fits(r), DeskMoves(c, r) \/ desk' = desk, OwnerSafe',
         SamePeople, SameInvites, owner' = owner, answer' = answer
  PROVE  StaffInv'
<1>1. PeopleShaped' /\ InvitesShaped'
  BY DEF StaffInv, PeopleShaped, InvitesShaped, SamePeople, SameInvites
<1>2. DesksShaped'
  BY DesksKept DEF StaffInv, SameInvites, Fits
<1>3. people'[owner].role = people[owner].role /\ people'[Newcomer].joined = people[Newcomer].joined
      /\ people'[Newcomer].via = people[Newcomer].via
  BY DEF StaffInv, PeopleShaped, SamePeople, People
<1>4. StaffSound'
  BY <1>3 DEF StaffInv, StaffSound, OwnerHoldsRole, OwnerNotLockedOut, OwnerSafe, LockedOut,
     UsedMeansJoined, GoogleGetsItsOwn, SameInvites
<1> QED BY <1>1, <1>2, <1>4 DEF StaffInv

LEMMA Unchanging ==
  ASSUME StaffInv
  PROVE  /\ people' = people => SamePeople
         /\ invites' = invites => SameInvites
  BY DEF StaffInv, PeopleShaped, InvitesShaped, SamePeople, SameInvites

\* Requests that do not touch the owner.
LEMMA Harmless ==
  /\ \A p : ~LocksOut(Idle, p)
  /\ \A r, p : r.kind \notin {"suspend", "delete"} => ~LocksOut(r, p)
  BY DEF LocksOut, Idle

LEMMA AskStep ==
  ASSUME StaffInv, NEW c, NEW r, Fits(r), Ask(c, r), ~LocksOut(r, owner)
  PROVE  StaffInv'
<1>1. OwnerSafe'
  BY OwnerKept DEF Ask, DeskMoves, MayAct
<1> QED BY <1>1, StaffKept, Unchanging DEF Ask, DeskMoves

\* Who outranks somebody does not outrank the owner.
LEMMA OwnerOutranked ==
  ASSUME StaffInv, NEW by, NEW id, people[by].role \in Admins, Outranks(people[by].role, people[id].role)
  PROVE  id # owner
  BY DEF StaffInv, StaffSound, OwnerHoldsRole, Outranks, Rank, Admins

\* The requests that touch the people and the invitations without using one.
LEMMA PlainStaffStep ==
  ASSUME StaffInv, NEW c \in Clerks,
         \/ WriteSuspend(c) \/ WriteDelete(c) \/ WriteDeleteShop(c)
         \/ Tidy(c) \/ Mail(c) \/ WriteRevoke(c)
  PROVE  StaffInv'
<1> DEFINE tidy(r) == [kind |-> "tidy", id |-> r.id]
<1>1. Fits(Idle) /\ (\A r : Fits(tidy(r))) /\ ~LocksOut(Idle, owner) /\ (\A r : ~LocksOut(tidy(r), owner))
  BY Harmless DEF Fits, Idle
<1>0. owner \in People /\ (owner \notin cutOff => MayAct(owner) /\ ~LocksOut(desk[c], owner))
  BY DEF StaffInv, PeopleShaped, OwnerSafe, LockedOut
<1>2. CASE WriteSuspend(c)
  <2>1. SamePeople
    BY <1>2 DEF WriteSuspend, SamePeople, StaffInv, PeopleShaped, AccountColumns
  <2>2. DeskMoves(c, Idle) \/ DeskMoves(c, tidy(desk[c]))
    BY <1>2 DEF WriteSuspend, Close, Later, DeskMoves
  <2>3. OwnerSafe'
    <3>1. owner \notin cutOff => MayAct(owner)'
      BY <1>0, <1>2 DEF WriteSuspend, MayAct, LocksOut, StaffInv, PeopleShaped, AccountColumns
    <3> QED BY <1>1, <1>2, <2>2, <3>1, OwnerKept DEF WriteSuspend
  <2> QED BY <1>1, <1>2, <2>1, <2>2, <2>3, StaffKept, Unchanging DEF WriteSuspend
<1>3. CASE WriteDelete(c)
  <2>1. SamePeople
    BY <1>3 DEF WriteDelete, SamePeople, StaffInv, PeopleShaped, AccountColumns
  <2>2. DeskMoves(c, tidy(desk[c]))
    BY <1>3 DEF WriteDelete, Later, DeskMoves
  <2>3. OwnerSafe'
    <3>1. owner \notin cutOff => MayAct(owner)'
      BY <1>0, <1>3 DEF WriteDelete, MayAct, LocksOut, StaffInv, PeopleShaped, AccountColumns
    <3> QED BY <1>1, <1>3, <2>2, <3>1, OwnerKept DEF WriteDelete
  <2> QED BY <1>1, <1>3, <2>1, <2>2, <2>3, StaffKept, Unchanging DEF WriteDelete
<1>4. CASE WriteDeleteShop(c)
  <2>1. SamePeople
    BY <1>4 DEF WriteDeleteShop, SamePeople, StaffInv, PeopleShaped, AccountColumns
  <2>2. OwnerSafe'
    BY <1>0, <1>4 DEF WriteDeleteShop, OwnerSafe, People
  <2> QED BY <1>1, <1>4, <2>1, <2>2, StaffKept, Unchanging DEF WriteDeleteShop, Close, DeskMoves
<1>5. CASE Tidy(c)
  <2>1. SameInvites
    BY <1>5 DEF Tidy, SameInvites, StaffInv, InvitesShaped
  <2>2. OwnerSafe'
    BY <1>1, <1>5, OwnerKept DEF Tidy, Close, DeskMoves, MayAct
  <2> QED BY <1>1, <1>5, <2>1, <2>2, StaffKept, Unchanging DEF Tidy, Close, DeskMoves
<1>6. CASE Mail(c)
  <2>1. SameInvites
    BY <1>6 DEF Mail, SameInvites, StaffInv, InvitesShaped
  <2>2. OwnerSafe'
    BY <1>1, <1>6, OwnerKept DEF Mail, Close, DeskMoves, MayAct
  <2> QED BY <1>1, <1>6, <2>1, <2>2, StaffKept, Unchanging DEF Mail, Close, DeskMoves
<1>7. CASE WriteRevoke(c)
  <2>1. SameInvites
    BY <1>7 DEF WriteRevoke, SameInvites, StaffInv, InvitesShaped
  <2>2. OwnerSafe'
    BY <1>1, <1>7, OwnerKept DEF WriteRevoke, Close, DeskMoves, MayAct
  <2> QED BY <1>1, <1>7, <2>1, <2>2, StaffKept, Unchanging DEF WriteRevoke, Close, DeskMoves
<1> QED BY <1>2, <1>3, <1>4, <1>5, <1>6, <1>7

\* A transfer leaves an owner with the role, whoever passes the shop to whom.
LEMMA TransferStep ==
  ASSUME StaffInv, NEW c \in Clerks, WriteTransfer(c)
  PROVE  StaffInv'
<1>1. PICK r : r = desk[c]
  OBVIOUS
<1>2. /\ r.to \in People /\ people' = Transfer(r) /\ owner' = r.to /\ DeskMoves(c, Idle)
      /\ invites' = invites /\ answer' = answer
  BY <1>1 DEF StaffInv, DesksShaped, Fits, WriteTransfer, Close, DeskMoves
<1>3. PeopleShaped' /\ people'[r.to].role = "OWNER"
  BY <1>2 DEF StaffInv, PeopleShaped, Transfer, AccountColumns
<1>4. /\ people'[Newcomer].joined = people[Newcomer].joined
      /\ people'[Newcomer].via = people[Newcomer].via
  BY <1>2 DEF StaffInv, PeopleShaped, Transfer, AccountColumns, People
<1>5. DesksShaped'
  BY <1>2, DesksKept DEF StaffInv, Fits, Idle
<1>6. OwnerSafe'
  <2>1. MayAct(r.to)' <=> MayAct(r.to)
    BY <1>2 DEF MayAct, Transfer, StaffInv, PeopleShaped, AccountColumns
  <2>2. \A d \in Clerks : desk'[d] = desk[d] \/ desk'[d] = Idle
    BY <1>2 DEF StaffInv, DesksShaped, DeskMoves
  <2>3. \A x : LocksOut(x, r.to)' <=> LocksOut(x, r.to)
    BY DEF LocksOut
  <2>4. cutOff' = IF LockedOut(r.to) THEN cutOff \cup {r.to} ELSE cutOff
    BY <1>1 DEF WriteTransfer
  <2> QED BY <1>2, <2>1, <2>2, <2>3, <2>4, Harmless DEF OwnerSafe, LockedOut
<1>7. StaffSound'
  BY <1>2, <1>3, <1>4, <1>6 DEF StaffInv, StaffSound, OwnerHoldsRole, OwnerNotLockedOut, OwnerSafe, LockedOut,
     UsedMeansJoined, GoogleGetsItsOwn
<1> QED BY <1>2, <1>3, <1>5, <1>6, <1>7 DEF StaffInv, InvitesShaped

\* A new invitation is an unused one.
LEMMA InviteStep ==
  ASSUME StaffInv, NEW c \in Clerks, WriteInvite(c)
  PROVE  StaffInv'
<1>1. PICK n \in Nat : DOMAIN invites = 1 .. n
  BY DEF StaffInv, InvitesShaped
<1>2. Cardinality(DOMAIN invites) + 1 = n + 1
  <2>1. Cardinality(1 .. n) = IF 1 <= n THEN n - 1 + 1 ELSE 0
    BY FS_Interval
  <2> QED BY <1>1, <2>1
<1> DEFINE unused == [by |-> desk[c].by, role |-> desk[c].role, state |-> "unused", mailed |-> FALSE]
<1>3. PICK r, row : /\ r = [kind |-> "mail", invite |-> n + 1]
                    /\ invites' = [i \in 1 .. n + 1 |-> IF i = n + 1 THEN row ELSE invites[i]]
                    /\ DOMAIN row = {"by", "role", "state", "mailed"} /\ row.state = "unused"
                    /\ DeskMoves(c, r) /\ UNCHANGED <<people, owner, cutOff, answer>>
  <2>1. DOMAIN unused = {"by", "role", "state", "mailed"} /\ unused.state = "unused"
    OBVIOUS
  <2>2. /\ invites' = [i \in 1 .. n + 1 |-> IF i = n + 1 THEN unused ELSE invites[i]]
        /\ DeskMoves(c, [kind |-> "mail", invite |-> n + 1]) /\ UNCHANGED <<people, owner, cutOff, answer>>
    BY <1>2 DEF WriteInvite, Later, DeskMoves
  <2> QED BY <2>1, <2>2
<1>4. InvitesShaped' /\ DOMAIN invites' = 1 .. n + 1
  <2>1. DOMAIN invites' = 1 .. n + 1 /\ n + 1 \in Nat
    BY <1>3
  <2>2. \A i \in 1 .. n + 1 : i # n + 1 => i \in DOMAIN invites
    BY <1>1
  <2> QED BY <1>3, <2>1, <2>2 DEF StaffInv, InvitesShaped
<1>5. DesksShaped'
  <2>1. Fits(r)' /\ DOMAIN invites \subseteq DOMAIN invites'
    BY <1>1, <1>3, <1>4 DEF Fits
  <2> QED BY <1>3, <2>1, DesksKept DEF StaffInv
<1>6. OwnerSafe'
  BY <1>3, OwnerKept, Harmless DEF MayAct
<1>7. StaffSound'
  <2>1. \A i \in DOMAIN invites' : invites'[i].state \in {"used", "usedgone"} =>
          i \in DOMAIN invites /\ invites'[i] = invites[i]
    BY <1>1, <1>3, <1>4
  <2> QED BY <1>3, <1>6, <2>1 DEF StaffInv, StaffSound, OwnerHoldsRole, OwnerNotLockedOut, OwnerSafe, LockedOut,
     UsedMeansJoined, GoogleGetsItsOwn
<1> QED BY <1>3, <1>4, <1>5, <1>6, <1>7 DEF StaffInv, PeopleShaped

\* An invitation is used together with the account it opens, the newcomer's first.
LEMMA AcceptStep ==
  ASSUME StaffInv, NEW c \in Clerks, WriteAccept(c)
  PROVE  StaffInv'
<1>1. PICK i : i = desk[c].invite
  OBVIOUS
<1>2. i \in DOMAIN invites /\ i # 0
  BY <1>1 DEF StaffInv, DesksShaped, Fits, InvitesShaped, WriteAccept
<1>3. DeskMoves(c, Idle) /\ owner' = owner /\ cutOff' = cutOff /\ answer' = answer
  BY DEF WriteAccept, Close, DeskMoves
<1>4. CASE UNCHANGED <<invites, people>>
  <2>1. Fits(Idle)
    BY DEF Fits, Idle
  <2>2. OwnerSafe'
    BY <1>3, <1>4, OwnerKept, Harmless DEF MayAct
  <2> QED BY <1>3, <1>4, <2>1, <2>2, StaffKept, Unchanging
<1>5. CASE /\ people[Newcomer] = Absent /\ invites' = [invites EXCEPT ![i].state = "used"]
           /\ people' = [people EXCEPT ![Newcomer] = Account(invites[i].role, "password", i)]
  <2>1. Newcomer \in People /\ people[Newcomer].joined = 0 /\ owner # Newcomer /\ answer # "google"
    BY <1>5 DEF People, Absent, StaffInv, StaffSound, OwnerHoldsRole, GoogleGetsItsOwn
  <2>2. \A j \in DOMAIN invites : invites[j].state \notin {"used", "usedgone"}
    BY <2>1 DEF StaffInv, StaffSound, UsedMeansJoined, InvitesShaped
  <2>3. PeopleShaped' /\ InvitesShaped' /\ DOMAIN invites' = DOMAIN invites
    BY <1>3, <1>5 DEF StaffInv, PeopleShaped, InvitesShaped, Account, AccountColumns
  <2>4. people'[Newcomer].joined = i /\ people'[owner].role = "OWNER"
    BY <1>5, <2>1 DEF StaffInv, PeopleShaped, Account, StaffSound, OwnerHoldsRole
  <2>5. \A j \in DOMAIN invites' : invites'[j].state \in {"used", "usedgone"} => j = i
    BY <1>5, <2>2, <2>3 DEF StaffInv, InvitesShaped
  <2>6. DesksShaped'
    BY <1>3, <2>3, DesksKept DEF StaffInv, Fits, Idle
  <2>7. OwnerSafe'
    <3>1. people'[owner] = people[owner]
      BY <1>5, <2>1 DEF StaffInv, PeopleShaped
    <3> QED BY <1>3, <3>1, OwnerKept, Harmless DEF MayAct
  <2>8. StaffSound'
    BY <1>3, <2>1, <2>4, <2>5, <2>7 DEF StaffInv, StaffSound, OwnerHoldsRole, OwnerNotLockedOut, OwnerSafe, LockedOut,
     UsedMeansJoined, GoogleGetsItsOwn
  <2> QED BY <2>3, <2>6, <2>7, <2>8 DEF StaffInv
<1> QED BY <1>1, <1>4, <1>5 DEF WriteAccept, Accepted

\* Google opens an account where there is none, and answers with no other.
LEMMA GoogleStep ==
  ASSUME StaffInv, NEW c \in Clerks, WriteGoogle(c)
  PROVE  StaffInv'
<1>1. DeskMoves(c, Idle) /\ owner' = owner /\ cutOff' = cutOff /\ invites' = invites
  BY DEF WriteGoogle, Close, DeskMoves
<1>2. Newcomer \in People
  BY DEF People
<1>3. DesksShaped' /\ InvitesShaped'
  BY <1>1, DesksKept DEF StaffInv, Fits, Idle, InvitesShaped
<1>4. CASE /\ people[Newcomer] = Absent /\ answer' = "google"
           /\ people' = [people EXCEPT ![Newcomer] = Account("OWNER", "google", 0)]
  <2>1. people[Newcomer].joined = 0 /\ people[Newcomer].role = "NONE"
    BY <1>4 DEF Absent
  <2>2. PeopleShaped' /\ people'[Newcomer].joined = 0 /\ people'[Newcomer].via = "google"
        /\ people'[owner].role = "OWNER"
    BY <1>1, <1>2, <1>4 DEF StaffInv, PeopleShaped, Account, AccountColumns, StaffSound, OwnerHoldsRole
  <2>3. OwnerSafe'
    <3>1. people'[owner] = people[owner]
      BY <1>4, <2>1 DEF StaffInv, PeopleShaped, StaffSound, OwnerHoldsRole
    <3> QED BY <1>1, <3>1, OwnerKept, Harmless DEF MayAct
  <2>4. StaffSound'
    BY <1>1, <1>4, <2>1, <2>2, <2>3 DEF StaffInv, StaffSound, OwnerHoldsRole, OwnerNotLockedOut, OwnerSafe, LockedOut,
     UsedMeansJoined, GoogleGetsItsOwn
  <2> QED BY <1>3, <2>2, <2>3, <2>4 DEF StaffInv
<1>5. CASE people' = people /\ answer' = AfterRace(people[Newcomer])
  <2>1. OwnerSafe'
    BY <1>1, <1>5, OwnerKept, Harmless DEF MayAct
  <2>2. StaffSound'
    BY <1>1, <1>5, <2>1 DEF StaffInv, StaffSound, OwnerHoldsRole, OwnerNotLockedOut, OwnerSafe, LockedOut,
     UsedMeansJoined, GoogleGetsItsOwn, AfterRace
  <2> QED BY <1>1, <1>3, <1>5, <2>1, <2>2 DEF StaffInv, PeopleShaped
<1> QED BY <1>4, <1>5 DEF WriteGoogle

\* Each request keeps what is asked of the people, whatever others do between its steps.
LEMMA StaffGoesOn ==
  ASSUME StaffInv, StaffStep
  PROVE  StaffInv'
<1> SUFFICES ASSUME NEW c \in Clerks,
        \/ \E by, id \in People : AskSuspend(c, by, id) \/ AskDelete(c, by, id) \/ AskTransfer(c, by, id)
        \/ \E by \in People : AskDeleteShop(c, by)
        \/ \E by \in People, role \in {"MANAGER", "CASHIER"} : AskInvite(c, by, role)
        \/ \E by \in People, i \in DOMAIN invites : AskRevoke(c, by, i)
        \/ \E i \in DOMAIN invites : AskAccept(c, i)
        \/ AskGoogle(c)
        \/ WriteSuspend(c) \/ WriteDelete(c) \/ Tidy(c) \/ WriteTransfer(c) \/ WriteDeleteShop(c)
        \/ WriteInvite(c) \/ Mail(c) \/ WriteRevoke(c) \/ WriteAccept(c) \/ WriteGoogle(c)
      PROVE StaffInv'
  BY DEF StaffStep
<1>1. ASSUME NEW by \in People, NEW id \in People,
             AskSuspend(c, by, id) \/ AskDelete(c, by, id) \/ AskTransfer(c, by, id)
      PROVE  StaffInv'
  <2>1. CASE AskSuspend(c, by, id)
    <3>1. PICK on : Ask(c, [kind |-> "suspend", id |-> id, on |-> on])
      BY <2>1 DEF AskSuspend
    <3>2. id # owner
      BY <2>1, OwnerOutranked DEF AskSuspend, Calls
    <3> QED BY <3>1, <3>2, AskStep DEF Fits, LocksOut
  <2>2. CASE AskDelete(c, by, id)
    <3>1. id # owner
      BY <2>2, OwnerOutranked DEF AskDelete, Calls
    <3> QED BY <2>2, <3>1, AskStep DEF AskDelete, Fits, LocksOut
  <2>3. CASE AskTransfer(c, by, id)
    BY <2>3, AskStep DEF AskTransfer, Fits, LocksOut
  <2> QED BY <1>1, <2>1, <2>2, <2>3
<1>2. ASSUME NEW by \in People, AskDeleteShop(c, by) PROVE StaffInv'
  BY <1>2, AskStep DEF AskDeleteShop, Fits, LocksOut
<1>3. ASSUME NEW by \in People, NEW role, AskInvite(c, by, role) PROVE StaffInv'
  BY <1>3, AskStep DEF AskInvite, Fits, LocksOut
<1>4. ASSUME NEW by \in People, NEW i \in DOMAIN invites, AskRevoke(c, by, i) PROVE StaffInv'
  BY <1>4, AskStep DEF AskRevoke, Fits, LocksOut
<1>5. ASSUME NEW i \in DOMAIN invites, AskAccept(c, i) PROVE StaffInv'
  BY <1>5, AskStep DEF AskAccept, Fits, LocksOut
<1>6. ASSUME AskGoogle(c) PROVE StaffInv'
  <2>1. CASE /\ UNCHANGED <<people, owner, cutOff, invites, desk>>
             /\ \/ people[Newcomer].via = "google" /\ answer' = "google"
                \/ answer' = "refused"
    <3>1. StaffSound'
      BY <2>1 DEF MayAct, StaffInv, StaffSound, OwnerHoldsRole, OwnerNotLockedOut, OwnerSafe, LockedOut,
     UsedMeansJoined, GoogleGetsItsOwn
    <3>2. OwnerSafe'
      BY <2>1 DEF StaffInv, OwnerSafe, LockedOut, LocksOut, MayAct
    <3> QED BY <2>1, <3>1, <3>2 DEF StaffInv, PeopleShaped, InvitesShaped, DesksShaped, Fits
  <2>2. CASE Ask(c, [kind |-> "google"])
    BY <2>2, AskStep DEF Fits, LocksOut
  <2> QED BY <1>6, <2>1, <2>2 DEF AskGoogle
<1> QED BY <1>1, <1>2, <1>3, <1>4, <1>5, <1>6, PlainStaffStep, TransferStep, InviteStep, AcceptStep,
           GoogleStep

\* All the sessions step of the account itself does to the people is its version.
LEMMA VersionCounts ==
  ASSUME StaffInv, owner' = owner, cutOff' = cutOff, invites' = invites, desk' = desk, answer' = answer,
         people' = people \/ \E v : people' = [people EXCEPT ![Me].version = v]
  PROVE  StaffInv'
<1>1. SamePeople
  BY DEF StaffInv, PeopleShaped, SamePeople, AccountColumns
<1>2. Fits(Idle)
  BY DEF Fits, Idle
<1>3. OwnerSafe'
  <2>1. MayAct(owner) <=> MayAct(owner)'
    BY DEF MayAct, StaffInv, PeopleShaped, AccountColumns
  <2> QED BY <2>1, OwnerKept, Harmless
<1> QED BY <1>1, <1>2, <1>3, StaffKept, Unchanging
-----------------------------------------------------------------------------
(* The sessions: what the API, the web server and the browsers know of a   *)
(* token                                                                   *)

States == {"live", "rotated", "revoked"}

TokenRow == [fam : TokenIds, state : States]

\* A table with one entry for each of n rows.
HasRows(table, n) == Len(table) = n /\ table = [i \in 1 .. n |-> table[i]]

TokensShaped ==
  /\ tokens \in Seq(TokenRow) /\ stale \subseteq TokenIds
  /\ HasRows(handoff, Len(tokens)) /\ HasRows(exchange, Len(tokens))

LEMMA EntryWritten ==
  ASSUME NEW n \in Nat, NEW table, HasRows(table, n), NEW t, NEW e
  PROVE  HasRows([table EXCEPT ![t] = e], n)
<1>1. DOMAIN table = 1 .. n
  BY DEF HasRows
<1>2. [table EXCEPT ![t] = e] = [i \in 1 .. n |-> [table EXCEPT ![t] = e][i]]
  BY <1>1
<1>3. Len([table EXCEPT ![t] = e]) = n
  BY <1>1, <1>2
<1> QED BY <1>2, <1>3 DEF HasRows

\* A table with one entry more.
Grows(table, grown, e, n) ==
  HasRows(grown, n + 1) /\ grown[n + 1] = e /\ \A i \in 1 .. n : grown[i] = table[i]

LEMMA RowAdded ==
  ASSUME NEW n \in Nat, NEW table, HasRows(table, n), NEW e
  PROVE  Grows(table, Append(table, e), e, n)
<1>1. Append(table, e) = [i \in 1 .. n + 1 |-> IF i = n + 1 THEN e ELSE table[i]]
  BY DEF HasRows
<1> QED BY <1>1 DEF HasRows, Grows

\* A cookie carries a token of the family it names.
IsCookie(c) ==
  /\ DOMAIN c = {"tok", "fam", "ver", "error"}
  /\ c.tok \in TokenIds /\ tokens[c.tok].fam = c.fam

IsCall(c) ==
  /\ c.b \in Browsers /\ IsCookie(c.was)
  /\ \/ c.st \in {"sent", "waiting"} /\ DOMAIN c = {"st", "b", "was"}
     \/ c.st = "done" /\ DOMAIN c = {"st", "b", "was", "out"} /\ IsCookie(c.out)

CarriersShaped ==
  /\ cookie = [b \in Browsers |-> cookie[b]] /\ calls = [s \in Slots |-> calls[s]]
  /\ \A b \in Browsers : cookie[b] # NoCookie => IsCookie(cookie[b])
  /\ \A s \in Slots : calls[s] # NoCall => IsCall(calls[s])

\* A token and a later one of its family.
Precedes(u, t) == u \in TokenIds /\ t \in TokenIds /\ u < t /\ tokens[u].fam = tokens[t].fam

\* Somebody ended the family, or an exchange in it was never heard of or forgotten.
CauseKnown(t) == tokens[t].fam \in ended \cup unheard

\* What the web server keeps by a token, and what its exchange answered.
EntrySound(t) ==
  /\ exchange[t] # NoEntry =>
       /\ t \in stale /\ exchange[t].st \in {"sent", "read", "reuse", "ok", "refused"}
       /\ handoff[t] = [st |-> "running"] \/ (handoff[t] = NoEntry /\ CauseKnown(t))
  /\ exchange[t].st = "ok" => Precedes(t, exchange[t].tok)
  /\ handoff[t].st = "done" => Precedes(t, handoff[t].tok)

\* Whoever carries a token that was rotated, and no cause is known, gets its successor.
RotationSound(t) ==
  /\ tokens[t].state = "revoked" => tokens[t].fam \in ended
  /\ tokens[t].state = "rotated" => t \in stale
  /\ exchange[t].st = "reuse" => CauseKnown(t)
  /\ tokens[t].state = "rotated" /\ ~CauseKnown(t) =>
       \/ exchange[t].st = "ok" \/ handoff[t].st = "done"
       \/ exchange[t] = NoEntry /\ Gone(t)

Endings == ended \subseteq TokenIds /\ EndedStaysEnded /\ NoFalseAlarm

\* An unused link has set no password.
LinksShaped ==
  /\ HasRows(changes, Len(links)) /\ links \in Seq({"used", "unused"})
  /\ resetting = [c \in Clerks |-> resetting[c]] /\ \A c \in Clerks : resetting[c] \in 0 .. Len(links)
  /\ \A l \in 1 .. Len(links) : changes[l] \in {0, 1} /\ (links[l] = "unused" => changes[l] = 0)

SessionsInv ==
  /\ StaffInv /\ TokensShaped /\ CarriersShaped /\ Endings /\ LinksShaped
  /\ \A t \in TokenIds : EntrySound(t) /\ RotationSound(t)
LEMMA SessionsStart == Init => SessionsInv
<1> SUFFICES ASSUME Init PROVE SessionsInv
  OBVIOUS
<1>1. /\ StaffInit /\ tokens = <<>> /\ stale = {} /\ ended = {} /\ alarms = {}
      /\ handoff = <<>> /\ exchange = <<>> /\ links = <<>> /\ changes = <<>>
      /\ cookie = [b \in Browsers |-> NoCookie] /\ calls = [s \in Slots |-> NoCall]
      /\ resetting = [c \in Clerks |-> 0]
  BY DEF Init
<1>2. Len(tokens) = 0 /\ TokenIds = {}
  BY <1>1 DEF TokenIds
<1>3. TokensShaped /\ LinksShaped
  <2>1. << >> = [i \in 1 .. 0 |-> << >>[i]]
    OBVIOUS
  <2> QED BY <1>1, <1>2, <2>1 DEF TokensShaped, LinksShaped, HasRows
<1>4. CarriersShaped
  BY <1>1 DEF CarriersShaped
<1>5. Endings
  BY <1>1 DEF Endings, EndedStaysEnded, NoFalseAlarm
<1> QED BY <1>1, <1>2, <1>3, <1>4, <1>5, StaffStarts DEF SessionsInv

\* What holds of a token: its row, its entries and the order of its family.
LEMMA TokenKnown ==
  ASSUME TokensShaped, NEW t \in TokenIds
  PROVE  /\ tokens[t] \in TokenRow /\ tokens[t].fam \in TokenIds /\ tokens[t].state \in States
         /\ DOMAIN tokens[t] = {"fam", "state"} /\ t \in Nat /\ t # 0
<1>1. t \in 1 .. Len(tokens) /\ Len(tokens) \in Nat
  BY DEF TokensShaped, TokenIds
<1>2. tokens[t] \in TokenRow
  BY <1>1 DEF TokensShaped
<1> QED BY <1>1, <1>2 DEF TokenRow

LEMMA PrecedesOrders ==
  ASSUME NEW u, NEW v, NEW t, Precedes(u, v), Precedes(v, t)
  PROVE  Precedes(u, t)
  BY DEF Precedes, TokenIds

\* Whoever carries a token by now carried it, or one before it that was answered with it.
NoNewCarrier ==
  \A t \in TokenIds : Carried(t)' => Carried(t) \/ \E u \in TokenIds : Carried(u) /\ Precedes(u, t)

\* Rows stay, in their families, and only live ones are rotated or revoked.
RowsKept ==
  \A t \in TokenIds :
    /\ t \in TokenIds' /\ tokens'[t].fam = tokens[t].fam
    /\ tokens'[t].state = tokens[t].state \/ tokens[t].state = "live"

LEMMA PrecedesKept ==
  ASSUME RowsKept, NEW t \in TokenIds
  PROVE  /\ \A u : Precedes(u, t)' <=> Precedes(u, t)
         /\ \A u : Precedes(t, u) => Precedes(t, u)'
  BY DEF RowsKept, Precedes, TokenIds

LEMMA CarriersKept ==
  ASSUME RowsKept, CarriersShaped, cookie' = cookie, calls' = calls
  PROVE  CarriersShaped' /\ NoNewCarrier
<1>1. \A c : IsCookie(c) => IsCookie(c)'
  BY DEF RowsKept, IsCookie
<1>2. \A c : IsCall(c) => IsCall(c)'
  BY <1>1 DEF IsCall
<1> QED BY <1>1, <1>2 DEF CarriersShaped, NoNewCarrier, Carried

\* A session that goes on without a token does not come back to it.
LEMMA GoneStays ==
  ASSUME TokensShaped, RowsKept, NoNewCarrier, NEW t \in TokenIds, Gone(t)
  PROVE  Gone(t)'
<1>1. Len(tokens) \in Nat /\ TokenIds = 1 .. Len(tokens) /\ t \in Nat
  BY DEF TokensShaped, TokenIds
<1>2. \A u \in 1 .. t : u \in TokenIds /\ tokens'[u].fam = tokens[u].fam
  BY <1>1 DEF RowsKept
<1>3. ASSUME NEW u \in 1 .. t, tokens[u].fam = tokens[t].fam
      PROVE  ~Carried(u)'
  <2>1. \A v \in TokenIds : Precedes(v, u) => v \in 1 .. t /\ tokens[v].fam = tokens[t].fam
    BY <1>1, <1>3 DEF Precedes
  <2> QED BY <1>2, <1>3, <2>1 DEF NoNewCarrier, Gone
<1> QED BY <1>1, <1>2, <1>3 DEF Gone

\* What is known of a token stays known: its entries are the same, its family's end too.
LEMMA TokenStays ==
  ASSUME SessionsInv, RowsKept, NoNewCarrier, stale' = stale, NEW t \in TokenIds,
         tokens'[t].state = tokens[t].state, ended \subseteq ended', unheard \subseteq unheard',
         handoff'[t] = handoff[t], exchange'[t] = exchange[t]
  PROVE  EntrySound(t)' /\ RotationSound(t)'
<1>1. EntrySound(t) /\ RotationSound(t) /\ tokens'[t].fam = tokens[t].fam
  BY DEF SessionsInv, RowsKept
<1>2. CauseKnown(t) => CauseKnown(t)'
  BY <1>1 DEF CauseKnown
<1>3. EntrySound(t)'
  BY <1>1, <1>2, PrecedesKept DEF EntrySound
<1>4. Gone(t) => Gone(t)'
  BY GoneStays DEF SessionsInv
<1> QED BY <1>1, <1>2, <1>3, <1>4 DEF RotationSound

\* Steps that leave the tokens and their entries alone.
LEMMA QuietStep ==
  ASSUME SessionsInv, StaffInv', CarriersShaped', NoNewCarrier, LinksShaped',
         UNCHANGED <<tokens, handoff, exchange, ended, alarms, unheard, stale>>
  PROVE  SessionsInv'
<1>1. RowsKept
  BY DEF RowsKept, TokenIds
<1>2. TokensShaped' /\ Endings' /\ TokenIds' = TokenIds
  BY DEF SessionsInv, TokensShaped, HasRows, TokenRow, TokenIds, Endings, EndedStaysEnded, Live, NoFalseAlarm
<1>3. \A t \in TokenIds : EntrySound(t)' /\ RotationSound(t)'
  BY <1>1, TokenStays
<1> QED BY <1>1, <1>2, <1>3 DEF SessionsInv

\* A step of one exchange, or of what the web server keeps by its token.
LEMMA ExchangeMoves ==
  ASSUME SessionsInv, StaffInv', CarriersShaped', NoNewCarrier, NEW t \in TokenIds, NEW h, NEW e,
         handoff' = [handoff EXCEPT ![t] = h], exchange' = [exchange EXCEPT ![t] = e],
         UNCHANGED <<tokens, ended, alarms, stale, links, resetting, changes>>,
         unheard \subseteq unheard', EntrySound(t)', RotationSound(t)'
  PROVE  SessionsInv'
<1>1. RowsKept
  BY DEF RowsKept, TokenIds
<1>2. Endings' /\ LinksShaped' /\ TokenIds' = TokenIds
  BY DEF SessionsInv, TokenIds, Endings, EndedStaysEnded, Live, NoFalseAlarm, LinksShaped, HasRows
<1>3. TokensShaped'
  <2>1. HasRows(handoff', Len(tokens)) /\ HasRows(exchange', Len(tokens))
    <3>1. Len(tokens) \in Nat /\ HasRows(handoff, Len(tokens)) /\ HasRows(exchange, Len(tokens))
      BY DEF SessionsInv, TokensShaped
    <3> QED BY <3>1, EntryWritten
  <2>2. (tokens \in Seq(TokenRow) /\ stale \subseteq TokenIds)'
    BY <1>2 DEF SessionsInv, TokensShaped, TokenRow
  <2> QED BY <2>1, <2>2 DEF TokensShaped, HasRows
<1>4. ASSUME NEW u \in TokenIds
      PROVE  EntrySound(u)' /\ RotationSound(u)'
  <2>1. CASE u = t
    BY <2>1
  <2>2. CASE u # t
    <3>1. handoff'[u] = handoff[u] /\ exchange'[u] = exchange[u]
      BY <2>2 DEF SessionsInv, TokensShaped, HasRows, TokenIds
    <3> QED BY <1>1, <3>1, TokenStays
  <2> QED BY <2>1, <2>2
<1> QED BY <1>1, <1>2, <1>3, <1>4 DEF SessionsInv
\* The steps that end families: sign-out, revocation, a changed password, a reported reuse.
LEMMA FamiliesEnd ==
  ASSUME SessionsInv, StaffInv', LinksShaped', NEW fs \in SUBSET Families, NEW known,
         tokens' = RevokedWhere(fs, known), ended' = ended \cup fs, NoFalseAlarm',
         UNCHANGED <<cookie, calls, stale, handoff, unheard>>, HasRows(exchange', Len(tokens)),
         \A u \in TokenIds :
           \/ exchange'[u] = exchange[u]
           \/ exchange[u].st = "reuse" /\ exchange'[u] = [st |-> "refused"]
  PROVE  SessionsInv'
<1>1. Len(tokens) \in Nat /\ \A u \in TokenIds : tokens[u] \in TokenRow
  BY TokenKnown DEF SessionsInv, TokensShaped
<1>2. TokenIds' = TokenIds /\ Len(tokens') = Len(tokens)
  BY <1>1 DEF RevokedWhere, TokenIds
<1>3. \A u \in TokenIds :
        /\ tokens'[u] \in TokenRow /\ tokens'[u].fam = tokens[u].fam
        /\ \/ tokens'[u].state = tokens[u].state /\ ~(tokens[u].state = "live" /\ tokens[u].fam \in fs)
           \/ tokens[u].state = "live" /\ tokens'[u].state = "revoked" /\ tokens[u].fam \in fs
  BY <1>1 DEF RevokedWhere, TokenRow, States
<1>4. TokensShaped'
  <2>1. tokens' \in Seq(TokenRow)
    <3>1. tokens' = [u \in 1 .. Len(tokens) |-> tokens'[u]] /\ \A u \in 1 .. Len(tokens) : tokens'[u] \in TokenRow
      BY <1>3 DEF RevokedWhere, TokenIds
    <3> QED BY <1>1, <3>1
  <2> QED BY <1>2, <2>1 DEF SessionsInv, TokensShaped, TokenRow
<1>5. RowsKept
  BY <1>2, <1>3 DEF RowsKept
<1>6. CarriersShaped' /\ NoNewCarrier
  BY <1>5, CarriersKept DEF SessionsInv
<1>7. Endings'
  <2>1. ended' \subseteq TokenIds
    BY TokenKnown DEF SessionsInv, Endings, Families
  <2>2. ASSUME NEW f \in ended'
        PROVE  Live(f)' = {}
    BY <1>2, <1>3 DEF SessionsInv, Endings, EndedStaysEnded, Live
  <2> QED BY <1>2, <2>1, <2>2 DEF Endings, EndedStaysEnded
<1>8. ASSUME NEW u \in TokenIds
      PROVE  EntrySound(u)' /\ RotationSound(u)'
  <2>1. EntrySound(u) /\ RotationSound(u)
    BY DEF SessionsInv
  <2>2. CauseKnown(u) => CauseKnown(u)'
    BY <1>3 DEF CauseKnown
  <2>3. EntrySound(u)'
    BY <1>5, <2>1, <2>2, PrecedesKept DEF EntrySound, NoEntry
  <2>4. Gone(u) => Gone(u)'
    BY <1>5, <1>6, GoneStays DEF SessionsInv
  <2>5. tokens'[u].state = "revoked" => tokens'[u].fam \in ended'
    BY <1>3, <2>1 DEF RotationSound
  <2>6. tokens'[u].state = "rotated" => tokens[u].state = "rotated"
    BY <1>3
  <2>7. (exchange[u].st = "reuse" => CauseKnown(u)) /\ (tokens[u].state = "rotated" => u \in stale)
    BY <2>1 DEF RotationSound
  <2>8. exchange'[u].st = "reuse" => CauseKnown(u)'
    BY <2>2, <2>7
  <2>9. ASSUME tokens'[u].state = "rotated", ~CauseKnown(u)'
        PROVE  \/ exchange'[u].st = "ok" \/ handoff'[u].st = "done"
               \/ exchange'[u] = NoEntry /\ Gone(u)'
    <3>1. exchange'[u] = exchange[u] /\ handoff'[u] = handoff[u]
      BY <2>2, <2>7, <2>9
    <3> QED BY <2>1, <2>2, <2>4, <2>6, <2>9, <3>1 DEF RotationSound
  <2>10. EntrySound(u)' /\ (tokens'[u].state = "rotated" => u \in stale')
    BY <2>3, <2>6, <2>7
  <2> QED BY <2>5, <2>8, <2>9, <2>10 DEF RotationSound
<1> QED BY <1>2, <1>4, <1>5, <1>6, <1>7, <1>8 DEF SessionsInv

Issued(rows, exchanges, new, f) ==
  /\ TokensShaped' /\ TokenIds' = TokenIds \cup {new} /\ new \notin TokenIds /\ new \in Nat
  /\ tokens'[new] = [fam |-> f, state |-> "live"] /\ handoff'[new] = NoEntry /\ exchange'[new] = NoEntry
  /\ \A u \in TokenIds : /\ u < new /\ tokens'[u] = rows[u]
                         /\ handoff'[u] = handoff[u] /\ exchange'[u] = exchanges[u]

\* A new row: of the tokens before it, what the step writes.
LEMMA RowIssued ==
  ASSUME SessionsInv, NEW rows \in Seq(TokenRow), Len(rows) = Len(tokens),
         NEW f \in 1 .. Len(tokens) + 1, NEW exchanges, HasRows(exchanges, Len(tokens)),
         Issue(rows, [fam |-> f, state |-> "live"], exchanges), stale' = stale, NEW new, new = Len(tokens) + 1
  PROVE  Issued(rows, exchanges, new, f)
<1>1. PICK n \in Nat : n = Len(tokens)
  BY DEF SessionsInv, TokensShaped
<1>2. TokenIds = 1 .. n /\ HasRows(handoff, n)
  BY <1>1 DEF TokenIds, SessionsInv, TokensShaped
<1>3. /\ Len(tokens') = n + 1 /\ \A i \in 1 .. n : tokens'[i] = rows[i] /\ rows[i] \in TokenRow
      /\ tokens'[n + 1] = [fam |-> f, state |-> "live"]
  BY <1>1 DEF Issue
<1>4. TokenIds' = 1 .. n + 1
  BY <1>3 DEF TokenIds
<1>5. /\ HasRows(handoff', n + 1) /\ handoff'[n + 1] = NoEntry /\ \A i \in 1 .. n : handoff'[i] = handoff[i]
      /\ HasRows(exchange', n + 1) /\ exchange'[n + 1] = NoEntry
      /\ \A i \in 1 .. n : exchange'[i] = exchanges[i]
  <2>1. handoff' = Append(handoff, NoEntry) /\ exchange' = Append(exchanges, NoEntry) /\ HasRows(exchanges, n)
    BY <1>1 DEF Issue
  <2>2. Grows(handoff, handoff', NoEntry, n) /\ Grows(exchanges, exchange', NoEntry, n)
    BY <1>2, <2>1, RowAdded
  <2> QED BY <2>2 DEF Grows
<1>6. tokens' \in Seq(TokenRow')
  <2>1. \A i \in 1 .. n + 1 : tokens'[i] \in TokenRow'
    <3>1. TokenIds \subseteq TokenIds'
      BY <1>2, <1>4
    <3>2. TokenRow \subseteq TokenRow'
      BY <3>1 DEF TokenRow
    <3>3. tokens'[n + 1] \in TokenRow'
      BY <1>1, <1>3, <1>4 DEF TokenRow, States
    <3> QED BY <1>3, <3>2, <3>3
  <2>2. tokens' \in Seq(TokenRow \cup {[fam |-> f, state |-> "live"]})
    BY DEF Issue
  <2> QED BY <1>3, <2>1, <2>2
<1>7. TokensShaped'
  BY <1>2, <1>3, <1>4, <1>5, <1>6 DEF TokensShaped, SessionsInv
<1> QED BY <1>1, <1>2, <1>3, <1>4, <1>5, <1>7 DEF Issued
LEMMA StaffStays == StaffInv /\ UNCHANGED staff => StaffInv'
  BY VersionCounts DEF staff

LEMMA LinksStay == LinksShaped /\ UNCHANGED <<links, resetting, changes>> => LinksShaped'
  BY DEF LinksShaped, HasRows

\* A refresh token under exchange that was rotated or revoked before: somebody had a part in it.
LEMMA ReuseHasCause ==
  ASSUME SessionsInv, NEW t \in TokenIds, exchange[t].st \in {"sent", "read", "refused"},
         tokens[t].state # "live"
  PROVE  CauseKnown(t)
<1>1. EntrySound(t) /\ RotationSound(t) /\ tokens[t].state \in {"rotated", "revoked"}
  BY TokenKnown DEF SessionsInv, States
<1>2. exchange[t] # NoEntry
  BY DEF NoEntry
<1>3. handoff[t].st # "done" /\ exchange[t].st # "ok"
  BY <1>1, <1>2 DEF EntrySound, NoEntry
<1> QED BY <1>1, <1>2, <1>3 DEF RotationSound, CauseKnown

\* The exchange goes on with its token as it is, and what the web server keeps stays.
LEMMA ExchangeGoesOn ==
  ASSUME SessionsInv, NEW t \in TokenIds, NEW e, exchange' = [exchange EXCEPT ![t] = e],
         exchange[t].st \in {"sent", "read"}, e.st \in {"read", "reuse", "refused"},
         e.st = "reuse" => tokens[t].state # "live",
         UNCHANGED <<staff, db, calls, handoff, unheard, cookie, stale>>
  PROVE  SessionsInv'
<1>1. RowsKept /\ StaffInv' /\ LinksShaped'
  BY StaffStays, LinksStay DEF SessionsInv, db, RowsKept, TokenIds
<1>2. CarriersShaped' /\ NoNewCarrier
  BY <1>1, CarriersKept DEF SessionsInv
<1>3. PICK h : h = handoff[t]
  OBVIOUS
<1>4. handoff' = [handoff EXCEPT ![t] = h] /\ exchange'[t] = e /\ handoff'[t] = handoff[t]
  BY <1>3 DEF SessionsInv, TokensShaped, HasRows, TokenIds
<1>5. EntrySound(t) /\ RotationSound(t) /\ exchange[t] # NoEntry
  BY DEF SessionsInv, NoEntry
<1>6. EntrySound(t)'
  <2>1. CauseKnown(t)' <=> CauseKnown(t)
    BY DEF CauseKnown, db
  <2> QED BY <1>1, <1>4, <1>5, <2>1, PrecedesKept DEF EntrySound
<1>7. tokens[t].state # "live" => CauseKnown(t)
  BY ReuseHasCause
<1>8. RotationSound(t)'
  <2>1. CauseKnown(t)' <=> CauseKnown(t)
    BY DEF CauseKnown, db
  <2>2. tokens'[t] = tokens[t] /\ stale' = stale /\ ended' = ended
    BY DEF db
  <2> QED BY <1>4, <1>5, <1>7, <2>1, <2>2 DEF RotationSound
<1> QED BY <1>1, <1>2, <1>4, <1>6, <1>8, ExchangeMoves DEF db

\* ReadToken and the refused half of Rotate.
LEMMA ReadStep ==
  ASSUME SessionsInv, NEW t \in TokenIds, ReadToken(t)
  PROVE  SessionsInv'
<1>1. PICK e : /\ exchange' = [exchange EXCEPT ![t] = e] /\ e.st \in {"read", "reuse", "refused"}
               /\ e.st = "reuse" => tokens[t].state # "live"
  <2>1. CASE tokens[t].state = "rotated"
    BY <2>1 DEF ReadToken
  <2>2. CASE tokens[t].state # "rotated" /\ (tokens[t].state = "revoked" \/ ~Usable)
    <3>1. PICK e : e = [st |-> "refused"]
      OBVIOUS
    <3>2. e.st = "refused" /\ exchange' = [exchange EXCEPT ![t] = e]
      BY <3>1, <2>2 DEF ReadToken
    <3> QED BY <3>2
  <2>3. CASE tokens[t].state # "rotated" /\ ~(tokens[t].state = "revoked" \/ ~Usable)
    <3>1. PICK e : e = [st |-> "read", ver |-> Version]
      OBVIOUS
    <3>2. e.st = "read" /\ exchange' = [exchange EXCEPT ![t] = e]
      BY <3>1, <2>3 DEF ReadToken
    <3> QED BY <3>2
  <2> QED BY <2>1, <2>2, <2>3
<1> QED BY <1>1, ExchangeGoesOn DEF ReadToken, browser

\* Rotate: the token gives way to its successor, or somebody was faster.
LEMMA RotateStep ==
  ASSUME SessionsInv, NEW t \in TokenIds, Rotate(t)
  PROVE  SessionsInv'
<1>1. exchange[t].st = "read" /\ UNCHANGED <<staff, ended, alarms, links, resetting, changes, mails,
                                             calls, unheard, lost, width, browser>>
  BY DEF Rotate
<1>2. CASE ~Consumable(t)
  <2>1. PICK e : exchange' = [exchange EXCEPT ![t] = e] /\ e.st = "reuse"
    <3>1. PICK e : e = [st |-> "reuse"]
      OBVIOUS
    <3>2. e.st = "reuse" /\ exchange' = [exchange EXCEPT ![t] = e]
      BY <3>1, <1>2 DEF Rotate
    <3> QED BY <3>2
  <2> QED BY <1>1, <1>2, <2>1, ExchangeGoesOn DEF Rotate, Consumable, browser, db
<1>3. CASE Consumable(t)
  <2>1. PICK new, f : new = Len(tokens) + 1 /\ f = tokens[t].fam
    OBVIOUS
  <2>2. PICK rows, exchanges :
          /\ rows = [tokens EXCEPT ![t].state = "rotated"]
          /\ exchanges = [exchange EXCEPT ![t] = [st |-> "ok", tok |-> new, ver |-> exchange[t].ver]]
          /\ Issue(rows, [fam |-> f, state |-> "live"], exchanges)
    BY <1>3, <2>1 DEF Rotate, Successor
  <2>3. Len(tokens) \in Nat /\ HasRows(exchange, Len(tokens)) /\ tokens[t] \in TokenRow /\ t \in 1 .. Len(tokens)
    BY TokenKnown DEF SessionsInv, TokensShaped, TokenIds
  <2>4. HasRows(exchanges, Len(tokens)) /\ exchanges[t].st = "ok" /\ exchanges[t].tok = new
        /\ \A u \in TokenIds : u # t => exchanges[u] = exchange[u]
    <3>1. HasRows(exchanges, Len(tokens))
      BY <2>2, <2>3, EntryWritten
    <3>2. DOMAIN exchange = TokenIds
      BY <2>3 DEF HasRows, TokenIds
    <3> QED BY <2>2, <3>1, <3>2
  <2>5. /\ rows \in Seq(TokenRow) /\ Len(rows) = Len(tokens)
        /\ rows[t].state = "rotated" /\ rows[t].fam = f
        /\ \A u \in TokenIds : u # t => rows[u] = tokens[u]
    <3>1. PICK row : /\ row = [tokens[t] EXCEPT !.state = "rotated"] /\ row \in TokenRow
                     /\ row.state = "rotated" /\ row.fam = f
      <4>1. tokens[t] = [fam |-> f, state |-> tokens[t].state] /\ f \in TokenIds
        BY <2>1, <2>3 DEF TokenRow
      <4>2. [tokens[t] EXCEPT !.state = "rotated"] = [fam |-> f, state |-> "rotated"]
        BY <4>1
      <4>3. [fam |-> f, state |-> "rotated"] \in TokenRow
        BY <4>1 DEF TokenRow, States
      <4> QED BY <4>2, <4>3
    <3>2. rows = [tokens EXCEPT ![t] = row] /\ tokens \in Seq(TokenRow)
      BY <2>2, <3>1 DEF SessionsInv, TokensShaped
    <3> QED BY <2>3, <3>1, <3>2 DEF TokenIds
  <2>6. f \in TokenIds /\ f \in 1 .. Len(tokens) + 1 /\ stale' = stale
    BY <1>1, <2>1, <2>3, TokenKnown DEF SessionsInv, TokenIds, browser
  <2>7. /\ TokensShaped' /\ TokenIds' = TokenIds \cup {new} /\ new \notin TokenIds /\ new \in Nat
        /\ tokens'[new] = [fam |-> f, state |-> "live"] /\ handoff'[new] = NoEntry /\ exchange'[new] = NoEntry
        /\ \A u \in TokenIds : /\ u < new /\ tokens'[u] = rows[u]
                               /\ handoff'[u] = handoff[u] /\ exchange'[u] = exchanges[u]
    <3>1. Issued(rows, exchanges, new, f)
      BY <2>1, <2>2, <2>4, <2>5, <2>6, RowIssued
    <3> QED BY <3>1 DEF Issued
  <2>8. tokens[t].state = "live" /\ EntrySound(t) /\ exchange[t] # NoEntry
    BY <1>1, <1>3 DEF Consumable, SessionsInv, NoEntry
  <2>9. RowsKept
    <3>1. \A u \in TokenIds : u \in TokenIds' /\ tokens'[u] = rows[u]
      BY <2>7
    <3> QED BY <2>1, <2>5, <2>8, <3>1 DEF RowsKept
  <2>10. CarriersShaped' /\ NoNewCarrier
    BY <1>1, <2>9, CarriersKept DEF SessionsInv, browser
  <2>11. Endings'
    <3>1. f \notin ended
      BY <2>1, <2>8 DEF SessionsInv, Endings, EndedStaysEnded, Live
    <3>2. ASSUME NEW g \in ended, NEW u \in TokenIds', tokens'[u].fam = g, tokens'[u].state = "live"
          PROVE  FALSE
      <4>1. u \in TokenIds
        BY <2>7, <3>1, <3>2
      <4>2. tokens[u].fam = g /\ tokens[u].state = "live"
        BY <2>9, <3>2, <4>1 DEF RowsKept
      <4> QED BY <3>2, <4>1, <4>2 DEF SessionsInv, Endings, EndedStaysEnded, Live
    <3> QED BY <1>1, <2>7, <3>2 DEF SessionsInv, Endings, EndedStaysEnded, Live, NoFalseAlarm
  <2>12. ASSUME NEW u \in TokenIds'
         PROVE  EntrySound(u)' /\ RotationSound(u)'
    <3>1. CASE u = new
      BY <2>7, <3>1 DEF EntrySound, RotationSound, NoEntry
    <3>2. CASE u = t
      <4>1. t \in TokenIds' /\ tokens'[t].state = "rotated" /\ tokens'[t].fam = f
        BY <2>5, <2>7
      <4>2. exchange'[t].st = "ok" /\ exchange'[t].tok = new
        BY <2>4, <2>7
      <4>3. /\ t \in stale'
            /\ handoff'[t] = [st |-> "running"] \/ (handoff'[t] = NoEntry /\ CauseKnown(t)')
        BY <1>1, <2>1, <2>6, <2>7, <2>8, <4>1 DEF EntrySound, CauseKnown
      <4>4. Precedes(t, new)'
        <5>1. tokens'[new].fam = f /\ new \in TokenIds' /\ t < new
          BY <2>7
        <5> QED BY <4>1, <5>1 DEF Precedes
      <4> QED BY <3>2, <4>1, <4>2, <4>3, <4>4 DEF EntrySound, RotationSound, NoEntry
    <3>3. CASE u # t /\ u \in TokenIds
      <4>1. tokens'[u].state = tokens[u].state /\ handoff'[u] = handoff[u] /\ exchange'[u] = exchange[u]
        BY <2>4, <2>5, <2>7, <3>3
      <4> QED BY <1>1, <2>6, <2>9, <2>10, <3>3, <4>1, TokenStays
    <3> QED BY <2>7, <3>1, <3>2, <3>3
  <2> QED BY <1>1, <2>6, <2>7, <2>9, <2>10, <2>11, <2>12, StaffStays, LinksStay DEF SessionsInv
<1> QED BY <1>2, <1>3
\* A login opens a family of its own.
LEMMA OpenStep ==
  ASSUME SessionsInv, NEW b \in Browsers, OpenSession(b)
  PROVE  SessionsInv'
<1>1. PICK new : new = Len(tokens) + 1
  OBVIOUS
<1>2. /\ Issue(tokens, [fam |-> new, state |-> "live"], exchange)
      /\ cookie' = [cookie EXCEPT ![b] = [tok |-> new, fam |-> new, ver |-> signing[b].ver, error |-> FALSE]]
      /\ stale' = stale
      /\ UNCHANGED <<staff, ended, alarms, links, resetting, changes, calls, unheard>>
  BY <1>1 DEF OpenSession
<1>3. Len(tokens) \in Nat /\ HasRows(exchange, Len(tokens)) /\ tokens \in Seq(TokenRow)
  BY DEF SessionsInv, TokensShaped
<1>4. Issued(tokens, exchange, new, new)
  BY <1>1, <1>2, <1>3, RowIssued
<1>5. /\ TokensShaped' /\ TokenIds' = TokenIds \cup {new} /\ new \notin TokenIds
      /\ tokens'[new] = [fam |-> new, state |-> "live"] /\ handoff'[new] = NoEntry /\ exchange'[new] = NoEntry
      /\ \A u \in TokenIds : /\ tokens'[u] = tokens[u]
                             /\ handoff'[u] = handoff[u] /\ exchange'[u] = exchange[u]
  BY <1>4 DEF Issued
<1>6. RowsKept
  BY <1>5 DEF RowsKept
<1>7. \A c : IsCookie(c) => IsCookie(c)'
  BY <1>5 DEF IsCookie
<1>8. \A c : IsCall(c) => IsCall(c)'
  BY <1>7 DEF IsCall
<1>9. CarriersShaped'
  <2>1. IsCookie(cookie[b])'
    <3>1. cookie'[b] = [tok |-> new, fam |-> new, ver |-> signing[b].ver, error |-> FALSE]
      BY <1>2 DEF SessionsInv, CarriersShaped
    <3> QED BY <1>5, <3>1 DEF IsCookie
  <2>2. \A a \in Browsers : a # b => cookie'[a] = cookie[a]
    BY <1>2 DEF SessionsInv, CarriersShaped
  <2>3. cookie' = [a \in Browsers |-> cookie'[a]]
    BY <1>2 DEF SessionsInv, CarriersShaped
  <2>4. \A a \in Browsers : cookie'[a] # NoCookie => IsCookie(cookie[a])'
    BY <1>7, <2>1, <2>2 DEF SessionsInv, CarriersShaped
  <2>5. \A s \in Slots : calls'[s] # NoCall => IsCall(calls[s])'
    BY <1>2, <1>8 DEF SessionsInv, CarriersShaped
  <2> QED BY <1>2, <2>3, <2>4, <2>5 DEF SessionsInv, CarriersShaped
<1>10. NoNewCarrier
  <2>1. \A a \in Browsers : cookie'[a] = cookie[a] \/ cookie'[a].tok = new
    BY <1>2 DEF SessionsInv, CarriersShaped
  <2> QED BY <1>2, <1>5, <2>1 DEF NoNewCarrier, Carried
<1>11. Endings'
  <2>1. new \notin ended
    BY <1>5 DEF SessionsInv, Endings
  <2> QED BY <1>2, <1>5, <2>1 DEF SessionsInv, Endings, EndedStaysEnded, Live, NoFalseAlarm
<1>12. ASSUME NEW u \in TokenIds'
       PROVE  EntrySound(u)' /\ RotationSound(u)'
  <2>1. CASE u = new
    BY <1>5, <2>1 DEF EntrySound, RotationSound, NoEntry
  <2>2. CASE u \in TokenIds
    BY <1>2, <1>5, <1>6, <1>10, <2>2, TokenStays
  <2> QED BY <1>5, <2>1, <2>2
<1> QED BY <1>2, <1>5, <1>6, <1>9, <1>10, <1>11, <1>12, StaffStays, LinksStay DEF SessionsInv

\* A successor of the token a cookie carries makes a cookie of the same family.
LEMMA RenewedIsCookie ==
  ASSUME NEW c, IsCookie(c), NEW e, Precedes(c.tok, e.tok)
  PROVE  IsCookie(Renewed(c, e)) /\ Renewed(c, e).tok = e.tok
  BY DEF IsCookie, Renewed, Precedes

\* Reads of the session that go on with what they carry, or with its successor.
CallGoesOn(s, c) ==
  \/ calls[s] = NoCall /\ c # NoCall /\ c.st = "sent" /\ \E b \in Browsers : cookie[b] # NoCookie /\ c.was = cookie[b]
  \/ /\ calls[s] # NoCall /\ c # NoCall /\ c.was = calls[s].was
     /\ c.st = "done" => c.out.tok = c.was.tok \/ Precedes(c.was.tok, c.out.tok)

LEMMA CallsGoOn ==
  ASSUME SessionsInv, UNCHANGED <<tokens, cookie>>, calls' = [s \in Slots |-> calls'[s]],
         \A s \in Slots : \/ calls'[s] = calls[s] \/ calls'[s] = NoCall
                          \/ IsCall(calls'[s]) /\ CallGoesOn(s, calls'[s])
  PROVE  CarriersShaped' /\ NoNewCarrier
<1>1. \A c : (IsCookie(c) <=> IsCookie(c)') /\ (IsCall(c) <=> IsCall(c)')
  BY DEF IsCookie, IsCall, TokenIds
<1>2. CarriersShaped'
  BY <1>1 DEF SessionsInv, CarriersShaped
<1>3. ASSUME NEW t \in TokenIds, Carried(t)'
      PROVE  Carried(t) \/ \E u \in TokenIds : Carried(u) /\ Precedes(u, t)
  <2>1. CASE \E b \in Browsers : cookie'[b].tok = t
    BY <2>1 DEF Carried
  <2>2. ASSUME NEW s \in Slots, calls'[s] # NoCall,
               calls'[s].was.tok = t \/ (calls'[s].st = "done" /\ calls'[s].out.tok = t)
        PROVE  Carried(t) \/ \E u \in TokenIds : Carried(u) /\ Precedes(u, t)
    <3>1. CASE calls'[s] = calls[s]
      BY <2>2, <3>1 DEF Carried
    <3>2. CASE calls[s] = NoCall /\ CallGoesOn(s, calls'[s])
      BY <2>2, <3>2 DEF Carried, CallGoesOn
    <3>3. CASE calls[s] # NoCall /\ CallGoesOn(s, calls'[s])
      <4>1. PICK w : w = calls[s].was.tok
        OBVIOUS
      <4>2. Carried(w) /\ (t = w \/ Precedes(w, t))
        BY <2>2, <3>3, <4>1 DEF Carried, CallGoesOn
      <4> QED BY <4>2 DEF Precedes
    <3> QED BY <2>2, <3>1, <3>2, <3>3
  <2> QED BY <1>3, <2>1, <2>2 DEF Carried
<1> QED BY <1>2, <1>3 DEF NoNewCarrier
\* Everyone who waited for an exchange has its outcome.
LEMMA SettleStep ==
  ASSUME SessionsInv, NEW t \in TokenIds, NEW e, Settle(t, e),
         UNCHANGED <<staff, db, cookie, stale>>, unheard \subseteq unheard',
         exchange[t].st \in {"ok", "refused"}, e.st = "ok" => Precedes(t, e.tok),
         e.st # "ok" /\ tokens[t].state = "rotated" => CauseKnown(t)'
  PROVE  SessionsInv'
<1>1. StaffInv' /\ LinksShaped' /\ tokens' = tokens /\ RowsKept
  BY StaffStays, LinksStay DEF SessionsInv, db, RowsKept, TokenIds
<1> DEFINE out(c) == IF e.st = "ok" THEN Renewed(c.was, e) ELSE [c.was EXCEPT !.error = TRUE]
<1>2. \A s \in Slots :
        \/ calls'[s] = calls[s]
        \/ calls[s].st = "waiting" /\ calls[s].was.tok = t /\ calls'[s] = Answered(calls[s], out(calls[s]))
  BY DEF Settle
<1>3. ASSUME NEW s \in Slots, calls'[s] # calls[s]
      PROVE  IsCall(calls'[s]) /\ CallGoesOn(s, calls'[s])
  <2>1. PICK c : c = calls[s]
    OBVIOUS
  <2>2. c # NoCall /\ c.was.tok = t /\ calls'[s] = Answered(c, out(c))
    BY <1>2, <1>3, <2>1 DEF NoCall
  <2>3. c.b \in Browsers /\ IsCookie(c.was)
    BY <2>1, <2>2 DEF SessionsInv, CarriersShaped, IsCall
  <2>4. IsCookie(out(c)) /\ (out(c).tok = c.was.tok \/ Precedes(c.was.tok, out(c).tok))
    <3>1. CASE e.st = "ok"
      BY <2>2, <2>3, <3>1, RenewedIsCookie
    <3>2. CASE e.st # "ok"
      BY <2>3, <3>2 DEF IsCookie
    <3> QED BY <3>1, <3>2
  <2> HIDE DEF out
  <2>5. calls'[s] = [st |-> "done", b |-> c.b, was |-> c.was, out |-> out(c)]
    BY <2>2 DEF Answered
  <2>6. IsCall(calls'[s])
    BY <2>3, <2>4, <2>5 DEF IsCall
  <2> QED BY <2>1, <2>2, <2>4, <2>5, <2>6 DEF CallGoesOn, NoCall
<1>4. CarriersShaped' /\ NoNewCarrier
  <2>1. calls' = [s \in Slots |-> calls'[s]]
    BY DEF Settle
  <2> QED BY <1>1, <1>3, <2>1, CallsGoOn
<1>5. PICK h, none : h = (IF handoff[t] = NoEntry THEN NoEntry ELSE Kept(e)) /\ none = NoEntry
  OBVIOUS
<1>6. /\ handoff' = [handoff EXCEPT ![t] = h] /\ exchange' = [exchange EXCEPT ![t] = none]
      /\ handoff'[t] = h /\ exchange'[t] = NoEntry
  BY <1>5 DEF Settle, SessionsInv, TokensShaped, HasRows, TokenIds
<1>7. EntrySound(t) /\ RotationSound(t) /\ exchange[t] # NoEntry
  BY DEF SessionsInv, NoEntry
<1>8. h.st = "done" => e.st = "ok" /\ h.tok = e.tok
  BY <1>5 DEF Kept, NoEntry
<1>9. e.st = "ok" => h.st = "done" \/ CauseKnown(t)'
  <2>1. handoff[t] = NoEntry => CauseKnown(t)
    BY <1>7 DEF EntrySound, NoEntry
  <2>2. CauseKnown(t) => CauseKnown(t)'
    BY DEF CauseKnown, db
  <2> QED BY <1>5, <2>1, <2>2 DEF Kept
<1>10. EntrySound(t)'
  BY <1>1, <1>6, <1>8, PrecedesKept DEF EntrySound, NoEntry
<1>11. RotationSound(t)'
  <2>1. tokens'[t] = tokens[t] /\ stale' = stale /\ ended' = ended
    BY <1>1 DEF db
  <2> QED BY <1>6, <1>7, <1>9, <2>1 DEF RotationSound, NoEntry
<1> QED BY <1>1, <1>4, <1>6, <1>10, <1>11, ExchangeMoves DEF db

LEMMA AnswerStep ==
  ASSUME SessionsInv, NEW t \in TokenIds, AnswerExchange(t)
  PROVE  SessionsInv'
<1>1. exchange[t].st = "ok" => Precedes(t, exchange[t].tok)
  BY DEF SessionsInv, EntrySound
<1>2. exchange[t].st = "refused" /\ tokens[t].state = "rotated" => CauseKnown(t)'
  BY ReuseHasCause DEF AnswerExchange, CauseKnown, db
<1>3. PICK e : e = exchange[t]
  OBVIOUS
<1> QED BY <1>1, <1>2, <1>3, SettleStep DEF AnswerExchange, browser

\* An answer nobody hears: the family's exchange is known to have failed for the web server.
LEMMA LoseStep ==
  ASSUME SessionsInv, NEW t \in TokenIds, LoseAnswer(t)
  PROVE  SessionsInv'
<1>1. PICK e : e = [st |-> "refused"]
  OBVIOUS
<1>2. e.st = "refused" /\ Settle(t, e)
  BY <1>1 DEF LoseAnswer
<1>3. CauseKnown(t)' /\ unheard \subseteq unheard'
  BY DEF LoseAnswer, CauseKnown, db
<1> QED BY <1>2, <1>3, SettleStep DEF LoseAnswer, browser

\* What the web server kept is dropped: it knows why, or the session goes on without the token.
LEMMA EvictStep ==
  ASSUME SessionsInv, NEW t \in TokenIds, Evict(t)
  PROVE  SessionsInv'
<1>1. StaffInv' /\ LinksShaped' /\ RowsKept /\ CarriersShaped' /\ NoNewCarrier
  <2>1. StaffInv' /\ LinksShaped' /\ RowsKept
    BY StaffStays, LinksStay DEF SessionsInv, db, RowsKept, TokenIds, Evict
  <2> QED BY <2>1, CarriersKept DEF Evict, browser, SessionsInv
<1>2. PICK none, e : none = NoEntry /\ e = exchange[t]
  OBVIOUS
<1>3. /\ handoff' = [handoff EXCEPT ![t] = none] /\ exchange' = [exchange EXCEPT ![t] = e]
      /\ handoff'[t] = NoEntry /\ exchange'[t] = exchange[t]
  BY <1>2 DEF Evict, SessionsInv, TokensShaped, HasRows, TokenIds
<1>4. EntrySound(t) /\ RotationSound(t)
  BY DEF SessionsInv
<1>5. /\ tokens' = tokens /\ stale' = stale /\ ended' = ended /\ unheard \subseteq unheard'
      /\ CauseKnown(t) => CauseKnown(t)'
      /\ ~CauseKnown(t)' => handoff[t].st # "running" /\ Gone(t)
  BY DEF Evict, db, browser, CauseKnown
<1>6. exchange[t] # NoEntry => handoff[t] = [st |-> "running"] /\ CauseKnown(t)'
  BY <1>4, <1>5 DEF EntrySound, Evict
<1>7. EntrySound(t)'
  BY <1>3, <1>4, <1>5, <1>6, PrecedesKept, <1>1 DEF EntrySound, NoEntry
<1>8. RotationSound(t)'
  <2>1. Gone(t) => Gone(t)'
    BY <1>1, GoneStays DEF SessionsInv
  <2> QED BY <1>3, <1>4, <1>5, <1>6, <2>1 DEF RotationSound
<1> QED BY <1>1, <1>3, <1>5, <1>7, <1>8, ExchangeMoves DEF Evict, db, browser

\* A read of the session that moves and no token or entry does.
LEMMA CallStep ==
  ASSUME SessionsInv, NEW s \in Slots, NEW c, calls' = [calls EXCEPT ![s] = c],
         IsCall(c), CallGoesOn(s, c)
  PROVE  UNCHANGED <<tokens, cookie>> => CarriersShaped' /\ NoNewCarrier
<1>1. calls' = [x \in Slots |-> calls'[x]] /\ calls'[s] = c /\ \A x \in Slots : x # s => calls'[x] = calls[x]
  BY DEF SessionsInv, CarriersShaped
<1> QED BY <1>1, CallsGoOn

LEMMA QuietCall ==
  ASSUME SessionsInv, CarriersShaped', NoNewCarrier,
         UNCHANGED <<staff, db, handoff, exchange, unheard, stale>>
  PROVE  SessionsInv'
  BY QuietStep, StaffStays, LinksStay DEF SessionsInv, db
LEMMA JwtStep ==
  ASSUME SessionsInv, NEW s \in Slots, JwtCallback(s)
  PROVE  SessionsInv'
<1>1. PICK c, t : c = calls[s] /\ t = c.was.tok
  OBVIOUS
<1>2. c.st = "sent" /\ c # NoCall
  BY <1>1 DEF JwtCallback, NoCall
<1>3. IsCall(c) /\ IsCookie(c.was) /\ c.b \in Browsers /\ t \in TokenIds /\ EntrySound(t) /\ RotationSound(t)
  BY <1>1, <1>2 DEF SessionsInv, CarriersShaped, IsCall, IsCookie
<1>4. UNCHANGED <<staff, db, unheard, stale, cookie>> /\ tokens' = tokens
  BY DEF JwtCallback, browser, db
<1>5. Carried(t)
  BY <1>1, <1>2 DEF Carried
<1>6. ASSUME NEW o, IsCookie(o), o.tok = t \/ Precedes(t, o.tok),
             calls' = [calls EXCEPT ![s] = Answered(c, o)], UNCHANGED <<handoff, exchange>>
      PROVE  SessionsInv'
  <2>1. PICK d : d = [st |-> "done", b |-> c.b, was |-> c.was, out |-> o]
    OBVIOUS
  <2>2. calls' = [calls EXCEPT ![s] = d] /\ d.st = "done" /\ d.was = c.was /\ d.out = o /\ IsCall(d) /\ d # NoCall
    BY <1>3, <1>6, <2>1 DEF Answered, IsCall, NoCall
  <2>3. CallGoesOn(s, d)
    BY <1>1, <1>2, <1>6, <2>2 DEF CallGoesOn
  <2> QED BY <1>4, <1>6, <2>2, <2>3, CallStep, QuietCall
<1>7. CASE /\ t \notin stale /\ calls' = [calls EXCEPT ![s] = Answered(c, c.was)]
           /\ UNCHANGED <<handoff, exchange>>
  BY <1>1, <1>3, <1>6, <1>7
<1>8. CASE /\ t \in stale /\ handoff[t].st = "done"
           /\ calls' = [calls EXCEPT ![s] = Answered(c, Renewed(c.was, handoff[t]))]
           /\ UNCHANGED <<handoff, exchange>>
  <2>1. Precedes(t, handoff[t].tok)
    BY <1>3, <1>8 DEF EntrySound
  <2>2. PICK o : o = Renewed(c.was, handoff[t])
    OBVIOUS
  <2>3. IsCookie(o) /\ o.tok = handoff[t].tok
    BY <1>1, <1>3, <2>1, <2>2, RenewedIsCookie
  <2>4. calls' = [calls EXCEPT ![s] = Answered(c, o)]
    BY <1>8, <2>2
  <2> QED BY <1>6, <1>8, <2>1, <2>3, <2>4
<1>9. ASSUME calls' = [calls EXCEPT ![s].st = "waiting"]
      PROVE  CarriersShaped' /\ NoNewCarrier
  <2>1. PICK d : d = [c EXCEPT !.st = "waiting"]
    OBVIOUS
  <2>2. calls' = [calls EXCEPT ![s] = d]
    BY <1>1, <1>9, <2>1
  <2>3. DOMAIN c = {"st", "b", "was"}
    BY <1>2, <1>3 DEF IsCall
  <2>4. d.st = "waiting" /\ d.was = c.was /\ d.b = c.b /\ DOMAIN d = {"st", "b", "was"} /\ d # NoCall
    BY <2>1, <2>3 DEF NoCall
  <2>5. IsCall(d) /\ CallGoesOn(s, d)
    BY <1>1, <1>2, <1>3, <2>4 DEF IsCall, CallGoesOn
  <2> QED BY <1>4, <2>2, <2>5, CallStep
<1>10. CASE /\ t \in stale /\ handoff[t].st = "running" /\ calls' = [calls EXCEPT ![s].st = "waiting"]
            /\ UNCHANGED <<handoff, exchange>>
  BY <1>4, <1>9, <1>10, QuietCall
<1>11. CASE /\ t \in stale /\ handoff[t] = NoEntry /\ exchange[t] = NoEntry /\ calls' = [calls EXCEPT ![s].st = "waiting"]
            /\ handoff' = [handoff EXCEPT ![t] = [st |-> "running"]]
            /\ exchange' = [exchange EXCEPT ![t] = [st |-> "sent"]]
  <2>1. CarriersShaped' /\ NoNewCarrier
    BY <1>9, <1>11
  <2>2. PICK h, e : h = [st |-> "running"] /\ e = [st |-> "sent"]
    OBVIOUS
  <2>3. /\ handoff' = [handoff EXCEPT ![t] = h] /\ exchange' = [exchange EXCEPT ![t] = e]
        /\ handoff'[t] = h /\ exchange'[t] = e /\ e.st = "sent"
    BY <1>3, <1>11, <2>2 DEF SessionsInv, TokensShaped, HasRows, TokenIds
  <2>4. handoff[t].st # "done" /\ exchange[t] = NoEntry /\ ~Gone(t)
    <3>1. t \in 1 .. t
      BY <1>3 DEF TokenIds
    <3> QED BY <1>5, <1>11, <3>1 DEF NoEntry, Gone
  <2>5. tokens[t].state = "rotated" => CauseKnown(t)
    BY <1>3, <2>4 DEF RotationSound, NoEntry
  <2>6. tokens'[t] = tokens[t] /\ stale' = stale /\ ended' = ended /\ unheard' = unheard
    BY <1>4 DEF db
  <2>7. EntrySound(t)'
    BY <1>11, <2>2, <2>3, <2>6 DEF EntrySound
  <2>8. RotationSound(t)'
    BY <1>3, <2>3, <2>5, <2>6 DEF RotationSound, CauseKnown
  <2>9. StaffInv' /\ UNCHANGED <<tokens, ended, alarms, stale, links, resetting, changes>>
    BY <1>4, StaffStays DEF SessionsInv, db
  <2>10. unheard \subseteq unheard'
    BY <1>4
  <2> QED BY <1>3, <2>1, <2>3, <2>7, <2>8, <2>9, <2>10, ExchangeMoves
<1> QED BY <1>1, <1>7, <1>8, <1>10, <1>11 DEF JwtCallback

LEMMA PollStep ==
  ASSUME SessionsInv, NEW s \in Slots, NEW b \in Browsers, Poll(s, b)
  PROVE  SessionsInv'
<1>1. PICK c : c = [st |-> "sent", b |-> b, was |-> cookie[b]]
  OBVIOUS
<1>2. calls[s] = NoCall /\ cookie[b] # NoCookie /\ calls' = [calls EXCEPT ![s] = c]
  BY <1>1 DEF Poll
<1>3. IsCall(c)
  BY <1>1, <1>2 DEF SessionsInv, CarriersShaped, IsCall
<1>4. CallGoesOn(s, c)
  BY <1>1, <1>2 DEF CallGoesOn, NoCall
<1> QED BY <1>2, <1>3, <1>4, CallStep, QuietCall DEF Poll, db, browser

\* An answer reaches its browser's cookie, or no page.
LEMMA DeliverStep ==
  ASSUME SessionsInv, NEW s \in Slots, Deliver(s)
  PROVE  SessionsInv'
<1>1. PICK c : c = calls[s]
  OBVIOUS
<1>2. c.st = "done" /\ c # NoCall /\ c.b \in Browsers /\ IsCookie(c.out)
  BY <1>1 DEF Deliver, NoCall, SessionsInv, CarriersShaped, IsCall
<1>3. tokens' = tokens /\ (cookie' = cookie \/ cookie' = [cookie EXCEPT ![c.b] = c.out])
      /\ calls' = [calls EXCEPT ![s] = NoCall]
  BY <1>1 DEF Deliver, db
<1>4. \A x : (IsCookie(x) <=> IsCookie(x)') /\ (IsCall(x) <=> IsCall(x)')
  BY <1>3 DEF IsCookie, IsCall, TokenIds
<1>5. /\ cookie' = [b \in Browsers |-> cookie'[b]]
      /\ \A b \in Browsers : cookie'[b] = cookie[b] \/ cookie'[b] = c.out
  BY <1>2, <1>3 DEF SessionsInv, CarriersShaped
<1>6. /\ calls' = [x \in Slots |-> calls'[x]]
      /\ \A x \in Slots : calls'[x] = calls[x] \/ calls'[x] = NoCall
  BY <1>3 DEF SessionsInv, CarriersShaped
<1>7. CarriersShaped'
  BY <1>2, <1>4, <1>5, <1>6 DEF SessionsInv, CarriersShaped
<1>8. ASSUME NEW t \in TokenIds, Carried(t)'
      PROVE  Carried(t)
  <2>1. CASE \E b \in Browsers : cookie'[b].tok = t
    BY <1>1, <1>2, <1>5, <2>1 DEF Carried
  <2>2. CASE \E x \in Slots : /\ calls'[x] # NoCall
                              /\ calls'[x].was.tok = t \/ (calls'[x].st = "done" /\ calls'[x].out.tok = t)
    BY <1>6, <2>2 DEF Carried
  <2> QED BY <1>8, <2>1, <2>2 DEF Carried
<1>9. NoNewCarrier
  BY <1>8 DEF NoNewCarrier
<1> QED BY <1>7, <1>9, QuietCall DEF Deliver

\* A browser whose cookie goes carries nothing.
LEMMA CookieGoes ==
  ASSUME SessionsInv, NEW b \in Browsers, cookie' = [cookie EXCEPT ![b] = NoCookie],
         UNCHANGED <<staff, db, web, stale>>
  PROVE  SessionsInv'
<1>1. \A a \in Browsers : cookie'[a] = cookie[a] \/ cookie'[a] = NoCookie
  BY DEF SessionsInv, CarriersShaped
<1>2. tokens' = tokens /\ calls' = calls /\ cookie' = [a \in Browsers |-> cookie'[a]]
  BY DEF SessionsInv, CarriersShaped, db, web
<1>3. \A x : (IsCookie(x) <=> IsCookie(x)') /\ (IsCall(x) <=> IsCall(x)')
  BY <1>2 DEF IsCookie, IsCall, TokenIds
<1>4. CarriersShaped'
  BY <1>1, <1>2, <1>3 DEF SessionsInv, CarriersShaped
<1>5. \A t \in TokenIds : t # NoCookie.tok
  BY DEF TokenIds, NoCookie
<1>6. NoNewCarrier
  BY <1>1, <1>2, <1>5 DEF NoNewCarrier, Carried
<1> QED BY <1>4, <1>6, QuietCall DEF web

\* Time passes, and nothing but the token's age changes.
LEMMA ExpireStep ==
  ASSUME SessionsInv, NEW t \in TokenIds, Expire(t)
  PROVE  SessionsInv'
<1>1. stale' = stale \cup {t} /\ UNCHANGED <<staff, db, web, cookie>>
  BY DEF Expire
<1>2. tokens' = tokens /\ TokenIds' = TokenIds /\ RowsKept
  BY <1>1 DEF db, RowsKept, TokenIds
<1>3. TokensShaped'
  BY <1>1, <1>2 DEF SessionsInv, TokensShaped, HasRows, TokenRow, db, web
<1>4. CarriersShaped' /\ NoNewCarrier
  BY <1>1, <1>2, CarriersKept DEF SessionsInv, web
<1>5. Endings' /\ LinksShaped' /\ StaffInv'
  BY <1>1, <1>2, StaffStays, LinksStay DEF SessionsInv, Endings, EndedStaysEnded, Live, NoFalseAlarm, db
<1>6. ASSUME NEW u \in TokenIds
      PROVE  EntrySound(u)' /\ RotationSound(u)'
  <2>1. EntrySound(u) /\ RotationSound(u) /\ handoff' = handoff /\ exchange' = exchange
        /\ ended' = ended /\ unheard' = unheard
    BY <1>1 DEF SessionsInv, db, web
  <2>2. CauseKnown(u)' <=> CauseKnown(u)
    BY <1>2, <2>1 DEF CauseKnown
  <2>3. Gone(u) => Gone(u)'
    BY <1>2, <1>4, GoneStays DEF SessionsInv
  <2>4. \A v, w : Precedes(v, w)' <=> Precedes(v, w)
    BY <1>2 DEF Precedes
  <2> QED BY <1>1, <1>2, <2>1, <2>2, <2>3, <2>4 DEF EntrySound, RotationSound
<1> QED BY <1>2, <1>3, <1>4, <1>5, <1>6 DEF SessionsInv
-----------------------------------------------------------------------------
(* What ends families, and the reset links *)

\* The families the account has, ended without a password or a link: sign-out, revocation.
LEMMA SomeFamiliesEnd ==
  ASSUME SessionsInv, NEW fs \in SUBSET Families, NEW known,
         tokens' = RevokedWhere(fs, known), ended' = ended \cup fs,
         UNCHANGED <<staff, alarms, links, resetting, changes, web, cookie, stale>>
  PROVE  SessionsInv'
<1>1. StaffInv' /\ LinksShaped'
  BY StaffStays, LinksStay DEF SessionsInv
<1>2. NoFalseAlarm' /\ UNCHANGED <<calls, handoff, unheard>> /\ exchange' = exchange
  BY DEF SessionsInv, Endings, NoFalseAlarm, web
<1>3. HasRows(exchange', Len(tokens))
  BY <1>2 DEF SessionsInv, TokensShaped
<1> QED BY <1>1, <1>2, <1>3, FamiliesEnd

\* Everything ends together: a changed password, a reset, a reported reuse.
LEMMA AllFamiliesEnd ==
  ASSUME SessionsInv, EndAll, ended' = ended \cup Families, LinksShaped', NoFalseAlarm',
         UNCHANGED <<owner, cutOff, invites, desk, answer, cookie, calls, stale, handoff, unheard>>,
         \/ exchange' = exchange
         \/ \E t \in TokenIds : exchange[t].st = "reuse" /\ exchange' = [exchange EXCEPT ![t] = [st |-> "refused"]]
  PROVE  SessionsInv'
<1>1. StaffInv'
  <2>1. PICK v : v = IF people[Me].version < MaxVersion THEN people[Me].version + 1 ELSE people[Me].version
    OBVIOUS
  <2>2. people' = [people EXCEPT ![Me].version = v]
    BY <2>1 DEF EndAll
  <2> QED BY <2>2, VersionCounts DEF SessionsInv
<1>2. Len(tokens) \in Nat /\ HasRows(exchange, Len(tokens)) /\ DOMAIN exchange = TokenIds
  BY DEF SessionsInv, TokensShaped, HasRows, TokenIds
<1>3. HasRows(exchange', Len(tokens))
  <2>1. CASE exchange' = exchange
    BY <1>2, <2>1
  <2>2. ASSUME NEW t \in TokenIds, exchange' = [exchange EXCEPT ![t] = [st |-> "refused"]]
        PROVE  HasRows(exchange', Len(tokens))
    <3>1. PICK e : e = [st |-> "refused"]
      OBVIOUS
    <3> QED BY <1>2, <2>2, <3>1, EntryWritten
  <2> QED BY <2>1, <2>2
<1>4. \A u \in TokenIds : \/ exchange'[u] = exchange[u]
                          \/ exchange[u].st = "reuse" /\ exchange'[u] = [st |-> "refused"]
  BY <1>2
<1> QED BY <1>1, <1>3, <1>4, FamiliesEnd DEF EndAll

LEMMA LogoutStep ==
  ASSUME SessionsInv, NEW b \in Browsers, Logout(b)
  PROVE  SessionsInv'
<1>1. IsCookie(cookie[b])
  BY DEF Logout, SessionsInv, CarriersShaped
<1>2. CASE /\ tokens' = RevokedWhere({cookie[b].fam}, cookie[b].tok)
           /\ ended' = ended \cup {cookie[b].fam}
  <2>1. {cookie[b].fam} \in SUBSET Families
    BY <1>1 DEF IsCookie, Families
  <2> QED BY <1>2, <2>1, SomeFamiliesEnd DEF Logout
<1>3. CASE UNCHANGED <<tokens, ended>>
  <2>1. UNCHANGED <<staff, db, web, cookie, stale>>
    BY <1>3 DEF Logout, db
  <2>2. RowsKept
    BY <1>3 DEF RowsKept, TokenIds
  <2> QED BY <2>1, <2>2, CarriersKept, QuietCall DEF web, SessionsInv
<1> QED BY <1>2, <1>3 DEF Logout

LEMMA RevokeStep ==
  ASSUME SessionsInv, NEW b \in Browsers, NEW f \in Families, RevokeSession(b, f)
  PROVE  SessionsInv'
  BY SomeFamiliesEnd DEF RevokeSession, browser

LEMMA ChangeStep ==
  ASSUME SessionsInv, NEW b \in Browsers, ChangePassword(b)
  PROVE  SessionsInv'
<1>1. LinksShaped' /\ NoFalseAlarm'
  BY LinksStay DEF ChangePassword, SessionsInv, Endings, NoFalseAlarm
<1> QED BY <1>1, AllFamiliesEnd DEF ChangePassword, web

\* A reuse that is reported has a cause: the alarm it leaves says so.
LEMMA ReportStep ==
  ASSUME SessionsInv, NEW t \in TokenIds, ReportReuse(t)
  PROVE  SessionsInv'
<1>1. CauseKnown(t)
  BY DEF ReportReuse, SessionsInv, RotationSound
<1>2. NoFalseAlarm'
  <2>1. PICK a : a = [fam |-> tokens[t].fam, cause |-> tokens[t].fam \in ended \cup unheard]
    OBVIOUS
  <2>2. a.cause
    BY <1>1, <2>1 DEF CauseKnown
  <2>3. alarms' = alarms \cup {a}
    BY <2>1 DEF ReportReuse
  <2> QED BY <2>2, <2>3 DEF SessionsInv, Endings, NoFalseAlarm
<1>3. LinksShaped'
  BY LinksStay DEF ReportReuse, SessionsInv
<1> QED BY <1>2, <1>3, AllFamiliesEnd DEF ReportReuse, browser

\* The links change and nothing of the sessions does.
LEMMA LinkStep ==
  ASSUME SessionsInv, LinksShaped', UNCHANGED <<staff, tokens, ended, alarms, web, browser>>
  PROVE  SessionsInv'
<1>1. RowsKept
  BY DEF RowsKept, TokenIds
<1>2. CarriersShaped' /\ NoNewCarrier
  BY <1>1, CarriersKept DEF web, browser, SessionsInv
<1> QED BY <1>2, QuietStep, StaffStays DEF SessionsInv, web, browser

LEMMA RequestStep ==
  ASSUME SessionsInv, RequestReset
  PROVE  SessionsInv'
<1>1. PICK n \in Nat : n = Len(links)
  BY DEF SessionsInv, LinksShaped
<1>2. DOMAIN links = 1 .. n /\ HasRows(changes, n) /\ links \in Seq({"used", "unused"})
  BY <1>1 DEF SessionsInv, LinksShaped
<1>3. PICK voided : voided = [l \in 1 .. n |-> "used"]
  OBVIOUS
<1>4. voided \in Seq({"used", "unused"}) /\ Len(voided) = n
  BY <1>3
<1>5. links' = Append(voided, "unused") /\ changes' = Append(changes, 0) /\ resetting' = resetting
  BY <1>2, <1>3 DEF RequestReset
<1>6. /\ links' \in Seq({"used", "unused"}) /\ Len(links') = n + 1 /\ links'[n + 1] = "unused"
      /\ \A l \in 1 .. n : links'[l] = "used"
  BY <1>3, <1>4, <1>5
<1>7. HasRows(changes', n + 1) /\ changes'[n + 1] = 0 /\ \A l \in 1 .. n : changes'[l] = changes[l]
  <2>1. Grows(changes, changes', 0, n)
    BY <1>2, <1>5, RowAdded
  <2> QED BY <2>1 DEF Grows
<1>8. LinksShaped'
  <2>1. \A l \in 1 .. n + 1 : changes'[l] \in {0, 1} /\ (links'[l] = "unused" => changes'[l] = 0)
    BY <1>1, <1>6, <1>7 DEF SessionsInv, LinksShaped
  <2>2. resetting' = [c \in Clerks |-> resetting'[c]] /\ \A c \in Clerks : resetting'[c] \in 0 .. n + 1
    BY <1>1, <1>5 DEF SessionsInv, LinksShaped
  <2> QED BY <1>6, <1>7, <2>1, <2>2 DEF LinksShaped
<1> QED BY <1>8, LinkStep DEF RequestReset

LEMMA ReadLinkStep ==
  ASSUME SessionsInv, NEW c \in Clerks, ReadLink(c)
  PROVE  SessionsInv'
<1>1. PICK l \in DOMAIN links : resetting' = [resetting EXCEPT ![c] = l] /\ UNCHANGED <<links, changes>>
  BY DEF ReadLink
<1>2. LinksShaped'
  BY <1>1 DEF SessionsInv, LinksShaped, HasRows
<1> QED BY <1>2, LinkStep DEF ReadLink

\* One reset uses its link; a concurrent one of the same link changes nothing.
LEMMA ResetStep ==
  ASSUME SessionsInv, NEW c \in Clerks, ResetPassword(c)
  PROVE  SessionsInv'
<1>1. PICK l : l = resetting[c]
  OBVIOUS
<1>2. PICK n \in Nat : n = Len(links)
  BY DEF SessionsInv, LinksShaped
<1>3. l \in 1 .. n /\ resetting' = [resetting EXCEPT ![c] = 0] /\ HasRows(changes, n)
  BY <1>1, <1>2 DEF ResetPassword, SessionsInv, LinksShaped
<1>4. resetting' = [d \in Clerks |-> resetting'[d]] /\ \A d \in Clerks : resetting'[d] \in 0 .. n
  BY <1>2, <1>3 DEF SessionsInv, LinksShaped
<1>5. CASE Claimable(l)
  <2>1. /\ EndAll /\ ended' = ended \cup Families
        /\ links' = [links EXCEPT ![l] = "used"] /\ changes' = [changes EXCEPT ![l] = changes[l] + 1]
    BY <1>1, <1>5 DEF ResetPassword
  <2>2. changes[l] = 0
    BY <1>2, <1>3, <1>5 DEF Claimable, SessionsInv, LinksShaped
  <2>3. HasRows(changes', n)
    BY <1>3, <2>1, EntryWritten
  <2>4. links' \in Seq({"used", "unused"}) /\ Len(links') = n
    BY <1>2, <1>3, <2>1 DEF SessionsInv, LinksShaped
  <2>5. \A k \in 1 .. n : changes'[k] \in {0, 1} /\ (links'[k] = "unused" => changes'[k] = 0)
    BY <1>2, <1>3, <2>1, <2>2 DEF SessionsInv, LinksShaped, HasRows
  <2>6. LinksShaped'
    BY <1>4, <2>3, <2>4, <2>5 DEF LinksShaped
  <2>7. NoFalseAlarm'
    BY DEF ResetPassword, SessionsInv, Endings, NoFalseAlarm
  <2> QED BY <2>1, <2>6, <2>7, AllFamiliesEnd DEF ResetPassword, web, browser
<1>6. CASE ~Claimable(l)
  <2>1. UNCHANGED <<people, tokens, ended, links, changes>>
    BY <1>1, <1>6 DEF ResetPassword
  <2>2. LinksShaped'
    BY <1>2, <1>4, <2>1 DEF SessionsInv, LinksShaped, HasRows
  <2> QED BY <2>1, <2>2, LinkStep DEF ResetPassword, staff
<1> QED BY <1>5, <1>6
-----------------------------------------------------------------------------
(* Every step, and the theorems *)

LEMMA LoginStep ==
  ASSUME SessionsInv, NEW b \in Browsers, Login(b)
  PROVE  SessionsInv'
<1>1. UNCHANGED <<staff, db, web, stale, cookie>>
  BY DEF Login
<1>2. RowsKept
  BY <1>1 DEF db, RowsKept, TokenIds
<1> QED BY <1>1, <1>2, CarriersKept, QuietCall DEF web, SessionsInv

LEMMA StaffOnly ==
  ASSUME SessionsInv, StaffInv', UNCHANGED <<db, web, browser>>
  PROVE  SessionsInv'
<1>1. RowsKept
  BY DEF db, RowsKept, TokenIds
<1> QED BY <1>1, CarriersKept, LinksStay, QuietStep DEF db, web, browser, SessionsInv

LEMMA SessionsGoOn == SessionsInv /\ [Next]_vars => SessionsInv'
<1> SUFFICES ASSUME SessionsInv, [Next]_vars PROVE SessionsInv'
  OBVIOUS
<1>1. CASE UNCHANGED vars
  BY <1>1, StaffOnly, StaffStays DEF vars, SessionsInv
<1>2. ASSUME NEW s \in Slots, JwtCallback(s) \/ Deliver(s)
      PROVE  SessionsInv'
  BY <1>2, JwtStep, DeliverStep
<1>3. ASSUME NEW t \in TokenIds, Refresh(t) \/ Expire(t) \/ LoseAnswer(t) \/ Evict(t)
      PROVE  SessionsInv'
  BY <1>3, ReadStep, RotateStep, ReportStep, AnswerStep, ExpireStep, LoseStep, EvictStep DEF Refresh
<1>4. ASSUME NEW b \in Browsers, Login(b) \/ OpenSession(b) \/ Logout(b) \/ ChangePassword(b)
      PROVE  SessionsInv'
  BY <1>4, LoginStep, OpenStep, LogoutStep, ChangeStep
<1>5. ASSUME NEW b \in Browsers, DropCookie(b) \/ SignOut(b)
      PROVE  SessionsInv'
  BY <1>5, CookieGoes DEF DropCookie, SignOut
<1>6. ASSUME NEW b \in Browsers, NEW f \in Families, RevokeSession(b, f)
      PROVE  SessionsInv'
  BY <1>6, RevokeStep
<1>7. ASSUME NEW b \in Browsers, NEW s \in Slots, Poll(s, b)
      PROVE  SessionsInv'
  BY <1>7, PollStep
<1>8. ASSUME NEW c \in Clerks, ReadLink(c) \/ ResetPassword(c)
      PROVE  SessionsInv'
  BY <1>8, ReadLinkStep, ResetStep
<1>9. CASE StaffStep /\ UNCHANGED <<db, web, browser>>
  BY <1>9, StaffGoesOn, StaffOnly DEF SessionsInv
<1>10. CASE RequestReset
  BY <1>10, RequestStep
<1> QED BY <1>1, <1>2, <1>3, <1>4, <1>5, <1>6, <1>7, <1>8, <1>9, <1>10 DEF Next, Server, User

\* The shop always has an owner with the owner's role, whom nobody locks out but by a request
\* that crossed the transfer to them or with the whole shop; an invitation opens one account and
\* only its own, and nobody signs in with Google to an account that was opened otherwise.
THEOREM StaffStaysSound == Spec => []StaffSound
<1>1. SessionsInv => StaffSound
  BY DEF SessionsInv, StaffInv
<1> QED BY <1>1, SessionsStart, SessionsGoOn, PTL DEF Spec

\* A family that was ended has no working token again, and a reset link sets one password.
\* Reuse is only ever reported where somebody ended the family, an exchange's answer was
\* lost or the web server forgot an exchange while a token it answers for was still about,
\* whatever overtakes what between the browsers, the web server and the API.
THEOREM SessionsStaySound == Spec => []SessionsSound
<1>1. ASSUME SessionsInv
      PROVE  SessionsSound
  <2>1. Len(tokens) \in Nat /\ TokensShaped /\ CarriersShaped /\ Endings /\ LinksShaped
        /\ \A t \in TokenIds : EntrySound(t)
    BY <1>1 DEF SessionsInv, TokensShaped
  <2>2. tokens \in Seq([fam : TokenIds, state : {"live", "rotated", "revoked"}])
    BY <2>1 DEF TokensShaped, TokenRow, States
  <2>3. Len(handoff) = Len(tokens) /\ Len(exchange) = Len(tokens) /\ stale \subseteq TokenIds
    BY <2>1 DEF TokensShaped, HasRows
  <2>4. \A b \in Browsers : cookie[b] # NoCookie => cookie[b].tok \in TokenIds /\ tokens[cookie[b].tok].fam = cookie[b].fam
    BY <2>1 DEF CarriersShaped, IsCookie
  <2>5. \A t \in TokenIds : exchange[t] # NoEntry => handoff[t].st # "done"
    BY <2>1 DEF EntrySound, NoEntry
  <2>6. ResetOnce
    <3>1. Len(links) \in Nat /\ HasRows(changes, Len(links))
          /\ \A l \in 1 .. Len(links) : changes[l] \in {0, 1}
      BY <2>1 DEF LinksShaped
    <3>2. DOMAIN changes = 1 .. Len(links)
      BY <3>1 DEF HasRows
    <3> QED BY <3>1, <3>2 DEF ResetOnce
  <2>7. EndedStaysEnded /\ NoFalseAlarm
    BY <2>1 DEF Endings
  <2> QED BY <2>2, <2>3, <2>4, <2>5, <2>6, <2>7 DEF SessionsSound, TypeOK
<1> QED BY <1>1, SessionsStart, SessionsGoOn, PTL DEF Spec
=============================================================================
