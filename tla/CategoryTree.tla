---------------------------- MODULE CategoryTree ----------------------------
(***************************************************************************)
(* The shop's categories with their materialized paths.  A move locks the  *)
(* category and its new parent and re-roots the subtree it finds by path;  *)
(* creations and deletions read first and write without a lock.            *)
(***************************************************************************)
EXTENDS Naturals, Sequences, FiniteSets, SequencesExt

CONSTANTS Cats,       \* category ids, 0 is the root
          Shelves,    \* the tree at the start: parent and path of every category in it
          Clerks      \* requests the server works on at a time

ASSUME TreeAssumption ==
  /\ Cats \subseteq Nat \ {0} /\ DOMAIN Shelves \subseteq Cats
  /\ Shelves \in [DOMAIN Shelves -> [parent : DOMAIN Shelves \cup {0}, path : Seq(Cats)]]
  /\ \A k \in DOMAIN Shelves :
       Shelves[k].path = IF Shelves[k].parent = 0 THEN <<>>
                         ELSE Append(Shelves[Shelves[k].parent].path, Shelves[k].parent)

VARIABLES cats,     \* Category rows
          tending,  \* the category request of each clerk
          raced,    \* categories created from a parent path that changed before the insert
          treeOps   \* category requests that may still come

tree == <<cats, tending, raced, treeOps>>

NoTask == [kind |-> "none"]
LiveCats == {k \in Cats : cats[k].state = "live"}

\* `${parent.path}${parent.id}/`
PathUnder(parent) == IF parent = 0 THEN <<>> ELSE Append(cats[parent].path, parent)

TreeInit ==
  /\ cats = [k \in Cats |->
                IF k \in DOMAIN Shelves
                THEN [state |-> "live", parent |-> Shelves[k].parent, path |-> Shelves[k].path]
                ELSE [state |-> "none", parent |-> 0, path |-> <<>>]]
  /\ tending = [c \in Clerks |-> NoTask] /\ raced = {}

AskTree(c, task) ==
  /\ tending[c] = NoTask /\ treeOps > 0 /\ treeOps' = treeOps - 1
  /\ tending' = [tending EXCEPT ![c] = task]
  /\ UNCHANGED <<cats, raced>>

EndTree(c) == tending' = [tending EXCEPT ![c] = NoTask]

\* Mutant: the new parent is read without FOR UPDATE.
RowLocksOfCategory(c) ==
  IF tending[c].kind \in {"locked", "checked"} THEN {tending[c].id} ELSE {}

\* Rows a clerk's transaction has locked.
RowLocks(c) ==
  IF tending[c].kind = "locked" THEN {tending[c].id}
  ELSE IF tending[c].kind = "checked" THEN {tending[c].id, tending[c].to} \ {0} ELSE {}

Blockers(c, rows) == {d \in Clerks \ {c} : RowLocks(d) \cap rows # {}}

\* `path LIKE '<oldPrefix>%'`, live rows only.
Descendants(id) ==
  {k \in LiveCats : IsPrefix(Append(cats[id].path, id), cats[k].path)}

-----------------------------------------------------------------------------

\* create: the parent's path as it is now.
AskCreateCategory(c, k, parent) ==
  /\ cats[k].state = "none" /\ parent \in LiveCats \cup {0}
  /\ \A d \in Clerks : tending[d].kind = "create" => tending[d].id # k
  /\ AskTree(c, [kind |-> "create", id |-> k, to |-> parent, path |-> PathUnder(parent)])

\* The insert waits for whoever has its parent's row locked (foreign key).
CreateCategory(c) ==
  LET r == tending[c]
  IN /\ r.kind = "create" /\ Blockers(c, {r.to}) = {}
     /\ cats' = [cats EXCEPT ![r.id] = [state |-> "live", parent |-> r.to, path |-> r.path]]
     /\ raced' = IF r.path = PathUnder(r.to) THEN raced ELSE raced \cup {r.id}
     /\ EndTree(c) /\ UNCHANGED treeOps

\* softDelete: no live children when it looked.
AskDeleteCategory(c, k) ==
  /\ k \in LiveCats /\ \A j \in LiveCats : cats[j].parent # k
  /\ AskTree(c, [kind |-> "delete", id |-> k])

DeleteCategory(c) ==
  LET r == tending[c]
  IN /\ r.kind = "delete" /\ Blockers(c, {r.id}) = {}
     /\ cats' = [cats EXCEPT ![r.id].state = "deleted"]
     /\ EndTree(c) /\ UNCHANGED <<raced, treeOps>>

AskMove(c, id, to) ==
  /\ id \in LiveCats /\ to \in LiveCats \cup {0} /\ to # id
  /\ AskTree(c, [kind |-> "move", id |-> id, to |-> to])

\* SELECT ... FOR UPDATE of the category; an unchanged parent ends the move here.
LockCategory(c) ==
  LET r == tending[c]
  IN /\ r.kind = "move" /\ Blockers(c, {r.id}) = {}
     /\ tending' = [tending EXCEPT ![c] =
          IF r.id \notin LiveCats \/ cats[r.id].parent = r.to THEN NoTask
          ELSE IF r.to = 0 THEN [kind |-> "checked", id |-> r.id, to |-> 0, path |-> <<>>]
          ELSE [r EXCEPT !.kind = "locked"]]
     /\ UNCHANGED <<cats, raced, treeOps>>

\* The new parent likewise; under the category itself it is refused.
LockParent(c) ==
  LET r == tending[c]
  IN /\ r.kind = "locked" /\ Blockers(c, {r.to}) = {}
     /\ tending' = [tending EXCEPT ![c] =
          IF r.to \notin LiveCats \/ \E i \in DOMAIN cats[r.to].path : cats[r.to].path[i] = r.id THEN NoTask
          ELSE [kind |-> "checked", id |-> r.id, to |-> r.to, path |-> PathUnder(r.to)]]
     /\ UNCHANGED <<cats, raced, treeOps>>

\* updateDescendantsPath: the old prefix is swapped for the new one.
Rerooted(k, r) ==
  LET old == Append(cats[r.id].path, r.id)
  IN Append(r.path, r.id) \o SubSeq(cats[k].path, Len(old) + 1, Len(cats[k].path))

\* The update of the subtree waits for rows of it that others have locked.
MoveSubtree(c) ==
  LET r == tending[c]
  IN /\ r.kind = "checked" /\ Blockers(c, Descendants(r.id)) = {}
     /\ cats' = [k \in Cats |->
          IF k = r.id THEN [cats[k] EXCEPT !.parent = r.to, !.path = r.path]
          ELSE IF k \in Descendants(r.id) THEN [cats[k] EXCEPT !.path = Rerooted(k, r)] ELSE cats[k]]
     /\ EndTree(c) /\ UNCHANGED <<raced, treeOps>>

WaitsFor(c) ==
  LET r == tending[c]
  IN CASE r.kind = "move" -> Blockers(c, {r.id})
       [] r.kind \in {"locked", "create"} -> Blockers(c, {r.to})
       [] r.kind = "delete" -> Blockers(c, {r.id})
       [] r.kind = "checked" -> Blockers(c, Descendants(r.id))
       [] OTHER -> {}

\* InnoDB ends one of the transactions that wait for each other.
TreeVictim(c) ==
  /\ \E S \in SUBSET Clerks : c \in S /\ \A d \in S : WaitsFor(d) \cap S # {}
  /\ EndTree(c) /\ UNCHANGED <<cats, raced, treeOps>>

TreeServe(c) ==
  \/ CreateCategory(c) \/ DeleteCategory(c)
  \/ LockCategory(c) \/ LockParent(c) \/ MoveSubtree(c) \/ TreeVictim(c)

TreeStep ==
  \E c \in Clerks :
    \/ /\ tending[c] = NoTask /\ treeOps > 0
       /\ \/ \E k \in Cats, to \in Cats \cup {0} : AskCreateCategory(c, k, to) \/ AskMove(c, k, to)
          \/ \E k \in Cats : AskDeleteCategory(c, k)
    \/ tending[c] # NoTask /\ TreeServe(c)

-----------------------------------------------------------------------------

\* However moves interleave, every live category's path leads through its parent's:
\* no subtree is left behind or re-rooted twice, and no cycle can be built.  A
\* category created while its parent moved is the exception the code allows.
PathFollowsParent ==
  \A k \in LiveCats \ raced :
    IF cats[k].parent = 0 THEN cats[k].path = <<>>
    ELSE cats[k].parent \in LiveCats => cats[k].path = PathUnder(cats[k].parent)
=============================================================================
