-------------------------- MODULE CatalogueProofs --------------------------
(***************************************************************************)
(* Theorems about the catalogue, for any categories, clerks, products and  *)
(* revisions: paths follow their parents however moves interleave, nothing *)
(* is published that one person alone saw, SKUs and variants stay one of a *)
(* kind, prices within MRPs, and no misread label is registered.           *)
(***************************************************************************)
EXTENDS Catalogue, SumLemmas, SequenceTheorems, NaturalsInduction, TLAPS

-----------------------------------------------------------------------------
(* Paths *)

LEMMA PrefixAt ==
  ASSUME NEW S, NEW s \in Seq(S), NEW t \in Seq(S)
  PROVE  IsPrefix(s, t) <=> Len(s) <= Len(t) /\ \A i \in 1 .. Len(s) : s[i] = t[i]
  BY DEF IsPrefix

LEMMA PrefixOfOneMore ==
  ASSUME NEW S, NEW s \in Seq(S), NEW t \in Seq(S), NEW a \in Seq(S), Len(a) = Len(t) + 1,
         \A i \in 1 .. Len(t) : a[i] = t[i]
  PROVE  IsPrefix(s, a) <=> IsPrefix(s, t) \/ s = a
<1>1. Len(s) \in Nat /\ Len(t) \in Nat
  OBVIOUS
<1>2. IsPrefix(s, a) <=> Len(s) <= Len(a) /\ \A i \in 1 .. Len(s) : s[i] = a[i]
  BY PrefixAt
<1>3. IsPrefix(s, t) <=> Len(s) <= Len(t) /\ \A i \in 1 .. Len(s) : s[i] = t[i]
  BY PrefixAt
<1>4. ASSUME IsPrefix(s, a) PROVE IsPrefix(s, t) \/ s = a
  <2>1. CASE Len(s) <= Len(t)
    BY <1>1, <1>2, <1>3, <1>4, <2>1
  <2>2. CASE Len(s) = Len(a)
    BY <1>2, <1>4, <2>2
  <2> QED BY <1>1, <1>2, <1>4, <2>1, <2>2
<1> QED BY <1>1, <1>2, <1>3, <1>4

\* What lies below the last category of a path lies below the path, or is that category.
LEMMA PrefixOfLonger ==
  ASSUME NEW S, NEW s \in Seq(S), NEW t \in Seq(S), NEW x \in S
  PROVE  /\ Append(t, x) \in Seq(S) /\ Len(Append(t, x)) = Len(t) + 1
         /\ IsPrefix(s, Append(t, x)) <=> IsPrefix(s, t) \/ s = Append(t, x)
<1>1. PICK a : a = Append(t, x)
  OBVIOUS
<1>2. a \in Seq(S) /\ Len(a) = Len(t) + 1 /\ \A i \in 1 .. Len(t) : a[i] = t[i]
  BY <1>1
<1>3. IsPrefix(s, a) <=> IsPrefix(s, t) \/ s = a
  BY <1>2, PrefixOfOneMore
<1> QED BY <1>1, <1>2, <1>3, Zenon

LEMMA NotBelowItself ==
  ASSUME NEW S, NEW t \in Seq(S), NEW x \in S
  PROVE  ~IsPrefix(Append(t, x), t)
  BY DEF IsPrefix

LEMMA BelowMeetsIt ==
  ASSUME NEW S, NEW s \in Seq(S), NEW t \in Seq(S), NEW x \in S, IsPrefix(Append(t, x), s)
  PROVE  \E i \in DOMAIN s : s[i] = x
<1>1. PICK a : a = Append(t, x)
  OBVIOUS
<1>2. a \in Seq(S) /\ Len(a) = Len(t) + 1 /\ a[Len(t) + 1] = x /\ Len(t) \in Nat /\ IsPrefix(a, s)
  BY <1>1
<1>3. Len(a) <= Len(s) /\ \A i \in 1 .. Len(a) : a[i] = s[i]
  BY <1>2, PrefixAt
<1> QED BY <1>2, <1>3

\* A path with its old prefix swapped for a new one.
Swapped(old, new, s) == new \o SubSeq(s, Len(old) + 1, Len(s))

LEMMA SwappedIsPath ==
  ASSUME NEW S, NEW old \in Seq(S), NEW new \in Seq(S), NEW s \in Seq(S), Len(old) <= Len(s)
  PROVE  Swapped(old, new, s) \in Seq(S) /\ Swapped(old, new, old) = new
  BY DEF Swapped

\* The path a is s and one category more.
Grows(s, x, a) == a = Append(s, x)

LEMMA SwappedGrows ==
  ASSUME NEW S, NEW old \in Seq(S), NEW new \in Seq(S), NEW s \in Seq(S), NEW x \in S, Len(old) <= Len(s),
         NEW a, Grows(s, x, a)
  PROVE  Grows(Swapped(old, new, s), x, Swapped(old, new, a))
<1>1. /\ Len(old) \in Nat /\ Len(new) \in Nat /\ Len(s) \in Nat
      /\ a \in Seq(S) /\ Len(a) = Len(s) + 1 /\ a[Len(s) + 1] = x /\ \A i \in 1 .. Len(s) : a[i] = s[i]
  BY DEF Grows
<1>2. PICK u, v : u = SubSeq(s, Len(old) + 1, Len(s)) /\ v = SubSeq(a, Len(old) + 1, Len(s) + 1)
  OBVIOUS
<1>3. /\ u \in Seq(S) /\ Len(u) = Len(s) - Len(old)
      /\ \A i \in 1 .. Len(u) : u[i] = s[Len(old) + i]
  BY <1>1, <1>2
<1>4. /\ v \in Seq(S) /\ Len(v) = Len(s) + 1 - Len(old)
      /\ \A i \in 1 .. Len(v) : v[i] = a[Len(old) + i]
  BY <1>1, <1>2
<1>5. v = Append(u, x)
  <2>1. PICK w : w = Append(u, x)
    OBVIOUS
  <2>2. w \in Seq(S) /\ Len(w) = Len(u) + 1 /\ w[Len(u) + 1] = x /\ \A i \in 1 .. Len(u) : w[i] = u[i]
    BY <1>3, <2>1
  <2>3. Len(w) = Len(v) /\ Len(v) \in Nat
    BY <1>1, <1>3, <1>4, <2>2
  <2>4. ASSUME NEW i \in 1 .. Len(v) PROVE w[i] = v[i]
    <3>1. v[i] = a[Len(old) + i] /\ i <= Len(s) + 1 - Len(old)
      BY <1>4
    <3>2. CASE i = Len(u) + 1
      BY <1>1, <1>3, <2>2, <3>1, <3>2
    <3>3. CASE i # Len(u) + 1
      <4>1. i \in 1 .. Len(u) /\ Len(old) + i \in 1 .. Len(s)
        <5>1. PICK m \in Nat, n \in Nat : m = Len(old) /\ n = Len(s)
          BY <1>1
        <5>2. m <= n /\ Len(u) = n - m /\ Len(v) = n + 1 - m
          BY <1>3, <1>4, <5>1
        <5>3. i \in 1 .. n + 1 - m /\ i # n - m + 1
          BY <3>3, <5>2
        <5> QED BY <5>1, <5>2, <5>3
      <4> QED BY <1>1, <1>3, <2>2, <3>1, <4>1
    <3> QED BY <3>2, <3>3
  <2>5. w = v
    BY <1>4, <2>2, <2>3, <2>4, SeqEqual
  <2> QED BY <2>1, <2>5
<1>6. new \o Append(u, x) = Append(new \o u, x)
  BY <1>3
<1> QED BY <1>1, <1>2, <1>5, <1>6 DEF Swapped, Grows

-----------------------------------------------------------------------------
(* Categories *)

Row == [state : {"none", "live", "deleted"}, parent : Cats \cup {0}, path : Seq(Cats)]

\* A category there is or was, or the root.
Known(k) == k = 0 \/ (k \in Cats /\ cats[k].state # "none")

\* A move that may be written: the new parent's path is still what was read of it.
CheckedMove(r) ==
  /\ r.id \in LiveCats /\ r.path = PathUnder(r.to)
  /\ r.to # 0 => r.to \in LiveCats /\ r.to # r.id /\ \A i \in DOMAIN cats[r.to].path : cats[r.to].path[i] # r.id

\* A request under way: a creation has an id of its own, a lock what it locked.
TaskSound(r) ==
  /\ r.kind \in {"none", "create", "delete", "move", "locked", "checked"}
  /\ r.kind = "create" => /\ r.id \in Cats /\ cats[r.id].state = "none"
                          /\ Known(r.to) /\ r.path \in Seq(Cats)
  /\ r.kind = "delete" => r.id \in Cats /\ Known(r.id)
  /\ r.kind = "move" => /\ DOMAIN r = {"kind", "id", "to"} /\ r.id \in Cats /\ Known(r.id)
                        /\ Known(r.to) /\ r.to # r.id
  /\ r.kind = "locked" => r.id \in LiveCats /\ r.to \in Cats /\ Known(r.to) /\ r.to # r.id
  /\ r.kind = "checked" => CheckedMove(r)

TasksSound == tending = [c \in Clerks |-> tending[c]] /\ \A c \in Clerks : TaskSound(tending[c])

CreatesApart ==
  \A c, d \in Clerks :
    c # d /\ tending[c].kind = "create" /\ tending[d].kind = "create" => tending[c].id # tending[d].id

\* The rows a request holds, and that no two hold the same.
Held(r) ==
  IF r.kind = "locked" THEN {r.id} ELSE IF r.kind = "checked" THEN {r.id, r.to} \ {0} ELSE {}

LocksApart == \A c, d \in Clerks : c # d => Held(tending[c]) \cap Held(tending[d]) = {}

ParentsKnown == \A k \in Cats : cats[k].state # "none" => Known(cats[k].parent)

TreeInv ==
  /\ cats \in [Cats -> Row] /\ TasksSound /\ CreatesApart /\ LocksApart /\ ParentsKnown
  /\ PathFollowsParent

LEMMA TreeStarts == TreeInit => TreeInv
<1> SUFFICES ASSUME TreeInit PROVE TreeInv
  OBVIOUS
<1>1. \A k \in DOMAIN Shelves :
        /\ k \in Cats /\ Shelves[k].parent \in DOMAIN Shelves \cup {0} /\ Shelves[k].path \in Seq(Cats)
        /\ Shelves[k].path = IF Shelves[k].parent = 0 THEN <<>>
                             ELSE Append(Shelves[Shelves[k].parent].path, Shelves[k].parent)
  BY TreeAssumption
<1>2. ASSUME NEW k \in DOMAIN Shelves
      PROVE  /\ cats[k].state = "live" /\ cats[k].parent = Shelves[k].parent /\ cats[k].path = Shelves[k].path
             /\ cats[k] \in Row
  <2>1. PICK p, q : p = Shelves[k].parent /\ q = Shelves[k].path
    OBVIOUS
  <2>2. cats[k] = [state |-> "live", parent |-> p, path |-> q] /\ p \in Cats \cup {0} /\ q \in Seq(Cats)
    BY <1>1, <2>1 DEF TreeInit
  <2> QED BY <2>1, <2>2 DEF Row
<1>3. ASSUME NEW k \in Cats, k \notin DOMAIN Shelves
      PROVE  cats[k].state = "none" /\ cats[k] \in Row
  <2>1. PICK q : q = <<>>
    OBVIOUS
  <2>2. cats[k] = [state |-> "none", parent |-> 0, path |-> q] /\ q \in Seq(Cats)
    BY <1>3, <2>1 DEF TreeInit
  <2> QED BY <2>2 DEF Row
<1>4. cats \in [Cats -> Row]
  BY <1>2, <1>3 DEF TreeInit
<1>5. TasksSound /\ CreatesApart /\ LocksApart
  BY DEF TreeInit, NoTask, TasksSound, TaskSound, CreatesApart, LocksApart, Held
<1>6. \A k \in Cats : /\ k \in DOMAIN Shelves => cats[k].state = "live"
                      /\ k \notin DOMAIN Shelves => cats[k].state = "none"
  BY <1>2, <1>3
<1>7. \A k \in DOMAIN Shelves : cats[k].parent = Shelves[k].parent /\ cats[k].path = Shelves[k].path
  BY <1>2
<1>8. ParentsKnown
  <2>1. \A k \in DOMAIN Shelves : k \in Cats /\ cats[k].parent \in DOMAIN Shelves \cup {0}
    BY <1>1, <1>7
  <2> QED BY <1>6, <2>1 DEF ParentsKnown, Known
<1>9. PathFollowsParent
  <2>1. LiveCats = DOMAIN Shelves
    BY <1>1, <1>6 DEF LiveCats
  <2>2. ASSUME NEW k \in DOMAIN Shelves
        PROVE  IF cats[k].parent = 0 THEN cats[k].path = <<>> ELSE cats[k].path = PathUnder(cats[k].parent)
    BY <1>1, <1>7 DEF PathUnder
  <2> QED BY <2>1, <2>2 DEF PathFollowsParent
<1> QED BY <1>4, <1>5, <1>8, <1>9 DEF TreeInv

\* A request that moves on with what it holds, the categories as they are.
LEMMA TaskMoves ==
  ASSUME TreeInv, NEW c \in Clerks, NEW r, tending' = [tending EXCEPT ![c] = r],
         UNCHANGED <<cats, raced>>, TaskSound(r),
         \A d \in Clerks \ {c} : Held(r) \cap Held(tending[d]) = {},
         r.kind = "create" => \A d \in Clerks \ {c} : tending[d].kind = "create" => tending[d].id # r.id
  PROVE  TreeInv'
<1>1. tending' = [d \in Clerks |-> tending'[d]] /\ tending'[c] = r
      /\ \A d \in Clerks \ {c} : tending'[d] = tending[d]
  BY DEF TreeInv, TasksSound
<1>2. LiveCats' = LiveCats /\ \A x : (TaskSound(x) <=> TaskSound(x)')
  BY DEF LiveCats, TaskSound, CheckedMove, Known, PathUnder
<1>3. TasksSound'
  BY <1>1, <1>2 DEF TreeInv, TasksSound
<1>4. CreatesApart' /\ LocksApart'
  BY <1>1 DEF TreeInv, CreatesApart, LocksApart
<1>5. PathFollowsParent' /\ ParentsKnown'
  BY <1>2 DEF TreeInv, PathFollowsParent, ParentsKnown, Known, PathUnder
<1> QED BY <1>3, <1>4, <1>5 DEF TreeInv

\* What a clerk waits for is what others hold.
LEMMA NotHeld ==
  ASSUME NEW c \in Clerks, NEW rows, Blockers(c, rows) = {}, NEW d \in Clerks \ {c}
  PROVE  Held(tending[d]) \cap rows = {}
  BY DEF Blockers, RowLocks, Held

LEMMA TaskEnds ==
  ASSUME TreeInv, NEW c \in Clerks, EndTree(c), UNCHANGED <<cats, raced>>
  PROVE  TreeInv'
<1>1. TaskSound(NoTask) /\ Held(NoTask) = {} /\ NoTask.kind # "create"
  BY DEF TaskSound, NoTask, Held
<1> QED BY <1>1, TaskMoves DEF EndTree

LEMMA AskTreeStep ==
  ASSUME TreeInv, NEW c \in Clerks, NEW r, AskTree(c, r), TaskSound(r), r.kind \in {"create", "delete", "move"},
         r.kind = "create" => \A d \in Clerks : tending[d].kind = "create" => tending[d].id # r.id
  PROVE  TreeInv'
<1>1. Held(r) = {}
  BY DEF Held
<1> QED BY <1>1, TaskMoves DEF AskTree

\* What is asked for is about categories there are, or one there never was.
LEMMA AsksAreSound ==
  ASSUME TreeInv, NEW c \in Clerks, NEW k \in Cats, NEW to \in Cats \cup {0},
         AskCreateCategory(c, k, to) \/ AskMove(c, k, to) \/ AskDeleteCategory(c, k)
  PROVE  TreeInv'
<1>1. CASE AskCreateCategory(c, k, to)
  <2>1. PICK r : r = [kind |-> "create", id |-> k, to |-> to, path |-> PathUnder(to)]
    OBVIOUS
  <2>2. PathUnder(to) \in Seq(Cats) /\ Known(to)
    BY <1>1 DEF AskCreateCategory, PathUnder, LiveCats, Known, TreeInv, Row
  <2>3. r.kind = "create" /\ r.id = k /\ TaskSound(r)
    BY <1>1, <2>1, <2>2 DEF AskCreateCategory, TaskSound
  <2> QED BY <1>1, <2>1, <2>3, AskTreeStep DEF AskCreateCategory
<1>2. CASE AskMove(c, k, to)
  <2>1. PICK r : r = [kind |-> "move", id |-> k, to |-> to]
    OBVIOUS
  <2>2. r.kind = "move" /\ TaskSound(r)
    BY <1>2, <2>1 DEF AskMove, TaskSound, Known, LiveCats
  <2> QED BY <1>2, <2>1, <2>2, AskTreeStep DEF AskMove
<1>3. CASE AskDeleteCategory(c, k)
  <2>1. PICK r : r = [kind |-> "delete", id |-> k]
    OBVIOUS
  <2>2. r.kind = "delete" /\ TaskSound(r)
    BY <1>3, <2>1 DEF AskDeleteCategory, TaskSound, Known, LiveCats
  <2> QED BY <1>3, <2>1, <2>2, AskTreeStep DEF AskDeleteCategory
<1> QED BY <1>1, <1>2, <1>3

\* Other requests keep what they know when one row changes that they do not hold.
LEMMA OthersStaySound ==
  ASSUME TreeInv, NEW c \in Clerks, NEW cs \in SUBSET Cats, EndTree(c), cats' \in [Cats -> Row],
         \A k \in Cats \ cs : cats'[k] = cats[k],
         \A k \in cs : cats'[k].state # "none" \/ cats[k].state = "none",
         \A d \in Clerks \ {c} : /\ Held(tending[d]) \cap cs \subseteq {k \in cs : cats[k].state = "none"}
                                 /\ tending[d].kind = "create" => cats'[tending[d].id].state = "none"
  PROVE  TasksSound' /\ CreatesApart' /\ LocksApart'
<1>1. /\ tending' = [d \in Clerks |-> tending'[d]] /\ tending'[c] = NoTask
      /\ \A d \in Clerks \ {c} : tending'[d] = tending[d]
  BY DEF TreeInv, TasksSound, EndTree
<1>2. CreatesApart' /\ LocksApart'
  BY <1>1 DEF TreeInv, CreatesApart, LocksApart, NoTask, Held
<1>3. \A k : Known(k) => Known(k)'
  BY DEF Known
<1>4. ASSUME NEW d \in Clerks \ {c}
      PROVE  TaskSound(tending[d])'
  <2>1. PICK r : r = tending[d]
    OBVIOUS
  <2>2. TaskSound(r) /\ tending'[d] = r
    BY <1>1, <2>1 DEF TreeInv, TasksSound
  <2>3. ASSUME NEW k \in LiveCats, k \in Held(r)
        PROVE  cats'[k] = cats[k] /\ k \in LiveCats'
    BY <2>1, <2>3 DEF LiveCats
  <2>4. CASE r.kind = "checked"
    <3>1. CheckedMove(r) /\ Held(r) = {r.id, r.to} \ {0} /\ 0 \notin Cats
      BY <2>2, <2>4, TreeAssumption DEF TaskSound, Held
    <3>2. r.id \in LiveCats'
      BY <2>3, <3>1 DEF CheckedMove, LiveCats
    <3>3. r.to # 0 => r.to \in LiveCats' /\ cats'[r.to] = cats[r.to]
      BY <2>3, <3>1 DEF CheckedMove, LiveCats
    <3>4. PathUnder(r.to)' = PathUnder(r.to)
      BY <3>3 DEF PathUnder
    <3>5. CheckedMove(r)'
      BY <3>1, <3>2, <3>3, <3>4 DEF CheckedMove
    <3> QED BY <2>2, <2>4, <3>5 DEF TaskSound
  <2>5. CASE r.kind = "locked"
    <3>1. r.id \in LiveCats'
      BY <2>2, <2>3, <2>5 DEF TaskSound, Held
    <3> QED BY <1>3, <2>2, <2>5, <3>1 DEF TaskSound
  <2>6. CASE r.kind \in {"none", "create", "delete", "move"}
    BY <1>3, <2>1, <2>2, <2>6 DEF TaskSound
  <2> QED BY <2>2, <2>4, <2>5, <2>6 DEF TaskSound
<1>5. TaskSound(NoTask)'
  BY DEF TaskSound, NoTask
<1> QED BY <1>1, <1>2, <1>4, <1>5 DEF TasksSound

LEMMA CreateStep ==
  ASSUME TreeInv, NEW c \in Clerks, CreateCategory(c)
  PROVE  TreeInv'
<1>1. PICK r : r = tending[c]
  OBVIOUS
<1>2. /\ r.kind = "create" /\ r.id \in Cats /\ cats[r.id].state = "none" /\ Known(r.to) /\ r.path \in Seq(Cats)
      /\ r.to # r.id
  BY <1>1, TreeAssumption DEF TreeInv, TasksSound, TaskSound, CreateCategory, Known
<1>3. PICK row : row = [state |-> "live", parent |-> r.to, path |-> r.path]
  OBVIOUS
<1>4. row \in Row /\ row.state = "live" /\ row.parent = r.to /\ row.path = r.path
  BY <1>2, <1>3 DEF Row, Known
<1>5. /\ cats' = [cats EXCEPT ![r.id] = row]
      /\ raced' = IF r.path = PathUnder(r.to) THEN raced ELSE raced \cup {r.id}
      /\ EndTree(c)
  BY <1>1, <1>3 DEF CreateCategory
<1>6. /\ cats' \in [Cats -> Row] /\ cats'[r.id] = row /\ \A k \in Cats \ {r.id} : cats'[k] = cats[k]
  BY <1>2, <1>4, <1>5 DEF TreeInv
<1>7. TasksSound' /\ CreatesApart' /\ LocksApart'
  <2>1. \A d \in Clerks \ {c} : tending[d].kind = "create" =>
          tending[d].id \in Cats \ {r.id} /\ cats[tending[d].id].state = "none"
    BY <1>1, <1>2 DEF TreeInv, CreatesApart, TasksSound, TaskSound
  <2>2. PICK cs \in SUBSET Cats : cs = {r.id}
    BY <1>2
  <2>3. \A k \in cs : cats[k].state = "none"
    BY <1>2, <2>2
  <2>4. \A d \in Clerks \ {c} : /\ Held(tending[d]) \cap cs \subseteq {k \in cs : cats[k].state = "none"}
                                /\ tending[d].kind = "create" => cats'[tending[d].id].state = "none"
    BY <1>6, <2>1, <2>3
  <2>5. \A k \in Cats \ cs : cats'[k] = cats[k]
    BY <1>6, <2>2
  <2> QED BY <1>5, <1>6, <2>3, <2>4, <2>5, OthersStaySound
<1>8. \A k : Known(k) => Known(k)' /\ k # r.id
  BY <1>2, <1>4, <1>6, TreeAssumption DEF Known
<1>9. ParentsKnown'
  BY <1>2, <1>4, <1>6, <1>8 DEF TreeInv, ParentsKnown
<1>10. \A k : Known(k) => PathUnder(k)' = PathUnder(k)
  BY <1>6, <1>8 DEF PathUnder, Known
<1>11. PathFollowsParent'
  <2>1. ASSUME NEW k \in LiveCats', k \notin raced', k # r.id
        PROVE  IF cats'[k].parent = 0 THEN cats'[k].path = <<>>
               ELSE cats'[k].parent \in LiveCats' => cats'[k].path = PathUnder(cats[k].parent)'
    <3>1. k \in LiveCats /\ k \notin raced /\ cats'[k] = cats[k] /\ Known(cats[k].parent)
      BY <1>5, <1>6, <2>1 DEF LiveCats, TreeInv, ParentsKnown
    <3>2. cats[k].parent \in LiveCats' => cats[k].parent \in LiveCats
      BY <1>6, <1>8, <3>1 DEF LiveCats
    <3> QED BY <1>10, <3>1, <3>2 DEF TreeInv, PathFollowsParent
  <2>2. ASSUME r.id \notin raced'
        PROVE  IF cats'[r.id].parent = 0 THEN cats'[r.id].path = <<>>
               ELSE cats'[r.id].path = PathUnder(cats[r.id].parent)'
    <3>1. r.path = PathUnder(r.to)
      BY <1>5, <2>2
    <3>2. PathUnder(r.to)' = PathUnder(r.to)
      BY <1>2, <1>10
    <3> QED BY <1>4, <1>6, <3>1, <3>2 DEF PathUnder
  <2> QED BY <2>1, <2>2 DEF PathFollowsParent
<1> QED BY <1>6, <1>7, <1>9, <1>11 DEF TreeInv

LEMMA DeleteStep ==
  ASSUME TreeInv, NEW c \in Clerks, DeleteCategory(c)
  PROVE  TreeInv'
<1>1. PICK id : id = tending[c].id
  OBVIOUS
<1>2. id \in Cats /\ cats[id].state # "none" /\ Blockers(c, {id}) = {} /\ EndTree(c) /\ raced' = raced
  BY <1>1, TreeAssumption DEF TreeInv, TasksSound, TaskSound, DeleteCategory, Known
<1>3. PICK row : row = [cats[id] EXCEPT !.state = "deleted"]
  OBVIOUS
<1>4. row \in Row /\ row.state = "deleted" /\ row.parent = cats[id].parent /\ row.path = cats[id].path
  BY <1>2, <1>3 DEF TreeInv, Row
<1>5. cats' = [cats EXCEPT ![id] = row]
  BY <1>1, <1>3 DEF DeleteCategory
<1>6. /\ cats' \in [Cats -> Row] /\ cats'[id] = row /\ \A k \in Cats \ {id} : cats'[k] = cats[k]
  BY <1>2, <1>4, <1>5 DEF TreeInv
<1>7. TasksSound' /\ CreatesApart' /\ LocksApart'
  <2>1. PICK cs \in SUBSET Cats : cs = {id}
    BY <1>2
  <2>2. \A k \in cs : cats'[k].state # "none"
    BY <1>4, <1>6, <2>1
  <2>3. \A d \in Clerks \ {c} : Held(tending[d]) \cap cs \subseteq {k \in cs : cats[k].state = "none"}
    BY <1>2, <2>1, NotHeld
  <2>4. \A d \in Clerks \ {c} : tending[d].kind = "create" => cats'[tending[d].id].state = "none"
    BY <1>2, <1>6 DEF TreeInv, TasksSound, TaskSound
  <2>5. \A k \in Cats \ cs : cats'[k] = cats[k]
    BY <1>6, <2>1
  <2> QED BY <1>2, <1>6, <2>2, <2>3, <2>4, <2>5, OthersStaySound
<1>8. \A k \in Cats : /\ cats'[k].parent = cats[k].parent /\ cats'[k].path = cats[k].path
                      /\ cats'[k].state = "none" <=> cats[k].state = "none"
                      /\ cats'[k].state = "live" => cats[k].state = "live"
  BY <1>2, <1>4, <1>6
<1>9. ParentsKnown'
  BY <1>8 DEF TreeInv, ParentsKnown, Known
<1>10. PathFollowsParent'
  <2>1. \A k \in LiveCats' : PathUnder(k)' = PathUnder(k) /\ k \in LiveCats
    BY <1>8 DEF PathUnder, LiveCats
  <2> QED BY <1>2, <1>8, <2>1 DEF TreeInv, PathFollowsParent, LiveCats
<1> QED BY <1>6, <1>7, <1>9, <1>10 DEF TreeInv

LEMMA LockCategoryStep ==
  ASSUME TreeInv, NEW c \in Clerks, LockCategory(c)
  PROVE  TreeInv'
<1>1. PICK r : r = tending[c]
  OBVIOUS
<1>2. /\ r.kind = "move" /\ Blockers(c, {r.id}) = {} /\ UNCHANGED <<cats, raced>>
      /\ DOMAIN r = {"kind", "id", "to"} /\ r.id \in Cats /\ r.id # 0 /\ Known(r.to) /\ r.to # r.id
  BY <1>1, TreeAssumption DEF TreeInv, TasksSound, TaskSound, LockCategory
<1>3. \A d \in Clerks \ {c} : {r.id} \cap Held(tending[d]) = {}
  BY <1>2, NotHeld
<1>4. CASE r.id \notin LiveCats \/ cats[r.id].parent = r.to
  <2>1. EndTree(c)
    BY <1>1, <1>4 DEF LockCategory, EndTree
  <2> QED BY <1>2, <2>1, TaskEnds
<1>5. CASE r.id \in LiveCats /\ cats[r.id].parent # r.to /\ r.to = 0
  <2>1. PICK s, p : s = [kind |-> "checked", id |-> r.id, to |-> 0, path |-> p] /\ p = <<>>
    OBVIOUS
  <2>2. tending' = [tending EXCEPT ![c] = s]
    BY <1>1, <1>5, <2>1 DEF LockCategory
  <2>3. s.kind = "checked" /\ s.id = r.id /\ s.to = 0 /\ s.path = <<>>
    BY <2>1
  <2>4. TaskSound(s)
    BY <1>5, <2>3 DEF TaskSound, CheckedMove, PathUnder
  <2>5. Held(s) = {r.id}
    BY <1>2, <2>3 DEF Held
  <2> QED BY <1>2, <1>3, <2>2, <2>3, <2>4, <2>5, TaskMoves
<1>6. CASE r.id \in LiveCats /\ cats[r.id].parent # r.to /\ r.to # 0
  <2>1. PICK s : s = [r EXCEPT !.kind = "locked"]
    OBVIOUS
  <2>2. tending' = [tending EXCEPT ![c] = s]
    BY <1>1, <1>6, <2>1 DEF LockCategory
  <2>3. s.kind = "locked" /\ s.id = r.id /\ s.to = r.to
    BY <1>2, <2>1
  <2>4. TaskSound(s) /\ Held(s) = {r.id}
    BY <1>2, <1>6, <2>3 DEF TaskSound, Held, Known
  <2> QED BY <1>2, <1>3, <2>2, <2>3, <2>4, TaskMoves
<1> QED BY <1>4, <1>5, <1>6

LEMMA LockParentStep ==
  ASSUME TreeInv, NEW c \in Clerks, LockParent(c)
  PROVE  TreeInv'
<1>1. PICK r : r = tending[c]
  OBVIOUS
<1>2. /\ r.kind = "locked" /\ Blockers(c, {r.to}) = {} /\ UNCHANGED <<cats, raced>>
      /\ r.id \in LiveCats /\ r.to \in Cats /\ r.to # r.id /\ r.to # 0 /\ r.id # 0
  BY <1>1, TreeAssumption DEF TreeInv, TasksSound, TaskSound, LockParent, LiveCats
<1>3. CASE r.to \notin LiveCats \/ \E i \in DOMAIN cats[r.to].path : cats[r.to].path[i] = r.id
  <2>1. EndTree(c)
    BY <1>1, <1>3 DEF LockParent, EndTree
  <2> QED BY <1>2, <2>1, TaskEnds
<1>4. CASE ~(r.to \notin LiveCats \/ \E i \in DOMAIN cats[r.to].path : cats[r.to].path[i] = r.id)
  <2>1. PICK s, p : s = [kind |-> "checked", id |-> r.id, to |-> r.to, path |-> p] /\ p = PathUnder(r.to)
    OBVIOUS
  <2>2. tending' = [tending EXCEPT ![c] = s]
    BY <1>1, <1>4, <2>1 DEF LockParent
  <2>3. s.kind = "checked" /\ s.id = r.id /\ s.to = r.to /\ s.path = PathUnder(r.to)
    BY <2>1
  <2>4. TaskSound(s) /\ Held(s) = {r.id, r.to}
    BY <1>2, <1>4, <2>3 DEF TaskSound, CheckedMove, Held
  <2>5. \A d \in Clerks \ {c} : Held(s) \cap Held(tending[d]) = {}
    <3>1. Held(r) = {r.id}
      BY <1>2 DEF Held
    <3>2. \A d \in Clerks \ {c} : {r.id} \cap Held(tending[d]) = {} /\ {r.to} \cap Held(tending[d]) = {}
      BY <1>1, <1>2, <3>1, NotHeld DEF TreeInv, LocksApart
    <3> QED BY <2>4, <3>2
  <2> QED BY <1>2, <2>2, <2>3, <2>4, <2>5, TaskMoves
<1> QED BY <1>3, <1>4

LEMMA VictimStep ==
  ASSUME TreeInv, NEW c \in Clerks, TreeVictim(c)
  PROVE  TreeInv'
  BY TaskEnds DEF TreeVictim

\* The whole subtree is found by its path, its rows are held by nobody else, and each
\* of its paths follows the new one of its parent.
LEMMA MoveStep ==
  ASSUME TreeInv, NEW c \in Clerks, MoveSubtree(c)
  PROVE  TreeInv'
<1>1. PICK r : r = tending[c]
  OBVIOUS
<1> DEFINE id == r.id  to == r.to
<1>2. PICK below \in SUBSET Cats : below = Descendants(id)
  BY DEF Descendants, LiveCats
<1>3. /\ r.kind = "checked" /\ CheckedMove(r) /\ EndTree(c) /\ raced' = raced
      /\ Blockers(c, below) = {}
      /\ id \in Cats /\ cats[id].state = "live" /\ id # 0 /\ r.path = PathUnder(to)
      /\ to # 0 => to \in Cats /\ cats[to].state = "live" /\ to # id
      /\ to # 0 => \A i \in DOMAIN cats[to].path : cats[to].path[i] # id
  <2>1. r.kind = "checked" /\ EndTree(c) /\ raced' = raced /\ Blockers(c, below) = {}
    BY <1>1, <1>2, Zenon DEF MoveSubtree
  <2>2. CheckedMove(r)
    BY <1>1, <2>1 DEF TreeInv, TasksSound, TaskSound
  <2> QED BY <2>1, <2>2, TreeAssumption DEF CheckedMove, LiveCats
<1>4. \A k \in Cats : cats[k].path \in Seq(Cats) /\ cats[k].parent \in Cats \cup {0}
                      /\ cats[k].state \in {"none", "live", "deleted"}
  BY DEF TreeInv, Row
<1>5. to \in Cats \cup {0} /\ r.path \in Seq(Cats)
  <2>1. to \in Cats \cup {0}
    BY <1>3
  <2>2. PathUnder(to) \in Seq(Cats)
    BY <1>3, <1>4, <2>1 DEF PathUnder
  <2> QED BY <1>3, <2>1, <2>2
<1>6. PICK old, new : old = Append(cats[id].path, id) /\ new = Append(r.path, id)
  OBVIOUS
<1>7. old \in Seq(Cats) /\ new \in Seq(Cats)
  BY <1>3, <1>4, <1>5, <1>6
<1>8. below = {k \in Cats : cats[k].state = "live" /\ IsPrefix(old, cats[k].path)}
  BY <1>2, <1>6 DEF Descendants, LiveCats
<1>9. \A k \in Cats : k \in below => Len(old) <= Len(cats[k].path)
  BY <1>4, <1>7, <1>8, PrefixAt
<1>10. \A k \in Cats :
         cats'[k] = IF k = id THEN [cats[k] EXCEPT !.parent = to, !.path = r.path]
                    ELSE IF k \in below THEN [cats[k] EXCEPT !.path = Swapped(old, new, cats[k].path)]
                    ELSE cats[k]
  <2>1. cats' = [k \in Cats |->
          IF k = id THEN [cats[k] EXCEPT !.parent = to, !.path = r.path]
          ELSE IF k \in below THEN [cats[k] EXCEPT !.path = Rerooted(k, r)] ELSE cats[k]]
    BY <1>1, <1>2, Zenon DEF MoveSubtree
  <2>2. \A k : Rerooted(k, r) = Swapped(old, new, cats[k].path)
    BY <1>6, Zenon DEF Rerooted, Swapped
  <2> QED BY <2>1, <2>2, Zenon
<1>11. /\ cats'[id].state = "live" /\ cats'[id].parent = to /\ cats'[id].path = r.path /\ cats'[id] \in Row
  <2>1. PICK q : q = r.path
    OBVIOUS
  <2>2. cats'[id] = [cats[id] EXCEPT !.parent = to, !.path = q]
    BY <1>3, <1>10, <2>1, Zenon
  <2>3. cats[id] \in Row /\ q \in Seq(Cats)
    BY <1>3, <1>5, <2>1 DEF TreeInv
  <2> QED BY <1>3, <1>5, <2>1, <2>2, <2>3 DEF Row
<1>12. ASSUME NEW k \in Cats, k # id, k \in below
       PROVE  /\ cats'[k].state = cats[k].state /\ cats'[k].parent = cats[k].parent
              /\ cats'[k].path = Swapped(old, new, cats[k].path) /\ cats'[k] \in Row
  <2>1. Swapped(old, new, cats[k].path) \in Seq(Cats)
    BY <1>4, <1>7, <1>9, <1>12, SwappedIsPath
  <2>2. PICK q : q = Swapped(old, new, cats[k].path)
    OBVIOUS
  <2>3. cats'[k] = [cats[k] EXCEPT !.path = q]
    BY <1>10, <1>12, <2>2, Zenon
  <2>4. cats[k] \in Row /\ q \in Seq(Cats)
    BY <2>1, <2>2 DEF TreeInv
  <2> QED BY <2>2, <2>3, <2>4 DEF Row
<1>13. \A k \in Cats : k # id /\ k \notin below => cats'[k] = cats[k]
  BY <1>10, Zenon
<1>14. cats' \in [Cats -> Row]
  <2>1. \A k \in Cats : cats'[k] \in Row
    BY <1>11, <1>12, <1>13 DEF TreeInv
  <2>2. cats' = [k \in Cats |-> cats'[k]]
    BY Zenon DEF MoveSubtree
  <2> QED BY <2>1, <2>2
<1>15. \A k \in Cats : cats'[k].state = cats[k].state
  BY <1>3, <1>11, <1>12, <1>13
<1>16. TasksSound' /\ CreatesApart' /\ LocksApart'
  <2>1. PICK cs \in SUBSET Cats : cs = {id} \cup below
    BY <1>3
  <2>2. \A d \in Clerks \ {c} : Held(tending[d]) \cap below = {}
    BY <1>3, NotHeld
  <2>3. id \in Held(tending[c])
    BY <1>1, <1>3 DEF Held
  <2>4. \A d \in Clerks \ {c} : Held(tending[d]) \cap cs = {}
    BY <2>1, <2>2, <2>3 DEF TreeInv, LocksApart
  <2>5. \A d \in Clerks \ {c} : tending[d].kind = "create" => cats'[tending[d].id].state = "none"
    BY <1>15 DEF TreeInv, TasksSound, TaskSound
  <2>6. \A k \in Cats \ cs : cats'[k] = cats[k]
    BY <1>13, <2>1
  <2>7. \A k \in cs : cats'[k].state # "none" \/ cats[k].state = "none"
    BY <1>15
  <2> QED BY <1>3, <1>14, <2>4, <2>5, <2>6, <2>7, OthersStaySound
<1>17. \A k : (Known(k) <=> Known(k)')
  BY <1>15 DEF Known
<1>18. ParentsKnown'
  <2>1. Known(to)
    BY <1>3 DEF Known
  <2>2. \A k \in Cats : k # id => cats'[k].parent = cats[k].parent
    BY <1>12, <1>13
  <2> QED BY <1>11, <1>15, <1>17, <2>1, <2>2 DEF TreeInv, ParentsKnown
<1>19. PathFollowsParent'
  <2>1. LiveCats' = LiveCats
    BY <1>15 DEF LiveCats
  <2>2. IF to = 0 THEN r.path = <<>> ELSE r.path = PathUnder(to)'
    <3>1. CASE to = 0
      BY <1>3, <3>1 DEF PathUnder
    <3>2. CASE to # 0
      <4>1. to \notin below
        <5>1. SUFFICES ASSUME to \in below PROVE FALSE
          OBVIOUS
        <5>2. PICK q : q = cats[id].path
          OBVIOUS
        <5>3. IsPrefix(Append(q, id), cats[to].path) /\ q \in Seq(Cats) /\ cats[to].path \in Seq(Cats)
          BY <1>3, <1>4, <1>6, <1>8, <3>2, <5>1, <5>2
        <5> QED BY <1>3, <3>2, <5>3, BelowMeetsIt
      <4> QED BY <1>3, <1>13, <3>2, <4>1 DEF PathUnder
    <3> QED BY <3>1, <3>2
  <2>3. ASSUME NEW k \in Cats, k \in LiveCats, k \notin raced, k # id, NEW p \in LiveCats, cats[k].parent = p
        PROVE  cats'[k].path = PathUnder(p)'
    <3>1. cats[k].path = Append(cats[p].path, p) /\ p \in Cats /\ p # 0
      BY <2>3, TreeAssumption DEF TreeInv, PathFollowsParent, PathUnder, LiveCats
    <3>2. cats'[k].path = IF k \in below THEN Swapped(old, new, cats[k].path) ELSE cats[k].path
      BY <1>12, <1>13, <2>3
    <3>3. CASE p = id
      <4>1. cats[k].path = old
        BY <1>6, <3>1, <3>3
      <4>2. k \in below
        BY <1>7, <1>8, <2>3, <4>1, PrefixAt DEF LiveCats
      <4>3. cats'[k].path = new
        BY <1>7, <3>2, <4>1, <4>2, SwappedIsPath
      <4> QED BY <1>6, <1>11, <3>1, <3>3, <4>3 DEF PathUnder
    <3>4. CASE p # id
      <4>1. PICK s, a : s = cats[p].path /\ a = cats[k].path
        OBVIOUS
      <4>2. s \in Seq(Cats) /\ a = Append(s, p)
        BY <1>4, <3>1, <4>1
      <4>3. IsPrefix(old, a) <=> IsPrefix(old, s) \/ old = a
        BY <1>7, <3>1, <4>2, PrefixOfLonger
      <4>4. old # a
        BY <1>3, <1>4, <1>6, <3>1, <3>4, <4>2
      <4>5. k \in below <=> p \in below
        BY <1>8, <2>3, <3>1, <4>1, <4>3, <4>4 DEF LiveCats
      <4>6. CASE p \in below
        <5>1. Len(old) <= Len(s)
          BY <1>9, <3>1, <4>1, <4>6
        <5>2. Grows(s, p, a)
          BY <4>2 DEF Grows
        <5>3. Grows(Swapped(old, new, s), p, Swapped(old, new, a))
          BY <1>7, <3>1, <4>2, <5>1, <5>2, SwappedGrows
        <5>4. cats'[p].path = Swapped(old, new, s) /\ cats'[k].path = Swapped(old, new, a)
          BY <1>12, <3>1, <3>2, <3>4, <4>1, <4>5, <4>6
        <5> QED BY <3>1, <5>3, <5>4 DEF PathUnder, Grows
      <4>7. CASE p \notin below
        BY <1>13, <3>1, <3>2, <3>4, <4>5, <4>7 DEF PathUnder
      <4> QED BY <4>6, <4>7
    <3> QED BY <3>3, <3>4
  <2>4. ASSUME NEW k \in Cats, k \in LiveCats, k \notin raced, k # id, cats[k].parent = 0
        PROVE  cats'[k].path = <<>>
    <3>1. cats[k].path = <<>>
      BY <2>4 DEF TreeInv, PathFollowsParent
    <3>2. k \notin below
      <4>1. SUFFICES ASSUME k \in below PROVE FALSE
        OBVIOUS
      <4>2. Len(old) <= Len(cats[k].path)
        BY <1>9, <4>1
      <4>3. Len(old) = Len(cats[id].path) + 1 /\ Len(cats[id].path) \in Nat
        BY <1>3, <1>4, <1>6
      <4> QED BY <3>1, <4>2, <4>3
    <3> QED BY <1>13, <2>4, <3>1, <3>2
  <2>5. \A k \in Cats : k # id => cats'[k].parent = cats[k].parent
    BY <1>12, <1>13
  <2>6. ASSUME NEW k \in LiveCats', k \notin raced'
        PROVE  IF cats'[k].parent = 0 THEN cats'[k].path = <<>>
               ELSE cats'[k].parent \in LiveCats' => cats'[k].path = PathUnder(cats[k].parent)'
    <3>1. k \in Cats /\ k \in LiveCats /\ k \notin raced
      BY <1>3, <2>1, <2>6 DEF LiveCats
    <3>2. CASE k = id
      BY <1>11, <2>2, <3>2
    <3>3. CASE k # id
      BY <2>1, <2>3, <2>4, <2>5, <3>1, <3>3
    <3> QED BY <3>2, <3>3
  <2> QED BY <2>6 DEF PathFollowsParent
<1> QED BY <1>14, <1>16, <1>18, <1>19 DEF TreeInv

LEMMA TreeGoesOn == TreeInv /\ (TreeStep \/ UNCHANGED tree) => TreeInv'
<1>1. ASSUME TreeInv, UNCHANGED tree PROVE TreeInv'
  <2>1. LiveCats' = LiveCats /\ UNCHANGED <<cats, tending, raced>>
    BY <1>1 DEF tree, LiveCats
  <2> QED BY <1>1, <2>1 DEF TreeInv, TasksSound, TaskSound, CheckedMove, Known, PathUnder,
           CreatesApart, LocksApart, ParentsKnown, PathFollowsParent
<1>2. ASSUME TreeInv, NEW c \in Clerks, TreeServe(c) PROVE TreeInv'
  BY <1>2, CreateStep, DeleteStep, LockCategoryStep, LockParentStep, MoveStep, VictimStep, Zenon DEF TreeServe
<1>3. ASSUME TreeInv, NEW c \in Clerks, NEW k \in Cats,
             (\E to \in Cats \cup {0} : AskCreateCategory(c, k, to) \/ AskMove(c, k, to)) \/ AskDeleteCategory(c, k)
      PROVE  TreeInv'
  BY <1>3, AsksAreSound
<1>4. ASSUME TreeInv, TreeStep PROVE TreeInv'
  BY <1>2, <1>3, <1>4, Zenon DEF TreeStep
<1> QED BY <1>1, <1>4

\* However creations, deletions and moves of categories interleave, every path leads
\* through the parent's: moveCategory locks both rows before it reads them, so what a
\* checked move knows of its new parent stays true until the subtree is re-rooted.
THEOREM PathsStayWithParents == Spec => []PathFollowsParent
<1>1. Init => TreeInv
  BY TreeStarts DEF Init
<1>2. TreeInv /\ [Next]_vars => TreeInv'
  <2>1. [Next]_vars => TreeStep \/ UNCHANGED tree
    BY DEF Next, vars
  <2> QED BY <2>1, TreeGoesOn
<1>3. TreeInv => PathFollowsParent
  BY DEF TreeInv
<1> QED BY <1>1, <1>2, <1>3, PTL DEF Spec

-----------------------------------------------------------------------------
(* Revisions *)

Revision == [status : {"DRAFT", "PENDING_REVIEW", "APPROVED", "PUBLISHED", "SUPERSEDED"},
             parent : Nat, author : Editors, text : Texts \cup {0}, writer : Editors]

\* A revision's text and who wrote it, as the review has them.
ReadAsIs(i, a) == i \notin late \cup ownText => a.text = revs[i].text /\ a.who # revs[i].writer

Reviewed(i) ==
  i \in DOMAIN revs /\ \E a \in approvals : a.id = i /\ a.who # revs[i].author /\ ReadAsIs(i, a)

Sent(i) == i \in DOMAIN revs /\ revs[i].status # "DRAFT"

\* What a request of the revisions read stays true of the row it will write by id:
\* rows are never removed, authors never change, approvals are never taken back, a
\* revision sent for review is never a draft again.
WorkSound(r) ==
  /\ r.kind \in {"none", "draft", "point", "save", "submit", "approve", "publish"}
  /\ r.kind = "draft" => r.who \in Editors /\ r.parent \in Nat
  /\ r.kind = "point" => r.id \in DOMAIN revs
  /\ r.kind = "save" => r.id \in DOMAIN revs /\ r.text \in Texts /\ r.who \in Editors
  /\ r.kind = "submit" => r.id \in DOMAIN revs
  /\ r.kind = "approve" => /\ Sent(r.id) /\ r.who \in Editors \ {revs[r.id].author}
                           /\ r.id \notin late => r.text = revs[r.id].text
  /\ r.kind = "publish" => Reviewed(r.id) /\ (r.old = 0 \/ Reviewed(r.old))

RevisionsInv ==
  /\ revs \in Seq(Revision)
  /\ working = [e \in Editing |-> working[e]] /\ \A e \in Editing : WorkSound(working[e])
  /\ published = 0 \/ Reviewed(published)
  /\ \A a \in approvals : Sent(a.id)
  /\ \A i \in DOMAIN revs : revs[i].status \in {"APPROVED", "PUBLISHED", "SUPERSEDED"} => Reviewed(i)

LEMMA RevisionsStart == RevisionsInit => RevisionsInv
  BY DEF RevisionsInit, RevisionsInv, NoWork, WorkSound

\* Whatever a step writes, it keeps the rows, their authors and the approvals, and of a
\* revision that was sent for review the text, or counts it as late; one request moves on.
LEMMA RowsStay ==
  ASSUME RevisionsInv, NEW e \in Editing, NEW r, working' = [working EXCEPT ![e] = r],
         revs' \in Seq(Revision), approvals \subseteq approvals', Len(revs) <= Len(revs'),
         late \subseteq late', ownText \subseteq ownText',
         \A i \in DOMAIN revs : revs'[i].author = revs[i].author,
         \A i \in DOMAIN revs : revs[i].status # "DRAFT" =>
           /\ revs'[i].status # "DRAFT"
           /\ i \notin late' => revs'[i].text = revs[i].text /\ revs'[i].writer = revs[i].writer,
         \A a \in approvals' \ approvals : Sent(a.id)',
         WorkSound(r)', published' = published \/ Reviewed(published)',
         \A i \in DOMAIN revs' :
           revs'[i].status \in {"APPROVED", "PUBLISHED", "SUPERSEDED"} =>
             \/ i \in DOMAIN revs /\ revs'[i].status = revs[i].status
             \/ Reviewed(i)'
  PROVE  RevisionsInv'
<1>1. DOMAIN revs = 1 .. Len(revs) /\ DOMAIN revs' = 1 .. Len(revs') /\ Len(revs) \in Nat /\ Len(revs') \in Nat
  BY DEF RevisionsInv
<1>2. DOMAIN revs \subseteq DOMAIN revs'
  BY <1>1
<1>11. \A i : Sent(i) => Sent(i)'
  BY <1>2 DEF Sent
<1>12. ASSUME NEW a \in approvals, NEW i, a.id = i, ReadAsIs(i, a) PROVE ReadAsIs(i, a)'
  <2>1. i \in DOMAIN revs /\ revs[i].status # "DRAFT"
    BY <1>12 DEF RevisionsInv, Sent
  <2> QED BY <1>12, <2>1 DEF ReadAsIs
<1>3. ASSUME NEW i, Reviewed(i) PROVE Reviewed(i)'
  <2>1. PICK a \in approvals : a.id = i /\ a.who # revs[i].author /\ ReadAsIs(i, a)
    BY <1>3 DEF Reviewed
  <2>2. i \in DOMAIN revs /\ i \in DOMAIN revs' /\ revs'[i].author = revs[i].author
    BY <1>2, <1>3 DEF Reviewed
  <2>3. ReadAsIs(i, a)'
    BY <1>12, <2>1
  <2> QED BY <2>1, <2>2, <2>3 DEF Reviewed
<1>4. ASSUME NEW x, WorkSound(x) PROVE WorkSound(x)'
  <2>1. x.kind = "approve" => /\ Sent(x.id)' /\ x.who \in Editors \ {revs'[x.id].author}
                              /\ x.id \notin late' => x.text = revs'[x.id].text
    BY <1>4, <1>11 DEF WorkSound, Sent
  <2> QED BY <1>2, <1>3, <1>4, <2>1 DEF WorkSound
<1>13. \A a \in approvals' : Sent(a.id)'
  BY <1>11 DEF RevisionsInv
<1>5. ASSUME NEW d \in Editing PROVE WorkSound(working[d])'
  <2>1. PICK x, y : x = working[d] /\ y = working'[d]
    OBVIOUS
  <2>2. WorkSound(x)' /\ y = IF d = e THEN r ELSE x
    BY <1>4, <2>1 DEF RevisionsInv
  <2>3. WorkSound(y)'
    BY <2>2
  <2> QED BY <2>1, <2>3
<1>6. published' = 0 \/ Reviewed(published)'
  BY <1>3 DEF RevisionsInv
<1>7. \A i \in DOMAIN revs' : revs'[i].status \in {"APPROVED", "PUBLISHED", "SUPERSEDED"} => Reviewed(i)'
  BY <1>3 DEF RevisionsInv
<1>8. working' = [d \in Editing |-> working'[d]]
  BY DEF RevisionsInv
<1> QED BY <1>5, <1>6, <1>7, <1>8, <1>13, Zenon DEF RevisionsInv

\* A request that starts, or that ends without a write.
LEMMA WorkMoves ==
  ASSUME RevisionsInv, NEW e \in Editing, NEW r, working' = [working EXCEPT ![e] = r],
         UNCHANGED <<revs, approvals, published, late, ownText>>, WorkSound(r)
  PROVE  RevisionsInv'
<1>1. WorkSound(r)'
  BY DEF WorkSound, Reviewed, ReadAsIs, Sent
<1> QED BY <1>1, RowsStay DEF RevisionsInv

\* What a request starts with: somebody's draft, or a row there is.
Asked(r) ==
  \/ r.kind = "draft" /\ r.who \in Editors /\ r.parent = published
  \/ /\ r.id \in DOMAIN revs
     /\ \/ r.kind = "approve" /\ MayApprove(r.who, r.id) /\ r.who \in Editors /\ r.text = revs[r.id].text
        \/ r.kind = "submit"
        \/ r.kind = "publish" /\ Publishable(r.id) /\ r.old = published
        \/ r.kind = "save" /\ r.text \in Texts /\ r.who \in Editors

LEMMA AskWorkStep ==
  ASSUME RevisionsInv, NEW e \in Editing, NEW r, AskWork(e, r), Asked(r)
  PROVE  RevisionsInv'
<1>1. published \in Nat
  BY DEF RevisionsInv, Reviewed
<1>2. \A id \in DOMAIN revs : Publishable(id) => Reviewed(id)
  BY DEF Publishable, RevisionsInv
<1>3. WorkSound(r)
  BY <1>1, <1>2 DEF Asked, WorkSound, MayApprove, Sent, RevisionsInv
<1> QED BY <1>3, WorkMoves DEF AskWork

LEMMA InsertDraftStep ==
  ASSUME RevisionsInv, NEW e \in Editing, InsertDraft(e)
  PROVE  RevisionsInv'
<1>1. PICK r : r = working[e]
  OBVIOUS
<1>2. r.kind = "draft" /\ r.who \in Editors /\ r.parent \in Nat /\ UNCHANGED <<approvals, published, late, ownText>>
  BY <1>1 DEF InsertDraft, RevisionsInv, WorkSound
<1>3. CASE Len(revs) = r.count
  <2>1. PICK n, row : n = Len(revs) + 1 /\ row = [status |-> "DRAFT", parent |-> r.parent, author |-> r.who,
                                                       text |-> 0, writer |-> r.who]
    OBVIOUS
  <2>2. PICK s : s = [kind |-> "point", id |-> n]
    OBVIOUS
  <2>3. revs' = Append(revs, row) /\ working' = [working EXCEPT ![e] = s] /\ row.status = "DRAFT" /\ row \in Revision
    BY <1>1, <1>2, <1>3, <2>1, <2>2 DEF InsertDraft, Revision
  <2>4. /\ revs' \in Seq(Revision) /\ Len(revs') = Len(revs) + 1 /\ Len(revs) \in Nat
        /\ revs'[Len(revs) + 1] = row /\ \A i \in DOMAIN revs : revs'[i] = revs[i]
        /\ DOMAIN revs' = DOMAIN revs \cup {Len(revs) + 1}
    BY <2>3 DEF RevisionsInv
  <2>5. WorkSound(s)'
    BY <2>1, <2>2, <2>4 DEF WorkSound
  <2>6. \A i \in DOMAIN revs' : revs'[i].status \in {"APPROVED", "PUBLISHED", "SUPERSEDED"} =>
          i \in DOMAIN revs /\ revs'[i].status = revs[i].status
    BY <2>3, <2>4
  <2>7. Len(revs) <= Len(revs') /\ \A i \in DOMAIN revs : revs'[i] = revs[i]
    BY <2>4
  <2> QED BY <1>2, <2>3, <2>4, <2>5, <2>6, <2>7, RowsStay
<1>4. CASE Len(revs) # r.count
  <2>1. EndWork(e) /\ revs' = revs
    BY <1>1, <1>4 DEF InsertDraft
  <2> QED BY <1>2, <2>1, WorkMoves DEF EndWork, NoWork, WorkSound
<1> QED BY <1>3, <1>4

\* One row written by its id.
LEMMA RowWritten ==
  ASSUME revs \in Seq(Revision), NEW id \in DOMAIN revs, NEW row \in Revision, revs' = [revs EXCEPT ![id] = row]
  PROVE  /\ revs' \in Seq(Revision) /\ Len(revs') = Len(revs) /\ DOMAIN revs' = DOMAIN revs
         /\ revs'[id] = row /\ \A i \in DOMAIN revs : i # id => revs'[i] = revs[i]
  OBVIOUS

LEMMA WorkEnds ==
  ASSUME RevisionsInv, NEW e \in Editing, PointDraft(e) \/ Save(e) \/ Submit(e)
  PROVE  RevisionsInv'
<1>1. PICK r : r = working[e]
  OBVIOUS
<1>2. EndWork(e) /\ UNCHANGED <<approvals, published, ownText>> /\ WorkSound(NoWork) /\ WorkSound(NoWork)'
  BY DEF PointDraft, Save, Submit, WorkSound, NoWork
<1>3. CASE PointDraft(e)
  BY <1>2, <1>3, WorkMoves DEF PointDraft, EndWork
<1>4. CASE Save(e)
  <2>1. /\ r.id \in DOMAIN revs /\ r.text \in Texts /\ r.who \in Editors
        /\ revs' = [revs EXCEPT ![r.id] = [@ EXCEPT !.text = r.text, !.writer = r.who]]
        /\ late' = IF revs[r.id].status = "DRAFT" THEN late ELSE late \cup {r.id}
    BY <1>1, <1>4 DEF Save, RevisionsInv, WorkSound
  <2>2. /\ revs' \in Seq(Revision) /\ Len(revs') = Len(revs) /\ DOMAIN revs' = DOMAIN revs
        /\ \A i \in DOMAIN revs : revs'[i].author = revs[i].author /\ revs'[i].status = revs[i].status
        /\ \A i \in DOMAIN revs \ {r.id} : revs'[i] = revs[i]
    <3>1. PICK row : row = [revs[r.id] EXCEPT !.text = r.text, !.writer = r.who]
      OBVIOUS
    <3>2. revs[r.id] \in Revision /\ revs' = [revs EXCEPT ![r.id] = row]
      BY <2>1, <3>1 DEF RevisionsInv
    <3>3. row \in Revision /\ row.author = revs[r.id].author /\ row.status = revs[r.id].status
      BY <2>1, <3>1, <3>2 DEF Revision
    <3> QED BY <2>1, <3>2, <3>3, RowWritten DEF RevisionsInv
  <2>3. /\ late \subseteq late'
        /\ \A i \in DOMAIN revs : revs[i].status # "DRAFT" =>
             (i \notin late' => revs'[i] = revs[i])
    BY <2>1, <2>2
  <2> QED BY <1>2, <2>2, <2>3, RowsStay DEF EndWork, RevisionsInv
<1>5. CASE Submit(e)
  <2>1. r.id \in DOMAIN revs /\ revs' = [revs EXCEPT ![r.id].status = "PENDING_REVIEW"] /\ late' = late
    BY <1>1, <1>5 DEF Submit, RevisionsInv, WorkSound
  <2>2. /\ revs' \in Seq(Revision) /\ Len(revs') = Len(revs) /\ DOMAIN revs' = DOMAIN revs
        /\ \A i \in DOMAIN revs : /\ revs'[i].author = revs[i].author
                                  /\ revs'[i].text = revs[i].text /\ revs'[i].writer = revs[i].writer
                                  /\ revs'[i].status \in {revs[i].status, "PENDING_REVIEW"}
    <3>1. PICK row : row = [revs[r.id] EXCEPT !.status = "PENDING_REVIEW"]
      OBVIOUS
    <3>2. revs[r.id] \in Revision /\ revs' = [revs EXCEPT ![r.id] = row]
      BY <2>1, <3>1 DEF RevisionsInv
    <3>3. /\ row \in Revision /\ row.author = revs[r.id].author /\ row.status = "PENDING_REVIEW"
          /\ row.text = revs[r.id].text /\ row.writer = revs[r.id].writer
      BY <3>1, <3>2 DEF Revision
    <3> QED BY <2>1, <3>2, <3>3, RowWritten DEF RevisionsInv
  <2> QED BY <1>2, <2>1, <2>2, RowsStay DEF EndWork, RevisionsInv
<1> QED BY <1>3, <1>4, <1>5

LEMMA ApproveStep ==
  ASSUME RevisionsInv, NEW e \in Editing, Approve(e)
  PROVE  RevisionsInv'
<1>1. PICK r : r = working[e]
  OBVIOUS
<1>2. /\ r.id \in DOMAIN revs /\ Sent(r.id) /\ r.who \in Editors \ {revs[r.id].author}
      /\ r.id \notin late => r.text = revs[r.id].text
      /\ EndWork(e) /\ UNCHANGED <<published, late>>
      /\ revs' = [revs EXCEPT ![r.id].status = IF @ = "PENDING_REVIEW" THEN "APPROVED" ELSE @]
      /\ ownText' = IF revs[r.id].writer = r.who THEN ownText \cup {r.id} ELSE ownText
  BY <1>1 DEF Approve, RevisionsInv, WorkSound, Sent
<1>3. PICK a : a = [id |-> r.id, who |-> r.who, text |-> r.text]
  OBVIOUS
<1>4. approvals' = approvals \cup {a} /\ a.id = r.id /\ a.who = r.who /\ a.text = r.text
  BY <1>1, <1>3 DEF Approve
<1>5. /\ revs' \in Seq(Revision) /\ Len(revs') = Len(revs) /\ DOMAIN revs' = DOMAIN revs
      /\ \A i \in DOMAIN revs :
           /\ revs'[i].author = revs[i].author /\ revs'[i].text = revs[i].text /\ revs'[i].writer = revs[i].writer
           /\ revs[i].status # "DRAFT" => revs'[i].status # "DRAFT"
           /\ i # r.id => revs'[i].status = revs[i].status
  <2>1. PICK row : row = [revs[r.id] EXCEPT !.status = IF @ = "PENDING_REVIEW" THEN "APPROVED" ELSE @]
    OBVIOUS
  <2>2. revs[r.id] \in Revision
    BY <1>2 DEF RevisionsInv
  <2>3. revs' = [revs EXCEPT ![r.id] = row]
    BY <1>2, <2>1, Zenon
  <2>4. /\ row \in Revision /\ row.author = revs[r.id].author /\ row.text = revs[r.id].text
        /\ row.writer = revs[r.id].writer /\ (revs[r.id].status # "DRAFT" => row.status # "DRAFT")
    BY <2>1, <2>2 DEF Revision
  <2> QED BY <1>2, <2>3, <2>4, RowWritten DEF RevisionsInv
<1>6. Sent(r.id)'
  BY <1>2, <1>5 DEF Sent
<1>7. Reviewed(r.id)'
  <2>1. r.id \in DOMAIN revs' /\ a \in approvals' /\ a.who # revs'[r.id].author
    BY <1>2, <1>4, <1>5
  <2>2. ReadAsIs(r.id, a)'
    BY <1>2, <1>4, <1>5 DEF ReadAsIs
  <2> QED BY <1>4, <2>1, <2>2 DEF Reviewed
<1>8. late \subseteq late' /\ ownText \subseteq ownText' /\ \A b \in approvals' \ approvals : Sent(b.id)'
  BY <1>2, <1>4, <1>6
<1>9. WorkSound(NoWork)' /\ Len(revs) <= Len(revs') /\ working' = [working EXCEPT ![e] = NoWork]
  BY <1>2, <1>5 DEF EndWork, NoWork, WorkSound, RevisionsInv
<1>10. \A i \in DOMAIN revs' : \/ i \in DOMAIN revs /\ revs'[i].status = revs[i].status
                              \/ Reviewed(i)'
  BY <1>5, <1>7
<1> QED BY <1>2, <1>4, <1>5, <1>8, <1>9, <1>10, RowsStay

LEMMA PublishStep ==
  ASSUME RevisionsInv, NEW e \in Editing, Publish(e)
  PROVE  RevisionsInv'
<1>1. PICK r : r = working[e]
  OBVIOUS
<1>2. /\ Reviewed(r.id) /\ (r.old = 0 \/ Reviewed(r.old)) /\ EndWork(e) /\ published' = r.id
      /\ UNCHANGED <<approvals, late, ownText>>
      /\ revs' = [i \in DOMAIN revs |->
          IF i = r.id THEN [revs[i] EXCEPT !.status = "PUBLISHED"]
          ELSE IF i = r.old THEN [revs[i] EXCEPT !.status = "SUPERSEDED"] ELSE revs[i]]
  BY <1>1 DEF Publish, RevisionsInv, WorkSound
<1>3. \A i \in DOMAIN revs : /\ revs'[i] \in Revision /\ revs'[i].author = revs[i].author
                             /\ revs'[i].text = revs[i].text /\ revs'[i].writer = revs[i].writer
                             /\ revs[i].status # "DRAFT" => revs'[i].status # "DRAFT"
                             /\ (i # r.id /\ i # r.old => revs'[i].status = revs[i].status)
  <2> TAKE i \in DOMAIN revs
  <2>1. PICK x, y : x = revs[i] /\ y = revs'[i]
    OBVIOUS
  <2>2. x \in Revision /\ y = IF i = r.id THEN [x EXCEPT !.status = "PUBLISHED"]
                             ELSE IF i = r.old THEN [x EXCEPT !.status = "SUPERSEDED"] ELSE x
    BY <1>2, <2>1 DEF RevisionsInv
  <2>3. /\ y \in Revision /\ y.author = x.author /\ y.text = x.text /\ y.writer = x.writer
        /\ x.status # "DRAFT" => y.status # "DRAFT"
        /\ (i # r.id /\ i # r.old => y.status = x.status)
    BY <2>2 DEF Revision
  <2> QED BY <2>1, <2>3
<1>4. revs' \in Seq(Revision) /\ Len(revs') = Len(revs) /\ DOMAIN revs' = DOMAIN revs
  <2>1. PICK n \in Nat : n = Len(revs) /\ DOMAIN revs = 1 .. n
    BY DEF RevisionsInv
  <2>2. DOMAIN revs' = 1 .. n /\ revs' = [i \in 1 .. n |-> revs'[i]] /\ \A i \in 1 .. n : revs'[i] \in Revision
    BY <1>2, <1>3, <2>1
  <2>3. revs' \in Seq(Revision) /\ Len(revs') = n
    BY <2>2
  <2> QED BY <2>1, <2>2, <2>3
<1>5. \A i : Reviewed(i) => Reviewed(i)'
  BY <1>2, <1>3, <1>4 DEF Reviewed, ReadAsIs
<1>6. Reviewed(r.id)' /\ \A i \in DOMAIN revs : i \in {r.id, r.old} => Reviewed(i)'
  BY <1>2, <1>5, <1>4 DEF RevisionsInv
<1>7. Len(revs) <= Len(revs') /\ WorkSound(NoWork)'
  BY <1>4 DEF NoWork, WorkSound, RevisionsInv
<1>8. Reviewed(published)'
  BY <1>2, <1>6 DEF Reviewed
<1>9. \A i \in DOMAIN revs' : \/ i \in DOMAIN revs /\ revs'[i].status = revs[i].status
                             \/ Reviewed(i)'
  BY <1>3, <1>4, <1>6
<1> QED BY <1>2, <1>3, <1>4, <1>7, <1>8, <1>9, RowsStay DEF EndWork

LEMMA RevisionsGoOn == RevisionsInv /\ (RevisionsStep \/ UNCHANGED book) => RevisionsInv'
<1>1. ASSUME RevisionsInv, UNCHANGED book PROVE RevisionsInv'
  BY <1>1 DEF book, RevisionsInv, WorkSound, Reviewed, ReadAsIs, Sent
<1>2. ASSUME RevisionsInv, NEW e \in Editing, NEW who \in Editors,
             AskDraft(e, who) \/ \E id \in DOMAIN revs : AskApprove(e, id, who)
      PROVE  RevisionsInv'
  <2>1. PICK r : AskWork(e, r) /\ Asked(r)
    <3>1. CASE AskDraft(e, who)
      <4>1. PICK r : r = [kind |-> "draft", who |-> who, parent |-> published, count |-> Len(revs)]
        OBVIOUS
      <4>2. r.kind = "draft" /\ r.who = who /\ r.parent = published
        BY <4>1
      <4> QED BY <3>1, <4>1, <4>2, Zenon DEF AskDraft, Asked
    <3>2. ASSUME NEW id \in DOMAIN revs, AskApprove(e, id, who) PROVE \E r : AskWork(e, r) /\ Asked(r)
      <4>1. PICK r : r = [kind |-> "approve", id |-> id, who |-> who, text |-> revs[id].text]
        OBVIOUS
      <4>2. r.kind = "approve" /\ r.who = who /\ r.id = id /\ r.text = revs[id].text
        BY <4>1
      <4> QED BY <3>2, <4>1, <4>2, Zenon DEF AskApprove, Asked
    <3> QED BY <1>2, <3>1, <3>2
  <2> QED BY <1>2, <2>1, AskWorkStep
<1>3. ASSUME RevisionsInv, NEW e \in Editing, NEW id \in DOMAIN revs,
             AskSubmit(e, id) \/ AskPublish(e, id) 
             \/ \E who \in Editors, text \in Texts : AskSave(e, id, who, text)
      PROVE  RevisionsInv'
  <2>1. PICK r : AskWork(e, r) /\ Asked(r)
    <3>1. CASE AskSubmit(e, id)
      <4>1. PICK r : r = [kind |-> "submit", id |-> id]
        OBVIOUS
      <4>2. r.kind = "submit" /\ r.id = id
        BY <4>1
      <4> QED BY <3>1, <4>1, <4>2, Zenon DEF AskSubmit, Asked
    <3>2. CASE AskPublish(e, id)
      <4>1. PICK r : r = [kind |-> "publish", id |-> id, old |-> published]
        OBVIOUS
      <4>2. r.kind = "publish" /\ r.id = id /\ r.old = published
        BY <4>1
      <4> QED BY <3>2, <4>1, <4>2, Zenon DEF AskPublish, Asked
    <3>3. ASSUME NEW who \in Editors, NEW text \in Texts, AskSave(e, id, who, text)
          PROVE  \E r : AskWork(e, r) /\ Asked(r)
      <4>1. PICK r : r = [kind |-> "save", id |-> id, who |-> who, text |-> text]
        OBVIOUS
      <4>2. r.kind = "save" /\ r.id = id /\ r.who = who /\ r.text = text
        BY <4>1
      <4> QED BY <3>3, <4>1, <4>2, Zenon DEF AskSave, Asked
    <3> QED BY <1>3, <3>1, <3>2, <3>3
  <2> QED BY <1>3, <2>1, AskWorkStep
<1>4. ASSUME RevisionsInv, RevisionsStep PROVE RevisionsInv'
  BY <1>2, <1>3, <1>4, InsertDraftStep, WorkEnds, ApproveStep, PublishStep, Zenon DEF RevisionsStep
<1> QED BY <1>1, <1>4

\* The draft pointer names a revision there is: the row is there before the pointer moves.
LEMMA DraftStays ==
  RevisionsInv /\ draft \in {0} \cup DOMAIN revs /\ (RevisionsStep \/ UNCHANGED book)
    => draft' \in {0} \cup DOMAIN revs'
<1> SUFFICES ASSUME RevisionsInv, draft \in {0} \cup DOMAIN revs, RevisionsStep \/ UNCHANGED book
             PROVE  draft' \in {0} \cup DOMAIN revs'
  OBVIOUS
<1>1. ASSUME UNCHANGED <<revs, draft>> PROVE draft' \in {0} \cup DOMAIN revs'
  BY <1>1
<1>2. ASSUME NEW e \in Editing, InsertDraft(e) PROVE draft' \in {0} \cup DOMAIN revs'
  <2>1. PICK n \in Nat : n = Len(revs) /\ DOMAIN revs = 1 .. n
    BY DEF RevisionsInv
  <2>2. PICK row : row = [status |-> "DRAFT", parent |-> working[e].parent, author |-> working[e].who,
                        text |-> 0, writer |-> working[e].who]
    OBVIOUS
  <2>3. draft' = draft /\ (revs' = revs \/ revs' = Append(revs, row))
    BY <1>2, <2>2, Zenon DEF InsertDraft
  <2>4. DOMAIN Append(revs, row) = 1 .. n + 1
    BY <2>1 DEF RevisionsInv
  <2> QED BY <2>1, <2>3, <2>4
<1>3. ASSUME NEW e \in Editing, PointDraft(e) PROVE draft' \in {0} \cup DOMAIN revs'
  BY <1>3 DEF PointDraft, RevisionsInv, WorkSound
<1>4. ASSUME NEW e \in Editing, Save(e) \/ Submit(e) \/ Approve(e) PROVE draft' \in {0} \cup DOMAIN revs'
  <2>1. DOMAIN revs' = DOMAIN revs /\ draft' = draft
    BY <1>4 DEF Save, Submit, Approve
  <2> QED BY <2>1
<1>5. ASSUME NEW e \in Editing, Publish(e) PROVE draft' \in {0} \cup DOMAIN revs'
  BY <1>5 DEF Publish
<1>6. ASSUME NEW e \in Editing, NEW r, AskWork(e, r) PROVE draft' \in {0} \cup DOMAIN revs'
  BY <1>1, <1>6 DEF AskWork
<1>7. ASSUME NEW e \in Editing, NEW who, NEW id, NEW text,
             AskDraft(e, who) \/ AskApprove(e, id, who) \/ AskSubmit(e, id) \/ AskPublish(e, id) \/ AskSave(e, id, who, text)
      PROVE  draft' \in {0} \cup DOMAIN revs'
  BY <1>6, <1>7 DEF AskDraft, AskApprove, AskSubmit, AskPublish, AskSave
<1>8. CASE UNCHANGED book
  BY <1>1, <1>8 DEF book
<1>9. CASE RevisionsStep
  BY <1>2, <1>3, <1>4, <1>5, <1>7, <1>9, Zenon DEF RevisionsStep
<1> QED BY <1>8, <1>9

\* Whatever is published, was or is ready to be was approved by somebody who did not
\* create it, as that person read it and without his having written it, whatever statuses
\* were written from old reads; the two exceptions are saves, that land after the review
\* began and that the reviewer made himself.
THEOREM PublishedStaysReviewed == Spec => []PublishedWasReviewed
<1>1. Init => RevisionsInv
  BY RevisionsStart DEF Init
<1>2. RevisionsInv /\ [Next]_vars => RevisionsInv'
  <2>1. [Next]_vars => RevisionsStep \/ UNCHANGED book
    BY DEF Next, vars
  <2> QED BY <2>1, RevisionsGoOn
<1>3. RevisionsInv => PublishedWasReviewed
  <2> SUFFICES ASSUME RevisionsInv, NEW i \in DOMAIN revs,
                      revs[i].status \in {"APPROVED", "PUBLISHED", "SUPERSEDED"} \/ i = published
               PROVE  \E a \in approvals :
                        /\ a.id = i /\ a.who # revs[i].author
                        /\ i \notin late \cup ownText => a.text = revs[i].text /\ a.who # revs[i].writer
    BY Zenon DEF PublishedWasReviewed
  <2>1. i # 0
    BY DEF RevisionsInv
  <2>2. Reviewed(i)
    BY <2>1 DEF RevisionsInv
  <2> QED BY <2>2 DEF Reviewed, ReadAsIs
<1> QED BY <1>1, <1>2, <1>3, PTL DEF Spec

-----------------------------------------------------------------------------
(* Products *)

ProductRow == [state : {"none", "live", "deleted"}, sku : 0 .. MaxSku + 1, code : Codes \cup {"none"},
               price : Prices \cup {0}, mrp : Int]

Existing(p) == p \in Prods /\ products[p].state # "none"

PatchShaped(set) ==
  /\ DOMAIN set \subseteq {"price", "mrp", "code"}
  /\ "price" \in DOMAIN set => set.price \in Prices
  /\ "mrp" \in DOMAIN set => set.mrp \in Int
  /\ "code" \in DOMAIN set => set.code \in Codes \cup {"none"}

\* A row a request will insert; only the sequence reaches past what anybody types.
NewRowShaped(r) ==
  /\ r.sku \in 1 .. MaxSku + 1 /\ r.code \in Codes \cup {"none"} /\ r.price \in Prices /\ r.mrp \in Int
  /\ r.sku = MaxSku + 1 => r.kind = "insert" /\ r.free

JobSound(r) ==
  /\ r.kind \in {"none", "create", "createFree", "insert", "update", "delete", "variants", "expand", "barcode"}
  /\ r.kind = "create" => NewRowShaped(r)
  /\ r.kind = "createFree" => r.free /\ r.price \in Prices
  /\ r.kind = "insert" => r.free \in BOOLEAN /\ NewRowShaped(r)
  /\ r.kind = "update" => Existing(r.id) /\ PatchShaped(r.set)
  /\ r.kind \in {"delete", "variants", "expand"} => Existing(r.id)
  /\ r.kind = "barcode" => r.code = r.label

Free(r) == r.kind \in {"createFree", "insert"} /\ r.free

\* One at a time asks for a number, and only as long as none was given out: the
\* numbers typed in so far leave the last one free.
FreeAlone ==
  /\ \A c, d \in Desks : Free(serving[c]) /\ Free(serving[d]) => c = d
  /\ \A d \in Desks : Free(serving[d]) => unnumbered
  /\ unnumbered => skuLast = 0

SkusApart == \A p, q \in LiveProds : products[p].sku = products[q].sku => p = q

GoodsInv ==
  /\ products \in [Prods -> ProductRow]
  /\ serving = [d \in Desks |-> serving[d]] /\ \A d \in Desks : JobSound(serving[d])
  /\ skuLast \in 0 .. MaxSku + 1
  /\ skuLock # 0 => skuLock \in Desks /\ serving[skuLock].kind = "insert" /\ serving[skuLock].free
  /\ FreeAlone /\ SkusApart
  /\ skuLast = 0 => \A p \in LiveProds : products[p].sku # MaxSku + 1
  /\ MisreadRefused

LEMMA GoodsStart == GoodsInit => GoodsInv
<1> SUFFICES ASSUME GoodsInit PROVE GoodsInv
  OBVIOUS
<1>1. MaxSku \in Nat
  BY ProductsAssumption
<1>2. NoProduct \in ProductRow
  BY <1>1 DEF NoProduct, ProductRow
<1>3. products \in [Prods -> ProductRow] /\ LiveProds = {}
  BY <1>2 DEF GoodsInit, LiveProds, NoProduct
<1>4. /\ serving = [d \in Desks |-> serving[d]]
      /\ \A d \in Desks : JobSound(serving[d]) /\ ~Free(serving[d])
  BY DEF GoodsInit, NoJob, JobSound, Free
<1>5. skuLast = 0 /\ skuLock = 0 /\ registry = {} /\ skuLast \in 0 .. MaxSku + 1
  BY <1>1 DEF GoodsInit
<1> QED BY <1>3, <1>4, <1>5 DEF GoodsInv, FreeAlone, SkusApart, MisreadRefused

\* What a request knows of the products stays true while no product disappears.
LEMMA JobsKeepSound ==
  ASSUME \A p \in Prods : products[p].state # "none" => products'[p].state # "none"
  PROVE  \A r : JobSound(r) => JobSound(r)'
BY DEF JobSound, Existing, NewRowShaped, PatchShaped

\* A request that moves on; the products and the sequence as they are.
LEMMA JobMoves ==
  ASSUME GoodsInv, NEW d \in Desks, NEW r, serving' = [serving EXCEPT ![d] = r],
         UNCHANGED <<products, skuLast, registry, unnumbered>>, JobSound(r),
         Free(r) => unnumbered /\ \A e \in Desks \ {d} : ~Free(serving[e]),
         \/ skuLock' = skuLock /\ serving[d].kind # "insert"
         \/ skuLock' = d /\ r.kind = "insert" /\ r.free
  PROVE  GoodsInv'
<1>1. /\ serving' = [e \in Desks |-> serving'[e]] /\ serving'[d] = r
      /\ \A e \in Desks \ {d} : serving'[e] = serving[e]
  BY DEF GoodsInv
<1>2. \A e \in Desks : JobSound(serving[e])'
  <2>1. \A q : JobSound(q) => JobSound(q)'
    BY JobsKeepSound
  <2> QED BY <1>1, <2>1 DEF GoodsInv
<1>3. FreeAlone'
  BY <1>1 DEF GoodsInv, FreeAlone, Free
<1>4. skuLock' # 0 => skuLock' \in Desks /\ serving'[skuLock'].kind = "insert" /\ serving'[skuLock'].free
  BY <1>1 DEF GoodsInv
<1>5. LiveProds' = LiveProds
  BY DEF LiveProds
<1> QED BY <1>1, <1>2, <1>3, <1>4, <1>5 DEF GoodsInv, SkusApart, MisreadRefused

\* A request that is not for a number begins.
LEMMA AskGoodsStep ==
  ASSUME GoodsInv, NEW d \in Desks, NEW r, AskGoods(d, r), JobSound(r), ~Free(r)
  PROVE  GoodsInv'
<1>1. /\ serving' = [serving EXCEPT ![d] = r] /\ serving[d].kind # "insert"
      /\ UNCHANGED <<products, skuLast, skuLock, registry, unnumbered>>
  BY DEF AskGoods, NoJob
<1> QED BY <1>1, JobMoves

LEMMA TotalInt ==
  ASSUME NEW a \in Int, NEW b \in Int, NEW c \in Int, NEW e \in Int
  PROVE  Invoice!Total([cgst |-> a, sgst |-> b, igst |-> c, cess |-> e]) \in Int
<1>1. PICK f : f = [cgst |-> a, sgst |-> b, igst |-> c, cess |-> e]
  OBVIOUS
<1>2. Invoice!Total(f) = SumFunctionOnSet(f, DOMAIN f)
  BY DEF Invoice!Total, Invoice!FoldFunction, Invoice!FoldFunctionOnSet, Invoice!MapThenFoldSet,
         SumFunctionOnSet, FoldFunctionOnSet, MapThenFoldSet
<1>3. IsFiniteSet({"cgst"} \cup {"sgst"} \cup {"igst"} \cup {"cess"})
  BY FS_Singleton, FS_Union
<1>4. DOMAIN f = {"cgst"} \cup {"sgst"} \cup {"igst"} \cup {"cess"} /\ \A x \in DOMAIN f : f[x] \in Int
  BY <1>1
<1>5. IsFiniteSet(DOMAIN f)
  BY <1>3, <1>4
<1> QED BY <1>1, <1>2, <1>4, <1>5, SumInt

LEMMA InclusiveInt ==
  ASSUME NEW price \in Prices \cup {0} PROVE Inclusive(price) \in Int
<1>1. price \in Nat /\ GstRate \in Nat
  BY ProductsAssumption
<1>2. \A n \in Nat : Invoice!HalfUp(n, 200) \in Int /\ Invoice!HalfUp(n, 100) \in Int
  BY DEF Invoice!HalfUp
<1>3. price * GstRate \in Nat /\ price * 0 \in Nat
  BY <1>1
<1>4. PICK a \in Int, b \in Int, c \in Int :
        a = Invoice!HalfUp(price * GstRate, 200) /\ b = Invoice!HalfUp(price * GstRate, 100) /\ c = Invoice!HalfUp(price * 0, 100)
  BY <1>2, <1>3
<1>5. Invoice!Total(Invoice!CalculateTax(price, GstRate, 0, FALSE)) \in Int
  BY <1>4, TotalInt DEF Invoice!CalculateTax
<1>6. Invoice!Total(Invoice!CalculateTax(price, GstRate, 0, TRUE)) \in Int
  BY <1>4, TotalInt DEF Invoice!CalculateTax
<1>7. \A x, y \in Int : Invoice!Greater(price + x, price + y) \in Int
  BY <1>1 DEF Invoice!Greater
<1> QED BY <1>5, <1>6, <1>7 DEF Inclusive, Invoice!InclusiveUnitPrice

LEMMA ResolvedMrpInt ==
  ASSUME NEW price \in Prices \cup {0}, NEW mrp \in Prices \cup {0} PROVE ResolvedMrp(price, mrp) \in Int
BY InclusiveInt, ProductsAssumption DEF ResolvedMrp

LEMMA AskCreateStep ==
  ASSUME GoodsInv, NEW d \in Desks, NEW sku \in 1 .. MaxSku, NEW code \in Codes \cup {"none"},
         NEW price \in Prices, NEW mrp \in Prices \cup {0}, AskCreate(d, sku, code, price, mrp)
  PROVE  GoodsInv'
<1>1. PICK m : m = ResolvedMrp(price, mrp) /\ m \in Int
  BY ResolvedMrpInt
<1>2. PICK r : r = [kind |-> "create", sku |-> sku, code |-> code, price |-> price, mrp |-> m]
  OBVIOUS
<1>3. JobSound(r) /\ ~Free(r) /\ AskGoods(d, r)
  BY <1>1, <1>2, ProductsAssumption DEF JobSound, NewRowShaped, Free, AskCreate
<1> QED BY <1>3, AskGoodsStep

LEMMA AskCreateFreeStep ==
  ASSUME GoodsInv, NEW d \in Desks, NEW price \in Prices, AskCreateFree(d, price)
  PROVE  GoodsInv'
<1>1. PICK r : r = [kind |-> "createFree", free |-> TRUE, price |-> price]
  OBVIOUS
<1>2. JobSound(r) /\ Free(r)
  BY <1>1 DEF JobSound, Free
<1>3. unnumbered /\ \A e \in Desks : ~Free(serving[e])
  BY DEF AskCreateFree, Free
<1>4. /\ serving' = [serving EXCEPT ![d] = r] /\ serving[d].kind # "insert"
      /\ UNCHANGED <<products, skuLast, skuLock, registry, unnumbered>>
  BY <1>1 DEF AskCreateFree, NextJob, NoJob
<1> QED BY <1>2, <1>3, <1>4, JobMoves

LEMMA AskUpdateSteps ==
  ASSUME GoodsInv, NEW d \in Desks, NEW p \in LiveProds
  PROVE  /\ \A x \in Prices : AskUpdatePrice(d, p, x) => GoodsInv'
         /\ \A x \in Prices \cup {0} : AskUpdateMrp(d, p, x) => GoodsInv'
         /\ \A code \in Codes \cup {"none"} : AskUpdateCode(d, p, code) => GoodsInv'
         /\ AskDelete(d, p) => GoodsInv'
<1>1. Existing(p) /\ products[p] \in ProductRow
  BY DEF LiveProds, Existing, GoodsInv
<1>2. ASSUME NEW x \in Prices, AskUpdatePrice(d, p, x) PROVE GoodsInv'
  <2>1. PICK r : r = [kind |-> "update", id |-> p, seen |-> x, set |-> [price |-> x, mrp |-> products[p].mrp]]
    OBVIOUS
  <2>2. JobSound(r) /\ ~Free(r) /\ AskGoods(d, r)
    BY <1>1, <1>2, <2>1 DEF AskUpdatePrice, PricePatch, JobSound, PatchShaped, Free, ProductRow
  <2> QED BY <2>2, AskGoodsStep
<1>3. ASSUME NEW x \in Prices \cup {0}, AskUpdateMrp(d, p, x) PROVE GoodsInv'
  <2>1. PICK m : m = ResolvedMrp(products[p].price, x)
    OBVIOUS
  <2>2. m \in Int
    BY <1>1, <2>1, ProductsAssumption, ResolvedMrpInt DEF ProductRow
  <2>3. PICK r : r = [kind |-> "update", id |-> p, seen |-> products[p].price, set |-> [mrp |-> m]]
    OBVIOUS
  <2>4. JobSound(r) /\ ~Free(r) /\ AskGoods(d, r)
    BY <1>1, <1>3, <2>1, <2>2, <2>3 DEF AskUpdateMrp, JobSound, PatchShaped, Free
  <2> QED BY <2>4, AskGoodsStep
<1>4. ASSUME NEW code \in Codes \cup {"none"}, AskUpdateCode(d, p, code) PROVE GoodsInv'
  <2>1. PICK r : r = [kind |-> "update", id |-> p, seen |-> products[p].price, set |-> [code |-> code]]
    OBVIOUS
  <2>2. JobSound(r) /\ ~Free(r) /\ AskGoods(d, r)
    BY <1>1, <1>4, <2>1 DEF AskUpdateCode, JobSound, PatchShaped, Free
  <2> QED BY <2>2, AskGoodsStep
<1>5. ASSUME AskDelete(d, p) PROVE GoodsInv'
  BY <1>1, <1>5, AskGoodsStep DEF AskDelete, JobSound, Free
<1> QED BY <1>2, <1>3, <1>4, <1>5

LEMMA AskVariantsStep ==
  ASSUME GoodsInv, NEW d \in Desks, NEW p \in LiveProds, NEW x, AskVariants(d, p, x)
  PROVE  GoodsInv'
<1>1. PICK plan : plan = [i \in DOMAIN x |-> PlannedSku(p, x, i)]
  OBVIOUS
<1>2. PICK r : r = [kind |-> "variants", id |-> p, matrix |-> x, plan |-> plan]
  OBVIOUS
<1>3. JobSound(r) /\ ~Free(r) /\ AskGoods(d, r)
  BY <1>1, <1>2 DEF AskVariants, JobSound, Free, LiveProds, Existing
<1> QED BY <1>3, AskGoodsStep

LEMMA TypedSkuStep == ASSUME GoodsInv, NEW d \in Desks, TypedSku(d) PROVE GoodsInv'
<1>1. JobSound(serving[d]) /\ serving[d].kind = "create"
  BY DEF GoodsInv, TypedSku
<1>2. PICK r : r = [kind |-> "insert", free |-> FALSE, sku |-> serving[d].sku, code |-> serving[d].code,
                    price |-> serving[d].price, mrp |-> serving[d].mrp]
  OBVIOUS
<1>3. JobSound(r) /\ ~Free(r)
  BY <1>1, <1>2 DEF JobSound, NewRowShaped, Free
<1>4. serving' = [serving EXCEPT ![d] = r] /\ UNCHANGED <<products, skuLast, skuLock, registry, unnumbered>>
  BY <1>2 DEF TypedSku, NextJob
<1> QED BY <1>1, <1>3, <1>4, JobMoves

\* A set of numbers that is not empty has a least one.
LEMMA LeastNumber ==
  ASSUME NEW T, T \subseteq Nat, T # {}
  PROVE  \E n \in T : \A m \in T : n <= m
<1>1. PICK n \in T : \A m \in T : <<m, n>> \notin OpToRel(<, Nat)
  BY NatLessThanWellFounded, WFMin, Zenon
<1>2. \A m \in Nat : m \in T => ~(m < n)
  BY <1>1, Zenon DEF OpToRel
<1>3. \A m \in T : n <= m
  BY <1>2
<1> QED BY <1>3, Zenon

\* As long as nothing was drawn, the sequence finds a number no live product holds, or
\* gives up: it never passes the one number that nobody can type.
LEMMA FreeSkuFound ==
  ASSUME GoodsInv, skuLast = 0, ~DrawsTaken(skuLast)
  PROVE  NextFreeSku(skuLast) \in 1 .. MaxSku + 1
<1>1. MaxSku \in Nat /\ DrawLimit \in Nat
  BY ProductsAssumption
<1> DEFINE T == {n \in 1 .. DrawLimit : ~SkuTaken(n)}
<1>2. T \in SUBSET Nat /\ T # {}
  BY <1>1 DEF DrawsTaken
<1>3. PICK n \in T : \A m \in T : n <= m
  <2> HIDE DEF T
  <2> QED BY <1>2, LeastNumber
<1>4. n \in 1 .. DrawLimit /\ ~SkuTaken(n) /\ \A m \in 1 .. n - 1 : SkuTaken(m)
  BY <1>1, <1>3
<1> HIDE DEF T
<1>5. PICK k : k = NextFreeSku(skuLast)
  OBVIOUS
<1>6. k \in 1 .. DrawLimit /\ \A m \in 1 .. k - 1 : SkuTaken(m)
  <2>1. \E i \in (skuLast + 1) .. (skuLast + DrawLimit) :
          ~SkuTaken(i) /\ \A m \in (skuLast + 1) .. (i - 1) : SkuTaken(m)
    BY <1>1, <1>4
  <2>2. /\ k \in (skuLast + 1) .. (skuLast + DrawLimit)
        /\ \A m \in (skuLast + 1) .. (k - 1) : SkuTaken(m)
    BY <1>5, <2>1, Zenon DEF NextFreeSku
  <2>3. skuLast + 1 = 1 /\ skuLast + DrawLimit = DrawLimit
    BY <1>1
  <2> QED BY <2>2, <2>3, Zenon
<1>7. ~SkuTaken(MaxSku + 1)
  BY DEF GoodsInv, SkuTaken
<1>8. ~(MaxSku + 1 \in 1 .. k - 1)
  BY <1>6, <1>7, Zenon
<1> QED BY <1>1, <1>5, <1>6, <1>8

LEMMA DrawSkuStep == ASSUME GoodsInv, NEW d \in Desks, DrawSku(d) PROVE GoodsInv'
<1>1. JobSound(serving[d]) /\ serving[d].kind = "createFree"
  BY DEF GoodsInv, DrawSku
<1>2. serving[d].price \in Prices /\ Free(serving[d])
  BY <1>1 DEF JobSound, Free
<1>3. unnumbered /\ skuLast = 0 /\ \A e \in Desks \ {d} : ~Free(serving[e])
  BY <1>2 DEF GoodsInv, FreeAlone
<1>0. CASE DrawsTaken(skuLast)
  <2>1. EndJob(d) /\ UNCHANGED <<products, skuLast, skuLock, registry, unnumbered>>
    BY <1>0 DEF DrawSku
  <2>2. JobSound(NoJob) /\ ~Free(NoJob)
    BY DEF JobSound, Free, NoJob
  <2> QED BY <1>1, <2>1, <2>2, JobMoves DEF EndJob
<1> SUFFICES ASSUME ~DrawsTaken(skuLast) PROVE GoodsInv'
  BY <1>0
<1>4. PICK n, m : n = NextFreeSku(skuLast) /\ m = Inclusive(serving[d].price)
  OBVIOUS
<1>5. n \in 1 .. MaxSku + 1 /\ m \in Int
  BY <1>2, <1>3, <1>4, FreeSkuFound, InclusiveInt
<1>6. PICK r : r = [kind |-> "insert", free |-> TRUE, sku |-> n, code |-> "none",
                    price |-> serving[d].price, mrp |-> m]
  OBVIOUS
<1>7. JobSound(r) /\ r.kind = "insert" /\ r.free
  BY <1>2, <1>5, <1>6 DEF JobSound, NewRowShaped
<1>8. /\ serving' = [serving EXCEPT ![d] = r] /\ skuLock' = d
      /\ UNCHANGED <<products, skuLast, registry, unnumbered>>
  BY <1>4, <1>6 DEF DrawSku, NextJob
<1> QED BY <1>3, <1>7, <1>8, JobMoves

LEMMA FindTakenStep == ASSUME GoodsInv, NEW d \in Desks, FindTaken(d) PROVE GoodsInv'
<1>1. JobSound(serving[d]) /\ serving[d].kind = "variants"
  BY DEF GoodsInv, FindTaken
<1>2. JobSound(NoJob) /\ ~Free(NoJob)
  BY DEF JobSound, Free, NoJob
<1>3. UNCHANGED <<products, skuLast, skuLock, registry, unnumbered>>
  BY DEF FindTaken
<1>4. PICK own : own = {v.sku : v \in TakenSkus(Range(serving[d].plan))}
  OBVIOUS
<1>5. PICK r : r = [kind |-> "expand", id |-> serving[d].id, matrix |-> serving[d].matrix,
                    plan |-> serving[d].plan, own |-> own]
  OBVIOUS
<1>6. JobSound(r) /\ ~Free(r)
  BY <1>1, <1>5 DEF JobSound, Free
<1>7. serving' = [serving EXCEPT ![d] = r] \/ serving' = [serving EXCEPT ![d] = NoJob]
  BY <1>4, <1>5, Zenon DEF FindTaken, EndJob, NextJob
<1> QED BY <1>1, <1>2, <1>3, <1>6, <1>7, JobMoves

LEMMA ExpandStep == ASSUME GoodsInv, NEW d \in Desks, Expand(d) PROVE GoodsInv'
<1>1. JobSound(NoJob) /\ ~Free(NoJob)
  BY DEF JobSound, Free, NoJob
<1>2. /\ serving' = [serving EXCEPT ![d] = NoJob] /\ serving[d].kind # "insert"
      /\ UNCHANGED <<products, skuLast, skuLock, registry, unnumbered>>
  BY DEF Expand, EndJob
<1> QED BY <1>1, <1>2, JobMoves

\* A request that ends with what it wrote: a row, with the sequence and who wants a number.
LEMMA JobEnds ==
  ASSUME GoodsInv, NEW d \in Desks, EndJob(d), products' \in [Prods -> ProductRow],
         \A p \in Prods : products[p].state # "none" => products'[p].state # "none",
         skuLock' = IF Free(serving[d]) THEN 0 ELSE skuLock,
         \/ UNCHANGED <<skuLast, unnumbered>>
         \/ Free(serving[d]) /\ ~unnumbered' /\ skuLast' \in 1 .. MaxSku + 1,
         SkusApart', skuLast' = 0 => \A p \in LiveProds' : products'[p].sku # MaxSku + 1,
         MisreadRefused'
  PROVE  GoodsInv'
<1>1. /\ serving' = [e \in Desks |-> serving'[e]] /\ serving'[d] = NoJob
      /\ \A e \in Desks \ {d} : serving'[e] = serving[e]
  BY DEF GoodsInv, EndJob
<1>2. \A e \in Desks : JobSound(serving[e])'
  <2>1. \A q : JobSound(q) => JobSound(q)'
    BY JobsKeepSound
  <2>2. JobSound(NoJob)
    BY DEF JobSound, NoJob
  <2> QED BY <1>1, <2>1, <2>2 DEF GoodsInv
<1>3. ~Free(NoJob)
  BY DEF Free, NoJob
<1>4. \A e \in Desks : Free(serving'[e]) => e # d /\ Free(serving[e]) /\ ~Free(serving[d])
  BY <1>1, <1>3 DEF GoodsInv, FreeAlone
<1>5. FreeAlone'
  <2>1. \A c, e \in Desks : Free(serving'[c]) /\ Free(serving'[e]) => c = e
    BY <1>4 DEF GoodsInv, FreeAlone
  <2>2. \A e \in Desks : Free(serving'[e]) => unnumbered'
    BY <1>4 DEF GoodsInv, FreeAlone
  <2>3. unnumbered' => skuLast' = 0
    BY DEF GoodsInv, FreeAlone
  <2> QED BY <2>1, <2>2, <2>3 DEF FreeAlone, Free
<1>6. skuLock' # 0 => skuLock' \in Desks /\ serving'[skuLock'].kind = "insert" /\ serving'[skuLock'].free
  BY <1>1 DEF GoodsInv, Free
<1>7. skuLast' \in 0 .. MaxSku + 1
  BY ProductsAssumption DEF GoodsInv
<1> QED BY <1>1, <1>2, <1>5, <1>6, <1>7 DEF GoodsInv

LEMMA InsertStep == ASSUME GoodsInv, NEW d \in Desks, Insert(d) PROVE GoodsInv'
<1>1. JobSound(serving[d]) /\ serving[d].kind = "insert"
  BY DEF GoodsInv, Insert
<1>2. PICK r : r = serving[d]
  OBVIOUS
<1>3. r.free \in BOOLEAN /\ NewRowShaped(r) /\ (Free(r) <=> r.free)
  BY <1>1, <1>2 DEF JobSound, Free
<1>4. PICK p : p = CHOOSE q \in {x \in Prods : products[x].state = "none"} : TRUE
  OBVIOUS
<1>5. p \in Prods /\ products[p].state = "none" /\ p \notin LiveProds
  BY <1>4 DEF Insert, LiveProds
<1>6. PICK row : row = [state |-> "live", sku |-> r.sku, code |-> r.code, price |-> r.price, mrp |-> r.mrp]
  OBVIOUS
<1>7. row \in ProductRow
  BY <1>3, <1>6, ProductsAssumption DEF NewRowShaped, ProductRow
<1>8. /\ EndJob(d) /\ skuLock' = (IF Free(serving[d]) THEN 0 ELSE skuLock) /\ registry' = registry
  BY <1>2, <1>3 DEF Insert
<1>9. CASE ~KeysFree(r.sku, r.code, 0)
  <2>1. UNCHANGED <<products, skuLast, unnumbered>>
    BY <1>2, <1>9, Zenon DEF Insert
  <2>2. LiveProds' = LiveProds
    BY <2>1 DEF LiveProds
  <2>3. /\ SkusApart' /\ MisreadRefused' /\ (skuLast' = 0 => \A q \in LiveProds' : products'[q].sku # MaxSku + 1)
        /\ products' \in [Prods -> ProductRow]
    BY <1>8, <2>1, <2>2 DEF GoodsInv, SkusApart, MisreadRefused
  <2> QED BY <1>8, <2>1, <2>3, JobEnds
<1>10. CASE KeysFree(r.sku, r.code, 0)
  <2>1. /\ products' = [products EXCEPT ![p] = row]
        /\ skuLast' = (IF r.free THEN r.sku ELSE skuLast)
        /\ unnumbered' = (IF r.free THEN FALSE ELSE unnumbered)
    BY <1>2, <1>4, <1>6, <1>10, Zenon DEF Insert
  <2>2. /\ products' \in [Prods -> ProductRow] /\ products'[p] = row
        /\ \A q \in Prods \ {p} : products'[q] = products[q]
    BY <1>5, <1>7, <2>1 DEF GoodsInv
  <2>3. LiveProds' = LiveProds \cup {p}
    BY <1>5, <1>6, <2>2 DEF LiveProds
  <2>4. \A q \in LiveProds : q \in Prods \ {p} /\ q # 0 /\ products[q].sku # r.sku
    BY <1>5, <1>10, ProductsAssumption DEF KeysFree, LiveProds
  <2>5. \A q \in LiveProds : products'[q].sku = products[q].sku /\ products'[q].sku # products'[p].sku
    BY <1>6, <2>2, <2>4
  <2>6. SkusApart'
    BY <2>3, <2>5 DEF GoodsInv, SkusApart
  <2>7. skuLast' = 0 => \A q \in LiveProds' : products'[q].sku # MaxSku + 1
    <3>1. r.free => skuLast' # 0
      BY <1>3, <2>1, ProductsAssumption DEF NewRowShaped
    <3>2. ~r.free => r.sku # MaxSku + 1
      BY <1>3 DEF NewRowShaped
    <3> QED BY <1>6, <2>1, <2>2, <2>3, <2>5, <3>1, <3>2 DEF GoodsInv
  <2>8. \A q \in Prods : products[q].state # "none" => products'[q].state # "none"
    BY <1>5, <2>2
  <2>9. \/ UNCHANGED <<skuLast, unnumbered>>
        \/ Free(serving[d]) /\ ~unnumbered' /\ skuLast' \in 1 .. MaxSku + 1
    BY <1>2, <1>3, <2>1 DEF NewRowShaped
  <2>10. MisreadRefused'
    BY <1>8 DEF GoodsInv, MisreadRefused
  <2> QED BY <1>8, <2>2, <2>6, <2>7, <2>8, <2>9, <2>10, JobEnds
<1> QED BY <1>9, <1>10

\* The row an edit writes: what it brings, and the rest as the row is.
Patched(row, set) == [f \in DOMAIN row |-> IF f \in DOMAIN set THEN set[f] ELSE row[f]]

LEMMA PatchedRow ==
  ASSUME ProductsAssumption, NEW row \in ProductRow, NEW set, PatchShaped(set)
  PROVE  /\ Patched(row, set) \in ProductRow
         /\ Patched(row, set).state = row.state /\ Patched(row, set).sku = row.sku
         /\ Patched(row, set).price = IF "price" \in DOMAIN set THEN set.price ELSE row.price
         /\ Patched(row, set).mrp = IF "mrp" \in DOMAIN set THEN set.mrp ELSE row.mrp
<1>1. PICK new : new = Patched(row, set)
  OBVIOUS
<1>2. DOMAIN row = {"state", "sku", "code", "price", "mrp"}
  BY DEF ProductRow
<1>3. /\ DOMAIN new = {"state", "sku", "code", "price", "mrp"} /\ new = [f \in DOMAIN new |-> new[f]]
      /\ new["state"] = row["state"] /\ new["sku"] = row["sku"]
      /\ new["code"] = IF "code" \in DOMAIN set THEN set["code"] ELSE row["code"]
      /\ new["price"] = IF "price" \in DOMAIN set THEN set["price"] ELSE row["price"]
      /\ new["mrp"] = IF "mrp" \in DOMAIN set THEN set["mrp"] ELSE row["mrp"]
  BY <1>1, <1>2 DEF Patched, PatchShaped
<1>4. new["code"] \in Codes \cup {"none"} /\ new["price"] \in Prices \cup {0} /\ new["mrp"] \in Int
  BY <1>3 DEF PatchShaped, ProductRow
<1>5. new \in ProductRow
  BY <1>3, <1>4 DEF ProductRow
<1> QED BY <1>1, <1>3, <1>5

\* An edit writes its row or nothing.
LEMMA UpdateWrites ==
  ASSUME GoodsInv, NEW d \in Desks, Update(d)
  PROVE  /\ serving[d].kind = "update" /\ Existing(serving[d].id) /\ PatchShaped(serving[d].set)
         /\ products' \in [Prods -> ProductRow]
         /\ \/ products' = products
            \/ products' = [products EXCEPT ![serving[d].id] = Patched(products[serving[d].id], serving[d].set)]
<1>1. serving[d].kind = "update" /\ Existing(serving[d].id) /\ PatchShaped(serving[d].set)
  BY DEF GoodsInv, JobSound, Update
<1>2. Patched(products[serving[d].id], serving[d].set) \in ProductRow
  BY <1>1, PatchedRow, ProductsAssumption DEF Existing, GoodsInv
<1>3. \/ products' = products
      \/ products' = [products EXCEPT ![serving[d].id] = Patched(products[serving[d].id], serving[d].set)]
  BY Zenon DEF Update, Patched
<1> QED BY <1>1, <1>2, <1>3 DEF Existing, GoodsInv

\* An edit leaves every product in its state and with its SKU.
LEMMA UpdateKeeps ==
  ASSUME GoodsInv, NEW d \in Desks, Update(d)
  PROVE  \A p \in Prods : products'[p].state = products[p].state /\ products'[p].sku = products[p].sku
<1>1. PICK id, row : id = serving[d].id /\ row = Patched(products[id], serving[d].set)
  OBVIOUS
<1>2. id \in Prods /\ row.state = products[id].state /\ row.sku = products[id].sku
  BY <1>1, UpdateWrites, PatchedRow, ProductsAssumption DEF Existing, GoodsInv
<1>3. products' = products \/ products' = [products EXCEPT ![id] = row]
  BY <1>1, UpdateWrites
<1> QED BY <1>2, <1>3 DEF GoodsInv

LEMMA UpdateStep == ASSUME GoodsInv, NEW d \in Desks, Update(d) PROVE GoodsInv'
<1>1. LiveProds' = LiveProds /\ \A p \in LiveProds : products'[p].sku = products[p].sku
  BY UpdateKeeps DEF LiveProds
<1>2. /\ EndJob(d) /\ ~Free(serving[d]) /\ UNCHANGED <<skuLast, unnumbered, skuLock, registry>>
  BY DEF Update, Free
<1>3. SkusApart' /\ MisreadRefused' /\ (skuLast' = 0 => \A p \in LiveProds' : products'[p].sku # MaxSku + 1)
  BY <1>1, <1>2 DEF GoodsInv, SkusApart, MisreadRefused
<1> QED BY <1>2, <1>3, UpdateWrites, UpdateKeeps, JobEnds

LEMMA DeleteProductStep == ASSUME GoodsInv, NEW d \in Desks, Delete(d) PROVE GoodsInv'
<1>1. PICK id, row : id = serving[d].id /\ row = [products[id] EXCEPT !.state = "deleted"]
  OBVIOUS
<1>2. id \in Prods /\ row \in ProductRow /\ row.state = "deleted"
  BY <1>1 DEF Delete, GoodsInv, JobSound, Existing, ProductRow
<1>3. products' = [products EXCEPT ![id] = row]
  BY <1>1 DEF Delete
<1>4. /\ products' \in [Prods -> ProductRow] /\ \A p \in Prods : products[p].state # "none" => products'[p].state # "none"
      /\ LiveProds' \subseteq LiveProds /\ \A p \in LiveProds' : products'[p] = products[p]
  BY <1>2, <1>3 DEF GoodsInv, LiveProds
<1>5. /\ EndJob(d) /\ ~Free(serving[d]) /\ UNCHANGED <<skuLast, unnumbered, skuLock, registry>>
  BY DEF Delete, Free
<1>6. SkusApart' /\ MisreadRefused' /\ (skuLast' = 0 => \A p \in LiveProds' : products'[p].sku # MaxSku + 1)
  BY <1>4, <1>5 DEF GoodsInv, SkusApart, MisreadRefused
<1> QED BY <1>4, <1>5, <1>6, JobEnds

LEMMA RegisterStep == ASSUME GoodsInv, NEW d \in Desks, Register(d) PROVE GoodsInv'
<1>1. LiveProds' = LiveProds
  BY DEF Register, LiveProds
<1>2. /\ EndJob(d) /\ ~Free(serving[d]) /\ UNCHANGED <<products, skuLast, unnumbered, skuLock>>
  BY DEF Register, Free
<1>3. serving[d].code = serving[d].label
  BY DEF Register, GoodsInv, JobSound
<1>4. MisreadRefused'
  BY <1>3 DEF Register, GoodsInv, MisreadRefused
<1>5. SkusApart' /\ (skuLast' = 0 => \A p \in LiveProds' : products'[p].sku # MaxSku + 1)
  BY <1>1, <1>2 DEF GoodsInv, SkusApart
<1> QED BY <1>2, <1>4, <1>5, JobEnds DEF GoodsInv

-----------------------------------------------------------------------------
(* Check digits *)

LEMMA EqualCheckDigits ==
  ASSUME NEW a \in Int, NEW b \in Int, (10 - (a % 10)) % 10 = (10 - (b % 10)) % 10
  PROVE  a % 10 = b % 10
OBVIOUS

\* Weights of one and three move no digit onto another: both are coprime to ten.
LEMMA WeightTells ==
  ASSUME NEW a \in Int, NEW x \in 0 .. 9, NEW y \in 0 .. 9, NEW w \in {1, 3},
         a % 10 = (a + (y * w - x * w)) % 10
  PROVE  x = y
<1>1. CASE w = 1
  BY <1>1
<1>2. CASE w = 3
  BY <1>2
<1> QED BY <1>1, <1>2

Weight(s, i) == IF (Len(s) - i) % 2 = 0 THEN 3 ELSE 1

\* Of two runs of digits that differ in at most one place the check digits tell.
LEMMA CheckDigitTells ==
  ASSUME NEW s \in Seq(0 .. 9), NEW t \in Seq(0 .. 9), Len(s) = Len(t), NEW k \in DOMAIN s,
         \A i \in DOMAIN s : i # k => s[i] = t[i], CheckDigit(s) = CheckDigit(t)
  PROVE  s[k] = t[k]
<1>1. PICK f, g : f = [i \in DOMAIN s |-> s[i] * Weight(s, i)] /\ g = [i \in DOMAIN t |-> t[i] * Weight(t, i)]
  OBVIOUS
<1>2. DOMAIN s = DOMAIN t /\ DOMAIN s = 1 .. Len(s) /\ Len(s) \in Nat
  OBVIOUS
<1>3. \A i \in DOMAIN s : Weight(s, i) \in {1, 3} /\ Weight(t, i) = Weight(s, i)
  BY <1>2 DEF Weight
<1>4. \A i \in DOMAIN s : /\ f[i] = s[i] * Weight(s, i) /\ g[i] = t[i] * Weight(s, i)
                          /\ s[i] \in 0 .. 9 /\ t[i] \in 0 .. 9
  BY <1>1, <1>2, <1>3
<1>5. \A x \in 0 .. 9, w \in {1, 3} : x * w \in Int
  OBVIOUS
<1>6. \A i \in DOMAIN s : f[i] \in Int /\ g[i] \in Int /\ (i # k => g[i] = f[i])
  BY <1>3, <1>4, <1>5
<1>7. IsFiniteSet(DOMAIN s)
  BY <1>2, FS_Interval
<1>8. SumFunctionOnSet(g, DOMAIN s) = SumFunctionOnSet(f, DOMAIN s) + (g[k] - f[k])
  BY <1>6, <1>7, SumChange
<1>9. SumFunctionOnSet(f, DOMAIN s) \in Int /\ SumFunctionOnSet(g, DOMAIN s) \in Int
  BY <1>6, <1>7, SumInt
<1>10. PICK a \in Int, b \in Int : a = SumFunctionOnSet(f, DOMAIN s) /\ b = SumFunctionOnSet(g, DOMAIN s)
  BY <1>9
<1>11. WeightedSum(s) = a /\ WeightedSum(t) = b
  <2>1. DOMAIN f = DOMAIN s /\ DOMAIN g = DOMAIN s
    BY <1>1, <1>2
  <2>2. WeightedSum(s) = SumFunction(f) /\ WeightedSum(t) = SumFunction(g)
    BY <1>1, Zenon DEF WeightedSum, Weight
  <2> QED BY <1>10, <2>1, <2>2 DEF SumFunction
<1>12. a % 10 = b % 10
  <2>1. (10 - (a % 10)) % 10 = (10 - (b % 10)) % 10
    BY <1>11 DEF CheckDigit
  <2> QED BY <2>1, EqualCheckDigits
<1>13. PICK w \in {1, 3} : f[k] = s[k] * w /\ g[k] = t[k] * w
  BY <1>3, <1>4
<1>14. a % 10 = (a + (t[k] * w - s[k] * w)) % 10
  BY <1>8, <1>10, <1>12, <1>13
<1>15. PICK x \in 0 .. 9, y \in 0 .. 9 : x = s[k] /\ y = t[k]
  BY <1>4
<1>16. a % 10 = (a + (y * w - x * w)) % 10
  BY <1>14, <1>15
<1>17. x = y
  BY <1>16, WeightTells
<1> QED BY <1>15, <1>17

LEMMA CheckDigitIsDigit ==
  ASSUME NEW s \in Seq(0 .. 9) PROVE CheckDigit(s) \in 0 .. 9
<1>1. PICK f : f = [i \in DOMAIN s |-> s[i] * Weight(s, i)]
  OBVIOUS
<1>2. \A i \in DOMAIN s : f[i] = s[i] * Weight(s, i) /\ s[i] \in 0 .. 9 /\ Weight(s, i) \in {1, 3}
  BY <1>1 DEF Weight
<1>3. \A x \in 0 .. 9, w \in {1, 3} : x * w \in Int
  OBVIOUS
<1>4. \A i \in DOMAIN s : f[i] \in Int
  BY <1>2, <1>3
<1>5. IsFiniteSet(DOMAIN s)
  <2>1. DOMAIN s = 1 .. Len(s) /\ Len(s) \in Nat
    OBVIOUS
  <2> QED BY <2>1, FS_Interval
<1>6. PICK a \in Int : a = SumFunctionOnSet(f, DOMAIN s)
  BY <1>4, <1>5, SumInt
<1>7. WeightedSum(s) = a
  <2>1. DOMAIN f = DOMAIN s
    BY <1>1
  <2>2. WeightedSum(s) = SumFunction(f)
    BY <1>1, Zenon DEF WeightedSum, Weight
  <2> QED BY <1>6, <2>1, <2>2 DEF SumFunction
<1> QED BY <1>7 DEF CheckDigit

\* A label typed with one digit changed that is valid all the same is the label.
LEMMA MisreadInvalid ==
  ASSUME NEW payload \in Seq(0 .. 9), NEW label, label = Append(payload, CheckDigit(payload)),
         NEW at \in DOMAIN label, NEW digit \in 0 .. 9, NEW typed, typed = [label EXCEPT ![at] = digit],
         Gs1Valid(typed)
  PROVE  typed = label
<1>1. PICK n : n = Len(payload)
  OBVIOUS
<1>2. PICK c \in 0 .. 9 : c = CheckDigit(payload)
  BY CheckDigitIsDigit
<1>3. /\ n \in Nat /\ label \in Seq(0 .. 9) /\ Len(label) = n + 1 /\ label[n + 1] = c
      /\ \A i \in 1 .. n : label[i] = payload[i]
  BY <1>1, <1>2
<1>4. /\ typed \in Seq(0 .. 9) /\ Len(typed) = n + 1 /\ typed[at] = digit /\ at \in 1 .. n + 1
      /\ \A i \in 1 .. n + 1 : i # at => typed[i] = label[i]
  <2>1. label \in [1 .. n + 1 -> 0 .. 9] /\ DOMAIN label = 1 .. n + 1
    <3>1. label \in [1 .. Len(label) -> 0 .. 9]
      BY <1>3, LenProperties
    <3> QED BY <1>3, <3>1
  <2>2. typed \in [1 .. n + 1 -> 0 .. 9] /\ typed[at] = digit /\ \A i \in 1 .. n + 1 : i # at => typed[i] = label[i]
    BY <2>1
  <2>3. typed \in Seq(0 .. 9) /\ Len(typed) = n + 1
    BY <1>3, <2>2
  <2> QED BY <2>1, <2>2, <2>3
<1>5. PICK front : front = SubSeq(typed, 1, n)
  OBVIOUS
<1>6. front \in Seq(0 .. 9) /\ Len(front) = n /\ \A i \in 1 .. n : front[i] = typed[i]
  <2>1. n <= Len(typed) /\ n \in Nat
    BY <1>3, <1>4
  <2>2. \A i \in 1 .. n : typed[i] \in 0 .. 9
    BY <1>3, <1>4
  <2>3. front = [i \in 1 .. n |-> typed[i]]
    BY <1>5, <2>1
  <2>4. front \in [1 .. n -> 0 .. 9]
    BY <2>2, <2>3
  <2>5. front \in Seq(0 .. 9) /\ Len(front) = n
    BY <2>1, <2>4, SeqDef, LenProperties
  <2> QED BY <2>3, <2>5
<1>7. typed[n + 1] = CheckDigit(front)
  <2>1. Len(typed) - 1 = n
    BY <1>3, <1>4
  <2> QED BY <1>4, <1>5, <2>1 DEF Gs1Valid
<1>8. typed[at] = label[at]
  <2>1. CASE at = n + 1
    <3>1. front = payload
      <4>1. \A i \in 1 .. n : front[i] = payload[i]
        BY <1>3, <1>4, <1>6, <2>1
      <4> QED BY <1>1, <1>6, <4>1, SeqEqual
    <3> QED BY <1>2, <1>3, <1>7, <2>1, <3>1
  <2>2. CASE at # n + 1
    <3>1. at \in DOMAIN payload /\ Len(payload) = Len(front) /\ DOMAIN payload = 1 .. n
      BY <1>1, <1>3, <1>4, <1>6, <2>2
    <3>2. \A i \in DOMAIN payload : i # at => payload[i] = front[i]
      BY <1>3, <1>4, <1>6, <3>1
    <3>3. CheckDigit(payload) = CheckDigit(front)
      BY <1>2, <1>3, <1>4, <1>7, <2>2
    <3>4. payload[at] = front[at]
      <4>1. \A s, t \in Seq(0 .. 9) : \A k \in DOMAIN s :
              /\ Len(s) = Len(t) /\ CheckDigit(s) = CheckDigit(t)
              /\ \A i \in DOMAIN s : i # k => s[i] = t[i]
              => s[k] = t[k]
        BY CheckDigitTells
      <4>2. payload \in Seq(0 .. 9) /\ front \in Seq(0 .. 9)
        BY <1>6
      <4> QED BY <3>1, <3>2, <3>3, <4>1, <4>2, Zenon
    <3> QED BY <1>3, <1>6, <3>1, <3>4
  <2> QED BY <2>1, <2>2
<1> QED BY <1>3, <1>4, <1>8, SeqEqual

LEMMA AskBarcodeStep ==
  ASSUME GoodsInv, NEW d \in Desks, NEW payload \in Labels, NEW digit \in 0 .. 9,
         NEW label, label = Append(payload, CheckDigit(payload)), NEW at \in DOMAIN label,
         AskBarcode(d, label, at, digit)
  PROVE  GoodsInv'
<1>1. PICK typed : typed = [label EXCEPT ![at] = digit]
  OBVIOUS
<1>2. Gs1Valid(typed) /\ AskGoods(d, [kind |-> "barcode", code |-> typed, label |-> label])
  BY <1>1 DEF AskBarcode
<1>3. typed = label
  BY <1>1, <1>2, MisreadInvalid, ProductsAssumption
<1>4. PICK r : r = [kind |-> "barcode", code |-> typed, label |-> label]
  OBVIOUS
<1>5. JobSound(r) /\ ~Free(r)
  BY <1>3, <1>4 DEF JobSound, Free
<1> QED BY <1>2, <1>4, <1>5, AskGoodsStep

-----------------------------------------------------------------------------

LEMMA GoodsGoOn == GoodsInv /\ (GoodsStep \/ UNCHANGED goods) => GoodsInv'
<1>1. ASSUME GoodsInv, UNCHANGED goods PROVE GoodsInv'
  <2>1. UNCHANGED <<products, skuLast, skuLock, registry, serving, unnumbered>> /\ LiveProds' = LiveProds
    BY <1>1 DEF goods, LiveProds
  <2>2. \A q : JobSound(q) => JobSound(q)'
    BY <2>1, JobsKeepSound
  <2> QED BY <1>1, <2>1, <2>2 DEF GoodsInv, FreeAlone, Free, SkusApart, MisreadRefused
<1>2. ASSUME GoodsInv, NEW d \in Desks, GoodsServe(d) PROVE GoodsInv'
  BY <1>2, DrawSkuStep, TypedSkuStep, InsertStep, UpdateStep, DeleteProductStep, FindTakenStep, ExpandStep,
     RegisterStep, Zenon DEF GoodsServe
<1>3. ASSUME GoodsInv, NEW d \in Desks, GoodsAsk(d) PROVE GoodsInv'
  <2>1. ASSUME NEW sku \in 1 .. MaxSku, NEW code \in Codes \cup {"none"}, NEW price \in Prices,
               NEW mrp \in Prices \cup {0}, AskCreate(d, sku, code, price, mrp)
        PROVE  GoodsInv'
    BY <1>3, <2>1, AskCreateStep
  <2>2. ASSUME NEW p \in LiveProds,
               \/ \E x \in Prices : AskUpdatePrice(d, p, x) \/ AskUpdateMrp(d, p, x)
               \/ AskUpdateMrp(d, p, 0)
               \/ \E code \in Codes \cup {"none"} : AskUpdateCode(d, p, code)
               \/ AskDelete(d, p)
               \/ \E x \in Matrices : AskVariants(d, p, x)
        PROVE  GoodsInv'
    BY <1>3, <2>2, AskUpdateSteps, AskVariantsStep
  <2>3. ASSUME NEW payload \in Labels, NEW digit \in 0 .. 9, NEW label,
               label = Append(payload, CheckDigit(payload)),
               \E at \in DOMAIN label : AskBarcode(d, label, at, digit)
        PROVE  GoodsInv'
    BY <1>3, <2>3, AskBarcodeStep
  <2> QED BY <1>3, <2>1, <2>2, <2>3, Zenon DEF GoodsAsk
<1>4. ASSUME GoodsInv, GoodsStep PROVE GoodsInv'
  BY <1>2, <1>3, <1>4, AskCreateFreeStep, Zenon DEF GoodsStep
<1> QED BY <1>1, <1>4


-----------------------------------------------------------------------------
(* Prices *)

\* What a request writes fits the price it was compared with.
PatchFits(r) ==
  /\ r.kind \in {"create", "insert"} => MrpFits(r.price, r.mrp)
  /\ r.kind = "update" /\ "price" \in DOMAIN r.set => "mrp" \in DOMAIN r.set /\ r.set.price = r.seen
  /\ r.kind = "update" /\ "mrp" \in DOMAIN r.set => MrpFits(r.seen, r.set.mrp)

PricesInv ==
  /\ \A d \in Desks : PatchFits(serving[d])
  /\ \A p \in Prods \ outpaced : products[p].state # "none" => MrpFits(products[p].price, products[p].mrp)

LEMMA PricesMove ==
  ASSUME GoodsInv, PricesInv, NEW d \in Desks, NEW r, serving' = [serving EXCEPT ![d] = r],
         UNCHANGED <<products, outpaced>>, PatchFits(r)
  PROVE  PricesInv'
<1>1. serving'[d] = r /\ \A e \in Desks \ {d} : serving'[e] = serving[e]
  BY DEF GoodsInv
<1>2. \A q : PatchFits(q)' <=> PatchFits(q)
  BY DEF PatchFits, MrpFits
<1> QED BY <1>1, <1>2 DEF PricesInv, MrpFits

\* One row is written; it fits, or its MRP is known to be outpaced.
LEMMA PricesWritten ==
  ASSUME GoodsInv, PricesInv, NEW d \in Desks, EndJob(d), NEW id \in Prods, NEW row,
         products' = [products EXCEPT ![id] = row], outpaced \subseteq outpaced' \cup {id},
         id \notin outpaced' /\ row.state # "none" => MrpFits(row.price, row.mrp)
  PROVE  PricesInv'
<1>1. serving'[d] = NoJob /\ \A e \in Desks \ {d} : serving'[e] = serving[e]
  BY DEF GoodsInv, EndJob
<1>2. products'[id] = row /\ \A p \in Prods \ {id} : products'[p] = products[p]
  BY DEF GoodsInv
<1>3. \A q : PatchFits(q)' <=> PatchFits(q)
  BY DEF PatchFits, MrpFits
<1>4. PatchFits(NoJob)
  BY DEF PatchFits, NoJob
<1> QED BY <1>1, <1>2, <1>3, <1>4 DEF PricesInv, MrpFits

LEMMA AskPricesStep ==
  ASSUME GoodsInv, PricesInv, NEW d \in Desks, NEW r, AskGoods(d, r), PatchFits(r)
  PROVE  PricesInv'
BY PricesMove DEF AskGoods

LEMMA AsksFit ==
  ASSUME GoodsInv, PricesInv, NEW d \in Desks, GoodsAsk(d)
  PROVE  PricesInv'
<1>1. ASSUME NEW sku, NEW code, NEW price, NEW mrp, AskCreate(d, sku, code, price, mrp) PROVE PricesInv'
  <2>1. PICK r : r = [kind |-> "create", sku |-> sku, code |-> code, price |-> price, mrp |-> ResolvedMrp(price, mrp)]
    OBVIOUS
  <2>2. AskGoods(d, r) /\ PatchFits(r)
    BY <1>1, <2>1 DEF AskCreate, PatchFits
  <2> QED BY <2>2, AskPricesStep
<1>2. ASSUME NEW p \in LiveProds, NEW x, AskUpdatePrice(d, p, x) PROVE PricesInv'
  <2>1. PICK r : r = [kind |-> "update", id |-> p, seen |-> x, set |-> [price |-> x, mrp |-> products[p].mrp]]
    OBVIOUS
  <2>2. AskGoods(d, r) /\ PatchFits(r)
    BY <1>2, <2>1 DEF AskUpdatePrice, PricePatch, PatchFits
  <2> QED BY <2>2, AskPricesStep
<1>3. ASSUME NEW p \in LiveProds, NEW x, AskUpdateMrp(d, p, x) PROVE PricesInv'
  <2>1. PICK m : m = ResolvedMrp(products[p].price, x)
    OBVIOUS
  <2>2. PICK r : r = [kind |-> "update", id |-> p, seen |-> products[p].price, set |-> [mrp |-> m]]
    OBVIOUS
  <2>3. AskGoods(d, r) /\ PatchFits(r)
    BY <1>3, <2>1, <2>2 DEF AskUpdateMrp, PatchFits
  <2> QED BY <2>3, AskPricesStep
<1>4. ASSUME NEW p \in LiveProds, NEW code, AskUpdateCode(d, p, code) PROVE PricesInv'
  <2>1. PICK r : r = [kind |-> "update", id |-> p, seen |-> products[p].price, set |-> [code |-> code]]
    OBVIOUS
  <2>2. AskGoods(d, r) /\ PatchFits(r)
    BY <1>4, <2>1 DEF AskUpdateCode, PatchFits
  <2> QED BY <2>2, AskPricesStep
<1>5. ASSUME NEW p \in LiveProds, AskDelete(d, p) PROVE PricesInv'
  BY <1>5, AskPricesStep DEF AskDelete, PatchFits
<1>6. ASSUME NEW p \in LiveProds, NEW x, AskVariants(d, p, x) PROVE PricesInv'
  <2>1. PICK plan : plan = [i \in DOMAIN x |-> PlannedSku(p, x, i)]
    OBVIOUS
  <2>2. PICK r : r = [kind |-> "variants", id |-> p, matrix |-> x, plan |-> plan]
    OBVIOUS
  <2>3. AskGoods(d, r) /\ PatchFits(r)
    BY <1>6, <2>1, <2>2 DEF AskVariants, PatchFits
  <2> QED BY <2>3, AskPricesStep
<1>7. ASSUME NEW label, NEW at, NEW digit, AskBarcode(d, label, at, digit) PROVE PricesInv'
  <2>1. PICK r : r = [kind |-> "barcode", code |-> [label EXCEPT ![at] = digit], label |-> label]
    OBVIOUS
  <2>2. AskGoods(d, r) /\ PatchFits(r)
    BY <1>7, <2>1 DEF AskBarcode, PatchFits
  <2> QED BY <2>2, AskPricesStep
<1> QED BY <1>1, <1>2, <1>3, <1>4, <1>5, <1>6, <1>7, Zenon DEF GoodsAsk

LEMMA ServingFits ==
  ASSUME GoodsInv, PricesInv, NEW d \in Desks, GoodsServe(d)
  PROVE  PricesInv'
<1>0. PatchFits(serving[d]) /\ JobSound(serving[d])
  BY DEF PricesInv, GoodsInv
<1>3. PatchFits(NoJob)
  BY DEF PatchFits, NoJob
<1>4. ASSUME EndJob(d), UNCHANGED <<products, outpaced>> PROVE PricesInv'
  BY <1>3, <1>4, PricesMove DEF EndJob
<1>1. ASSUME DrawSku(d), ~DrawsTaken(skuLast) PROVE PricesInv'
  <2>1. PICK price, n : price = serving[d].price /\ n = NextFreeSku(skuLast)
    OBVIOUS
  <2>2. price \in Prices
    BY <1>0, <1>1, <2>1 DEF DrawSku, JobSound
  <2>3. MrpFits(price, Inclusive(price))
    <3>1. Inclusive(price) \in Int
      BY <2>2, InclusiveInt
    <3> QED BY <3>1 DEF MrpFits
  <2>4. PICK r : r = [kind |-> "insert", free |-> TRUE, sku |-> n, code |-> "none",
                      price |-> price, mrp |-> Inclusive(price)]
    OBVIOUS
  <2>5. serving' = [serving EXCEPT ![d] = r] /\ UNCHANGED <<products, outpaced>>
    BY <1>1, <2>1, <2>4 DEF DrawSku, NextJob
  <2>6. PatchFits(r)
    BY <2>3, <2>4 DEF PatchFits
  <2> QED BY <2>5, <2>6, PricesMove
<1>2. ASSUME TypedSku(d) PROVE PricesInv'
  <2>1. PICK r : r = [kind |-> "insert", free |-> FALSE, sku |-> serving[d].sku, code |-> serving[d].code,
                      price |-> serving[d].price, mrp |-> serving[d].mrp]
    OBVIOUS
  <2>2. serving' = [serving EXCEPT ![d] = r] /\ UNCHANGED <<products, outpaced>> /\ serving[d].kind = "create"
    BY <1>2, <2>1 DEF TypedSku, NextJob
  <2>3. PatchFits(r)
    BY <1>0, <2>1, <2>2 DEF PatchFits
  <2> QED BY <2>2, <2>3, PricesMove
<1>10. ASSUME DrawSku(d), DrawsTaken(skuLast) PROVE PricesInv'
  BY <1>4, <1>10 DEF DrawSku
<1>5. ASSUME Insert(d) PROVE PricesInv'
  <2>1. PICK r : r = serving[d]
    OBVIOUS
  <2>2. PICK p : p = CHOOSE q \in {x \in Prods : products[x].state = "none"} : TRUE
    OBVIOUS
  <2>3. p \in Prods /\ products[p].state = "none"
    BY <1>5, <2>2 DEF Insert
  <2>4. PICK row : row = [state |-> "live", sku |-> r.sku, code |-> r.code, price |-> r.price, mrp |-> r.mrp]
    OBVIOUS
  <2>5. EndJob(d) /\ outpaced' = outpaced /\ (UNCHANGED products \/ products' = [products EXCEPT ![p] = row])
    BY <1>5, <2>1, <2>2, <2>4, Zenon DEF Insert
  <2>6. MrpFits(row.price, row.mrp)
    BY <1>0, <1>5, <2>1, <2>4 DEF Insert, PatchFits
  <2> QED BY <1>4, <2>3, <2>5, <2>6, PricesWritten
<1>6. ASSUME Update(d) PROVE PricesInv'
  <2>1. PICK r, id, set, row : r = serving[d] /\ id = r.id /\ set = r.set /\ row = Patched(products[id], set)
    OBVIOUS
  <2>2. r.kind = "update" /\ id \in Prods /\ products[id].state # "none" /\ PatchShaped(set) /\ EndJob(d)
    BY <1>6, <2>1, UpdateWrites DEF Existing, Update
  <2>3. \/ UNCHANGED <<products, outpaced>>
        \/ /\ products' = [products EXCEPT ![id] = row]
           /\ outpaced' = CASE "mrp" \notin DOMAIN set -> outpaced
                           [] "mrp" \in DOMAIN set /\ row.price = r.seen -> outpaced \ {id}
                           [] "mrp" \in DOMAIN set /\ row.price # r.seen -> outpaced \cup {id}
    BY <1>6, <2>1, Zenon DEF Update, Patched
  <2>4. /\ row.state = products[id].state
        /\ row.price = IF "price" \in DOMAIN set THEN set.price ELSE products[id].price
        /\ row.mrp = IF "mrp" \in DOMAIN set THEN set.mrp ELSE products[id].mrp
    BY <2>1, <2>2, PatchedRow, ProductsAssumption DEF GoodsInv
  <2>5. /\ "price" \in DOMAIN set => "mrp" \in DOMAIN set
        /\ "mrp" \in DOMAIN set => MrpFits(r.seen, set.mrp)
    BY <1>0, <2>1, <2>2 DEF PatchFits
  <2>6. id \notin outpaced => MrpFits(products[id].price, products[id].mrp)
    BY <2>2 DEF PricesInv
  <2>7. ASSUME products' = [products EXCEPT ![id] = row], "mrp" \notin DOMAIN set, outpaced' = outpaced
        PROVE  PricesInv'
    <3>1. id \notin outpaced' => MrpFits(row.price, row.mrp)
      BY <2>4, <2>5, <2>6, <2>7
    <3> QED BY <2>2, <2>7, <3>1, PricesWritten
  <2>8. ASSUME products' = [products EXCEPT ![id] = row], "mrp" \in DOMAIN set, row.price = r.seen,
               outpaced' = outpaced \ {id}
        PROVE  PricesInv'
    <3>1. MrpFits(row.price, row.mrp)
      BY <2>4, <2>5, <2>8
    <3> QED BY <2>2, <2>8, <3>1, PricesWritten
  <2>9. ASSUME products' = [products EXCEPT ![id] = row], outpaced' = outpaced \cup {id} PROVE PricesInv'
    BY <2>2, <2>9, PricesWritten
  <2> QED BY <1>4, <2>2, <2>3, <2>7, <2>8, <2>9
<1>7. ASSUME Delete(d) PROVE PricesInv'
  <2>1. PICK id, row : id = serving[d].id /\ row = [products[id] EXCEPT !.state = "deleted"]
    OBVIOUS
  <2>2. id \in Prods /\ products[id].state # "none" /\ products[id] \in ProductRow
    BY <1>0, <1>7, <2>1 DEF Delete, JobSound, Existing, GoodsInv
  <2>3. row.state = "deleted" /\ row.price = products[id].price /\ row.mrp = products[id].mrp
    BY <2>1, <2>2 DEF ProductRow
  <2>4. products' = [products EXCEPT ![id] = row] /\ EndJob(d) /\ outpaced' = outpaced
    BY <1>7, <2>1 DEF Delete
  <2>5. id \notin outpaced => MrpFits(row.price, row.mrp)
    BY <2>2, <2>3 DEF PricesInv
  <2> QED BY <2>2, <2>4, <2>5, PricesWritten
<1>8. ASSUME FindTaken(d) PROVE PricesInv'
  <2>1. PICK own : own = {v.sku : v \in TakenSkus(Range(serving[d].plan))}
    OBVIOUS
  <2>2. PICK r : r = [kind |-> "expand", id |-> serving[d].id, matrix |-> serving[d].matrix,
                      plan |-> serving[d].plan, own |-> own]
    OBVIOUS
  <2>3. (EndJob(d) \/ serving' = [serving EXCEPT ![d] = r]) /\ UNCHANGED <<products, outpaced>>
    BY <1>8, <2>1, <2>2, Zenon DEF FindTaken, NextJob
  <2>4. PatchFits(r)
    BY <2>2 DEF PatchFits
  <2> QED BY <1>4, <2>3, <2>4, PricesMove
<1>9. ASSUME Expand(d) \/ Register(d) PROVE PricesInv'
  BY <1>4, <1>9 DEF Expand, Register
<1> QED BY <1>1, <1>2, <1>5, <1>6, <1>7, <1>8, <1>9, <1>10, Zenon DEF GoodsServe

\* However edits of a product cross, its price stays within its MRP or the MRP is outpaced.
LEMMA PricesGoOn ==
  GoodsInv /\ PricesInv /\ (GoodsStep \/ UNCHANGED goods) => PricesInv'
<1>1. ASSUME GoodsInv, PricesInv, UNCHANGED goods PROVE PricesInv'
  BY <1>1 DEF goods, PricesInv, PatchFits, MrpFits
<1>2. ASSUME GoodsInv, PricesInv, NEW d \in Desks, NEW price, AskCreateFree(d, price) PROVE PricesInv'
  <2>1. PICK r : r = [kind |-> "createFree", free |-> TRUE, price |-> price]
    OBVIOUS
  <2>2. serving' = [serving EXCEPT ![d] = r] /\ UNCHANGED <<products, outpaced>> /\ PatchFits(r)
    BY <1>2, <2>1 DEF AskCreateFree, NextJob, PatchFits
  <2> QED BY <1>2, <2>2, PricesMove
<1> QED BY <1>1, <1>2, AsksFit, ServingFits, Zenon DEF GoodsStep

-----------------------------------------------------------------------------
(* Variants *)

SameName(x, i, y, j) == Short[x[i]] = Short[y[j]] /\ Turn(x, i) = Turn(y, j)

\* A variant there is for one combination of a generated matrix.
IsFor(v, g, i) == g[1] = v.prod /\ i \in DOMAIN g[2] /\ v.sku = PlannedSku(v.prod, g[2], i)

Generating(r) ==
  /\ Existing(r.id) /\ r.matrix \in Matrices
  /\ r.plan = [i \in DOMAIN r.matrix |-> PlannedSku(r.id, r.matrix, i)]

\* A variant stems from a generation; while the product's matrices are numbered alike it
\* is of that generation's combination and of nothing else.
VariantSound(v) ==
  /\ v = [prod |-> v.prod, sku |-> v.sku, is |-> v.is] /\ Existing(v.prod)
  /\ NamedAlike(v.prod) => \E g \in generated : \E i : IsFor(v, g, i) /\ v.is = {g[2][i]}

GenerationSound(g) ==
  /\ Existing(g[1]) /\ g[2] \in Matrices
  /\ \A i \in DOMAIN g[2] : \E v \in variants : IsFor(v, g, i) /\ g[2][i] \in v.is

\* What a generation found of its own is there: variants are never taken away.
ExpansionSound(r) ==
  /\ r.kind \in {"variants", "expand"} => Generating(r)
  /\ r.kind = "expand" => \A s \in r.own : \E v \in variants : v.prod = r.id /\ v.sku = s

VariantsInv ==
  /\ \A v \in variants : VariantSound(v)
  /\ \A v, w \in variants : v.sku = w.sku => v = w
  /\ \A g \in generated : GenerationSound(g)
  /\ \A d \in Desks : ExpansionSound(serving[d])

\* In one matrix a combination has a SKU to itself: those that shorten alike are numbered.
LEMMA NumbersTell ==
  ASSUME NEW x, x \in Seq(DOMAIN Short), NEW i \in DOMAIN x, NEW j \in DOMAIN x, SameName(x, i, x, j)
  PROVE  i = j
<1>1. ASSUME NEW k \in DOMAIN x, NEW m \in DOMAIN x, k < m, Short[x[k]] = Short[x[m]]
      PROVE  Turn(x, k) # Turn(x, m)
  <2>1. PICK A, B : /\ A = {n \in 1 .. k : Short[x[n]] = Short[x[k]]}
                    /\ B = {n \in 1 .. m : Short[x[n]] = Short[x[m]]}
    OBVIOUS
  <2>2. k \in Nat /\ m \in Nat /\ m >= 1
    <3>1. DOMAIN x = 1 .. Len(x) /\ Len(x) \in Nat
      BY LenProperties
    <3> QED BY <3>1
  <2>3. A \subseteq B /\ m \in B /\ m \notin A
    BY <1>1, <2>1, <2>2
  <2>4. IsFiniteSet(1 .. m) /\ B \in SUBSET (1 .. m)
    BY <2>1, <2>2, FS_Interval
  <2>5. IsFiniteSet(B)
    BY <2>4, FS_Subset
  <2>6. Cardinality(B) # Cardinality(A)
    BY <2>3, <2>5, FS_Subset
  <2> QED BY <2>1, <2>6 DEF Turn
<1>2. i \in Nat /\ j \in Nat
  <2>1. DOMAIN x = 1 .. Len(x) /\ Len(x) \in Nat
    BY LenProperties
  <2> QED BY <2>1
<1>3. ~(i < j) /\ ~(j < i)
  BY <1>1 DEF SameName
<1> QED BY <1>2, <1>3

\* So no two of its combinations have the same SKU.
LEMMA OwnSkus ==
  ASSUME NEW p, NEW x \in Matrices, NEW i \in DOMAIN x, NEW j \in DOMAIN x,
         PlannedSku(p, x, i) = PlannedSku(p, x, j)
  PROVE  i = j
BY NumbersTell, ProductsAssumption DEF PlannedSku, SameName

\* While a product's matrices are numbered alike a SKU of it means one combination.
LEMMA PlansTell ==
  ASSUME NEW p, NamedAlike(p), NEW g \in generated, NEW h \in generated, g[1] = p, h[1] = p,
         NEW i \in DOMAIN g[2], NEW j \in DOMAIN h[2]
  PROVE  PlannedSku(p, g[2], i) = PlannedSku(p, h[2], j) <=> g[2][i] = h[2][j]
BY DEF NamedAlike, NumberedAlike, PlannedSku

\* No product goes away or changes its SKU.
ProductsStay ==
  \A p \in Prods : products[p].state # "none" =>
    products'[p].state # "none" /\ products'[p].sku = products[p].sku

LEMMA PlansStay ==
  ASSUME ProductsStay, NEW p, Existing(p)
  PROVE  Existing(p)' /\ \A x, i : PlannedSku(p, x, i)' = PlannedSku(p, x, i)
BY DEF ProductsStay, Existing, PlannedSku

\* Every variant is there after a step, with the combinations it had; other products'
\* are as they were.
VariantsGrow(id) ==
  \A v \in variants : \E w \in variants' :
    w.prod = v.prod /\ w.sku = v.sku /\ v.is \subseteq w.is /\ (v.prod # id => w = v)

LEMMA GenerationStays ==
  ASSUME ProductsStay, NEW id, VariantsGrow(id), NEW g, GenerationSound(g) PROVE GenerationSound(g)'
<1>1. Existing(g[1]) /\ g[2] \in Matrices
  BY DEF GenerationSound
<1>2. Existing(g[1])' /\ \A x, i : PlannedSku(g[1], x, i)' = PlannedSku(g[1], x, i)
  BY <1>1, PlansStay
<1>3. ASSUME NEW i \in DOMAIN g[2] PROVE \E w \in variants' : IsFor(w, g, i)' /\ g[2][i] \in w.is
  <2>1. PICK v \in variants : IsFor(v, g, i) /\ g[2][i] \in v.is
    BY DEF GenerationSound
  <2>2. PICK w \in variants' : w.prod = v.prod /\ w.sku = v.sku /\ v.is \subseteq w.is
    BY DEF VariantsGrow
  <2>3. g[1] = w.prod /\ w.sku = PlannedSku(g[1], g[2], i)
    BY <2>1, <2>2 DEF IsFor
  <2> QED BY <1>2, <2>1, <2>2, <2>3 DEF IsFor
<1> QED BY <1>1, <1>2, <1>3 DEF GenerationSound

LEMMA ExpansionStays ==
  ASSUME ProductsStay, NEW id, VariantsGrow(id), NEW r, ExpansionSound(r) PROVE ExpansionSound(r)'
<1>1. ASSUME Generating(r) PROVE Generating(r)'
  <2>1. Existing(r.id) /\ r.matrix \in Matrices
    BY <1>1 DEF Generating
  <2>2. Existing(r.id)' /\ \A x, i : PlannedSku(r.id, x, i)' = PlannedSku(r.id, x, i)
    BY <2>1, PlansStay
  <2> QED BY <1>1, <2>1, <2>2 DEF Generating
<1>2. ASSUME NEW s, \E v \in variants : v.prod = r.id /\ v.sku = s
      PROVE  \E v \in variants' : v.prod = r.id /\ v.sku = s
  BY <1>2 DEF VariantsGrow
<1> QED BY <1>1, <1>2 DEF ExpansionSound

\* A variant nothing was linked to, of a product no new matrix was confirmed for.
LEMMA VariantStays ==
  ASSUME ProductsStay, generated \subseteq generated', NEW v, VariantSound(v),
         \A g \in generated' \ generated : g[1] # v.prod
  PROVE  VariantSound(v)'
<1>1. Existing(v.prod) /\ v = [prod |-> v.prod, sku |-> v.sku, is |-> v.is]
  BY DEF VariantSound
<1>2. Existing(v.prod)' /\ \A x, i : PlannedSku(v.prod, x, i)' = PlannedSku(v.prod, x, i)
  BY <1>1, PlansStay
<1>3. NamedAlike(v.prod)' => NamedAlike(v.prod)
  BY DEF NamedAlike, NumberedAlike, Turn
<1>4. \A g, i : IsFor(v, g, i)' <=> IsFor(v, g, i)
  BY <1>2 DEF IsFor
<1> QED BY <1>1, <1>2, <1>3, <1>4 DEF VariantSound

\* A step that writes no variant.
LEMMA VariantsMove ==
  ASSUME GoodsInv, VariantsInv, NEW d \in Desks, NEW r, serving' = [serving EXCEPT ![d] = r],
         ProductsStay, UNCHANGED <<variants, generated>>, ExpansionSound(r)
  PROVE  VariantsInv'
<1>1. serving'[d] = r /\ \A e \in Desks \ {d} : serving'[e] = serving[e]
  BY DEF GoodsInv
<1>2. VariantsGrow(0)
  BY DEF VariantsGrow
<1>3. \A v : VariantSound(v) => VariantSound(v)'
  BY VariantStays
<1>4. \A g : GenerationSound(g) => GenerationSound(g)'
  BY <1>2, GenerationStays
<1>5. \A q : ExpansionSound(q) => ExpansionSound(q)'
  BY <1>2, ExpansionStays
<1>6. \A e \in Desks : ExpansionSound(serving[e])'
  BY <1>1, <1>5 DEF VariantsInv
<1> QED BY <1>3, <1>4, <1>6 DEF VariantsInv

\* The combinations an expansion found no variant for.
Missing(r) == {i \in DOMAIN r.plan : r.plan[i] \notin r.own}

\* The combinations an expansion links to the variant with a SKU.
Means(r, s) == {r.matrix[i] : i \in {j \in DOMAIN r.plan : r.plan[j] = s}}

Linked(r, v) == [v EXCEPT !.is = @ \cup Means(r, v.sku)]

\* The variant it adds for one combination, before it is linked.
Blank(r, i) == [prod |-> r.id, sku |-> r.plan[i], is |-> {}]

\* What it writes: every variant of the product is linked, a missing one added first.
LEMMA ExpandWrites ==
  ASSUME NEW d \in Desks, Expand(d)
  PROVE  \/ UNCHANGED <<variants, generated>>
         \/ /\ TakenSkus({serving[d].plan[i] : i \in Missing(serving[d])}) = {}
            /\ variants' = {IF v.prod = serving[d].id THEN Linked(serving[d], v) ELSE v :
                              v \in variants \cup {Blank(serving[d], i) : i \in Missing(serving[d])}}
            /\ generated' = generated \cup {<<serving[d].id, serving[d].matrix>>}
BY Zenon DEF Expand, Missing, Means, Linked, Blank

LEMMA ExpandsSoundly ==
  ASSUME GoodsInv, VariantsInv, NEW d \in Desks, Expand(d)
  PROVE  VariantsInv'
<1>1. ProductsStay /\ UNCHANGED products /\ serving' = [serving EXCEPT ![d] = NoJob]
  BY DEF Expand, EndJob, ProductsStay
<1>2. ExpansionSound(NoJob)
  BY DEF ExpansionSound, NoJob
<1>3. ASSUME UNCHANGED <<variants, generated>> PROVE VariantsInv'
  BY <1>1, <1>2, <1>3, VariantsMove
<1>4. PICK r, new : r = serving[d] /\ new = Missing(r)
  OBVIOUS
<1>5. r.kind = "expand" /\ Generating(r) /\ \A s \in r.own : \E v \in variants : v.prod = r.id /\ v.sku = s
  BY <1>4 DEF Expand, VariantsInv, ExpansionSound
<1>6. /\ Existing(r.id) /\ r.matrix \in Matrices /\ DOMAIN r.plan = DOMAIN r.matrix
      /\ \A i \in DOMAIN r.matrix : r.plan[i] = PlannedSku(r.id, r.matrix, i)
  BY <1>5 DEF Generating
<1>7. new \subseteq DOMAIN r.matrix
  BY <1>4, <1>6 DEF Missing
<1>8. /\ \A p, x, i : PlannedSku(p, x, i)' = PlannedSku(p, x, i)
      /\ \A v, g, i : IsFor(v, g, i)' <=> IsFor(v, g, i)
      /\ \A p : Existing(p)' <=> Existing(p)
  BY <1>1 DEF IsFor, PlannedSku, Existing
<1>9. PICK g : g = <<r.id, r.matrix>>
  OBVIOUS
<1>10. g[1] = r.id /\ g[2] = r.matrix
  BY <1>9
<1>11. ASSUME TakenSkus({r.plan[i] : i \in new}) = {},
              variants' = {IF v.prod = r.id THEN Linked(r, v) ELSE v : v \in variants \cup {Blank(r, i) : i \in new}},
              generated' = generated \cup {g}
       PROVE  VariantsInv'
  <2>1. \A v : v = [prod |-> v.prod, sku |-> v.sku, is |-> v.is] =>
          /\ Linked(r, v) = [prod |-> v.prod, sku |-> v.sku, is |-> v.is \cup Means(r, v.sku)]
          /\ Linked(r, v).prod = v.prod /\ Linked(r, v).sku = v.sku
          /\ Linked(r, v).is = v.is \cup Means(r, v.sku)
    <3> TAKE v
    <3> HAVE v = [prod |-> v.prod, sku |-> v.sku, is |-> v.is]
    <3>1. PICK p, s, is : p = v.prod /\ s = v.sku /\ is = v.is
      OBVIOUS
    <3>2. v = [prod |-> p, sku |-> s, is |-> is]
      BY <3>1
    <3>3. Linked(r, v) = [prod |-> p, sku |-> s, is |-> is \cup Means(r, s)]
      BY <3>1, <3>2 DEF Linked
    <3> QED BY <3>1, <3>3
  <2>2. \A i \in new : /\ Blank(r, i) = [prod |-> Blank(r, i).prod, sku |-> Blank(r, i).sku, is |-> Blank(r, i).is]
                       /\ Blank(r, i).prod = r.id /\ Blank(r, i).sku = r.plan[i] /\ Blank(r, i).is = {}
    BY DEF Blank
  <2>3. \A i \in DOMAIN r.matrix : Means(r, r.plan[i]) = {r.matrix[i]}
    <3> TAKE i \in DOMAIN r.matrix
    <3>1. \A j \in DOMAIN r.plan : r.plan[j] = r.plan[i] => j = i
      BY <1>6, OwnSkus
    <3>2. i \in DOMAIN r.plan
      BY <1>6
    <3> QED BY <3>1, <3>2 DEF Means
  <2>4. \A w \in variants' :
          \/ w \in variants /\ w.prod # r.id
          \/ \E v \in variants : v.prod = r.id /\ w = Linked(r, v)
          \/ \E i \in new : w = Linked(r, Blank(r, i))
    BY <1>11, <2>2, Zenon
  <2>5. /\ \A v \in variants : v.prod # r.id => v \in variants'
        /\ \A v \in variants : v.prod = r.id => Linked(r, v) \in variants'
        /\ \A i \in new : Linked(r, Blank(r, i)) \in variants'
    BY <1>11, <2>2, Zenon
  <2>6. VariantsGrow(r.id)
    <3> SUFFICES ASSUME NEW v \in variants
                 PROVE  \E w \in variants' :
                          w.prod = v.prod /\ w.sku = v.sku /\ v.is \subseteq w.is /\ (v.prod # r.id => w = v)
      BY DEF VariantsGrow
    <3>1. v = [prod |-> v.prod, sku |-> v.sku, is |-> v.is]
      BY DEF VariantsInv, VariantSound
    <3>2. CASE v.prod # r.id
      BY <2>5, <3>2
    <3>3. CASE v.prod = r.id
      <4>1. PICK w \in variants' : w = Linked(r, v)
        BY <2>5, <3>3
      <4>2. w.prod = v.prod /\ w.sku = v.sku /\ v.is \subseteq w.is
        BY <2>1, <3>1, <4>1
      <4> QED BY <3>3, <4>2
    <3> QED BY <3>2, <3>3
  <2>7. NamedAlike(r.id)' => /\ NamedAlike(r.id)
                             /\ \A h \in generated : h[1] = r.id => NumberedAlike(h[2], r.matrix)
    BY <1>10, <1>11 DEF NamedAlike, NumberedAlike, Turn
  <2>8. ASSUME NEW v \in variants, v.prod = r.id PROVE VariantSound(Linked(r, v))'
    <3>1. VariantSound(v)
      BY DEF VariantsInv
    <3>2. PICK w : w = Linked(r, v)
      OBVIOUS
    <3>3. /\ w = [prod |-> w.prod, sku |-> w.sku, is |-> w.is]
          /\ w.prod = r.id /\ w.sku = v.sku /\ w.is = v.is \cup Means(r, v.sku)
      BY <2>1, <2>8, <3>1, <3>2 DEF VariantSound
    <3>4. ASSUME NamedAlike(r.id)' PROVE \E h \in generated' : \E i : IsFor(w, h, i)' /\ w.is = {h[2][i]}
      <4>0. PICK h \in generated : \E i : IsFor(v, h, i) /\ v.is = {h[2][i]}
        BY <2>7, <2>8, <3>1, <3>4 DEF VariantSound
      <4>1. PICK i : IsFor(v, h, i) /\ v.is = {h[2][i]}
        BY <4>0
      <4>2. h[1] = r.id /\ i \in DOMAIN h[2] /\ v.sku = PlannedSku(r.id, h[2], i)
        BY <2>8, <4>1 DEF IsFor
      <4>3. \A j \in DOMAIN r.plan : r.plan[j] = v.sku => r.matrix[j] = h[2][i]
        <5> SUFFICES ASSUME NEW j \in DOMAIN r.plan, r.plan[j] = v.sku PROVE r.matrix[j] = h[2][i]
          OBVIOUS
        <5>1. j \in DOMAIN r.matrix /\ PlannedSku(r.id, r.matrix, j) = PlannedSku(r.id, h[2], i)
          BY <1>6, <4>2
        <5>2. Short[h[2][i]] = Short[r.matrix[j]] /\ Turn(h[2], i) = Turn(r.matrix, j)
          BY <5>1 DEF PlannedSku
        <5>3. NumberedAlike(h[2], r.matrix)
          BY <2>7, <3>4, <4>2
        <5> QED BY <4>2, <5>1, <5>2, <5>3 DEF NumberedAlike
      <4>4. Means(r, v.sku) \subseteq {h[2][i]}
        BY <4>3 DEF Means
      <4>5. w.is = {h[2][i]}
        BY <3>3, <4>1, <4>4
      <4>6. IsFor(w, h, i)
        BY <3>3, <4>2 DEF IsFor
      <4> QED BY <1>8, <1>11, <4>5, <4>6
    <3>5. VariantSound(w)'
      BY <1>6, <1>8, <3>3, <3>4 DEF VariantSound
    <3> QED BY <3>2, <3>5
  <2>9. ASSUME NEW i \in new PROVE VariantSound(Linked(r, Blank(r, i)))'
    <3>1. PICK w : w = Linked(r, Blank(r, i))
      OBVIOUS
    <3>2. i \in DOMAIN r.matrix /\ r.plan[i] = PlannedSku(r.id, r.matrix, i)
      BY <1>6, <1>7
    <3>3. /\ w = [prod |-> w.prod, sku |-> w.sku, is |-> w.is]
          /\ w.prod = r.id /\ w.sku = PlannedSku(r.id, r.matrix, i) /\ w.is = {r.matrix[i]}
      BY <2>1, <2>2, <2>3, <3>1, <3>2
    <3>4. IsFor(w, g, i) /\ w.is = {g[2][i]} /\ g \in generated'
      BY <1>10, <1>11, <3>2, <3>3 DEF IsFor
    <3>5. VariantSound(w)'
      BY <1>6, <1>8, <3>3, <3>4 DEF VariantSound
    <3> QED BY <3>1, <3>5
  <2>10. ASSUME NEW v \in variants, v.prod # r.id PROVE VariantSound(v)'
    <3>1. VariantSound(v) /\ generated \subseteq generated' /\ \A h \in generated' \ generated : h[1] # v.prod
      BY <1>10, <1>11, <2>10 DEF VariantsInv
    <3> QED BY <1>1, <3>1, VariantStays
  <2>11. \A w \in variants' : VariantSound(w)'
    BY <2>4, <2>8, <2>9, <2>10
  <2>12. \A w \in variants' :
           \/ \E v \in variants : v.sku = w.sku /\ w = IF v.prod = r.id THEN Linked(r, v) ELSE v
           \/ \E i \in new : w.sku = r.plan[i] /\ w = Linked(r, Blank(r, i))
    <3> TAKE w \in variants'
    <3>1. ASSUME w \in variants, w.prod # r.id
          PROVE  \E v \in variants : v.sku = w.sku /\ w = IF v.prod = r.id THEN Linked(r, v) ELSE v
      BY <3>1
    <3>2. ASSUME NEW v \in variants, v.prod = r.id, w = Linked(r, v) PROVE v.sku = w.sku
      BY <2>1, <3>2 DEF VariantsInv, VariantSound
    <3>3. ASSUME NEW i \in new, w = Linked(r, Blank(r, i)) PROVE w.sku = r.plan[i]
      BY <2>1, <2>2, <3>3
    <3> QED BY <2>4, <3>1, <3>2, <3>3
  <2>13. \A v, w \in variants' : v.sku = w.sku => v = w
    <3>1. ASSUME NEW v \in variants, NEW i \in new PROVE v.sku # r.plan[i]
      BY <1>11 DEF TakenSkus
    <3>2. ASSUME NEW i \in new, NEW j \in new, r.plan[i] = r.plan[j] PROVE i = j
      BY <1>6, <1>7, <3>2, OwnSkus
    <3>3. \A v, w \in variants : v.sku = w.sku => v = w
      BY DEF VariantsInv
    <3> QED BY <2>12, <3>1, <3>2, <3>3
  <2>14. \A h \in generated : GenerationSound(h)'
    BY <1>1, <2>6, GenerationStays DEF VariantsInv
  <2>15. GenerationSound(g)'
    <3>1. ASSUME NEW i \in DOMAIN r.matrix PROVE \E w \in variants' : IsFor(w, g, i) /\ r.matrix[i] \in w.is
      <4>1. CASE i \in new
        <5>1. PICK w \in variants' : w = Linked(r, Blank(r, i))
          BY <2>5, <4>1
        <5>2. w.prod = r.id /\ w.sku = r.plan[i] /\ w.is = {} \cup Means(r, r.plan[i])
          BY <2>1, <2>2, <4>1, <5>1
        <5> QED BY <1>6, <1>10, <2>3, <5>2 DEF IsFor
      <4>2. CASE i \notin new
        <5>1. r.plan[i] \in r.own
          BY <1>4, <1>6, <4>2 DEF Missing
        <5>2. PICK v \in variants : v.prod = r.id /\ v.sku = r.plan[i]
          BY <1>5, <5>1
        <5>3. v = [prod |-> v.prod, sku |-> v.sku, is |-> v.is]
          BY DEF VariantsInv, VariantSound
        <5>4. PICK w \in variants' : w = Linked(r, v)
          BY <2>5, <5>2
        <5>5. w.prod = r.id /\ w.sku = r.plan[i] /\ w.is = v.is \cup Means(r, r.plan[i])
          BY <2>1, <5>2, <5>3, <5>4
        <5> QED BY <1>6, <1>10, <2>3, <5>5 DEF IsFor
      <4> QED BY <4>1, <4>2
    <3> QED BY <1>6, <1>8, <1>10, <3>1 DEF GenerationSound
  <2>16. \A e \in Desks : ExpansionSound(serving[e])'
    <3>1. serving'[d] = NoJob /\ \A e \in Desks \ {d} : serving'[e] = serving[e]
      BY <1>1 DEF GoodsInv
    <3>2. \A q : ExpansionSound(q) => ExpansionSound(q)'
      BY <1>1, <2>6, ExpansionStays
    <3> QED BY <1>2, <3>1, <3>2 DEF VariantsInv
  <2> QED BY <1>11, <2>11, <2>13, <2>14, <2>15, <2>16 DEF VariantsInv
<1>12. \/ UNCHANGED <<variants, generated>>
       \/ /\ TakenSkus({r.plan[i] : i \in new}) = {}
          /\ variants' = {IF v.prod = r.id THEN Linked(r, v) ELSE v : v \in variants \cup {Blank(r, i) : i \in new}}
          /\ generated' = generated \cup {g}
  BY <1>4, <1>9, ExpandWrites
<1> QED BY <1>3, <1>11, <1>12

LEMMA VariantsAsked ==
  ASSUME GoodsInv, VariantsInv, NEW d \in Desks, GoodsAsk(d)
  PROVE  VariantsInv'
<1>1. ASSUME NEW r, AskGoods(d, r), ExpansionSound(r) PROVE VariantsInv'
  <2>1. ProductsStay /\ UNCHANGED <<variants, generated>> /\ serving' = [serving EXCEPT ![d] = r]
    BY <1>1 DEF AskGoods, ProductsStay
  <2> QED BY <1>1, <2>1, VariantsMove
<1>2. ASSUME NEW r, AskGoods(d, r), r.kind \notin {"variants", "expand"} PROVE VariantsInv'
  BY <1>1, <1>2 DEF ExpansionSound
<1>3. ASSUME NEW sku, NEW code, NEW price, NEW mrp, AskCreate(d, sku, code, price, mrp) PROVE VariantsInv'
  BY <1>2, <1>3 DEF AskCreate
<1>4. ASSUME NEW p \in LiveProds, NEW x, AskUpdatePrice(d, p, x) \/ AskUpdateMrp(d, p, x) \/ AskUpdateCode(d, p, x)
      PROVE  VariantsInv'
  BY <1>2, <1>4 DEF AskUpdatePrice, AskUpdateMrp, AskUpdateCode
<1>5. ASSUME NEW p \in LiveProds, AskDelete(d, p) PROVE VariantsInv'
  BY <1>2, <1>5 DEF AskDelete
<1>6. ASSUME NEW p \in LiveProds, NEW x \in Matrices, AskVariants(d, p, x) PROVE VariantsInv'
  <2>1. PICK plan : plan = [i \in DOMAIN x |-> PlannedSku(p, x, i)]
    OBVIOUS
  <2>2. PICK r : r = [kind |-> "variants", id |-> p, matrix |-> x, plan |-> plan]
    OBVIOUS
  <2>3. AskGoods(d, r) /\ Existing(p)
    BY <1>6, <2>1, <2>2 DEF AskVariants, LiveProds, Existing
  <2>4. ExpansionSound(r)
    BY <2>1, <2>2, <2>3 DEF ExpansionSound, Generating
  <2> QED BY <1>1, <2>3, <2>4
<1>7. ASSUME NEW label, NEW at, NEW digit, AskBarcode(d, label, at, digit) PROVE VariantsInv'
  BY <1>2, <1>7 DEF AskBarcode
<1> QED BY <1>3, <1>4, <1>5, <1>6, <1>7, Zenon DEF GoodsAsk

\* What the transaction finds of its SKUs is the product's own, or it refuses.
LEMMA FindsItsOwn == ASSUME GoodsInv, VariantsInv, NEW d \in Desks, FindTaken(d) PROVE VariantsInv'
<1>1. PICK taken, own : taken = TakenSkus(Range(serving[d].plan)) /\ own = {v.sku : v \in taken}
  OBVIOUS
<1>2. PICK r : r = [kind |-> "expand", id |-> serving[d].id, matrix |-> serving[d].matrix,
                    plan |-> serving[d].plan, own |-> own]
  OBVIOUS
<1>3. \/ serving' = [serving EXCEPT ![d] = NoJob]
      \/ serving' = [serving EXCEPT ![d] = r] /\ \A v \in taken : v.prod = serving[d].id
  BY <1>1, <1>2, Zenon DEF FindTaken, EndJob, NextJob
<1>4. ProductsStay /\ UNCHANGED <<variants, generated>>
  BY DEF FindTaken, ProductsStay
<1>5. ExpansionSound(NoJob)
  BY DEF ExpansionSound, NoJob
<1>6. Generating(r)
  BY <1>2 DEF FindTaken, VariantsInv, ExpansionSound, Generating
<1>7. ASSUME \A v \in taken : v.prod = serving[d].id PROVE ExpansionSound(r)
  <2>1. ASSUME NEW s \in own PROVE \E v \in variants : v.prod = r.id /\ v.sku = s
    <3>1. PICK v \in taken : v.sku = s
      BY <1>1
    <3> QED BY <1>1, <1>2, <1>7, <3>1 DEF TakenSkus
  <2> QED BY <1>2, <1>6, <2>1 DEF ExpansionSound
<1> QED BY <1>3, <1>4, <1>5, <1>7, VariantsMove

LEMMA VariantsServed ==
  ASSUME GoodsInv, VariantsInv, NEW d \in Desks, GoodsServe(d)
  PROVE  VariantsInv'
<1>1. ExpansionSound(NoJob)
  BY DEF ExpansionSound, NoJob
<1>2. ASSUME ProductsStay, EndJob(d), UNCHANGED <<variants, generated>> PROVE VariantsInv'
  BY <1>1, <1>2, VariantsMove DEF EndJob
<1>3. ASSUME Insert(d) PROVE VariantsInv'
  <2>1. PICK p : p = CHOOSE q \in {x \in Prods : products[x].state = "none"} : TRUE
    OBVIOUS
  <2>2. p \in Prods /\ products[p].state = "none"
    BY <1>3, <2>1 DEF Insert
  <2>3. PICK row : row = [state |-> "live", sku |-> serving[d].sku, code |-> serving[d].code,
                          price |-> serving[d].price, mrp |-> serving[d].mrp]
    OBVIOUS
  <2>4. UNCHANGED products \/ products' = [products EXCEPT ![p] = row]
    BY <1>3, <2>1, <2>3, Zenon DEF Insert
  <2>5. ProductsStay
    BY <2>2, <2>4 DEF ProductsStay, GoodsInv
  <2> QED BY <1>2, <1>3, <2>5 DEF Insert
<1>4. ASSUME Update(d) PROVE VariantsInv'
  <2>1. ProductsStay
    BY <1>4, UpdateKeeps DEF ProductsStay
  <2> QED BY <1>2, <1>4, <2>1 DEF Update
<1>5. ASSUME Delete(d) PROVE VariantsInv'
  <2>1. PICK id, row : id = serving[d].id /\ row = [products[id] EXCEPT !.state = "deleted"]
    OBVIOUS
  <2>2. id \in Prods /\ products[id] \in ProductRow
    BY <1>5, <2>1 DEF Delete, JobSound, Existing, GoodsInv
  <2>3. row.state = "deleted" /\ row.sku = products[id].sku
    BY <2>1, <2>2 DEF ProductRow
  <2>4. products' = [products EXCEPT ![id] = row]
    BY <1>5, <2>1 DEF Delete
  <2>5. ProductsStay
    BY <2>2, <2>3, <2>4 DEF ProductsStay, GoodsInv
  <2> QED BY <1>2, <1>5, <2>5 DEF Delete
<1>6. ASSUME DrawSku(d) \/ TypedSku(d) PROVE VariantsInv'
  <2>1. ProductsStay /\ UNCHANGED <<variants, generated>>
    BY <1>6 DEF DrawSku, TypedSku, ProductsStay
  <2>2. PICK r : serving' = [serving EXCEPT ![d] = r] /\ r.kind \in {"insert", "none"}
    <3>3. CASE DrawSku(d) /\ DrawsTaken(skuLast)
      <4>1. serving' = [serving EXCEPT ![d] = NoJob]
        BY <3>3, Zenon DEF DrawSku, EndJob
      <4>2. NoJob.kind = "none"
        BY DEF NoJob
      <4> QED BY <4>1, <4>2
    <3>1. CASE DrawSku(d) /\ ~DrawsTaken(skuLast)
      <4>1. PICK r : r = [kind |-> "insert", free |-> TRUE, sku |-> NextFreeSku(skuLast), code |-> "none",
                          price |-> serving[d].price, mrp |-> Inclusive(serving[d].price)]
        OBVIOUS
      <4>2. serving' = [serving EXCEPT ![d] = r]
        BY <3>1, <4>1, Zenon DEF DrawSku, NextJob
      <4>3. r.kind = "insert"
        BY <4>1
      <4> QED BY <4>2, <4>3, Zenon
    <3>2. CASE TypedSku(d)
      <4>1. PICK r : r = [kind |-> "insert", free |-> FALSE, sku |-> serving[d].sku, code |-> serving[d].code,
                          price |-> serving[d].price, mrp |-> serving[d].mrp]
        OBVIOUS
      <4>2. serving' = [serving EXCEPT ![d] = r]
        BY <3>2, <4>1, Zenon DEF TypedSku, NextJob
      <4>3. r.kind = "insert"
        BY <4>1
      <4> QED BY <4>2, <4>3, Zenon
    <3> QED BY <1>6, <3>1, <3>2, <3>3
  <2>3. ExpansionSound(r)
    BY <2>2 DEF ExpansionSound
  <2> QED BY <2>1, <2>2, <2>3, VariantsMove
<1>7. ASSUME Register(d) PROVE VariantsInv'
  BY <1>2, <1>7 DEF Register, ProductsStay
<1> QED BY <1>3, <1>4, <1>5, <1>6, <1>7, FindsItsOwn, ExpandsSoundly, Zenon DEF GoodsServe

LEMMA VariantsGoOn ==
  GoodsInv /\ VariantsInv /\ (GoodsStep \/ UNCHANGED goods) => VariantsInv'
<1>1. ASSUME GoodsInv, VariantsInv, UNCHANGED goods PROVE VariantsInv'
  <2>1. ProductsStay /\ VariantsGrow(0) /\ UNCHANGED <<products, variants, generated, serving>>
    BY <1>1 DEF goods, ProductsStay, VariantsGrow
  <2>2. /\ \A v : VariantSound(v) => VariantSound(v)'
        /\ \A g : GenerationSound(g) => GenerationSound(g)'
        /\ \A q : ExpansionSound(q) => ExpansionSound(q)'
    BY <2>1, VariantStays, GenerationStays, ExpansionStays
  <2> QED BY <1>1, <2>1, <2>2 DEF VariantsInv
<1>2. ASSUME GoodsInv, VariantsInv, NEW d \in Desks, NEW price, AskCreateFree(d, price) PROVE VariantsInv'
  <2>1. PICK r : r = [kind |-> "createFree", free |-> TRUE, price |-> price]
    OBVIOUS
  <2>2. /\ serving' = [serving EXCEPT ![d] = r] /\ ProductsStay /\ UNCHANGED <<variants, generated>>
        /\ ExpansionSound(r)
    BY <1>2, <2>1 DEF AskCreateFree, NextJob, ExpansionSound, ProductsStay
  <2> QED BY <1>2, <2>2, VariantsMove
<1> QED BY <1>1, <1>2, VariantsAsked, VariantsServed, Zenon DEF GoodsStep

LEMMA VariantsTell == VariantsInv => OneVariantEach
<1> SUFFICES ASSUME VariantsInv, NEW g \in generated, NEW i \in DOMAIN g[2]
             PROVE  LET of == {v \in variants : v.prod = g[1] /\ g[2][i] \in v.is}
                    IN of # {} /\ (NamedAlike(g[1]) => \E v \in of : v.is = {g[2][i]} /\ of = {v})
  BY DEF OneVariantEach
<1> DEFINE of == {v \in variants : v.prod = g[1] /\ g[2][i] \in v.is}
<1>1. PICK v \in variants : IsFor(v, g, i) /\ g[2][i] \in v.is
  BY DEF VariantsInv, GenerationSound
<1>2. v.prod = g[1] /\ v.sku = PlannedSku(g[1], g[2], i) /\ v \in of
  BY <1>1 DEF IsFor
<1>3. ASSUME NamedAlike(g[1]), NEW w \in of PROVE w.is = {g[2][i]} /\ w.sku = v.sku
  <2>1. w \in variants /\ w.prod = g[1] /\ g[2][i] \in w.is
    OBVIOUS
  <2>2. VariantSound(w)
    BY <2>1 DEF VariantsInv
  <2>0. PICK h \in generated : \E j : IsFor(w, h, j) /\ w.is = {h[2][j]}
    BY <1>3, <2>1, <2>2 DEF VariantSound
  <2>3. PICK j : IsFor(w, h, j) /\ w.is = {h[2][j]}
    BY <2>0
  <2>4. h[1] = g[1] /\ j \in DOMAIN h[2] /\ w.sku = PlannedSku(g[1], h[2], j) /\ h[2][j] = g[2][i]
    BY <2>1, <2>3 DEF IsFor
  <2>5. PlannedSku(g[1], h[2], j) = PlannedSku(g[1], g[2], i)
    BY <1>3, <2>4, PlansTell
  <2> QED BY <1>2, <2>3, <2>4, <2>5
<1>4. \A u, w \in variants : u.sku = w.sku => u = w
  BY DEF VariantsInv
<1>5. ASSUME NamedAlike(g[1]) PROVE v.is = {g[2][i]} /\ of = {v}
  <2>1. \A w \in of : w = v
    BY <1>3, <1>4, <1>5
  <2> QED BY <1>2, <1>3, <1>5, <2>1
<1> QED BY <1>2, <1>5

-----------------------------------------------------------------------------
(* The catalogue as a whole *)

LEMMA InitGoods == Init => GoodsInv /\ PricesInv /\ VariantsInv
<1> SUFFICES ASSUME Init PROVE GoodsInv /\ PricesInv /\ VariantsInv
  OBVIOUS
<1>1. GoodsInit
  BY DEF Init
<1>2. PricesInv
  BY <1>1 DEF GoodsInit, NoJob, NoProduct, PricesInv, PatchFits
<1>3. VariantsInv
  BY <1>1 DEF GoodsInit, NoJob, VariantsInv, ExpansionSound
<1> QED BY <1>1, <1>2, <1>3, GoodsStart

LEMMA PartsStep ==
  [Next]_vars => /\ TreeStep \/ UNCHANGED tree
                 /\ GoodsStep \/ UNCHANGED goods
                 /\ RevisionsStep \/ UNCHANGED book
BY DEF Next, vars

\* Whatever a label is misread as, the registry refuses it: the GS1 engine's weights of
\* three and one catch every single wrong digit.
THEOREM MisreadsStayRefused == Spec => []MisreadRefused
<1>1. Init => GoodsInv
  BY InitGoods
<1>2. GoodsInv /\ [Next]_vars => GoodsInv'
  BY GoodsGoOn, PartsStep
<1>3. GoodsInv => MisreadRefused
  BY DEF GoodsInv
<1> QED BY <1>1, <1>2, <1>3, PTL DEF Spec

\* Every live product is stored with an MRP that its price with tax fits, however edits of
\* prices, MRPs and codes of one product cross each other and deletions; the one exception
\* is an MRP compared with a price that was replaced before the MRP was written.
THEOREM PricesStayWithinMrp == Spec => []StoredWithinMrp
<1>1. Init => GoodsInv /\ PricesInv
  BY InitGoods
<1>2. GoodsInv /\ PricesInv /\ [Next]_vars => GoodsInv' /\ PricesInv'
  BY GoodsGoOn, PricesGoOn, PartsStep
<1>3. PricesInv => StoredWithinMrp
  BY DEF PricesInv, StoredWithinMrp, MrpFits, LiveProds
<1> QED BY <1>1, <1>2, <1>3, PTL DEF Spec

\* Every combination of a confirmed matrix has a variant, whatever matrices a product was
\* generated from and by whom at once; and one alone, of that combination alone, while
\* those matrices number their combinations alike.
THEOREM VariantsStayOneEach == Spec => []OneVariantEach
<1>1. Init => GoodsInv /\ VariantsInv
  BY InitGoods
<1>2. GoodsInv /\ VariantsInv /\ [Next]_vars => GoodsInv' /\ VariantsInv'
  BY GoodsGoOn, VariantsGoOn, PartsStep
<1>3. VariantsInv => OneVariantEach
  BY VariantsTell
<1> QED BY <1>1, <1>2, <1>3, PTL DEF Spec

LEMMA PartsTyped == TreeInv /\ GoodsInv /\ RevisionsInv /\ draft \in {0} \cup DOMAIN revs => TypeOK
<1> SUFFICES ASSUME TreeInv, GoodsInv, RevisionsInv, draft \in {0} \cup DOMAIN revs PROVE TypeOK
  OBVIOUS
<1>1. \A k \in Cats : cats[k].parent \in Cats \cup {0} /\ cats[k].path \in Seq(Cats)
  BY DEF TreeInv, Row
<1>2. DOMAIN revs = 1 .. Len(revs) /\ Len(revs) \in Nat
  BY DEF RevisionsInv
<1>3. published \in 0 .. Len(revs) /\ draft \in 0 .. Len(revs)
  BY <1>2 DEF RevisionsInv, Reviewed
<1>4. skuLast \in 0 .. (MaxSku + 1) /\ skuLock \in Desks \cup {0} /\ (skuLock # 0 => serving[skuLock].kind = "insert")
  BY DEF GoodsInv
<1> QED BY <1>1, <1>3, <1>4 DEF TypeOK, GoodsInv, SkusApart

\* The catalogue's rows keep their types; live products have SKUs of their own, whatever was
\* typed while the sequence was drawn from; and who holds the sequence is about to insert.
THEOREM CatalogueStaysTyped == Spec => []TypeOK
<1> DEFINE Parts == TreeInv /\ GoodsInv /\ RevisionsInv /\ draft \in {0} \cup DOMAIN revs
<1>1. Init => Parts
  BY InitGoods, TreeStarts, RevisionsStart DEF Init, RevisionsInit
<1>2. Parts /\ [Next]_vars => Parts'
  BY TreeGoesOn, GoodsGoOn, RevisionsGoOn, DraftStays, PartsStep
<1>3. Parts => TypeOK
  BY PartsTyped
<1> HIDE DEF Parts
<1> QED BY <1>1, <1>2, <1>3, PTL DEF Spec

\* All of it: SKUs, prices, variants, labels and reviews.
THEOREM CatalogueStaysSound == Spec => []GoodsSound
<1>1. TypeOK /\ StoredWithinMrp /\ OneVariantEach /\ MisreadRefused /\ PublishedWasReviewed => GoodsSound
  BY DEF GoodsSound
<1> QED BY <1>1, CatalogueStaysTyped, PricesStayWithinMrp, VariantsStayOneEach, MisreadsStayRefused,
           PublishedStaysReviewed, PTL
=============================================================================
