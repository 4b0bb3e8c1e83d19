------------------------ MODULE SceneDocumentProofs ------------------------
(***************************************************************************)
(* What the patches of a scene document do to it, for any number of        *)
(* clients, records and edits: the types, what an undo and an abort take   *)
(* back, what the file holds and what a page shows.                        *)
(*                                                                         *)
(* A patch is of records that have been given out (born) and of states     *)
(* that edits have made (1 .. Len(author)).  Everything rests on lemmas    *)
(* about Diff, Inverted, Merge, Without and Apply at one record.  A client *)
(* editing alone has a film on either stack: every step is of two documents*)
(* that follow each other, so a replay of it is read off the film.         *)
(***************************************************************************)
EXTENDS SceneServerProofs, SequenceTheorems, FiniteSetTheorems, WellFoundedInduction

-----------------------------------------------------------------------------
(* The sets patches and histories are in, for records B and edits up to n.   *)

DocSet(n) == [Records -> 0 .. n]
StateSet(B, n) == UNION {[D -> 1 .. n] : D \in SUBSET B}
Moves(n) == {u \in [before : 1 .. n, after : 1 .. n] : u.before # u.after}
ChangeSet(B, n) == UNION {[D -> Moves(n)] : D \in SUBSET B}
PatchSet(B, n) == [added : StateSet(B, n), updated : ChangeSet(B, n), removed : StateSet(B, n)]
StepSet(B, n) == [label : Marks \cup {NoLabel}, patch : PatchSet(B, n)]
HistorySet(B, n) ==
    [undo : Seq(StepSet(B, n)), redo : Seq(StepSet(B, n)), group : Marks \cup {NoLabel},
     open : BOOLEAN, batch : PatchSet(B, n), used : Nat]

LEMMA IsStates ==
  ASSUME NEW B, NEW n, NEW f
  PROVE  f \in StateSet(B, n) <=>
           /\ f = [r \in DOMAIN f |-> f[r]] /\ DOMAIN f \subseteq B
           /\ \A r \in DOMAIN f : f[r] \in 1 .. n
  <1>1. ASSUME f \in StateSet(B, n)
        PROVE  /\ f = [r \in DOMAIN f |-> f[r]] /\ DOMAIN f \subseteq B
               /\ \A r \in DOMAIN f : f[r] \in 1 .. n
    <2>1. PICK D \in SUBSET B : f \in [D -> 1 .. n]
      BY <1>1 DEF StateSet
    <2>. QED  BY <2>1
  <1>2. ASSUME f = [r \in DOMAIN f |-> f[r]], DOMAIN f \subseteq B, \A r \in DOMAIN f : f[r] \in 1 .. n
        PROVE  f \in StateSet(B, n)
    <2>1. f \in [DOMAIN f -> 1 .. n] /\ DOMAIN f \in SUBSET B
      BY <1>2
    <2>. QED  BY <2>1 DEF StateSet
  <1>. QED  BY <1>1, <1>2

LEMMA IsChanges ==
  ASSUME NEW B, NEW n, NEW f
  PROVE  f \in ChangeSet(B, n) <=>
           /\ f = [r \in DOMAIN f |-> f[r]] /\ DOMAIN f \subseteq B
           /\ \A r \in DOMAIN f : f[r] \in Moves(n)
  <1>1. ASSUME f \in ChangeSet(B, n)
        PROVE  /\ f = [r \in DOMAIN f |-> f[r]] /\ DOMAIN f \subseteq B
               /\ \A r \in DOMAIN f : f[r] \in Moves(n)
    <2>1. PICK D \in SUBSET B : f \in [D -> Moves(n)]
      BY <1>1 DEF ChangeSet
    <2>. QED  BY <2>1
  <1>2. ASSUME f = [r \in DOMAIN f |-> f[r]], DOMAIN f \subseteq B, \A r \in DOMAIN f : f[r] \in Moves(n)
        PROVE  f \in ChangeSet(B, n)
    <2>1. f \in [DOMAIN f -> Moves(n)] /\ DOMAIN f \in SUBSET B
      BY <1>2
    <2>. QED  BY <2>1 DEF ChangeSet
  <1>. QED  BY <1>1, <1>2

LEMMA IsMove ==
  ASSUME NEW n, NEW u \in Moves(n)
  PROVE  /\ u = [before |-> u.before, after |-> u.after] /\ u.before # u.after
         /\ u.before \in 1 .. n /\ u.after \in 1 .. n
  BY DEF Moves

LEMMA IsPatch ==
  ASSUME NEW B, NEW n, NEW p \in PatchSet(B, n)
  PROVE  /\ p.added \in StateSet(B, n) /\ p.removed \in StateSet(B, n)
         /\ p.updated \in ChangeSet(B, n)
         /\ DOMAIN p.added \subseteq B /\ DOMAIN p.removed \subseteq B /\ DOMAIN p.updated \subseteq B
         /\ \A r \in DOMAIN p.added : p.added[r] \in 1 .. n
         /\ \A r \in DOMAIN p.removed : p.removed[r] \in 1 .. n
         /\ \A r \in DOMAIN p.updated : /\ p.updated[r] \in Moves(n)
                                        /\ p.updated[r].before \in 1 .. n /\ p.updated[r].after \in 1 .. n
                                        /\ p.updated[r].before # p.updated[r].after
  <1>1. /\ p.added \in StateSet(B, n) /\ p.removed \in StateSet(B, n) /\ p.updated \in ChangeSet(B, n)
    BY DEF PatchSet
  <1>. QED  BY <1>1, IsStates, IsChanges, IsMove

\* The sets grow with the edits made and the records given out.
LEMMA StatesGrow ==
  ASSUME NEW B, NEW C, B \subseteq C, NEW n \in Nat, NEW m \in Nat, n <= m
  PROVE  /\ StateSet(B, n) \subseteq StateSet(C, m)
         /\ ChangeSet(B, n) \subseteq ChangeSet(C, m)
         /\ PatchSet(B, n) \subseteq PatchSet(C, m)
         /\ StepSet(B, n) \subseteq StepSet(C, m)
         /\ DocSet(n) \subseteq DocSet(m)
  <1>1. 1 .. n \subseteq 1 .. m /\ 0 .. n \subseteq 0 .. m /\ Moves(n) \subseteq Moves(m)
    BY DEF Moves
  <1>2. ASSUME NEW f \in StateSet(B, n) PROVE f \in StateSet(C, m)
    BY <1>1, IsStates
  <1>3. ASSUME NEW f \in ChangeSet(B, n) PROVE f \in ChangeSet(C, m)
    BY <1>1, IsChanges
  <1>4. PatchSet(B, n) \subseteq PatchSet(C, m)
    BY <1>2, <1>3 DEF PatchSet
  <1>5. StepSet(B, n) \subseteq StepSet(C, m)
    BY <1>4 DEF StepSet
  <1>. QED  BY <1>1, <1>2, <1>3, <1>4, <1>5 DEF DocSet

LEMMA HistoriesGrow ==
  ASSUME NEW B, NEW C, B \subseteq C, NEW n \in Nat, NEW m \in Nat, n <= m
  PROVE  HistorySet(B, n) \subseteq HistorySet(C, m)
  <1>1. StepSet(B, n) \subseteq StepSet(C, m) /\ PatchSet(B, n) \subseteq PatchSet(C, m)
    BY StatesGrow
  <1>2. Seq(StepSet(B, n)) \subseteq Seq(StepSet(C, m))
    <2> SUFFICES ASSUME NEW s \in Seq(StepSet(B, n)) PROVE s \in Seq(StepSet(C, m))
      OBVIOUS
    <2>1. Len(s) \in Nat /\ s = [i \in 1 .. Len(s) |-> s[i]] /\ \A i \in 1 .. Len(s) : s[i] \in StepSet(C, m)
      BY <1>1
    <2>. QED  BY <2>1
  <1>. QED  BY <1>1, <1>2 DEF HistorySet

-----------------------------------------------------------------------------
(* The operators of patch.rs at one record.                                  *)

LEMMA NoneIsStates == ASSUME NEW B, NEW n PROVE None \in StateSet(B, n) /\ None \in ChangeSet(B, n)
  <1>1. DOMAIN None = {} /\ None = [r \in DOMAIN None |-> None[r]]
    BY DEF None
  <1>. QED  BY <1>1, IsStates, IsChanges

LEMMA NoPatchIsPatch == ASSUME NEW B, NEW n PROVE NoPatch \in PatchSet(B, n)
  BY NoneIsStates DEF PatchSet, NoPatch

LEMMA DiffIs ==
  ASSUME NEW was, NEW is
  PROVE  /\ Diff(was, is) = [added |-> Diff(was, is).added, updated |-> Diff(was, is).updated,
                             removed |-> Diff(was, is).removed]
         /\ Diff(was, is).added = [r \in {q \in Records : was[q] # is[q] /\ was[q] = Absent} |-> is[r]]
         /\ Diff(was, is).removed = [r \in {q \in Records : was[q] # is[q] /\ is[q] = Absent} |-> was[r]]
         /\ Diff(was, is).updated =
              [r \in {q \in Records : was[q] # is[q] /\ was[q] # Absent /\ is[q] # Absent} |->
                 [before |-> was[r], after |-> is[r]]]
  <1>. DEFINE changed == {r \in Records : was[r] # is[r]}
              A == {r \in changed : was[r] = Absent}
              U == {s \in changed : was[s] # Absent /\ is[s] # Absent}
              R == {r \in changed : is[r] = Absent}
  <1>1. Diff(was, is) = [added |-> [r \in A |-> is[r]],
                         updated |-> [r \in U |-> [before |-> was[r], after |-> is[r]]],
                         removed |-> [r \in R |-> was[r]]]
    BY DEF Diff, Restrict
  <1>2. /\ A = {q \in Records : was[q] # is[q] /\ was[q] = Absent}
        /\ R = {q \in Records : was[q] # is[q] /\ is[q] = Absent}
        /\ U = {q \in Records : was[q] # is[q] /\ was[q] # Absent /\ is[q] # Absent}
    OBVIOUS
  <1>. HIDE DEF A, U, R
  <1>. QED  BY <1>1, <1>2

\* What a patch says of one record.
IsDiff(p, was, is) ==
    /\ DOMAIN p.added \subseteq Records /\ DOMAIN p.removed \subseteq Records
    /\ DOMAIN p.updated \subseteq Records
    /\ \A r \in Records :
         /\ r \in DOMAIN p.added <=> was[r] # is[r] /\ was[r] = Absent
         /\ r \in DOMAIN p.removed <=> was[r] # is[r] /\ is[r] = Absent
         /\ r \in DOMAIN p.updated <=> was[r] # is[r] /\ was[r] # Absent /\ is[r] # Absent
    /\ \A r \in DOMAIN p.added : p.added[r] = is[r]
    /\ \A r \in DOMAIN p.removed : p.removed[r] = was[r]
    /\ \A r \in DOMAIN p.updated : /\ p.updated[r] = [before |-> was[r], after |-> is[r]]
                                   /\ p.updated[r].before = was[r] /\ p.updated[r].after = is[r]

LEMMA DiffAt == ASSUME NEW was, NEW is PROVE IsDiff(Diff(was, is), was, is)
  <1>. DEFINE A == {q \in Records : was[q] # is[q] /\ was[q] = Absent}
              R == {q \in Records : was[q] # is[q] /\ is[q] = Absent}
              U == {q \in Records : was[q] # is[q] /\ was[q] # Absent /\ is[q] # Absent}
  <1>1. /\ Diff(was, is).added = [r \in A |-> is[r]] /\ Diff(was, is).removed = [r \in R |-> was[r]]
        /\ Diff(was, is).updated = [r \in U |-> [before |-> was[r], after |-> is[r]]]
    BY DiffIs
  <1>2. /\ DOMAIN Diff(was, is).added = A /\ DOMAIN Diff(was, is).removed = R
        /\ DOMAIN Diff(was, is).updated = U
        /\ \A r \in A : Diff(was, is).added[r] = is[r]
        /\ \A r \in R : Diff(was, is).removed[r] = was[r]
        /\ \A r \in U : Diff(was, is).updated[r] = [before |-> was[r], after |-> is[r]]
    BY <1>1
  <1>3. ASSUME NEW r \in U
        PROVE  Diff(was, is).updated[r].before = was[r] /\ Diff(was, is).updated[r].after = is[r]
    <2>1. Diff(was, is).updated[r] = [before |-> was[r], after |-> is[r]]
      BY <1>2
    <2>. QED  BY <2>1
  <1>4. \A r \in Records :
          /\ r \in A <=> was[r] # is[r] /\ was[r] = Absent
          /\ r \in R <=> was[r] # is[r] /\ is[r] = Absent
          /\ r \in U <=> was[r] # is[r] /\ was[r] # Absent /\ is[r] # Absent
    OBVIOUS
  <1>5. A \subseteq Records /\ R \subseteq Records /\ U \subseteq Records
    OBVIOUS
  <1>. HIDE DEF A, R, U
  <1>. QED  BY <1>2, <1>3, <1>4, <1>5 DEF IsDiff

LEMMA DiffIsPatch ==
  ASSUME NEW n \in Nat, NEW was \in DocSet(n), NEW is \in DocSet(n), NEW B,
         \A r \in Records : was[r] # Absent \/ is[r] # Absent => r \in B
  PROVE  Diff(was, is) \in PatchSet(B, n)
  <1>. DEFINE A == {q \in Records : was[q] # is[q] /\ was[q] = Absent}
              R == {q \in Records : was[q] # is[q] /\ is[q] = Absent}
              U == {q \in Records : was[q] # is[q] /\ was[q] # Absent /\ is[q] # Absent}
              u == [r \in U |-> [before |-> was[r], after |-> is[r]]]
  <1>1. \A r \in Records : was[r] \in 0 .. n /\ is[r] \in 0 .. n
    BY DEF DocSet
  <1>2. [r \in A |-> is[r]] \in [A -> 1 .. n] /\ A \in SUBSET B
    BY <1>1 DEF Absent
  <1>3. [r \in R |-> was[r]] \in [R -> 1 .. n] /\ R \in SUBSET B
    BY <1>1 DEF Absent
  <1>4. u \in [U -> Moves(n)] /\ U \in SUBSET B
    <2>1. ASSUME NEW r \in U PROVE [before |-> was[r], after |-> is[r]] \in Moves(n)
      <3>1. was[r] \in 1 .. n /\ is[r] \in 1 .. n /\ was[r] # is[r]
        BY <1>1 DEF Absent
      <3>. QED  BY <3>1 DEF Moves
    <2>. QED  BY <2>1
  <1>5. /\ [r \in A |-> is[r]] \in StateSet(B, n) /\ [r \in R |-> was[r]] \in StateSet(B, n)
        /\ u \in ChangeSet(B, n)
    BY <1>2, <1>3, <1>4 DEF StateSet, ChangeSet
  <1>6. /\ Diff(was, is).added = [r \in A |-> is[r]] /\ Diff(was, is).removed = [r \in R |-> was[r]]
        /\ Diff(was, is).updated = u
        /\ Diff(was, is) = [added |-> Diff(was, is).added, updated |-> Diff(was, is).updated,
                             removed |-> Diff(was, is).removed]
    BY DiffIs
  <1>7. /\ Diff(was, is).added \in StateSet(B, n) /\ Diff(was, is).removed \in StateSet(B, n)
        /\ Diff(was, is).updated \in ChangeSet(B, n)
    BY <1>5, <1>6
  <1>. QED  BY <1>6, <1>7 DEF PatchSet

LEMMA InvertedIs ==
  ASSUME NEW B, NEW n, NEW p \in PatchSet(B, n)
  PROVE  /\ Inverted(p) \in PatchSet(B, n)
         /\ Inverted(p).added = p.removed /\ Inverted(p).removed = p.added
         /\ DOMAIN Inverted(p).updated = DOMAIN p.updated
         /\ \A r \in DOMAIN p.updated : /\ Inverted(p).updated[r].before = p.updated[r].after
                                        /\ Inverted(p).updated[r].after = p.updated[r].before
  <1>. DEFINE u == [r \in DOMAIN p.updated |->
                     [before |-> p.updated[r].after, after |-> p.updated[r].before]]
  <1>1. Inverted(p) = [added |-> p.removed, updated |-> u, removed |-> p.added]
    BY DEF Inverted
  <1>2. \A r \in DOMAIN u : u[r] \in Moves(n)
    <2> SUFFICES ASSUME NEW r \in DOMAIN p.updated PROVE u[r] \in Moves(n)
      OBVIOUS
    <2>1. u[r] = [before |-> p.updated[r].after, after |-> p.updated[r].before]
      OBVIOUS
    <2>2. /\ p.updated[r].before \in 1 .. n /\ p.updated[r].after \in 1 .. n
          /\ p.updated[r].before # p.updated[r].after
      BY IsPatch
    <2>. QED  BY <2>1, <2>2 DEF Moves
  <1>3. DOMAIN u = DOMAIN p.updated /\ u = [r \in DOMAIN u |-> u[r]]
    OBVIOUS
  <1>4. \A r \in DOMAIN p.updated : u[r].before = p.updated[r].after /\ u[r].after = p.updated[r].before
    OBVIOUS
  <1>. HIDE DEF u
  <1>5. u \in ChangeSet(B, n)
    BY <1>2, <1>3, IsChanges, IsPatch
  <1>6. Inverted(p) \in PatchSet(B, n)
    BY <1>1, <1>5, IsPatch DEF PatchSet
  <1>. QED  BY <1>1, <1>3, <1>4, <1>6


\* Merge at one record: what it adds, what it changes and what it removes.
Raised(p, later, r) ==
    IF r \in DOMAIN later.updated THEN later.updated[r].after
    ELSE IF r \in DOMAIN p.added THEN p.added[r] ELSE later.added[r]
Changed(p, later, r) ==
    IF r \in DOMAIN p.updated
    THEN IF r \in DOMAIN later.updated /\ r \notin DOMAIN p.added \cup DOMAIN later.added
         THEN [before |-> p.updated[r].before, after |-> later.updated[r].after]
         ELSE p.updated[r]
    ELSE later.updated[r]
Adds(p, later) == DOMAIN p.added \cup DOMAIN later.added
Changes(p, later) == DOMAIN p.updated \cup (DOMAIN later.updated \ Adds(p, later))
Drops(p, later) == DOMAIN later.removed \ Adds(p, later)

LEMMA RestrictIs ==
  ASSUME NEW f, NEW S, S \subseteq DOMAIN f
  PROVE  /\ DOMAIN Restrict(f, S) = S
         /\ Restrict(f, S) = [r \in DOMAIN Restrict(f, S) |-> Restrict(f, S)[r]]
         /\ \A r \in S : Restrict(f, S)[r] = f[r]
  BY DEF Restrict

IsMerge(m, p, later) ==
    /\ m = [added |-> m.added, updated |-> m.updated, removed |-> m.removed]
    /\ m.added = [r \in DOMAIN m.added |-> m.added[r]]
    /\ m.updated = [r \in DOMAIN m.updated |-> m.updated[r]]
    /\ m.removed = [r \in DOMAIN m.removed |-> m.removed[r]]
    /\ DOMAIN m.added = Adds(p, later) \ DOMAIN later.removed
    /\ \A r \in DOMAIN m.added : m.added[r] = Raised(p, later, r)
    /\ DOMAIN m.updated = {r \in Changes(p, later) \ Drops(p, later) :
                             Changed(p, later, r).before # Changed(p, later, r).after}
    /\ \A r \in DOMAIN m.updated : m.updated[r] = Changed(p, later, r)
    /\ DOMAIN m.removed = DOMAIN p.removed \cup Drops(p, later)
    /\ \A r \in DOMAIN m.removed :
         m.removed[r] = IF r \in DOMAIN p.removed THEN p.removed[r]
                        ELSE IF r \in Changes(p, later) THEN Changed(p, later, r).before
                        ELSE later.removed[r]

LEMMA MergeIs == ASSUME NEW p, NEW later PROVE IsMerge(Merge(p, later), p, later)
  <1>. DEFINE pushed  == Join(p.added, later.added)
              added   == [r \in DOMAIN pushed |->
                            IF r \in DOMAIN later.updated THEN later.updated[r].after ELSE pushed[r]]
              mine    == [r \in DOMAIN p.updated |->
                            IF r \in DOMAIN later.updated \ DOMAIN added
                            THEN [before |-> p.updated[r].before, after |-> later.updated[r].after]
                            ELSE p.updated[r]]
              rest    == Restrict(later.updated, DOMAIN later.updated \ DOMAIN added)
              updated == Join(mine, rest)
              gone    == DOMAIN later.removed
              removed == [r \in gone \ DOMAIN added |->
                            IF r \in DOMAIN updated THEN updated[r].before ELSE later.removed[r]]
              left    == Restrict(updated, DOMAIN updated \ DOMAIN removed)
              stay    == {r \in DOMAIN left : left[r].before # left[r].after}
              m == Merge(p, later)
  <1>1. m = [added |-> Restrict(added, DOMAIN added \ gone),
             updated |-> Restrict(left, stay), removed |-> Join(p.removed, removed)]
    BY DEF Merge
  <1>2. DOMAIN pushed = Adds(p, later)
        /\ \A r \in DOMAIN pushed :
             pushed[r] = IF r \in DOMAIN p.added THEN p.added[r] ELSE later.added[r]
    BY DEF Join, Adds
  <1>3. /\ DOMAIN added = Adds(p, later)
        /\ \A r \in DOMAIN added : added[r] = Raised(p, later, r)
    <2>. HIDE DEF pushed
    <2>. QED  BY <1>2 DEF Raised
  <1>. HIDE DEF added
  <1>4. /\ DOMAIN mine = DOMAIN p.updated
        /\ \A r \in DOMAIN mine : mine[r] = Changed(p, later, r)
    BY <1>3 DEF Changed, Adds
  <1>5. /\ DOMAIN rest = DOMAIN later.updated \ Adds(p, later)
        /\ \A r \in DOMAIN rest : rest[r] = later.updated[r]
    BY <1>3, RestrictIs
  <1>. HIDE DEF mine, rest
  <1>6. /\ DOMAIN updated = Changes(p, later)
        /\ \A r \in DOMAIN updated : updated[r] = Changed(p, later, r)
    <2>1. /\ DOMAIN updated = DOMAIN mine \cup DOMAIN rest
          /\ \A r \in DOMAIN mine : updated[r] = mine[r]
          /\ \A r \in DOMAIN rest \ DOMAIN mine : updated[r] = rest[r]
      BY DEF Join
    <2>. HIDE DEF updated
    <2>2. DOMAIN updated = Changes(p, later)
      BY <1>4, <1>5, <2>1 DEF Changes
    <2>3. ASSUME NEW r \in DOMAIN mine PROVE updated[r] = Changed(p, later, r)
      BY <1>4, <2>1
    <2>4. ASSUME NEW r \in DOMAIN rest \ DOMAIN mine PROVE updated[r] = Changed(p, later, r)
      BY <1>4, <1>5, <2>1 DEF Changed
    <2>. QED  BY <2>1, <2>2, <2>3, <2>4
  <1>. HIDE DEF updated
  <1>7. /\ DOMAIN removed = Drops(p, later)
        /\ \A r \in DOMAIN removed :
             removed[r] = IF r \in Changes(p, later) THEN Changed(p, later, r).before ELSE later.removed[r]
    BY <1>3, <1>6 DEF Drops
  <1>. HIDE DEF removed
  <1>8. /\ DOMAIN left = Changes(p, later) \ Drops(p, later)
        /\ \A r \in DOMAIN left : left[r] = Changed(p, later, r)
    <2>1. DOMAIN updated \ DOMAIN removed = Changes(p, later) \ Drops(p, later)
      BY <1>6, <1>7
    <2>2. DOMAIN updated \ DOMAIN removed \subseteq DOMAIN updated
      OBVIOUS
    <2>3. /\ DOMAIN left = DOMAIN updated \ DOMAIN removed
          /\ \A r \in DOMAIN updated \ DOMAIN removed : left[r] = updated[r]
      BY <2>2, RestrictIs
    <2>. HIDE DEF left
    <2>. QED  BY <1>6, <2>1, <2>3
  <1>. HIDE DEF left
  <1>9. /\ stay = {r \in Changes(p, later) \ Drops(p, later) :
                     Changed(p, later, r).before # Changed(p, later, r).after}
        /\ stay \subseteq DOMAIN left
    BY <1>8
  <1>. HIDE DEF stay
  <1>10. m.added = Restrict(added, DOMAIN added \ gone) /\ m.updated = Restrict(left, stay)
         /\ m.removed = Join(p.removed, removed)
         /\ m = [added |-> m.added, updated |-> m.updated, removed |-> m.removed]
    <2>. HIDE DEF m
    <2>. QED  BY <1>1
  <1>. HIDE DEF m
  <1>11. /\ m.added = [r \in DOMAIN m.added |-> m.added[r]]
         /\ DOMAIN m.added = Adds(p, later) \ DOMAIN later.removed
         /\ \A r \in DOMAIN m.added : m.added[r] = Raised(p, later, r)
    <2>1. DOMAIN added \ gone \subseteq DOMAIN added
      OBVIOUS
    <2>. QED  BY <1>3, <1>10, <2>1, RestrictIs
  <1>12. /\ m.updated = [r \in DOMAIN m.updated |-> m.updated[r]]
         /\ DOMAIN m.updated = stay
         /\ \A r \in DOMAIN m.updated : m.updated[r] = Changed(p, later, r)
    BY <1>8, <1>9, <1>10, RestrictIs
  <1>. DEFINE both == Join(p.removed, removed)
  <1>13. /\ m.removed = [r \in DOMAIN m.removed |-> m.removed[r]]
         /\ DOMAIN m.removed = DOMAIN p.removed \cup Drops(p, later)
         /\ \A r \in DOMAIN p.removed : m.removed[r] = p.removed[r]
         /\ \A r \in DOMAIN removed \ DOMAIN p.removed : m.removed[r] = removed[r]
    <2>1. /\ both = [r \in DOMAIN both |-> both[r]]
          /\ DOMAIN both = DOMAIN p.removed \cup DOMAIN removed
          /\ \A r \in DOMAIN p.removed : both[r] = p.removed[r]
          /\ \A r \in DOMAIN removed \ DOMAIN p.removed : both[r] = removed[r]
      BY DEF Join
    <2>. HIDE DEF both
    <2>2. m.removed = both
      BY <1>10 DEF both
    <2>. QED  BY <1>7, <2>1, <2>2
  <1>14. ASSUME NEW r \in DOMAIN m.removed
         PROVE  m.removed[r] = IF r \in DOMAIN p.removed THEN p.removed[r]
                               ELSE IF r \in Changes(p, later) THEN Changed(p, later, r).before
                               ELSE later.removed[r]
    <2>1. CASE r \in DOMAIN p.removed
      BY <1>13, <2>1
    <2>2. CASE r \notin DOMAIN p.removed
      <3>1. r \in DOMAIN removed
        BY <1>7, <1>13, <2>2
      <3>2. m.removed[r] = removed[r]
        BY <1>13, <2>2, <3>1
      <3>. QED  BY <1>7, <2>2, <3>1, <3>2
    <2>. QED  BY <2>1, <2>2
  <1>. QED  BY <1>9, <1>10, <1>11, <1>12, <1>13, <1>14 DEF IsMerge, m

LEMMA MergeIsPatch ==
  ASSUME NEW n, NEW B, NEW p \in PatchSet(B, n), NEW later \in PatchSet(B, n)
  PROVE  Merge(p, later) \in PatchSet(B, n)
  <1>. DEFINE m == Merge(p, later)
  <1>0. IsMerge(m, p, later)
    BY MergeIs
  <1>. HIDE DEF m
  <1>1. /\ m = [added |-> m.added, updated |-> m.updated, removed |-> m.removed]
        /\ m.added = [r \in DOMAIN m.added |-> m.added[r]]
        /\ m.updated = [r \in DOMAIN m.updated |-> m.updated[r]]
        /\ m.removed = [r \in DOMAIN m.removed |-> m.removed[r]]
    BY <1>0 DEF IsMerge
  <1>2. /\ DOMAIN m.added = Adds(p, later) \ DOMAIN later.removed
        /\ \A r \in DOMAIN m.added : m.added[r] = Raised(p, later, r)
    BY <1>0 DEF IsMerge
  <1>3. /\ DOMAIN m.updated = {r \in Changes(p, later) \ Drops(p, later) :
                                  Changed(p, later, r).before # Changed(p, later, r).after}
        /\ \A r \in DOMAIN m.updated : m.updated[r] = Changed(p, later, r)
    BY <1>0 DEF IsMerge
  <1>4. /\ DOMAIN m.removed = DOMAIN p.removed \cup Drops(p, later)
        /\ \A r \in DOMAIN m.removed :
              m.removed[r] = IF r \in DOMAIN p.removed THEN p.removed[r]
                             ELSE IF r \in Changes(p, later) THEN Changed(p, later, r).before
                             ELSE later.removed[r]
    BY <1>0 DEF IsMerge
  <1>5. \A r \in Adds(p, later) : r \in B /\ Raised(p, later, r) \in 1 .. n
    BY IsPatch DEF Adds, Raised
  <1>6. ASSUME NEW r \in Changes(p, later)
        PROVE  /\ r \in B
               /\ Changed(p, later, r) = [before |-> Changed(p, later, r).before,
                                          after |-> Changed(p, later, r).after]
               /\ Changed(p, later, r).before \in 1 .. n /\ Changed(p, later, r).after \in 1 .. n
    <2>1. CASE r \in DOMAIN p.updated /\ r \in DOMAIN later.updated /\ r \notin Adds(p, later)
      <3>1. Changed(p, later, r) = [before |-> p.updated[r].before, after |-> later.updated[r].after]
        BY <2>1 DEF Changed, Adds
      <3>2. r \in B /\ p.updated[r].before \in 1 .. n /\ later.updated[r].after \in 1 .. n
        BY <2>1, IsPatch
      <3>. QED  BY <3>1, <3>2
    <2>2. CASE r \in DOMAIN p.updated /\ ~(r \in DOMAIN later.updated /\ r \notin Adds(p, later))
      <3>1. Changed(p, later, r) = p.updated[r]
        BY <2>2 DEF Changed, Adds
      <3>2. r \in B /\ p.updated[r] \in Moves(n)
        BY <2>2, IsPatch
      <3>. QED  BY <3>1, <3>2, IsMove
    <2>3. CASE r \notin DOMAIN p.updated
      <3>1. Changed(p, later, r) = later.updated[r] /\ r \in DOMAIN later.updated
        BY <2>3 DEF Changed, Changes
      <3>2. r \in B /\ later.updated[r] \in Moves(n)
        BY <3>1, IsPatch
      <3>. QED  BY <3>1, <3>2, IsMove
    <2>. QED  BY <2>1, <2>2, <2>3
  <1>7. m.added \in StateSet(B, n)
    BY <1>1, <1>2, <1>5, IsStates
  <1>8. m.updated \in ChangeSet(B, n)
    <2>1. ASSUME NEW r \in DOMAIN m.updated PROVE r \in B /\ m.updated[r] \in Moves(n)
      <3>1. r \in Changes(p, later) /\ Changed(p, later, r).before # Changed(p, later, r).after
        BY <1>3
      <3>2. Changed(p, later, r) \in Moves(n)
        BY <1>6, <3>1 DEF Moves
      <3>. QED  BY <1>3, <1>6, <3>1, <3>2
    <2>. QED  BY <1>1, <2>1, IsChanges
  <1>9. m.removed \in StateSet(B, n)
    <2>1. ASSUME NEW r \in DOMAIN m.removed PROVE r \in B /\ m.removed[r] \in 1 .. n
      <3>1. CASE r \in DOMAIN p.removed
        BY <1>4, <3>1, IsPatch
      <3>2. CASE r \notin DOMAIN p.removed
        <4>1. r \in DOMAIN later.removed
          BY <1>4, <3>2 DEF Drops
        <4>. QED  BY <1>4, <1>6, <3>2, <4>1, IsPatch
      <3>. QED  BY <3>1, <3>2
    <2>. QED  BY <1>1, <2>1, IsStates
  <1>10. m \in PatchSet(B, n)
    BY <1>1, <1>7, <1>8, <1>9 DEF PatchSet
  <1>. QED  BY <1>10 DEF m

\* Leaving records out of a patch.
LEMMA WithoutIs ==
  ASSUME NEW n, NEW B, NEW p \in PatchSet(B, n), NEW rs
  PROVE  /\ Without(p, rs) \in PatchSet(B, n)
         /\ DOMAIN Without(p, rs).added = DOMAIN p.added \ rs
         /\ DOMAIN Without(p, rs).updated = DOMAIN p.updated \ rs
         /\ DOMAIN Without(p, rs).removed = DOMAIN p.removed \ rs
         /\ \A r \in DOMAIN p.added \ rs : Without(p, rs).added[r] = p.added[r]
         /\ \A r \in DOMAIN p.updated \ rs : Without(p, rs).updated[r] = p.updated[r]
         /\ \A r \in DOMAIN p.removed \ rs : Without(p, rs).removed[r] = p.removed[r]
  <1>. DEFINE w == Without(p, rs)
  <1>1. /\ w = [added |-> w.added, updated |-> w.updated, removed |-> w.removed]
        /\ w.added = [r \in DOMAIN p.added \ rs |-> p.added[r]]
        /\ w.updated = [r \in DOMAIN p.updated \ rs |-> p.updated[r]]
        /\ w.removed = [r \in DOMAIN p.removed \ rs |-> p.removed[r]]
    BY DEF Without, Restrict
  <1>. HIDE DEF w
  <1>2. /\ w.added = [r \in DOMAIN w.added |-> w.added[r]] /\ DOMAIN w.added = DOMAIN p.added \ rs
        /\ \A r \in DOMAIN w.added : w.added[r] = p.added[r]
    BY <1>1
  <1>3. /\ w.updated = [r \in DOMAIN w.updated |-> w.updated[r]] /\ DOMAIN w.updated = DOMAIN p.updated \ rs
        /\ \A r \in DOMAIN w.updated : w.updated[r] = p.updated[r]
    BY <1>1
  <1>4. /\ w.removed = [r \in DOMAIN w.removed |-> w.removed[r]] /\ DOMAIN w.removed = DOMAIN p.removed \ rs
        /\ \A r \in DOMAIN w.removed : w.removed[r] = p.removed[r]
    BY <1>1
  <1>5. w.added \in StateSet(B, n)
    <2>1. \A r \in DOMAIN w.added : r \in B /\ w.added[r] \in 1 .. n
      BY <1>2, IsPatch
    <2>. QED  BY <1>2, <2>1, IsStates
  <1>6. w.updated \in ChangeSet(B, n)
    <2>1. \A r \in DOMAIN w.updated : r \in B /\ w.updated[r] \in Moves(n)
      BY <1>3, IsPatch
    <2>. QED  BY <1>3, <2>1, IsChanges
  <1>7. w.removed \in StateSet(B, n)
    <2>1. \A r \in DOMAIN w.removed : r \in B /\ w.removed[r] \in 1 .. n
      BY <1>4, IsPatch
    <2>. QED  BY <1>4, <2>1, IsStates
  <1>8. w \in PatchSet(B, n)
    BY <1>1, <1>5, <1>6, <1>7 DEF PatchSet
  <1>. QED  BY <1>2, <1>3, <1>4, <1>8 DEF w

LEMMA WithoutNone == ASSUME NEW n, NEW B, NEW p \in PatchSet(B, n) PROVE Without(p, {}) = p
  <1>1. PICK w : w = Without(p, {})
    OBVIOUS
  <1>2. /\ w \in PatchSet(B, n)
        /\ DOMAIN w.added = DOMAIN p.added /\ DOMAIN w.updated = DOMAIN p.updated
        /\ DOMAIN w.removed = DOMAIN p.removed
        /\ \A r \in DOMAIN p.added : w.added[r] = p.added[r]
        /\ \A r \in DOMAIN p.updated : w.updated[r] = p.updated[r]
        /\ \A r \in DOMAIN p.removed : w.removed[r] = p.removed[r]
    <2>1. PICK rs : rs = {}
      OBVIOUS
    <2>2. DOMAIN p.added \ rs = DOMAIN p.added /\ DOMAIN p.updated \ rs = DOMAIN p.updated
          /\ DOMAIN p.removed \ rs = DOMAIN p.removed
      BY <2>1
    <2>3. /\ Without(p, rs) \in PatchSet(B, n)
          /\ DOMAIN Without(p, rs).added = DOMAIN p.added \ rs
          /\ DOMAIN Without(p, rs).updated = DOMAIN p.updated \ rs
          /\ DOMAIN Without(p, rs).removed = DOMAIN p.removed \ rs
          /\ \A r \in DOMAIN p.added \ rs : Without(p, rs).added[r] = p.added[r]
          /\ \A r \in DOMAIN p.updated \ rs : Without(p, rs).updated[r] = p.updated[r]
          /\ \A r \in DOMAIN p.removed \ rs : Without(p, rs).removed[r] = p.removed[r]
      BY WithoutIs
    <2>. QED  BY <1>1, <2>1, <2>2, <2>3
  <1>3. /\ w.added \in StateSet(B, n) /\ p.added \in StateSet(B, n)
        /\ w.removed \in StateSet(B, n) /\ p.removed \in StateSet(B, n)
        /\ w.updated \in ChangeSet(B, n) /\ p.updated \in ChangeSet(B, n)
    BY <1>2 DEF PatchSet
  <1>4. /\ w.added = [r \in DOMAIN w.added |-> w.added[r]] /\ p.added = [r \in DOMAIN p.added |-> p.added[r]]
        /\ w.removed = [r \in DOMAIN w.removed |-> w.removed[r]]
        /\ p.removed = [r \in DOMAIN p.removed |-> p.removed[r]]
    BY <1>3, IsStates
  <1>5. /\ w.updated = [r \in DOMAIN w.updated |-> w.updated[r]]
        /\ p.updated = [r \in DOMAIN p.updated |-> p.updated[r]]
    BY <1>3, IsChanges
  <1>6. w.added = p.added
    BY <1>2, <1>4
  <1>7. w.removed = p.removed
    BY <1>2, <1>4
  <1>8. w.updated = p.updated
    BY <1>2, <1>5
  <1>9. /\ w = [added |-> w.added, updated |-> w.updated, removed |-> w.removed]
        /\ p = [added |-> p.added, updated |-> p.updated, removed |-> p.removed]
    BY <1>2 DEF PatchSet
  <1>10. w = p
    BY <1>6, <1>7, <1>8, <1>9
  <1>. QED  BY <1>1, <1>10

\* What a patch makes of a document, record by record.
LEMMA ApplyIs ==
  ASSUME NEW n \in Nat, NEW B, B \subseteq Records, NEW p \in PatchSet(B, n), NEW d \in DocSet(n)
  PROVE  /\ Apply(d, p) \in DocSet(n)
         /\ \A r \in Records :
              LET kept == IF r \in DOMAIN p.removed THEN Absent ELSE d[r]
                  now  == IF r \in DOMAIN p.updated THEN p.updated[r].after ELSE kept
              IN  Apply(d, p)[r] = IF r \in DOMAIN p.added /\ now = Absent THEN p.added[r] ELSE now
         /\ \A r \in Records : Apply(d, p)[r] # Absent => d[r] # Absent \/ r \in B
  <1>1. \A r \in Records :
              LET kept == IF r \in DOMAIN p.removed THEN Absent ELSE d[r]
                  now  == IF r \in DOMAIN p.updated THEN p.updated[r].after ELSE kept
              IN  Apply(d, p)[r] = IF r \in DOMAIN p.added /\ now = Absent THEN p.added[r] ELSE now
    BY DEF Apply
  <1>2. DOMAIN Apply(d, p) = Records /\ Apply(d, p) = [r \in DOMAIN Apply(d, p) |-> Apply(d, p)[r]]
    BY DEF Apply
  <1>3. ASSUME NEW r \in Records
        PROVE  Apply(d, p)[r] \in 0 .. n /\ (Apply(d, p)[r] # Absent => d[r] # Absent \/ r \in B)
    <2>1. d[r] \in 0 .. n
      BY DEF DocSet
    <2>2. r \in DOMAIN p.updated => p.updated[r].after \in 1 .. n /\ r \in B
      BY IsPatch
    <2>3. r \in DOMAIN p.added => p.added[r] \in 1 .. n /\ r \in B
      BY IsPatch
    <2>. QED  BY <1>1, <2>1, <2>2, <2>3 DEF Absent
  <1>. QED  BY <1>1, <1>2, <1>3 DEF DocSet

-----------------------------------------------------------------------------
(* Histories.                                                                *)

LEMMA PushUndoIs ==
  ASSUME NEW S, NEW stack \in Seq(S), NEW step \in S
  PROVE  /\ PushUndo(stack, step) \in Seq(S)
         /\ Len(PushUndo(stack, step)) <= Len(stack) + 1
         /\ Len(stack) <= UndoDepth => Len(PushUndo(stack, step)) <= UndoDepth
  <1>. DEFINE s == Append(stack, step)
  <1>1. s \in Seq(S) /\ Len(s) = Len(stack) + 1 /\ s # <<>>
    <2>1. s \in Seq(S) /\ Len(s) = Len(stack) + 1
      OBVIOUS
    <2>. QED  BY <2>1, AppendProperties
  <1>2. Tail(s) \in Seq(S) /\ Len(Tail(s)) = Len(s) - 1
    BY <1>1
  <1>3. PushUndo(stack, step) = IF Len(s) > UndoDepth THEN Tail(s) ELSE s
    BY DEF PushUndo
  <1>4. UndoDepth \in Nat /\ Len(stack) \in Nat
    BY SceneAssumption
  <1>. HIDE DEF s
  <1>. QED  BY <1>1, <1>2, <1>3, <1>4

LEMMA FrontIs ==
  ASSUME NEW S, NEW stack \in Seq(S), stack # <<>>
  PROVE  Front(stack) \in Seq(S) /\ Len(Front(stack)) = Len(stack) - 1 /\ Last(stack) \in S
         /\ \A i \in 1 .. Len(stack) - 1 : Front(stack)[i] = stack[i]
  <1>1. Len(stack) \in Nat /\ Len(stack) # 0
    OBVIOUS
  <1>2. Len(stack) \in 1 .. Len(stack) /\ Len(stack) - 1 \in Nat
    BY <1>1
  <1>3. Last(stack) \in S
    BY <1>2 DEF Last
  <1>4. \A i \in 1 .. Len(stack) - 1 : stack[i] \in S
    BY <1>1
  <1>5. /\ SubSeq(stack, 1, Len(stack) - 1) \in Seq(S)
        /\ Len(SubSeq(stack, 1, Len(stack) - 1)) = Len(stack) - 1
        /\ \A i \in 1 .. Len(stack) - 1 : SubSeq(stack, 1, Len(stack) - 1)[i] = stack[i]
    <2>1. 1 \in Int /\ Len(stack) - 1 \in Int
      BY <1>1
    <2>2. /\ SubSeq(stack, 1, Len(stack) - 1) \in Seq(S)
          /\ Len(SubSeq(stack, 1, Len(stack) - 1)) =
               IF 1 <= Len(stack) - 1 THEN Len(stack) - 1 - 1 + 1 ELSE 0
          /\ \A i \in 1 .. Len(stack) - 1 - 1 + 1 :
               SubSeq(stack, 1, Len(stack) - 1)[i] = stack[1 + i - 1]
      BY <1>4, <2>1, SubSeqProperties
    <2>3. ASSUME NEW i \in 1 .. Len(stack) - 1
          PROVE  SubSeq(stack, 1, Len(stack) - 1)[i] = stack[i]
      <3>1. i \in 1 .. Len(stack) - 1 - 1 + 1 /\ 1 + i - 1 = i
        BY <1>1
      <3>. QED  BY <2>2, <3>1
    <2>4. (IF 1 <= Len(stack) - 1 THEN Len(stack) - 1 - 1 + 1 ELSE 0) = Len(stack) - 1
      <3>1. \A l \in Nat : l # 0 => (IF 1 <= l - 1 THEN l - 1 - 1 + 1 ELSE 0) = l - 1
        OBVIOUS
      <3>. QED  BY <1>1, <3>1
    <2>. QED  BY <2>2, <2>3, <2>4
  <1>. QED  BY <1>3, <1>5 DEF Front

\* A history in its sets, the two stacks bounded together: a step that is undone
\* leaves the undo stack as it comes onto the redo stack.
Fits(h, B, n) == h \in HistorySet(B, n) /\ Len(h.undo) + Len(h.redo) <= UndoDepth

LEMMA FitsIs ==
  ASSUME NEW B, NEW n, NEW h, Fits(h, B, n)
  PROVE  /\ History(h)
         /\ h.undo \in Seq(StepSet(B, n)) /\ h.redo \in Seq(StepSet(B, n))
         /\ h.group \in Marks \cup {NoLabel} /\ h.open \in BOOLEAN
         /\ h.batch \in PatchSet(B, n) /\ h.used \in Nat
         /\ Len(h.undo) \in Nat /\ Len(h.redo) \in Nat
         /\ Len(h.undo) + Len(h.redo) <= UndoDepth
         /\ Len(h.undo) <= UndoDepth /\ Len(h.redo) <= UndoDepth
  <1>1. h \in HistorySet(B, n) /\ Len(h.undo) + Len(h.redo) <= UndoDepth
    BY DEF Fits
  <1>2. /\ History(h)
        /\ h.undo \in Seq(StepSet(B, n)) /\ h.redo \in Seq(StepSet(B, n))
        /\ h.group \in Marks \cup {NoLabel} /\ h.open \in BOOLEAN
        /\ h.batch \in PatchSet(B, n) /\ h.used \in Nat
    BY <1>1 DEF HistorySet, History
  <1>3. Len(h.undo) \in Nat /\ Len(h.redo) \in Nat /\ UndoDepth \in Nat
    BY <1>2, SceneAssumption
  <1>4. Len(h.undo) <= UndoDepth /\ Len(h.redo) <= UndoDepth
    <2>1. \A i, j, k \in Nat : i + j <= k => i <= k /\ j <= k
      OBVIOUS
    <2>. QED  BY <1>1, <1>3, <2>1
  <1>. QED  BY <1>1, <1>2, <1>3, <1>4

\* The converse, field by field.
LEMMA FieldsFit ==
  ASSUME NEW B, NEW n, NEW undo \in Seq(StepSet(B, n)), NEW redo \in Seq(StepSet(B, n)),
         NEW group \in Marks \cup {NoLabel}, NEW open \in BOOLEAN,
         NEW batch \in PatchSet(B, n), NEW used \in Nat, Len(undo) + Len(redo) <= UndoDepth
  PROVE  Fits([undo |-> undo, redo |-> redo, group |-> group,
               open |-> open, batch |-> batch, used |-> used], B, n)
  BY DEF Fits, HistorySet

LEMMA FitsGrow ==
  ASSUME NEW B, NEW C, B \subseteq C, NEW n \in Nat, NEW m \in Nat, n <= m, NEW h, Fits(h, B, n)
  PROVE  Fits(h, C, m)
  BY HistoriesGrow DEF Fits

LEMMA FreshFits == ASSUME NEW B, NEW n PROVE Fits(Fresh, B, n)
  <1>1. Len(<<>>) + Len(<<>>) <= UndoDepth
    BY SceneAssumption
  <1>2. << >> \in Seq(StepSet(B, n))
    OBVIOUS
  <1>. QED  BY <1>1, <1>2, NoPatchIsPatch, FieldsFit DEF Fresh

\* Two histories that differ in nothing but when their client was last seen.
Alike(g, h) ==
    /\ g.undo = h.undo /\ g.redo = h.redo /\ g.group = h.group
    /\ g.open = h.open /\ g.batch = h.batch

\* Opening, closing and taking back write these fields.
LEMMA FieldsWritten ==
  ASSUME NEW h, History(h), NEW undo, NEW redo, NEW open, NEW batch
  PROVE  /\ [h EXCEPT !.open = open, !.batch = batch] =
              [undo |-> h.undo, redo |-> h.redo, group |-> h.group,
               open |-> open, batch |-> batch, used |-> h.used]
         /\ [h EXCEPT !.redo = redo, !.undo = undo] =
              [undo |-> undo, redo |-> redo, group |-> h.group,
               open |-> h.open, batch |-> h.batch, used |-> h.used]
  <1>1. PICK a, b, d, e, f, g :
          h = [undo |-> a, redo |-> b, group |-> d, open |-> e, batch |-> f, used |-> g]
    BY DEF History
  <1>2. h.undo = a /\ h.redo = b /\ h.group = d /\ h.open = e /\ h.batch = f /\ h.used = g
    BY <1>1
  <1>3. [h EXCEPT !.open = open, !.batch = batch] =
          [undo |-> a, redo |-> b, group |-> d, open |-> open, batch |-> batch, used |-> g]
    <2>. DEFINE k == [h EXCEPT !.open = open]
    <2>1. k = [undo |-> a, redo |-> b, group |-> d, open |-> open, batch |-> f, used |-> g]
      BY <1>1
    <2>. HIDE DEF k
    <2>2. [k EXCEPT !.batch = batch] =
            [undo |-> a, redo |-> b, group |-> d, open |-> open, batch |-> batch, used |-> g]
      BY <2>1
    <2>. QED  BY <2>2 DEF k
  <1>4. [h EXCEPT !.redo = redo, !.undo = undo] =
          [undo |-> undo, redo |-> redo, group |-> d, open |-> e, batch |-> f, used |-> g]
    <2>. DEFINE k == [h EXCEPT !.redo = redo]
    <2>1. k = [undo |-> a, redo |-> redo, group |-> d, open |-> e, batch |-> f, used |-> g]
      BY <1>1
    <2>. HIDE DEF k
    <2>2. [k EXCEPT !.undo = undo] =
            [undo |-> undo, redo |-> redo, group |-> d, open |-> e, batch |-> f, used |-> g]
      BY <2>1
    <2>. QED  BY <2>2 DEF k
  <1>. QED  BY <1>2, <1>3, <1>4

LEMMA StacksWritten ==
  ASSUME NEW h, History(h), NEW undo, NEW redo, NEW group
  PROVE  [h EXCEPT !.undo = undo, !.redo = redo, !.group = group] =
           [undo |-> undo, redo |-> redo, group |-> group,
            open |-> h.open, batch |-> h.batch, used |-> h.used]
  <1>1. PICK a, b, d, e, f, g :
          h = [undo |-> a, redo |-> b, group |-> d, open |-> e, batch |-> f, used |-> g]
    BY DEF History
  <1>2. h.open = e /\ h.batch = f /\ h.used = g
    BY <1>1
  <1>3. [h EXCEPT !.undo = undo, !.redo = redo, !.group = group] =
          [undo |-> undo, redo |-> redo, group |-> group, open |-> e, batch |-> f, used |-> g]
    <2>. DEFINE k == [h EXCEPT !.undo = undo]
                l == [k EXCEPT !.redo = redo]
    <2>1. k = [undo |-> undo, redo |-> b, group |-> d, open |-> e, batch |-> f, used |-> g]
      BY <1>1
    <2>2. l = [undo |-> undo, redo |-> redo, group |-> d, open |-> e, batch |-> f, used |-> g]
      <3>. HIDE DEF k
      <3>. QED  BY <2>1
    <2>3. [l EXCEPT !.group = group] =
            [undo |-> undo, redo |-> redo, group |-> group, open |-> e, batch |-> f, used |-> g]
      <3>. HIDE DEF l
      <3>. QED  BY <2>2
    <2>. QED  BY <2>3
  <1>. QED  BY <1>2, <1>3

\* A step is of its sets when its patch is.
LEMMA StepIs ==
  ASSUME NEW B, NEW n, NEW label \in Marks \cup {NoLabel}, NEW p \in PatchSet(B, n)
  PROVE  Step(label, p) \in StepSet(B, n) /\ Step(label, p).patch = p /\ Step(label, p).label = label
  BY DEF Step, StepSet

\* What Remember puts on the undo stack.
Newest(h, p) ==
    IF h.group # NoLabel /\ h.undo # <<>> /\ Last(h.undo).label = h.group
    THEN PushUndo(Front(h.undo), Step(h.group, Merge(Inverted(p), Last(h.undo).patch)))
    ELSE PushUndo(h.undo, Step(h.group, Inverted(p)))

LEMMA NewestIs ==
  ASSUME NEW B, NEW n, NEW h, Fits(h, B, n), NEW p \in PatchSet(B, n)
  PROVE  Newest(h, p) \in Seq(StepSet(B, n)) /\ Len(Newest(h, p)) <= UndoDepth
  <1>1. /\ h.undo \in Seq(StepSet(B, n)) /\ h.group \in Marks \cup {NoLabel}
        /\ Len(h.undo) \in Nat /\ Len(h.undo) <= UndoDepth
    BY FitsIs
  <1>2. Inverted(p) \in PatchSet(B, n)
    BY InvertedIs
  <1>3. CASE h.group # NoLabel /\ h.undo # <<>> /\ Last(h.undo).label = h.group
    <2>1. /\ Front(h.undo) \in Seq(StepSet(B, n)) /\ Len(Front(h.undo)) = Len(h.undo) - 1
          /\ Last(h.undo) \in StepSet(B, n)
      BY <1>1, <1>3, FrontIs
    <2>2. Last(h.undo).patch \in PatchSet(B, n)
      BY <2>1 DEF StepSet
    <2>3. Step(h.group, Merge(Inverted(p), Last(h.undo).patch)) \in StepSet(B, n)
      <3>1. Merge(Inverted(p), Last(h.undo).patch) \in PatchSet(B, n)
        BY <1>2, <2>2, MergeIsPatch
      <3>. QED  BY <1>1, <3>1, StepIs
    <2>4. Len(Front(h.undo)) <= UndoDepth
      BY <1>1, <2>1, SceneAssumption
    <2>. QED  BY <1>3, <2>1, <2>3, <2>4, PushUndoIs DEF Newest
  <1>4. CASE ~(h.group # NoLabel /\ h.undo # <<>> /\ Last(h.undo).label = h.group)
    <2>1. Step(h.group, Inverted(p)) \in StepSet(B, n)
      BY <1>1, <1>2, StepIs
    <2>. QED  BY <1>1, <1>4, <2>1, PushUndoIs DEF Newest
  <1>. QED  BY <1>3, <1>4

LEMMA RememberIs ==
  ASSUME NEW B, NEW n, NEW h, Fits(h, B, n), NEW p \in PatchSet(B, n)
  PROVE  /\ Fits(Remember(h, p), B, n)
         /\ Remember(h, p).open = h.open /\ Remember(h, p).group = h.group
         /\ h.open => /\ Remember(h, p).undo = h.undo /\ Remember(h, p).redo = h.redo
                      /\ Remember(h, p).batch = Merge(h.batch, p)
         /\ ~h.open => /\ Remember(h, p).undo = Newest(h, p) /\ Remember(h, p).redo = <<>>
                       /\ Remember(h, p).batch = h.batch
  <1>1. /\ History(h)
        /\ h.undo \in Seq(StepSet(B, n)) /\ h.redo \in Seq(StepSet(B, n))
        /\ h.group \in Marks \cup {NoLabel} /\ h.open \in BOOLEAN
        /\ h.batch \in PatchSet(B, n) /\ h.used \in Nat
        /\ Len(h.undo) + Len(h.redo) <= UndoDepth
    BY FitsIs
  <1>2. Remember(h, p) = IF h.open THEN [h EXCEPT !.batch = Merge(@, p)]
                         ELSE [h EXCEPT !.redo = <<>>, !.undo = Newest(h, p)]
    BY DEF Remember, Newest
  <1>3. CASE h.open
    <2>1. Remember(h, p) = [undo |-> h.undo, redo |-> h.redo, group |-> h.group,
                            open |-> h.open, batch |-> Merge(h.batch, p), used |-> h.used]
      BY <1>1, <1>2, <1>3 DEF History
    <2>2. Merge(h.batch, p) \in PatchSet(B, n)
      BY <1>1, MergeIsPatch
    <2>3. Fits([undo |-> h.undo, redo |-> h.redo, group |-> h.group,
                open |-> h.open, batch |-> Merge(h.batch, p), used |-> h.used], B, n)
      BY <1>1, <2>2, FieldsFit
    <2>. QED  BY <1>3, <2>1, <2>3
  <1>4. CASE ~h.open
    <2>. DEFINE u == Newest(h, p)
    <2>1. u \in Seq(StepSet(B, n)) /\ Len(u) <= UndoDepth
      BY NewestIs
    <2>2. Remember(h, p) = [undo |-> u, redo |-> <<>>, group |-> h.group,
                            open |-> h.open, batch |-> h.batch, used |-> h.used]
      <3>. HIDE DEF u
      <3>1. Remember(h, p) = [h EXCEPT !.redo = <<>>, !.undo = u]
        BY <1>2, <1>4 DEF u
      <3>. QED  BY <1>1, <3>1 DEF History
    <2>. HIDE DEF u
    <2>3. Len(u) + Len(<<>>) <= UndoDepth /\ << >> \in Seq(StepSet(B, n))
      BY <2>1
    <2>4. Fits([undo |-> u, redo |-> <<>>, group |-> h.group,
                open |-> h.open, batch |-> h.batch, used |-> h.used], B, n)
      BY <1>1, <2>1, <2>3, FieldsFit
    <2>5. Remember(h, p).undo = u
      BY <2>2
    <2>. QED  BY <1>4, <2>2, <2>4, <2>5 DEF u
  <1>. QED  BY <1>1, <1>3, <1>4

\* Looking up a client that is not forgotten changes when it was last seen.
LEMMA RecallIs ==
  ASSUME NEW B, NEW n, NEW c \in Clients, NEW x, c \notin x,
         Fits(hist[c], B, n), seq \in Nat
  PROVE  Fits(Recall(c, x)[c], B, n) /\ Alike(Recall(c, x)[c], hist[c])
  <1>. DEFINE h == hist[c]
              u == IF seq > h.used THEN seq ELSE h.used
  <1>1. Recall(c, x)[c] = [h EXCEPT !.used = u]
    BY DEF Recall
  <1>2. /\ History(h)
        /\ h.undo \in Seq(StepSet(B, n)) /\ h.redo \in Seq(StepSet(B, n))
        /\ h.group \in Marks \cup {NoLabel} /\ h.open \in BOOLEAN
        /\ h.batch \in PatchSet(B, n) /\ h.used \in Nat
        /\ Len(h.undo) + Len(h.redo) <= UndoDepth
    BY FitsIs
  <1>3. u \in Nat
    BY <1>2
  <1>. HIDE DEF u
  <1>4. Recall(c, x)[c] = [undo |-> h.undo, redo |-> h.redo, group |-> h.group,
                           open |-> h.open, batch |-> h.batch, used |-> u]
    BY <1>1, <1>2 DEF History
  <1>5. Fits([undo |-> h.undo, redo |-> h.redo, group |-> h.group,
              open |-> h.open, batch |-> h.batch, used |-> u], B, n)
    BY <1>2, <1>3, FieldsFit
  <1>6. Alike([undo |-> h.undo, redo |-> h.redo, group |-> h.group,
               open |-> h.open, batch |-> h.batch, used |-> u], h)
    BY DEF Alike
  <1>. QED  BY <1>4, <1>5, <1>6

-----------------------------------------------------------------------------
(* The shape of the state: what is in which set.                             *)

DocsOK(B, n) ==
    /\ B \subseteq Records
    /\ doc \in DocSet(n) /\ file \in DocSet(n)
    /\ \A r \in Records : doc[r] # Absent \/ file[r] # Absent => r \in B
    /\ Rebuilds(doc) /\ Rebuilds(file)
HistOK(B, n) ==
    /\ hist = [c \in Clients |-> hist[c]] /\ known \subseteq Clients
    /\ \A c \in Clients : Fits(hist[c], B, n)
WireOK(B, n) ==
    /\ seq \in 0 .. MaxSeq
    /\ \A q \in unsent : /\ q = [seq |-> q.seq, patch |-> q.patch]
                         /\ q.seq \in 1 .. seq /\ q.patch \in PatchSet(B, n)
Shape ==
    /\ author \in Seq(Clients \cup {Nobody}) /\ Len(author) \in 1 .. MaxEdits + 1
    /\ DocsOK(born, Len(author)) /\ HistOK(born, Len(author)) /\ WireOK(born, Len(author))

LEMMA ShapeGrows ==
  ASSUME NEW B, NEW C, B \subseteq C, C \subseteq Records, NEW n \in Nat, NEW m \in Nat, n <= m
  PROVE  /\ DocsOK(B, n) => DocsOK(C, m)
         /\ HistOK(B, n) => HistOK(C, m)
         /\ WireOK(B, n) => WireOK(C, m)
  <1>1. DocSet(n) \subseteq DocSet(m) /\ PatchSet(B, n) \subseteq PatchSet(C, m)
    BY StatesGrow
  <1>2. \A h : Fits(h, B, n) => Fits(h, C, m)
    BY FitsGrow
  <1>3. DocsOK(B, n) => DocsOK(C, m)
    BY <1>1 DEF DocsOK
  <1>4. HistOK(B, n) => HistOK(C, m)
    BY <1>2 DEF HistOK
  <1>5. WireOK(B, n) => WireOK(C, m)
    BY <1>1 DEF WireOK
  <1>. QED  BY <1>3, <1>4, <1>5

\* Writing one client's history, with x forgotten.
LEMMA HistoryWritten ==
  ASSUME NEW B, NEW n, HistOK(B, n), seq \in Nat,
         NEW c \in Clients, NEW x, NEW h, Fits(h, B, n), Remembers(c, x, h)
  PROVE  /\ HistOK(B, n)'
         /\ hist'[c] = h
         /\ \A y \in Clients \ (x \cup {c}) : hist'[y] = hist[y]
         /\ \A y \in x \cap Clients : y # c => hist'[y] = Fresh
  <1>1. hist' = [Recall(c, x) EXCEPT ![c] = h] /\ known' = (known \ x) \cup {c}
    BY DEF Remembers
  <1>2. Recall(c, x) = [y \in Clients |-> Recall(c, x)[y]]
    BY DEF Recall
  <1>3. hist'[c] = h /\ \A y \in Clients : y # c => hist'[y] = Recall(c, x)[y]
    BY <1>1, <1>2
  <1>4. \A y \in Clients : y # c => Recall(c, x)[y] = IF y \in x THEN Fresh ELSE hist[y]
    BY DEF Recall
  <1>5. \A y \in Clients : Fits(hist'[y], B, n)
    BY <1>3, <1>4, FreshFits DEF HistOK
  <1>6. hist' = [y \in Clients |-> hist'[y]]
    BY <1>1, <1>2
  <1>7. known' \subseteq Clients
    BY <1>1 DEF HistOK
  <1>. QED  BY <1>3, <1>4, <1>5, <1>6, <1>7 DEF HistOK

\* A patch that goes out, or does not.
LEMMA PatchPublished ==
  ASSUME NEW B, NEW n, WireOK(B, n), NEW d, NEW p \in PatchSet(B, n),
         Publish(d, p) \/ Quiet
  PROVE  WireOK(B, n)' /\ file' \in {file, d}
  <1>1. CASE Quiet
    BY <1>1 DEF Quiet, WireOK
  <1>2. CASE Publish(d, p)
    <2>1. /\ seq < MaxSeq /\ seq' = seq + 1 /\ file' = d
          /\ unsent' = unsent \cup {[seq |-> seq + 1, patch |-> p]}
      BY <1>2 DEF Publish
    <2>2. seq' \in 0 .. MaxSeq /\ 1 .. seq \subseteq 1 .. seq'
      BY <2>1, SceneAssumption DEF WireOK
    <2>3. seq + 1 \in 1 .. seq'
      BY <2>1 DEF WireOK
    <2>4. ASSUME NEW q \in unsent'
          PROVE  /\ q = [seq |-> q.seq, patch |-> q.patch]
                 /\ q.seq \in 1 .. seq' /\ q.patch \in PatchSet(B, n)
      <3>1. CASE q \in unsent
        BY <2>2, <3>1 DEF WireOK
      <3>2. CASE q = [seq |-> seq + 1, patch |-> p]
        BY <2>3, <3>2
      <3>. QED  BY <2>1, <3>1, <3>2
    <2>. QED  BY <2>1, <2>2, <2>4 DEF WireOK
  <1>. QED  BY <1>1, <1>2

-----------------------------------------------------------------------------
(* Edits.                                                                    *)

\* What hangs off what is removed is removed.
LEMMA BelowIsClosed ==
  ASSUME NEW r \in Records
  PROVE  /\ r \in Below(r)
         /\ \A q \in Records : Parent[q] \in Below(r) => q \in Below(r)
  <1>1. r \in Below(r)
    BY DEF Below
  <1>2. ASSUME NEW q \in Records, Parent[q] \in Below(r)
        PROVE  q \in Below(r)
    <2> SUFFICES ASSUME NEW S \in SUBSET Records, r \in S,
                        \A z \in Records : Parent[z] \in S => z \in S
                 PROVE  q \in S
      BY DEF Below
    <2>1. Parent[q] \in S
      BY <1>2 DEF Below
    <2>. QED  BY <2>1
  <1>. QED  BY <1>1, <1>2

\* An edit gives records its own number or takes them out, what it adds has
\* never been there, and what it makes rebuilds.
LEMMA EditedIs ==
  ASSUME NEW n \in Nat, DocsOK(born, n), NEW d \in Edited(n + 1)
  PROVE  /\ d \in DocSet(n + 1) /\ Rebuilds(d) /\ d # doc
         /\ \A r \in Records : d[r] \in {doc[r], n + 1, Absent}
         /\ \A r \in Records : doc[r] = Absent /\ d[r] # Absent => r \notin born
  <1>1. /\ doc \in [Records -> 0 .. n] /\ born \subseteq Records /\ Rebuilds(doc)
        /\ \A r \in Records : doc[r] # Absent => r \in born
    BY DEF DocsOK, DocSet
  <1>2. n + 1 \in 0 .. n + 1 /\ n + 1 # Absent /\ 0 .. n \subseteq 0 .. n + 1 /\ Absent \in 0 .. n + 1
        /\ n + 1 \notin 0 .. n
    BY DEF Absent
  <1>3. ASSUME NEW r \in Records, doc[r] # Absent, d = [doc EXCEPT ![r] = n + 1]
        PROVE  /\ d \in DocSet(n + 1) /\ Rebuilds(d) /\ d # doc
               /\ \A s \in Records : d[s] \in {doc[s], n + 1, Absent}
               /\ \A s \in Records : doc[s] = Absent /\ d[s] # Absent => s \notin born
    <2>1. \A s \in Records : d[s] = IF s = r THEN n + 1 ELSE doc[s]
      BY <1>1, <1>3
    <2>2. \A s \in Records : d[s] = Absent <=> doc[s] = Absent
      BY <1>2, <1>3, <2>1
    <2>3. Rebuilds(d)
      BY <1>1, <2>2, SceneAssumption DEF Rebuilds
    <2>4. d \in DocSet(n + 1)
      BY <1>1, <1>2, <1>3 DEF DocSet
    <2>5. d # doc
      BY <1>1, <1>2, <2>1
    <2>. QED  BY <2>1, <2>2, <2>3, <2>4, <2>5
  <1>4. ASSUME NEW r \in Records \ born, Parent[r] = NoParent \/ doc[Parent[r]] # Absent,
               d = [doc EXCEPT ![r] = n + 1]
        PROVE  /\ d \in DocSet(n + 1) /\ Rebuilds(d) /\ d # doc
               /\ \A s \in Records : d[s] \in {doc[s], n + 1, Absent}
               /\ \A s \in Records : doc[s] = Absent /\ d[s] # Absent => s \notin born
    <2>1. \A s \in Records : d[s] = IF s = r THEN n + 1 ELSE doc[s]
      BY <1>1, <1>4
    <2>2. \A s \in Records : doc[s] # Absent => d[s] # Absent
      BY <1>2, <2>1
    <2>3. Rebuilds(d)
      <3> SUFFICES ASSUME NEW s \in Records, d[s] # Absent, Parent[s] # NoParent
                   PROVE  d[Parent[s]] # Absent
        BY DEF Rebuilds
      <3>1. Parent[s] \in Records
        BY SceneAssumption
      <3>2. doc[Parent[s]] # Absent
        BY <1>1, <1>4, <2>1 DEF Rebuilds
      <3>. QED  BY <2>2, <3>1, <3>2
    <2>4. d \in DocSet(n + 1)
      BY <1>1, <1>2, <1>4 DEF DocSet
    <2>5. d # doc
      BY <1>1, <1>2, <2>1
    <2>. QED  BY <1>4, <2>1, <2>3, <2>4, <2>5
  <1>5. ASSUME NEW r \in Records, doc[r] # Absent,
               d = [s \in Records |-> IF s \in Below(r) THEN Absent ELSE doc[s]]
        PROVE  /\ d \in DocSet(n + 1) /\ Rebuilds(d) /\ d # doc
               /\ \A s \in Records : d[s] \in {doc[s], n + 1, Absent}
               /\ \A s \in Records : doc[s] = Absent /\ d[s] # Absent => s \notin born
    <2>1. \A s \in Records : d[s] = IF s \in Below(r) THEN Absent ELSE doc[s]
      BY <1>5
    <2>2. Rebuilds(d)
      <3> SUFFICES ASSUME NEW s \in Records, d[s] # Absent, Parent[s] # NoParent
                   PROVE  d[Parent[s]] # Absent
        BY DEF Rebuilds
      <3>1. Parent[s] \in Records
        BY SceneAssumption
      <3>2. s \notin Below(r) /\ doc[s] # Absent
        BY <2>1
      <3>3. doc[Parent[s]] # Absent
        BY <1>1, <3>2 DEF Rebuilds
      <3>4. Parent[s] \notin Below(r)
        BY <3>2, BelowIsClosed
      <3>. QED  BY <2>1, <3>1, <3>3, <3>4
    <2>3. d \in DocSet(n + 1)
      <3>1. \A s \in Records : d[s] \in 0 .. n + 1
        BY <1>1, <1>2, <2>1
      <3>. QED  BY <1>5, <3>1 DEF DocSet
    <2>4. d[r] = Absent
      BY <2>1, BelowIsClosed
    <2>. QED  BY <1>5, <2>1, <2>2, <2>3, <2>4
  <1>. QED  BY <1>3, <1>4, <1>5 DEF Edited

-----------------------------------------------------------------------------
(* Every operation keeps the shape.                                          *)

\* A state an edit or an undo made of the document goes out as its patch.
LEMMA PatchOfChange ==
  ASSUME NEW B, NEW n \in Nat, DocsOK(B, n), NEW d \in DocSet(n),
         \A r \in Records : d[r] # Absent => r \in B
  PROVE  Diff(doc, d) \in PatchSet(B, n)
  BY DiffIsPatch DEF DocsOK

LEMMA DocumentWritten ==
  ASSUME NEW B, NEW n, DocsOK(B, n), NEW d \in DocSet(n), Rebuilds(d),
         \A r \in Records : d[r] # Absent => r \in B, doc' = d, file' \in {file, d}
  PROVE  DocsOK(B, n)'
  <1>1. (\A r \in Records : doc[r] # Absent \/ file[r] # Absent => r \in B)'
    BY DEF DocsOK
  <1>2. Rebuilds(doc)' /\ Rebuilds(file)'
    BY DEF DocsOK, Rebuilds
  <1>. QED  BY <1>1, <1>2 DEF DocsOK

LEMMA EditKeepsShape ==
  ASSUME Shape, NEW c \in Clients, Edit(c)
  PROVE  Shape'
  <1>1. PICK d \in Edited(Len(author) + 1), x \in Forgotten(c) :
          /\ Len(author) < MaxEdits + 1 /\ doc' = d
          /\ Remembers(c, x, Remember(Recall(c, x)[c], Diff(doc, d)))
          /\ IF Recall(c, x)[c].open THEN Quiet ELSE Publish(d, Diff(doc, d))
          /\ Ghosts(c, d)
    BY DEF Edit
  <1>2. PICK n : n = Len(author)
    OBVIOUS
  <1>3. PICK B : B = born
    OBVIOUS
  <1>4. PICK C : C = born'
    OBVIOUS
  <1>5. /\ n \in Nat /\ n + 1 \in Nat /\ n <= n + 1 /\ seq \in Nat
        /\ DocsOK(B, n) /\ HistOK(B, n) /\ WireOK(B, n)
    BY <1>2, <1>3 DEF Shape, WireOK
  <1>6. /\ author' \in Seq(Clients \cup {Nobody}) /\ Len(author') = n + 1
        /\ Len(author') \in 1 .. MaxEdits + 1
    <2>1. author' = Append(author, c)
      BY <1>1 DEF Ghosts
    <2>. QED  BY <1>1, <1>2, <2>1, SceneAssumption DEF Shape
  <1>7. /\ d \in DocSet(n + 1) /\ Rebuilds(d)
    BY <1>1, <1>2, <1>3, <1>5, EditedIs
  <1>8. /\ C = B \cup {r \in Records : d[r] # Absent} /\ B \subseteq C /\ C \subseteq Records
        /\ \A r \in Records : d[r] # Absent => r \in C
    BY <1>1, <1>3, <1>4, <1>5 DEF Ghosts, DocsOK
  <1>9. DocsOK(C, n + 1) /\ HistOK(C, n + 1) /\ WireOK(C, n + 1)
    BY <1>5, <1>8, ShapeGrows
  <1>10. PICK p : p = Diff(doc, d)
    OBVIOUS
  <1>11. p \in PatchSet(C, n + 1)
    BY <1>5, <1>7, <1>8, <1>9, <1>10, PatchOfChange
  <1>12. PICK h : h = Recall(c, x)[c]
    OBVIOUS
  <1>13. Fits(h, C, n + 1)
    <2>1. Fits(hist[c], C, n + 1) /\ c \notin x
      BY <1>9, OnlyIdleForgotten DEF HistOK
    <2>. QED  BY <1>5, <1>12, <2>1, RecallIs
  <1>14. Fits(Remember(h, p), C, n + 1)
    BY <1>11, <1>13, RememberIs
  <1>15. HistOK(C, n + 1)'
    <2>1. Remembers(c, x, Remember(h, p))
      BY <1>1, <1>10, <1>12
    <2>. QED  BY <1>5, <1>9, <1>14, <2>1, HistoryWritten
  <1>16. WireOK(C, n + 1)' /\ file' \in {file, d}
    <2>1. Publish(d, p) \/ Quiet
      BY <1>1, <1>10
    <2>. QED  BY <1>9, <1>11, <2>1, PatchPublished
  <1>17. DocsOK(C, n + 1)'
    BY <1>1, <1>7, <1>8, <1>9, <1>16, DocumentWritten
  <1>. QED  BY <1>4, <1>6, <1>15, <1>16, <1>17 DEF Shape

\* The steps that make no edit give out no ids and no numbers.
LEMMA UntouchedShape ==
  ASSUME Shape, Untouched, NEW B, B = born, NEW n, n = Len(author),
         DocsOK(B, n)', HistOK(B, n)', WireOK(B, n)'
  PROVE  Shape'
  BY DEF Shape, Untouched

\* Of those, the ones that write a client's history and nothing else.
LEMMA OwnHistoryKeepsShape ==
  ASSUME Shape, NEW c \in Clients, NEW x, NEW h, Remembers(c, x, h),
         NEW B, B = born, NEW n, n = Len(author), Fits(h, B, n), Quiet, Untouched, doc' = doc
  PROVE  Shape'
  <1>1. /\ DocsOK(B, n) /\ HistOK(B, n) /\ WireOK(B, n) /\ seq \in Nat
    BY DEF Shape, WireOK
  <1>2. HistOK(B, n)'
    BY <1>1, HistoryWritten
  <1>3. DocsOK(B, n)' /\ WireOK(B, n)'
    BY <1>1 DEF DocsOK, WireOK, Quiet, Rebuilds
  <1>. QED  BY <1>2, <1>3, UntouchedShape

LEMMA LookedUp ==
  ASSUME Shape, NEW c \in Clients, NEW x, c \notin x,
         NEW B, B = born, NEW n, n = Len(author)
  PROVE  Fits(Recall(c, x)[c], B, n) /\ Alike(Recall(c, x)[c], hist[c])
  <1>1. Fits(hist[c], B, n) /\ seq \in Nat
    BY DEF Shape, HistOK, WireOK
  <1>. QED  BY <1>1, RecallIs

LEMMA MarkKeepsShape ==
  ASSUME Shape, NEW c \in Clients, Mark(c)
  PROVE  Shape'
  <1>1. PICK label \in Marks \cup {NoLabel}, x \in Forgotten(c) :
          /\ Remembers(c, x, [Recall(c, x)[c] EXCEPT !.group = label])
          /\ Quiet /\ Untouched /\ doc' = doc
    BY DEF Mark
  <1>2. PICK n, B, h : n = Len(author) /\ B = born /\ h = Recall(c, x)[c]
    OBVIOUS
  <1>3. Fits(h, B, n)
    BY <1>2, OnlyIdleForgotten, LookedUp
  <1>4. Fits([h EXCEPT !.group = label], B, n)
    <2>0. History(h)
      BY <1>3, FitsIs
    <2>1. [h EXCEPT !.group = label] = [undo |-> h.undo, redo |-> h.redo, group |-> label,
                                        open |-> h.open, batch |-> h.batch, used |-> h.used]
      BY <2>0 DEF History
    <2>2. Fits([undo |-> h.undo, redo |-> h.redo, group |-> label,
                open |-> h.open, batch |-> h.batch, used |-> h.used], B, n)
      BY <1>3, FitsIs, FieldsFit
    <2>. QED  BY <2>1, <2>2
  <1>5. Remembers(c, x, [h EXCEPT !.group = label])
    BY <1>1, <1>2
  <1>. QED  BY <1>1, <1>2, <1>4, <1>5, OwnHistoryKeepsShape

LEMMA RefuseKeepsShape ==
  ASSUME Shape, NEW c \in Clients, Refuse(c)
  PROVE  Shape'
  <1>1. PICK x \in Forgotten(c) :
          Remembers(c, x, Recall(c, x)[c]) /\ Quiet /\ Untouched /\ doc' = doc
    BY DEF Refuse
  <1>2. PICK n, B, h : n = Len(author) /\ B = born /\ h = Recall(c, x)[c]
    OBVIOUS
  <1>3. Fits(h, B, n)
    BY <1>2, OnlyIdleForgotten, LookedUp
  <1>. QED  BY <1>1, <1>2, <1>3, OwnHistoryKeepsShape

LEMMA BeginKeepsShape ==
  ASSUME Shape, NEW c \in Clients, Begin(c)
  PROVE  Shape'
  <1>0. PICK x \in Forgotten(c) :
          Remembers(c, x, [Recall(c, x)[c] EXCEPT !.open = TRUE, !.batch = NoPatch])
    BY DEF Begin
  <1>1. Quiet /\ Untouched /\ doc' = doc
    BY DEF Begin
  <1>2. PICK n, B, h : n = Len(author) /\ B = born /\ h = Recall(c, x)[c]
    OBVIOUS
  <1>3. Fits(h, B, n)
    BY <1>2, OnlyIdleForgotten, LookedUp
  <1>4. Fits([h EXCEPT !.open = TRUE, !.batch = NoPatch], B, n)
    <2>0. History(h)
      BY <1>3, FitsIs
    <2>1. [h EXCEPT !.open = TRUE, !.batch = NoPatch] =
            [undo |-> h.undo, redo |-> h.redo, group |-> h.group,
             open |-> TRUE, batch |-> NoPatch, used |-> h.used]
      BY <2>0, FieldsWritten
    <2>2. Fits([undo |-> h.undo, redo |-> h.redo, group |-> h.group,
                open |-> TRUE, batch |-> NoPatch, used |-> h.used], B, n)
      BY <1>3, FitsIs, FieldsFit, NoPatchIsPatch
    <2>. QED  BY <2>1, <2>2
  <1>5. Remembers(c, x, [h EXCEPT !.open = TRUE, !.batch = NoPatch])
    BY <1>0, <1>2
  <1>. QED  BY <1>1, <1>2, <1>4, <1>5, OwnHistoryKeepsShape

\* Undo and redo: the stack a step comes off, and what is made of the document.
Stack(h, back) == IF back THEN h.undo ELSE h.redo
Result(p) == Apply(doc, Without(p, Gone(doc, p)))
Moved(h, back, other) ==
    [h EXCEPT !.undo = IF back THEN Front(@) ELSE PushUndo(@, other),
              !.redo = IF back THEN Append(@, other) ELSE Front(@),
              !.group = NoLabel]
Takes(c, back, force, x, h, step, d, p) ==
    /\ h = Recall(c, x)[c] /\ step = Last(Stack(h, back))
    /\ d = Result(step.patch) /\ p = Diff(doc, d)
    /\ ~Refused(h, back, force) /\ doc' = d
    /\ Remembers(c, x, Moved(h, back, Step(step.label, Inverted(p))))
    /\ IF Empty(p) THEN Quiet ELSE Publish(d, p)
    /\ Untouched /\ mirror' = mirror

LEMMA TakeIs ==
  ASSUME NEW c, NEW back, NEW force, Take(c, back, force)
  PROVE  \E x \in Forgotten(c) : \E h, step, d, p : Takes(c, back, force, x, h, step, d, p)
  <1>1. PICK x \in Forgotten(c) :
          LET h == Recall(c, x)[c]
              step == Last(IF back THEN h.undo ELSE h.redo)
              d == Apply(doc, Without(step.patch, Gone(doc, step.patch)))
              p == Diff(doc, d)
          IN  /\ ~Refused(h, back, force) /\ doc' = d
              /\ Remembers(c, x, [h EXCEPT
                    !.undo = IF back THEN Front(@) ELSE PushUndo(@, Step(step.label, Inverted(p))),
                    !.redo = IF back THEN Append(@, Step(step.label, Inverted(p))) ELSE Front(@),
                    !.group = NoLabel])
              /\ IF Empty(p) THEN Quiet ELSE Publish(d, p)
              /\ Untouched /\ UNCHANGED mirror
    BY DEF Take
  <1>. DEFINE h == Recall(c, x)[c]
              step == Last(Stack(h, back))
              d == Result(step.patch)
              p == Diff(doc, d)
  <1>2. Takes(c, back, force, x, h, step, d, p)
    BY <1>1 DEF Takes, Stack, Result, Moved
  <1>. QED  BY <1>2

LEMMA MovedIs ==
  ASSUME NEW B, NEW n, NEW h, Fits(h, B, n), NEW back \in BOOLEAN,
         Stack(h, back) # <<>>, NEW other \in StepSet(B, n)
  PROVE  /\ Fits(Moved(h, back, other), B, n)
         /\ Moved(h, back, other).undo = IF back THEN Front(h.undo) ELSE PushUndo(h.undo, other)
         /\ Moved(h, back, other).redo = IF back THEN Append(h.redo, other) ELSE Front(h.redo)
         /\ Moved(h, back, other).group = NoLabel
         /\ Moved(h, back, other).open = h.open /\ Moved(h, back, other).batch = h.batch
  <1>. DEFINE undo == IF back THEN Front(h.undo) ELSE PushUndo(h.undo, other)
              redo == IF back THEN Append(h.redo, other) ELSE Front(h.redo)
              w == [undo |-> undo, redo |-> redo, group |-> NoLabel,
                    open |-> h.open, batch |-> h.batch, used |-> h.used]
  <1>1. /\ History(h) /\ h.undo \in Seq(StepSet(B, n)) /\ h.redo \in Seq(StepSet(B, n))
        /\ h.group \in Marks \cup {NoLabel} /\ h.open \in BOOLEAN
        /\ h.batch \in PatchSet(B, n) /\ h.used \in Nat
        /\ Len(h.undo) \in Nat /\ Len(h.redo) \in Nat
        /\ Len(h.undo) + Len(h.redo) <= UndoDepth
    BY FitsIs
  <1>2. Moved(h, back, other) = w
    <2>1. Moved(h, back, other) = [h EXCEPT !.undo = undo, !.redo = redo, !.group = NoLabel]
      <3>1. CASE back
        BY <3>1 DEF Moved
      <3>2. CASE ~back
        BY <3>2 DEF Moved
      <3>. QED  BY <3>1, <3>2
    <2>. HIDE DEF undo, redo
    <2>2. History(h)
      BY <1>1
    <2>3. [h EXCEPT !.undo = undo, !.redo = redo, !.group = NoLabel] = w
      BY <2>2, StacksWritten
    <2>. QED  BY <2>1, <2>3
  <1>3. undo \in Seq(StepSet(B, n)) /\ redo \in Seq(StepSet(B, n)) /\ Len(undo) + Len(redo) <= UndoDepth
    <2>1. CASE back
      <3>1. Front(h.undo) \in Seq(StepSet(B, n)) /\ Len(Front(h.undo)) = Len(h.undo) - 1
        BY <1>1, <2>1, FrontIs DEF Stack
      <3>2. Append(h.redo, other) \in Seq(StepSet(B, n)) /\ Len(Append(h.redo, other)) = Len(h.redo) + 1
        BY <1>1
      <3>3. undo = Front(h.undo) /\ redo = Append(h.redo, other)
        BY <2>1
      <3>. HIDE DEF undo, redo
      <3>4. \A i, j, k, a, b \in Int : i + j <= k /\ a = i - 1 /\ b = j + 1 => a + b <= k
        OBVIOUS
      <3>5. UndoDepth \in Nat
        BY SceneAssumption
      <3>6. Len(undo) + Len(redo) <= UndoDepth
        <4>1. Len(undo) = Len(h.undo) - 1 /\ Len(redo) = Len(h.redo) + 1
          BY <3>1, <3>2, <3>3
        <4>2. Len(undo) \in Int /\ Len(redo) \in Int
          BY <1>1, <4>1
        <4>3. /\ Len(h.undo) \in Int /\ Len(h.redo) \in Int /\ UndoDepth \in Int
              /\ Len(h.undo) + Len(h.redo) <= UndoDepth
          <5>1. \A i \in Nat : i \in Int
            OBVIOUS
          <5>. QED  BY <1>1, <3>5, <5>1
        <4>. QED  BY <3>4, <4>1, <4>2, <4>3
      <3>. QED  BY <3>1, <3>2, <3>3, <3>6
    <2>2. CASE ~back
      <3>1. Front(h.redo) \in Seq(StepSet(B, n)) /\ Len(Front(h.redo)) = Len(h.redo) - 1
        BY <1>1, <2>2, FrontIs DEF Stack
      <3>2. PushUndo(h.undo, other) \in Seq(StepSet(B, n)) /\ Len(PushUndo(h.undo, other)) <= Len(h.undo) + 1
        BY <1>1, PushUndoIs
      <3>3. undo = PushUndo(h.undo, other) /\ redo = Front(h.redo)
        BY <2>2
      <3>4. Len(undo) \in Nat
        <4>. HIDE DEF undo
        <4>. QED  BY <3>2, <3>3
      <3>. HIDE DEF undo, redo
      <3>5. \A i, j, k, a, b \in Int : i + j <= k /\ a <= i + 1 /\ b = j - 1 => a + b <= k
        OBVIOUS
      <3>6. UndoDepth \in Nat /\ Len(redo) \in Int
        BY <1>1, <3>1, <3>3, SceneAssumption
      <3>7. Len(undo) + Len(redo) <= UndoDepth
        <4>1. /\ Len(undo) \in Int /\ Len(h.undo) \in Int /\ Len(h.redo) \in Int
              /\ UndoDepth \in Int /\ Len(redo) \in Int
          BY <1>1, <3>4, <3>6
        <4>2. Len(undo) <= Len(h.undo) + 1 /\ Len(redo) = Len(h.redo) - 1
          BY <3>1, <3>2, <3>3
        <4>. QED  BY <1>1, <3>5, <4>1, <4>2
      <3>. QED  BY <3>1, <3>2, <3>3, <3>7
    <2>. QED  BY <2>1, <2>2
  <1>. HIDE DEF undo, redo
  <1>4. Fits(w, B, n)
    BY <1>1, <1>3, FieldsFit
  <1>5. /\ Fits(Moved(h, back, other), B, n)
        /\ Moved(h, back, other).undo = undo /\ Moved(h, back, other).redo = redo
        /\ Moved(h, back, other).group = NoLabel
        /\ Moved(h, back, other).open = h.open /\ Moved(h, back, other).batch = h.batch
    BY <1>2, <1>4
  <1>. QED  BY <1>5 DEF undo, redo

\* A step that is taken is of the sets, and so is what it makes of the document.
LEMMA ResultIs ==
  ASSUME NEW B, NEW n \in Nat, DocsOK(B, n), NEW p \in PatchSet(B, n), NEW rs, NEW d,
         d = Apply(doc, Without(p, rs))
  PROVE  /\ d \in DocSet(n) /\ Diff(doc, d) \in PatchSet(B, n)
         /\ \A r \in Records : d[r] # Absent => r \in B
  <1>1. Without(p, rs) \in PatchSet(B, n)
    BY WithoutIs
  <1>2. /\ doc \in DocSet(n) /\ B \subseteq Records
        /\ \A r \in Records : doc[r] # Absent => r \in B
    BY DEF DocsOK
  <1>3. /\ d \in DocSet(n) /\ \A r \in Records : d[r] # Absent => r \in B
    BY <1>1, <1>2, ApplyIs
  <1>. QED  BY <1>3, PatchOfChange

LEMMA TakesIs ==
  ASSUME Shape, NEW c \in Clients, NEW back \in BOOLEAN, NEW force,
         NEW x \in Forgotten(c), NEW h, NEW step, NEW d, NEW p,
         Takes(c, back, force, x, h, step, d, p), NEW B, B = born, NEW n, n = Len(author)
  PROVE  /\ Fits(h, B, n) /\ Alike(h, hist[c]) /\ Stack(h, back) # <<>>
         /\ step \in StepSet(B, n) /\ step.patch \in PatchSet(B, n)
         /\ d \in DocSet(n) /\ Rebuilds(d) /\ \A r \in Records : d[r] # Absent => r \in B
         /\ p \in PatchSet(B, n) /\ Step(step.label, Inverted(p)) \in StepSet(B, n)
  <1>1. /\ h = Recall(c, x)[c] /\ step = Last(Stack(h, back))
        /\ d = Result(step.patch) /\ p = Diff(doc, d) /\ ~Refused(h, back, force)
    BY DEF Takes
  <1>2. Fits(h, B, n) /\ Alike(h, hist[c])
    BY <1>1, OnlyIdleForgotten, LookedUp
  <1>3. Stack(h, back) # <<>> /\ Rebuilds(d)
    BY <1>1 DEF Refused, Stack, Result
  <1>4. Stack(h, back) \in Seq(StepSet(B, n))
    BY <1>2, FitsIs DEF Stack
  <1>5. step \in StepSet(B, n)
    BY <1>1, <1>3, <1>4, FrontIs
  <1>6. step.patch \in PatchSet(B, n) /\ step.label \in Marks \cup {NoLabel}
    BY <1>5 DEF StepSet
  <1>7. n \in Nat /\ DocsOK(B, n)
    BY DEF Shape
  <1>8. /\ d \in DocSet(n) /\ p \in PatchSet(B, n)
        /\ \A r \in Records : d[r] # Absent => r \in B
    BY <1>1, <1>6, <1>7, ResultIs DEF Result
  <1>9. Step(step.label, Inverted(p)) \in StepSet(B, n)
    BY <1>6, <1>8, InvertedIs, StepIs
  <1>. QED  BY <1>2, <1>3, <1>5, <1>6, <1>8, <1>9

LEMMA TakeKeepsShape ==
  ASSUME Shape, NEW c \in Clients, NEW back \in BOOLEAN, NEW force, Take(c, back, force)
  PROVE  Shape'
  <1>1. PICK x, h, step, d, p : x \in Forgotten(c) /\ Takes(c, back, force, x, h, step, d, p)
    BY TakeIs
  <1>2. PICK n, B, other : n = Len(author) /\ B = born /\ other = Step(step.label, Inverted(p))
    OBVIOUS
  <1>3. /\ DocsOK(B, n) /\ HistOK(B, n) /\ WireOK(B, n) /\ seq \in Nat
    BY <1>2 DEF Shape, WireOK
  <1>4. /\ Fits(h, B, n) /\ Stack(h, back) # <<>> /\ other \in StepSet(B, n)
        /\ d \in DocSet(n) /\ Rebuilds(d) /\ \A r \in Records : d[r] # Absent => r \in B
        /\ p \in PatchSet(B, n)
    BY <1>1, <1>2, TakesIs
  <1>5. /\ doc' = d /\ Remembers(c, x, Moved(h, back, other)) /\ Untouched
        /\ Quiet \/ Publish(d, p)
    BY <1>1, <1>2 DEF Takes
  <1>6. HistOK(B, n)'
    BY <1>3, <1>4, <1>5, MovedIs, HistoryWritten
  <1>7. WireOK(B, n)' /\ file' \in {file, d}
    BY <1>3, <1>4, <1>5, PatchPublished
  <1>8. DocsOK(B, n)'
    BY <1>3, <1>4, <1>5, <1>7, DocumentWritten
  <1>. QED  BY <1>2, <1>5, <1>6, <1>7, <1>8, UntouchedShape

LEMMA ClosedIs ==
  ASSUME NEW B, NEW n, NEW h, Fits(h, B, n)
  PROVE  /\ Closed(h) = [undo |-> h.undo, redo |-> h.redo, group |-> h.group,
                         open |-> FALSE, batch |-> NoPatch, used |-> h.used]
         /\ Fits(Closed(h), B, n)
  <1>1. History(h)
    BY FitsIs
  <1>2. Closed(h) = [undo |-> h.undo, redo |-> h.redo, group |-> h.group,
                     open |-> FALSE, batch |-> NoPatch, used |-> h.used]
    BY <1>1, FieldsWritten DEF Closed
  <1>3. Fits([undo |-> h.undo, redo |-> h.redo, group |-> h.group,
              open |-> FALSE, batch |-> NoPatch, used |-> h.used], B, n)
    BY FitsIs, FieldsFit, NoPatchIsPatch
  <1>. QED  BY <1>2, <1>3

\* A commit: what the batch was made of becomes one step of the undo stack.
Committed(h) ==
    [Closed(h) EXCEPT !.redo = <<>>, !.undo = PushUndo(@, Step(NoLabel, Inverted(h.batch)))]

LEMMA CommittedIs ==
  ASSUME NEW B, NEW n, NEW h, Fits(h, B, n)
  PROVE  /\ Committed(h) = [undo |-> PushUndo(h.undo, Step(NoLabel, Inverted(h.batch))),
                            redo |-> <<>>, group |-> h.group,
                            open |-> FALSE, batch |-> NoPatch, used |-> h.used]
         /\ Fits(Committed(h), B, n)
  <1>. DEFINE u == PushUndo(h.undo, Step(NoLabel, Inverted(h.batch)))
              w == [undo |-> u, redo |-> <<>>, group |-> h.group,
                    open |-> FALSE, batch |-> NoPatch, used |-> h.used]
  <1>1. PICK k : k = Closed(h)
    OBVIOUS
  <1>2. /\ k = [undo |-> h.undo, redo |-> h.redo, group |-> h.group,
                open |-> FALSE, batch |-> NoPatch, used |-> h.used]
        /\ History(k)
    <2>1. Fits(k, B, n)
      BY <1>1, ClosedIs
    <2>. QED  BY <1>1, <2>1, ClosedIs, FitsIs
  <1>3. Committed(h) = [k EXCEPT !.redo = <<>>, !.undo = u]
    <2>1. Committed(h) = [k EXCEPT !.redo = <<>>,
                            !.undo = PushUndo(k.undo, Step(NoLabel, Inverted(h.batch)))]
      BY <1>1, <1>2 DEF Committed
    <2>2. k.undo = h.undo
      BY <1>2
    <2>. QED  BY <2>1, <2>2
  <1>4. u \in Seq(StepSet(B, n)) /\ Len(u) <= UndoDepth
    <2>1. h.undo \in Seq(StepSet(B, n)) /\ Len(h.undo) <= UndoDepth /\ h.batch \in PatchSet(B, n)
      BY FitsIs
    <2>2. Step(NoLabel, Inverted(h.batch)) \in StepSet(B, n)
      BY <2>1, InvertedIs, StepIs
    <2>. QED  BY <2>1, <2>2, PushUndoIs
  <1>. HIDE DEF u
  <1>5. Committed(h) = w
    <2>1. Committed(h) = [undo |-> u, redo |-> <<>>, group |-> k.group,
                          open |-> k.open, batch |-> k.batch, used |-> k.used]
      BY <1>2, <1>3, FieldsWritten
    <2>2. k.group = h.group /\ k.open = FALSE /\ k.batch = NoPatch /\ k.used = h.used
      BY <1>2
    <2>. QED  BY <2>1, <2>2
  <1>6. Fits(w, B, n)
    <2>1. Len(u) + Len(<<>>) <= UndoDepth /\ << >> \in Seq(StepSet(B, n))
      BY <1>4
    <2>2. h.group \in Marks \cup {NoLabel} /\ h.used \in Nat
      BY FitsIs
    <2>. QED  BY <1>4, <2>1, <2>2, FieldsFit, NoPatchIsPatch
  <1>7. Fits(Committed(h), B, n)
    BY <1>5, <1>6
  <1>. QED  BY <1>5, <1>7 DEF u

Commits(c, h) ==
    /\ h = Recall(c, {})[c] /\ h.open
    /\ \/ Empty(h.batch) /\ Remembers(c, {}, Closed(h)) /\ Quiet
       \/ ~Empty(h.batch) /\ Remembers(c, {}, Committed(h)) /\ Publish(doc, h.batch)
    /\ Untouched /\ doc' = doc /\ mirror' = mirror

LEMMA CommitIs == ASSUME NEW c, Commit(c) PROVE \E h : Commits(c, h)
  <1>1. Commits(c, Recall(c, {})[c])
    BY DEF Commit, Commits, Committed
  <1>. QED  BY <1>1

LEMMA CommitKeepsShape ==
  ASSUME Shape, NEW c \in Clients, Commit(c)
  PROVE  Shape'
  <1>1. PICK h : Commits(c, h)
    BY CommitIs
  <1>2. PICK n, B : n = Len(author) /\ B = born
    OBVIOUS
  <1>3. /\ DocsOK(B, n) /\ HistOK(B, n) /\ WireOK(B, n) /\ seq \in Nat
    BY <1>2 DEF Shape, WireOK
  <1>4. Fits(h, B, n)
    BY <1>1, <1>2, LookedUp DEF Commits
  <1>5. PICK g : Fits(g, B, n) /\ Remembers(c, {}, g)
    BY <1>1, <1>4, ClosedIs, CommittedIs DEF Commits
  <1>6. HistOK(B, n)'
    BY <1>3, <1>5, HistoryWritten
  <1>7. WireOK(B, n)' /\ file' \in {file, doc}
    <2>1. Publish(doc, h.batch) \/ Quiet
      BY <1>1 DEF Commits
    <2>2. h.batch \in PatchSet(B, n)
      BY <1>4, FitsIs
    <2>. QED  BY <1>3, <2>1, <2>2, PatchPublished
  <1>8. DocsOK(B, n)'
    <2>1. \A r \in Records : doc[r] # Absent => r \in B
      BY <1>3 DEF DocsOK
    <2>2. doc \in DocSet(n) /\ Rebuilds(doc) /\ doc' = doc
      BY <1>1, <1>3 DEF DocsOK, Commits
    <2>. QED  BY <1>3, <1>7, <2>1, <2>2 DEF DocsOK, Rebuilds
  <1>9. Untouched
    BY <1>1 DEF Commits
  <1>. QED  BY <1>2, <1>6, <1>7, <1>8, <1>9, UntouchedShape

Aborts(c, h, d, p) ==
    /\ h = Recall(c, {})[c] /\ d = Aborted(h.batch) /\ p = Diff(doc, d)
    /\ h.open /\ Remembers(c, {}, Closed(h))
    /\ \/ (~Rebuilds(d) \/ Empty(p)) /\ Quiet /\ doc' = doc
       \/ Rebuilds(d) /\ ~Empty(p) /\ doc' = d /\ Publish(d, p)
    /\ Untouched /\ mirror' = mirror

LEMMA AbortIs == ASSUME NEW c, Abort(c) PROVE \E h, d, p : Aborts(c, h, d, p)
  <1>. DEFINE h == Recall(c, {})[c]
              d == Aborted(h.batch)
  <1>1. Aborts(c, h, d, Diff(doc, d))
    BY DEF Abort, Aborts
  <1>. QED  BY <1>1

LEMMA AbortKeepsShape ==
  ASSUME Shape, NEW c \in Clients, Abort(c)
  PROVE  Shape'
  <1>1. PICK h, d, p : Aborts(c, h, d, p)
    BY AbortIs
  <1>2. PICK n, B : n = Len(author) /\ B = born
    OBVIOUS
  <1>3. /\ DocsOK(B, n) /\ HistOK(B, n) /\ WireOK(B, n) /\ seq \in Nat /\ n \in Nat
    BY <1>2 DEF Shape, WireOK
  <1>4. Fits(h, B, n)
    BY <1>1, <1>2, LookedUp DEF Aborts
  <1>5. HistOK(B, n)'
    <2>1. Remembers(c, {}, Closed(h)) /\ Fits(Closed(h), B, n)
      BY <1>1, <1>4, ClosedIs DEF Aborts
    <2>. QED  BY <1>3, <2>1, HistoryWritten
  <1>6. Inverted(h.batch) \in PatchSet(B, n)
    BY <1>4, FitsIs, InvertedIs
  <1>7. /\ d \in DocSet(n) /\ p \in PatchSet(B, n)
        /\ \A r \in Records : d[r] # Absent => r \in B
    <2>1. /\ p = Diff(doc, d)
          /\ d = Apply(doc, Without(Inverted(h.batch), Conflicts(doc, Inverted(h.batch))))
      BY <1>1 DEF Aborts, Aborted
    <2>. QED  BY <1>3, <1>6, <2>1, ResultIs
  <1>8. CASE Quiet /\ doc' = doc
    <2>1. WireOK(B, n)' /\ file' = file
      BY <1>3, <1>8 DEF WireOK, Quiet
    <2>2. DocsOK(B, n)'
      BY <1>3, <1>8, <2>1 DEF DocsOK, Rebuilds
    <2>3. Untouched
      BY <1>1 DEF Aborts
    <2>. QED  BY <1>2, <1>5, <2>1, <2>2, <2>3, UntouchedShape
  <1>9. CASE Rebuilds(d) /\ doc' = d /\ Publish(d, p)
    <2>1. WireOK(B, n)' /\ file' \in {file, d}
      BY <1>3, <1>7, <1>9, PatchPublished
    <2>2. DocsOK(B, n)'
      BY <1>3, <1>7, <1>9, <2>1, DocumentWritten
    <2>3. Untouched
      BY <1>1 DEF Aborts
    <2>. QED  BY <1>2, <1>5, <2>1, <2>2, <2>3, UntouchedShape
  <1>. QED  BY <1>1, <1>8, <1>9 DEF Aborts

LEMMA SendKeepsShape ==
  ASSUME Shape, Send
  PROVE  Shape'
  <1>1. PICK q \in unsent : unsent' = unsent \ {q}
    BY DEF Send
  <1>2. Untouched /\ doc' = doc /\ file' = file /\ seq' = seq /\ known' = known /\ hist' = hist
    BY DEF Send
  <1>3. PICK n, B : n = Len(author) /\ B = born
    OBVIOUS
  <1>4. DocsOK(B, n) /\ HistOK(B, n) /\ WireOK(B, n)
    BY <1>3 DEF Shape
  <1>5. DocsOK(B, n)'
    BY <1>2, <1>4 DEF DocsOK, Rebuilds
  <1>6. HistOK(B, n)' /\ WireOK(B, n)'
    BY <1>1, <1>2, <1>4 DEF HistOK, WireOK
  <1>. QED  BY <1>2, <1>3, <1>5, <1>6, UntouchedShape

LEMMA RestartKeepsShape ==
  ASSUME Shape, Restart
  PROVE  Shape'
  <1>1. /\ doc' = file /\ file' = file /\ seq' = 0 /\ unsent' = {} /\ known' = {}
        /\ hist' = [c \in Clients |-> Fresh]
        /\ born' = born /\ author' = author
    BY DEF Restart
  <1>2. PICK n, B : n = Len(author) /\ B = born
    OBVIOUS
  <1>3. DocsOK(B, n) /\ WireOK(B, n)
    BY <1>2 DEF Shape
  <1>4. DocsOK(B, n)'
    BY <1>1, <1>3 DEF DocsOK, Rebuilds
  <1>5. HistOK(B, n)'
    BY <1>1, FreshFits DEF HistOK
  <1>6. WireOK(B, n)'
    BY <1>1, SceneAssumption DEF WireOK
  <1>7. Len(author') = n /\ born' = B
    BY <1>1, <1>2
  <1>. QED  BY <1>1, <1>4, <1>5, <1>6, <1>7 DEF Shape

LEMMA InitShape == Init => Shape
  <1> SUFFICES ASSUME Init PROVE Shape
    OBVIOUS
  <1>1. /\ author = <<Nobody>> /\ Len(author) = 1 /\ author \in Seq(Clients \cup {Nobody})
    BY DEF Init
  <1>2. 1 \in 1 .. MaxEdits + 1
    BY SceneAssumption
  <1>3. \A r \in Records : doc[r] = IF r \in InitRecords THEN 1 ELSE Absent
    BY DEF Init
  <1>4. doc \in DocSet(1) /\ file = doc
    BY DEF Init, DocSet, Absent
  <1>5. Rebuilds(doc)
    <2> SUFFICES ASSUME NEW r \in Records, doc[r] # Absent, Parent[r] # NoParent
                 PROVE  doc[Parent[r]] # Absent
      BY DEF Rebuilds
    <2>1. r \in InitRecords
      BY <1>3
    <2>2. Parent[r] \in InitRecords /\ Parent[r] \in Records
      BY <2>1, SceneAssumption
    <2>. QED  BY <1>3, <2>2 DEF Absent
  <1>6. DocsOK(born, 1)
    BY <1>3, <1>4, <1>5, SceneAssumption DEF DocsOK, Init
  <1>7. HistOK(born, 1)
    BY FreshFits DEF HistOK, Init
  <1>8. WireOK(born, 1)
    BY SceneAssumption DEF WireOK, Init
  <1>. QED  BY <1>1, <1>2, <1>6, <1>7, <1>8 DEF Shape

LEMMA NextShape ==
  ASSUME Shape, [Next]_vars
  PROVE  Shape'
  <1>1. CASE \E c \in Clients : Edit(c)
    BY <1>1, EditKeepsShape
  <1>2. CASE \E c \in Clients : Mark(c) \/ Refuse(c) \/ Begin(c)
    BY <1>2, MarkKeepsShape, RefuseKeepsShape, BeginKeepsShape
  <1>3. CASE \E c \in Clients, force \in BOOLEAN : Undo(c, force) \/ Redo(c, force)
    BY <1>3, TakeKeepsShape DEF Undo, Redo
  <1>4. CASE \E c \in Clients : Commit(c) \/ Abort(c)
    BY <1>4, CommitKeepsShape, AbortKeepsShape
  <1>5. CASE Send
    BY <1>5, SendKeepsShape
  <1>6. CASE Restart
    BY <1>6, RestartKeepsShape
  <1>7. CASE UNCHANGED vars
    BY <1>7 DEF vars, Shape, DocsOK, HistOK, WireOK, Rebuilds
  <1>. QED  BY <1>1, <1>2, <1>3, <1>4, <1>5, <1>6, <1>7 DEF Next

LEMMA SpecShape == Spec => []Shape
  BY InitShape, NextShape, PTL DEF Spec

LEMMA ShapeIsTypeOK ==
  ASSUME Shape
  PROVE  TypeOK
  <1>1. PICK n, B : n = Len(author) /\ B = born
    OBVIOUS
  <1>2. n \in 1 .. MaxEdits + 1 /\ DocsOK(B, n) /\ HistOK(B, n) /\ WireOK(B, n)
    BY <1>1 DEF Shape
  <1>3. 0 .. n \subseteq Stamps /\ 1 .. n \subseteq Stamps \ {Absent} /\ B \subseteq Records
    BY <1>2, SceneAssumption DEF Stamps, Absent, DocsOK
  <1>4. ASSUME NEW p \in PatchSet(B, n) PROVE PatchOK(p)
    BY <1>3, IsPatch DEF PatchOK, States
  <1>5. doc \in [Records -> Stamps] /\ file \in [Records -> Stamps] /\ Rebuilds(doc) /\ Rebuilds(file)
    BY <1>2, <1>3 DEF DocsOK, DocSet
  <1>6. ASSUME NEW c \in Clients
        PROVE  /\ Len(hist[c].undo) <= UndoDepth /\ Len(hist[c].redo) <= UndoDepth
               /\ \A i \in 1 .. Len(hist[c].undo) : PatchOK(hist[c].undo[i].patch)
               /\ PatchOK(hist[c].batch)
    <2>1. Fits(hist[c], B, n)
      BY <1>2 DEF HistOK
    <2>2. /\ Len(hist[c].undo) <= UndoDepth /\ Len(hist[c].redo) <= UndoDepth
          /\ hist[c].undo \in Seq(StepSet(B, n)) /\ hist[c].batch \in PatchSet(B, n)
      BY <2>1, FitsIs
    <2>3. ASSUME NEW i \in 1 .. Len(hist[c].undo) PROVE PatchOK(hist[c].undo[i].patch)
      <3>1. hist[c].undo[i] \in StepSet(B, n)
        BY <2>2
      <3>2. hist[c].undo[i].patch \in PatchSet(B, n)
        BY <3>1 DEF StepSet
      <3>. QED  BY <1>4, <3>2
    <2>. QED  BY <1>4, <2>2, <2>3
  <1>7. /\ seq \in 0 .. MaxSeq /\ known \subseteq Clients
        /\ \A q \in unsent : q.seq \in 1 .. seq /\ PatchOK(q.patch)
    BY <1>2, <1>4 DEF HistOK, WireOK
  <1>. QED  BY <1>5, <1>6, <1>7 DEF TypeOK

\* The document and the file stay documents that rebuild, the stacks of a client
\* stay within UNDO_DEPTH, the one on the other side of an undo included, and
\* every patch that is on one, in a transaction or on its way is of records that
\* have been given out: with any number of clients, of records and of edits.
THEOREM SceneTypes == Spec => []TypeOK
  BY SpecShape, ShapeIsTypeOK, PTL

-----------------------------------------------------------------------------
(* What an abort puts back.                                                  *)

\* What a batch adds it neither changes nor removes: an id is never given out
\* twice, so what an edit adds is in no patch before it.
Apart(p) ==
    /\ DOMAIN p.added \cap DOMAIN p.updated = {}
    /\ DOMAIN p.added \cap DOMAIN p.removed = {}
BatchesApart == \A c \in Clients : Apart(hist[c].batch)

LEMMA NoPatchApart == Apart(NoPatch)
  BY DEF Apart, NoPatch, None

LEMMA MergeApart ==
  ASSUME NEW p, NEW later, Apart(p),
         \A r \in DOMAIN later.added : r \notin DOMAIN p.updated \cup DOMAIN p.removed
  PROVE  Apart(Merge(p, later))
  <1>. DEFINE m == Merge(p, later)
  <1>1. IsMerge(m, p, later)
    BY MergeIs
  <1>. HIDE DEF m
  <1>2. /\ DOMAIN m.added = Adds(p, later) \ DOMAIN later.removed
        /\ DOMAIN m.updated \subseteq Changes(p, later)
        /\ DOMAIN m.removed = DOMAIN p.removed \cup Drops(p, later)
    BY <1>1 DEF IsMerge
  <1>3. Apart(m)
    BY <1>2 DEF Apart, Adds, Changes, Drops
  <1>. QED  BY <1>3 DEF m

\* Writing the history of one client, and who is forgotten for it.
LEMMA RemembersIs ==
  ASSUME NEW c \in Clients, NEW x, NEW h, Remembers(c, x, h)
  PROVE  /\ hist'[c] = h
         /\ \A y \in Clients : y # c => hist'[y] = IF y \in x THEN Fresh ELSE hist[y]
  <1>1. hist' = [Recall(c, x) EXCEPT ![c] = h]
    BY DEF Remembers
  <1>2. Recall(c, x) = [y \in Clients |-> Recall(c, x)[y]]
    BY DEF Recall
  <1>3. hist'[c] = h /\ \A y \in Clients : y # c => hist'[y] = Recall(c, x)[y]
    BY <1>1, <1>2
  <1>4. \A y \in Clients : y # c => Recall(c, x)[y] = IF y \in x THEN Fresh ELSE hist[y]
    BY DEF Recall
  <1>. QED  BY <1>3, <1>4

\* What an edit reads and writes.
Edits(c, x, h, d, p) ==
    /\ d \in Edited(Len(author) + 1) /\ h = Recall(c, x)[c] /\ p = Diff(doc, d)
    /\ Len(author) < MaxEdits + 1 /\ doc' = d
    /\ Remembers(c, x, Remember(h, p))
    /\ IF h.open THEN Quiet ELSE Publish(d, p)
    /\ Ghosts(c, d) /\ mirror' = mirror

LEMMA EditIs ==
  ASSUME NEW c, Edit(c)
  PROVE  \E x \in Forgotten(c) : \E h, d, p : Edits(c, x, h, d, p)
  <1>1. PICK d \in Edited(Len(author) + 1), x \in Forgotten(c) :
          /\ Len(author) < MaxEdits + 1 /\ doc' = d
          /\ Remembers(c, x, Remember(Recall(c, x)[c], Diff(doc, d)))
          /\ IF Recall(c, x)[c].open THEN Quiet ELSE Publish(d, Diff(doc, d))
          /\ Ghosts(c, d) /\ mirror' = mirror
    BY DEF Edit
  <1>2. Edits(c, x, Recall(c, x)[c], d, Diff(doc, d))
    BY <1>1 DEF Edits
  <1>. QED  BY <1>2

\* Where the document and the histories are before the edit, and what is in the
\* patch of it.
LEMMA EditsIs ==
  ASSUME Shape, NEW c \in Clients, NEW x \in Forgotten(c), NEW h, NEW d, NEW p,
         Edits(c, x, h, d, p), NEW B, B = born, NEW n, n = Len(author), NEW C, C = born'
  PROVE  /\ n \in Nat /\ n + 1 \in Nat /\ DocsOK(B, n) /\ Fits(h, B, n) /\ Alike(h, hist[c])
         /\ d \in DocSet(n + 1) /\ Rebuilds(d) /\ d # doc
         /\ \A r \in Records : d[r] \in {doc[r], n + 1, Absent}
         /\ \A r \in Records : doc[r] = Absent /\ d[r] # Absent => r \notin B
         /\ B \subseteq C /\ C \subseteq Records /\ p \in PatchSet(C, n + 1) /\ Fits(h, C, n + 1)
  <1>1. n \in Nat /\ n + 1 \in Nat /\ n <= n + 1 /\ DocsOK(B, n)
    BY DEF Shape
  <1>2. Fits(h, B, n) /\ Alike(h, hist[c])
    BY OnlyIdleForgotten, LookedUp DEF Edits
  <1>3. d \in Edited(n + 1) /\ DocsOK(born, n)
    BY <1>1 DEF Edits
  <1>4. /\ d \in DocSet(n + 1) /\ Rebuilds(d) /\ d # doc
        /\ \A r \in Records : d[r] \in {doc[r], n + 1, Absent}
        /\ \A r \in Records : doc[r] = Absent /\ d[r] # Absent => r \notin B
    BY <1>1, <1>3, EditedIs
  <1>5. /\ C = B \cup {r \in Records : d[r] # Absent} /\ B \subseteq C /\ C \subseteq Records
    BY <1>1 DEF Edits, Ghosts, DocsOK
  <1>6. DocsOK(C, n + 1) /\ Fits(h, C, n + 1)
    BY <1>1, <1>2, <1>5, ShapeGrows, FitsGrow
  <1>7. p \in PatchSet(C, n + 1)
    <2>1. p = Diff(doc, d) /\ \A r \in Records : d[r] # Absent => r \in C
      BY <1>5 DEF Edits
    <2>. QED  BY <1>1, <1>4, <1>6, <2>1, PatchOfChange
  <1>. QED  BY <1>1, <1>2, <1>4, <1>5, <1>6, <1>7

LEMMA NextApart ==
  ASSUME Shape, BatchesApart, [Next]_vars
  PROVE  BatchesApart'
  <1>1. PICK n, B, C : n = Len(author) /\ B = born /\ C = born'
    OBVIOUS
  <1>2. \A c \in Clients : Apart(hist[c].batch)
    BY DEF BatchesApart
  <1>3. Apart(Fresh.batch)
    BY NoPatchApart DEF Fresh
  <1>4. ASSUME NEW c \in Clients, NEW x, NEW h, Remembers(c, x, h), Apart(h.batch)
        PROVE  BatchesApart'
    <2>1. hist'[c] = h /\ \A y \in Clients : y # c => hist'[y] = Fresh \/ hist'[y] = hist[y]
      BY <1>4, RemembersIs
    <2>. QED  BY <1>2, <1>3, <1>4, <2>1 DEF BatchesApart
  <1>5. ASSUME NEW c \in Clients, NEW x, NEW h, c \notin x, h = Recall(c, x)[c]
        PROVE  Fits(h, B, n) /\ h.batch = hist[c].batch /\ Apart(h.batch)
    <2>1. Fits(h, B, n) /\ Alike(h, hist[c])
      BY <1>1, <1>5, LookedUp
    <2>. QED  BY <1>2, <2>1 DEF Alike
  <1>6. ASSUME NEW c \in Clients, Edit(c) PROVE BatchesApart'
    <2>1. PICK x, h, d, p : x \in Forgotten(c) /\ Edits(c, x, h, d, p)
      BY <1>6, EditIs
    <2>2. /\ DocsOK(B, n) /\ Fits(h, B, n) /\ Alike(h, hist[c])
          /\ \A r \in Records : doc[r] = Absent /\ d[r] # Absent => r \notin B
          /\ p \in PatchSet(C, n + 1) /\ Fits(h, C, n + 1)
      BY <1>1, <2>1, EditsIs
    <2>3. Apart(h.batch)
      BY <1>2, <2>2 DEF Alike
    <2>4. \A r \in DOMAIN p.added : r \notin DOMAIN h.batch.updated \cup DOMAIN h.batch.removed
      <3>1. p = Diff(doc, d)
        BY <2>1 DEF Edits
      <3>2. \A r \in DOMAIN p.added : r \in Records /\ doc[r] = Absent /\ d[r] # Absent
        <4> SUFFICES ASSUME NEW r \in DOMAIN p.added PROVE r \in Records /\ doc[r] = Absent /\ d[r] # Absent
          OBVIOUS
        <4>1. IsDiff(p, doc, d)
          BY <3>1, DiffAt
        <4>. QED  BY <4>1 DEF IsDiff
      <3>3. h.batch \in PatchSet(B, n)
        BY <2>2, FitsIs
      <3>4. DOMAIN h.batch.updated \subseteq B /\ DOMAIN h.batch.removed \subseteq B
        BY <3>3, IsPatch
      <3>. QED  BY <2>2, <3>2, <3>4
    <2>5. Remember(h, p).batch \in {h.batch, Merge(h.batch, p)}
      BY <2>2, RememberIs
    <2>6. Apart(Remember(h, p).batch)
      BY <2>3, <2>4, <2>5, MergeApart
    <2>. QED  BY <1>4, <2>1, <2>6 DEF Edits
  <1>7. ASSUME NEW c \in Clients, Mark(c) PROVE BatchesApart'
    <2>1. PICK label \in Marks \cup {NoLabel}, x \in Forgotten(c) :
            Remembers(c, x, [Recall(c, x)[c] EXCEPT !.group = label])
      BY <1>7 DEF Mark
    <2>2. PICK h : h = Recall(c, x)[c]
      OBVIOUS
    <2>3. Fits(h, B, n) /\ Apart(h.batch)
      BY <1>5, <2>2, OnlyIdleForgotten
    <2>4. [h EXCEPT !.group = label].batch = h.batch
      BY <2>3, FitsIs DEF History
    <2>. QED  BY <1>4, <2>1, <2>2, <2>3, <2>4
  <1>8. ASSUME NEW c \in Clients, Refuse(c) PROVE BatchesApart'
    <2>1. PICK x \in Forgotten(c) : Remembers(c, x, Recall(c, x)[c])
      BY <1>8 DEF Refuse
    <2>. QED  BY <1>4, <1>5, <2>1, OnlyIdleForgotten
  <1>9. ASSUME NEW c \in Clients, NEW back \in BOOLEAN, NEW force, Take(c, back, force)
        PROVE  BatchesApart'
    <2>1. PICK x, h, step, d, p : x \in Forgotten(c) /\ Takes(c, back, force, x, h, step, d, p)
      BY <1>9, TakeIs
    <2>2. PICK other : other = Step(step.label, Inverted(p))
      OBVIOUS
    <2>3. Fits(h, B, n) /\ Stack(h, back) # <<>> /\ other \in StepSet(B, n) /\ Alike(h, hist[c])
      BY <1>1, <2>1, <2>2, TakesIs
    <2>4. Moved(h, back, other).batch = h.batch
      BY <2>3, MovedIs
    <2>5. Apart(h.batch)
      BY <1>2, <2>3 DEF Alike
    <2>. QED  BY <1>4, <2>1, <2>2, <2>4, <2>5 DEF Takes
  <1>10. ASSUME NEW c \in Clients, Begin(c) PROVE BatchesApart'
    <2>1. PICK x \in Forgotten(c) :
            Remembers(c, x, [Recall(c, x)[c] EXCEPT !.open = TRUE, !.batch = NoPatch])
      BY <1>10 DEF Begin
    <2>2. PICK h : h = Recall(c, x)[c]
      OBVIOUS
    <2>3. History(h)
      BY <1>5, <2>2, OnlyIdleForgotten, FitsIs
    <2>4. [h EXCEPT !.open = TRUE, !.batch = NoPatch] =
            [undo |-> h.undo, redo |-> h.redo, group |-> h.group,
             open |-> TRUE, batch |-> NoPatch, used |-> h.used]
      BY <2>3, FieldsWritten
    <2>5. Remembers(c, x, [undo |-> h.undo, redo |-> h.redo, group |-> h.group,
                           open |-> TRUE, batch |-> NoPatch, used |-> h.used])
      BY <2>1, <2>2, <2>4
    <2>. QED  BY <1>4, <2>5, NoPatchApart
  <1>11. ASSUME NEW c \in Clients, Commit(c) \/ Abort(c) PROVE BatchesApart'
    <2>1. PICK h : Fits(h, B, n) /\ (Remembers(c, {}, Closed(h)) \/ Remembers(c, {}, Committed(h)))
      <3>1. Commit(c) => \E h : h = Recall(c, {})[c] /\ (Remembers(c, {}, Closed(h)) \/ Remembers(c, {}, Committed(h)))
        BY CommitIs DEF Commits
      <3>2. Abort(c) => \E h : h = Recall(c, {})[c] /\ Remembers(c, {}, Closed(h))
        BY AbortIs DEF Aborts
      <3>. QED  BY <1>5, <1>11, <3>1, <3>2
    <2>2. Closed(h).batch = NoPatch /\ Committed(h).batch = NoPatch
      <3>1. Closed(h) = [undo |-> h.undo, redo |-> h.redo, group |-> h.group,
                         open |-> FALSE, batch |-> NoPatch, used |-> h.used]
        BY <2>1, ClosedIs
      <3>2. Committed(h) = [undo |-> PushUndo(h.undo, Step(NoLabel, Inverted(h.batch))),
                            redo |-> <<>>, group |-> h.group,
                            open |-> FALSE, batch |-> NoPatch, used |-> h.used]
        BY <2>1, CommittedIs
      <3>. QED  BY <3>1, <3>2
    <2>. QED  BY <1>4, <2>1, <2>2, NoPatchApart
  <1>12. CASE Send \/ UNCHANGED vars
    BY <1>12 DEF Send, vars, BatchesApart
  <1>13. CASE Restart
    BY <1>3, <1>13 DEF Restart, BatchesApart
  <1>. QED  BY <1>6, <1>7, <1>8, <1>9, <1>10, <1>11, <1>12, <1>13 DEF Next, Undo, Redo

LEMMA InitApart == Init => BatchesApart
  BY NoPatchApart DEF Init, BatchesApart, Fresh

\* A patch with nothing in it is of a change that changed nothing.
LEMMA EmptyDiff ==
  ASSUME NEW n, NEW was \in DocSet(n), NEW is \in DocSet(n), Empty(Diff(was, is))
  PROVE  is = was
  <1>1. ASSUME NEW r \in Records, was[r] # is[r] PROVE FALSE
    <2>1. /\ DOMAIN Diff(was, is).added = {} /\ DOMAIN Diff(was, is).updated = {}
          /\ DOMAIN Diff(was, is).removed = {}
      BY DEF Empty, NoPatch, None
    <2>2. \/ r \in DOMAIN Diff(was, is).added \/ r \in DOMAIN Diff(was, is).removed
          \/ r \in DOMAIN Diff(was, is).updated
      BY <1>1, DiffAt DEF IsDiff
    <2>. QED  BY <2>1, <2>2
  <1>. QED  BY <1>1 DEF DocSet

\* What a patch says of one record that went from state a to state b.
Tells(p, r, a, b) ==
    /\ r \in DOMAIN p.added <=> a # b /\ a = Absent
    /\ r \in DOMAIN p.removed <=> a # b /\ b = Absent
    /\ r \in DOMAIN p.updated <=> a # b /\ a # Absent /\ b # Absent
    /\ r \in DOMAIN p.added => p.added[r] = b
    /\ r \in DOMAIN p.removed => p.removed[r] = a
    /\ r \in DOMAIN p.updated => p.updated[r].before = a /\ p.updated[r].after = b

LEMMA DiffTells == ASSUME NEW was, NEW is, NEW r \in Records PROVE Tells(Diff(was, is), r, was[r], is[r])
  <1>1. PICK p : p = Diff(was, is)
    OBVIOUS
  <1>2. IsDiff(p, was, is)
    BY <1>1, DiffAt
  <1>. QED  BY <1>1, <1>2 DEF IsDiff, Tells

LEMMA MergeTells ==
  ASSUME NEW p, NEW later, NEW r, NEW a, NEW b, NEW d, Tells(p, r, a, b), Tells(later, r, b, d),
         a = Absent \/ b # Absent \/ d = Absent
  PROVE  Tells(Merge(p, later), r, a, d)
  <1>1. PICK m : m = Merge(p, later)
    OBVIOUS
  <1>2. IsMerge(m, p, later)
    BY <1>1, MergeIs
  <1>3. /\ r \in DOMAIN m.added <=> r \in Adds(p, later) \ DOMAIN later.removed
        /\ r \in DOMAIN m.added => m.added[r] = Raised(p, later, r)
        /\ r \in DOMAIN m.updated <=> /\ r \in Changes(p, later) \ Drops(p, later)
                                      /\ Changed(p, later, r).before # Changed(p, later, r).after
        /\ r \in DOMAIN m.updated => m.updated[r] = Changed(p, later, r)
        /\ r \in DOMAIN m.removed <=> r \in DOMAIN p.removed \cup Drops(p, later)
        /\ r \in DOMAIN m.removed =>
             m.removed[r] = IF r \in DOMAIN p.removed THEN p.removed[r]
                            ELSE IF r \in Changes(p, later) THEN Changed(p, later, r).before
                            ELSE later.removed[r]
    BY <1>2 DEF IsMerge
  <1>4. r \in Changes(p, later) => /\ Changed(p, later, r).before = a
                                   /\ Changed(p, later, r).after = IF r \in DOMAIN later.updated THEN d ELSE b
    BY DEF Tells, Changes, Adds, Changed
  <1>5. r \in Adds(p, later) /\ r \notin DOMAIN later.removed => Raised(p, later, r) = d
    BY DEF Tells, Adds, Raised
  <1>. QED  BY <1>1, <1>3, <1>4, <1>5 DEF Tells, Changes, Drops, Adds

\* Of a record nobody else has touched since, a batch tells what became of it
\* since the transaction began; what the batch adds was not there then; and what
\* it leaves a record as is its client's own.
Tracks(p, s, d, B, n, a, c) ==
    /\ s.doc \in DocSet(n) /\ Rebuilds(s.doc) /\ \A r \in Records : s.doc[r] # Absent => r \in B
    /\ \A r \in Records \ s.theirs : Tells(p, r, s.doc[r], d[r])
    /\ \A r \in DOMAIN p.added : s.doc[r] = Absent /\ a[p.added[r]] = c
    /\ \A r \in DOMAIN p.updated : a[p.updated[r].after] = c
Tracked ==
    \A c \in Clients :
      hist[c].open => Tracks(hist[c].batch, since[c], doc, born, Len(author), author, c)

\* It stays so while others go on.
LEMMA TracksOn ==
  ASSUME NEW B, NEW C, B \subseteq C, NEW n \in Nat, NEW m \in Nat, n <= m, NEW p \in PatchSet(B, n),
         NEW s, NEW t, t.doc = s.doc, s.theirs \subseteq t.theirs,
         NEW d, NEW e, \A r \in Records \ t.theirs : e[r] = d[r],
         NEW a, NEW b, \A k \in 1 .. n : b[k] = a[k], NEW c, Tracks(p, s, d, B, n, a, c)
  PROVE  Tracks(p, t, e, C, m, b, c)
  <1>1. /\ DocSet(n) \subseteq DocSet(m)
        /\ \A r \in DOMAIN p.added : p.added[r] \in 1 .. n
        /\ \A r \in DOMAIN p.updated : p.updated[r].after \in 1 .. n
    BY StatesGrow, IsPatch
  <1>2. t.doc \in DocSet(m) /\ Rebuilds(t.doc) /\ \A r \in Records : t.doc[r] # Absent => r \in C
    BY <1>1 DEF Tracks
  <1>3. \A r \in Records \ t.theirs : Tells(p, r, t.doc[r], e[r])
    BY DEF Tracks
  <1>4. /\ \A r \in DOMAIN p.added : t.doc[r] = Absent /\ b[p.added[r]] = c
        /\ \A r \in DOMAIN p.updated : b[p.updated[r].after] = c
    BY <1>1 DEF Tracks
  <1>. QED  BY <1>2, <1>3, <1>4 DEF Tracks

\* What each transaction sees of a step of c.
LEMMA WitnessIs ==
  ASSUME NEW c, Witness(c), NEW y \in Clients, hist'[y].open
  PROVE  /\ ~hist[y].open => since'[y] = [doc |-> doc, theirs |-> {}]
         /\ hist[y].open /\ y = c => since'[y] = since[y]
         /\ hist[y].open /\ y # c =>
              since'[y] = [doc |-> since[y].doc,
                           theirs |-> since[y].theirs \cup {r \in Records : doc'[r] # doc[r]}]
  BY DEF Witness

\* A step that writes one client's history leaves the others' batches true.
LEMMA OwnStepTracked ==
  ASSUME Shape, Tracked, NEW c \in Clients, NEW x, NEW h, Remembers(c, x, h), Witness(c),
         born \subseteq born', Len(author') \in Nat, Len(author) <= Len(author'),
         \A k \in 1 .. Len(author) : author'[k] = author[k],
         h.open => Tracks(h.batch, since'[c], doc', born', Len(author'), author', c)
  PROVE  Tracked'
  <1>1. hist'[c] = h /\ \A y \in Clients : y # c => hist'[y] = Fresh \/ hist'[y] = hist[y]
    BY RemembersIs
  <1>2. ~Fresh.open
    BY DEF Fresh
  <1>3. PICK n, B : n = Len(author) /\ B = born
    OBVIOUS
  <1>4. ASSUME NEW y \in Clients, y # c, hist'[y].open
        PROVE  Tracks(hist'[y].batch, since'[y], doc', born', Len(author'), author', y)
    <2>1. hist'[y] = hist[y] /\ hist[y].open
      BY <1>1, <1>2, <1>4
    <2>2. since'[y] = [doc |-> since[y].doc,
                       theirs |-> since[y].theirs \cup {r \in Records : doc'[r] # doc[r]}]
      BY <1>4, <2>1, WitnessIs
    <2>3. /\ since'[y].doc = since[y].doc /\ since[y].theirs \subseteq since'[y].theirs
          /\ \A r \in Records \ since'[y].theirs : doc'[r] = doc[r]
      BY <2>2
    <2>4. n \in Nat /\ hist[y].batch \in PatchSet(B, n)
      <3>1. Fits(hist[y], B, n) /\ n \in Nat
        BY <1>3 DEF Shape, HistOK
      <3>. QED  BY <3>1, FitsIs
    <2>5. Tracks(hist[y].batch, since[y], doc, B, n, author, y)
      BY <1>3, <2>1 DEF Tracked
    <2>. QED  BY <1>3, <2>1, <2>3, <2>4, <2>5, TracksOn
  <1>5. \A y \in Clients : hist'[y].open =>
          Tracks(hist'[y].batch, since'[y], doc', born', Len(author'), author', y)
    BY <1>1, <1>4
  <1>. QED  BY <1>5 DEF Tracked

\* An edit inside a transaction joins its batch.
LEMMA EditTracked ==
  ASSUME Shape, Tracked, NEW c \in Clients, Edit(c), Witness(c)
  PROVE  Tracked'
  <1>1. PICK x, h, d, p : x \in Forgotten(c) /\ Edits(c, x, h, d, p)
    BY EditIs
  <1>2. PICK n, B, C : n = Len(author) /\ B = born /\ C = born'
    OBVIOUS
  <1>3. /\ n \in Nat /\ n + 1 \in Nat /\ Fits(h, B, n) /\ Alike(h, hist[c])
        /\ \A r \in Records : d[r] \in {doc[r], n + 1, Absent}
        /\ \A r \in Records : doc[r] = Absent /\ d[r] # Absent => r \notin B
        /\ B \subseteq C /\ p \in PatchSet(C, n + 1) /\ Fits(h, C, n + 1)
    BY <1>1, <1>2, EditsIs
  <1>4. /\ p = Diff(doc, d) /\ doc' = d /\ Remembers(c, x, Remember(h, p))
        /\ author' = Append(author, c)
    BY <1>1 DEF Edits, Ghosts
  <1>5. /\ Len(author') = n + 1 /\ author'[n + 1] = c
        /\ \A k \in 1 .. n : author'[k] = author[k]
    BY <1>2, <1>4 DEF Shape
  <1>6. ASSUME Remember(h, p).open
        PROVE  Tracks(Remember(h, p).batch, since'[c], doc', C, n + 1, author', c)
    <2>1. h.open /\ Remember(h, p).batch = Merge(h.batch, p)
      BY <1>3, <1>6, RememberIs
    <2>2. PICK q, s, m : q = h.batch /\ s = since[c] /\ m = Merge(q, p)
      OBVIOUS
    <2>3. hist[c].open /\ q = hist[c].batch
      BY <1>3, <2>1, <2>2 DEF Alike
    <2>4. Tracks(q, s, doc, B, n, author, c)
      BY <1>2, <2>2, <2>3 DEF Tracked
    <2>5. since'[c] = s
      <3>1. hist'[c] = Remember(h, p)
        BY <1>4, RemembersIs
      <3>. QED  BY <1>6, <2>2, <2>3, <3>1, WitnessIs
    <2>6. IsDiff(p, doc, d)
      BY <1>4, DiffAt
    <2>7. /\ \A r \in DOMAIN p.added : r \in Records /\ r \notin B /\ p.added[r] = n + 1
          /\ \A r \in DOMAIN p.updated : p.updated[r].after = n + 1
      BY <1>3, <2>6 DEF IsDiff, Absent
    <2>8. q \in PatchSet(B, n)
      BY <1>3, <2>2, FitsIs
    <2>9. /\ DOMAIN q.removed \subseteq B
          /\ \A r \in DOMAIN q.added : q.added[r] \in 1 .. n
          /\ \A r \in DOMAIN q.updated : q.updated[r].after \in 1 .. n
      BY <2>8, IsPatch
    <2>10. ASSUME NEW r \in Records \ s.theirs PROVE Tells(m, r, s.doc[r], d[r])
      <3>1. Tells(q, r, s.doc[r], doc[r]) /\ Tells(p, r, doc[r], d[r])
        BY <1>4, <2>4, DiffTells DEF Tracks
      <3>2. s.doc[r] = Absent \/ doc[r] # Absent \/ d[r] = Absent
        BY <1>3, <2>4 DEF Tracks
      <3>. QED  BY <2>2, <3>1, <3>2, MergeTells
    <2>11. IsMerge(m, q, p)
      BY <2>2, MergeIs
    <2>12. ASSUME NEW r \in DOMAIN m.added PROVE s.doc[r] = Absent /\ author'[m.added[r]] = c
      <3>1. r \in DOMAIN q.added \cup DOMAIN p.added /\ m.added[r] = Raised(q, p, r)
        BY <2>11, <2>12 DEF IsMerge, Adds
      <3>2. s.doc[r] = Absent
        BY <2>4, <2>7, <3>1 DEF Tracks
      <3>3. r \in DOMAIN q.added => author[q.added[r]] = c
        BY <2>4 DEF Tracks
      <3>. QED  BY <1>5, <2>7, <2>9, <3>1, <3>2, <3>3 DEF Raised
    <2>13. ASSUME NEW r \in DOMAIN m.updated PROVE author'[m.updated[r].after] = c
      <3>1. r \in DOMAIN q.updated \cup DOMAIN p.updated /\ m.updated[r] = Changed(q, p, r)
        BY <2>11, <2>13 DEF IsMerge, Changes
      <3>2. \/ m.updated[r].after = n + 1
            \/ r \in DOMAIN q.updated /\ m.updated[r].after = q.updated[r].after
        BY <2>7, <3>1 DEF Changed
      <3>3. r \in DOMAIN q.updated => author[q.updated[r].after] = c
        BY <2>4 DEF Tracks
      <3>. QED  BY <1>5, <2>9, <3>2, <3>3
    <2>14. s.doc \in DocSet(n + 1) /\ Rebuilds(s.doc) /\ \A r \in Records : s.doc[r] # Absent => r \in C
      <3>1. DocSet(n) \subseteq DocSet(n + 1)
        BY <1>3, StatesGrow
      <3>. QED  BY <1>3, <2>4, <3>1 DEF Tracks
    <2>15. Tracks(m, s, d, C, n + 1, author', c)
      BY <2>10, <2>12, <2>13, <2>14 DEF Tracks
    <2>. QED  BY <1>4, <2>1, <2>2, <2>5, <2>15
  <1>. QED  BY <1>2, <1>3, <1>4, <1>5, <1>6, OwnStepTracked

\* The steps that leave the document to an open transaction as it is.
LEMMA QuietTracked ==
  ASSUME Shape, Tracked, NEW c \in Clients, Mark(c) \/ Refuse(c) \/ Begin(c), Witness(c)
  PROVE  Tracked'
  <1>1. Untouched /\ doc' = doc
    BY DEF Mark, Refuse, Begin
  <1>2. PICK n, B : n = Len(author) /\ B = born /\ n \in Nat /\ DocsOK(B, n)
    BY DEF Shape
  <1>3. born' = B /\ author' = author
    BY <1>1, <1>2 DEF Untouched
  <1>4. ASSUME NEW x, c \notin x, NEW h, h = Recall(c, x)[c]
        PROVE  Fits(h, B, n) /\ Alike(h, hist[c]) /\ History(h)
    BY <1>2, <1>4, LookedUp, FitsIs
  <1>5. ASSUME NEW x, NEW h, Remembers(c, x, h),
               h.open => Tracks(h.batch, since'[c], doc, B, n, author, c)
        PROVE  Tracked'
    BY <1>1, <1>2, <1>3, <1>5, OwnStepTracked
  <1>6. ASSUME NEW x, NEW h, Remembers(c, x, h), h.open = hist[c].open, h.batch = hist[c].batch
        PROVE  Tracked'
    <2>1. hist'[c] = h
      BY <1>6, RemembersIs
    <2>2. h.open => since'[c] = since[c]
      BY <1>6, <2>1, WitnessIs
    <2>3. h.open => Tracks(h.batch, since'[c], doc, B, n, author, c)
      BY <1>2, <1>6, <2>2 DEF Tracked
    <2>. QED  BY <1>5, <1>6, <2>3
  <1>7. CASE Mark(c)
    <2>1. PICK label \in Marks \cup {NoLabel}, x \in Forgotten(c) :
            Remembers(c, x, [Recall(c, x)[c] EXCEPT !.group = label])
      BY <1>7 DEF Mark
    <2>2. PICK h : h = Recall(c, x)[c]
      OBVIOUS
    <2>3. Alike(h, hist[c]) /\ History(h)
      BY <1>4, <2>2, OnlyIdleForgotten
    <2>4. [h EXCEPT !.group = label].batch = h.batch /\ [h EXCEPT !.group = label].open = h.open
      BY <2>3 DEF History
    <2>. QED  BY <1>6, <2>1, <2>2, <2>3, <2>4 DEF Alike
  <1>8. CASE Refuse(c)
    <2>1. PICK x \in Forgotten(c) : Remembers(c, x, Recall(c, x)[c])
      BY <1>8 DEF Refuse
    <2>. QED  BY <1>4, <1>6, <2>1, OnlyIdleForgotten DEF Alike
  <1>9. CASE Begin(c)
    <2>1. PICK x \in Forgotten(c) :
            /\ ~Recall(c, x)[c].open
            /\ Remembers(c, x, [Recall(c, x)[c] EXCEPT !.open = TRUE, !.batch = NoPatch])
      BY <1>9 DEF Begin
    <2>2. PICK h : h = Recall(c, x)[c]
      OBVIOUS
    <2>3. Alike(h, hist[c]) /\ History(h)
      BY <1>4, <2>2, OnlyIdleForgotten
    <2>4. [h EXCEPT !.open = TRUE, !.batch = NoPatch] =
            [undo |-> h.undo, redo |-> h.redo, group |-> h.group,
             open |-> TRUE, batch |-> NoPatch, used |-> h.used]
      BY <2>3, FieldsWritten
    <2>5. PICK g : g = [undo |-> h.undo, redo |-> h.redo, group |-> h.group,
                        open |-> TRUE, batch |-> NoPatch, used |-> h.used]
      OBVIOUS
    <2>6. Remembers(c, x, g) /\ g.open /\ g.batch = NoPatch /\ ~hist[c].open
      BY <2>1, <2>2, <2>3, <2>4, <2>5 DEF Alike
    <2>7. since'[c] = [doc |-> doc, theirs |-> {}]
      <3>1. hist'[c] = g
        BY <2>6, RemembersIs
      <3>. QED  BY <2>6, <3>1, WitnessIs
    <2>8. Tracks(NoPatch, [doc |-> doc, theirs |-> {}], doc, B, n, author, c)
      BY <1>2 DEF Tracks, Tells, NoPatch, None, DocsOK
    <2>. QED  BY <1>5, <2>6, <2>7, <2>8
  <1>. QED  BY <1>7, <1>8, <1>9

\* An undo, a redo, a commit and an abort leave their own client's closed.
LEMMA ClosedTracked ==
  ASSUME Shape, Tracked, NEW c \in Clients, Witness(c),
         \/ Commit(c) \/ Abort(c)
         \/ \E back \in BOOLEAN, force \in BOOLEAN : Take(c, back, force)
  PROVE  Tracked'
  <1>1. PICK n, B : n = Len(author) /\ B = born /\ n \in Nat
    BY DEF Shape
  <1>2. ASSUME NEW x, NEW h, Remembers(c, x, h), ~h.open, Untouched
        PROVE  Tracked'
    <2>1. born' = born /\ author' = author
      BY <1>2 DEF Untouched
    <2>. QED  BY <1>1, <1>2, <2>1, OwnStepTracked
  <1>3. CASE Commit(c)
    <2>1. PICK h : Commits(c, h)
      BY <1>3, CommitIs
    <2>2. Fits(h, B, n)
      BY <1>1, <2>1, LookedUp DEF Commits
    <2>3. ~Closed(h).open /\ ~Committed(h).open
      <3>1. Closed(h) = [undo |-> h.undo, redo |-> h.redo, group |-> h.group,
                         open |-> FALSE, batch |-> NoPatch, used |-> h.used]
        BY <2>2, ClosedIs
      <3>2. Committed(h) = [undo |-> PushUndo(h.undo, Step(NoLabel, Inverted(h.batch))),
                            redo |-> <<>>, group |-> h.group,
                            open |-> FALSE, batch |-> NoPatch, used |-> h.used]
        BY <2>2, CommittedIs
      <3>. QED  BY <3>1, <3>2
    <2>. QED  BY <1>2, <2>1, <2>3 DEF Commits
  <1>4. CASE Abort(c)
    <2>1. PICK h, d, p : Aborts(c, h, d, p)
      BY <1>4, AbortIs
    <2>2. Fits(h, B, n)
      BY <1>1, <2>1, LookedUp DEF Aborts
    <2>3. Closed(h) = [undo |-> h.undo, redo |-> h.redo, group |-> h.group,
                       open |-> FALSE, batch |-> NoPatch, used |-> h.used]
      BY <2>2, ClosedIs
    <2>. QED  BY <1>2, <2>1, <2>3 DEF Aborts
  <1>5. ASSUME NEW back \in BOOLEAN, NEW force \in BOOLEAN, Take(c, back, force)
        PROVE  Tracked'
    <2>1. PICK x, h, step, d, p : x \in Forgotten(c) /\ Takes(c, back, force, x, h, step, d, p)
      BY <1>5, TakeIs
    <2>2. PICK other : other = Step(step.label, Inverted(p))
      OBVIOUS
    <2>3. Fits(h, B, n) /\ Stack(h, back) # <<>> /\ other \in StepSet(B, n)
      BY <1>1, <2>1, <2>2, TakesIs
    <2>4. Moved(h, back, other).open = h.open
      BY <2>3, MovedIs
    <2>5. ~h.open
      BY <2>1 DEF Takes, Refused
    <2>. QED  BY <1>2, <2>1, <2>2, <2>4, <2>5 DEF Takes
  <1>. QED  BY <1>3, <1>4, <1>5

LEMMA NextTracked ==
  ASSUME Shape, Tracked, [Next]_vars
  PROVE  Tracked'
  <1>1. ASSUME NEW c \in Clients, Edit(c), Witness(c) PROVE Tracked'
    BY <1>1, EditTracked
  <1>2. ASSUME NEW c \in Clients, Mark(c) \/ Refuse(c) \/ Begin(c), Witness(c) PROVE Tracked'
    BY <1>2, QuietTracked
  <1>3. ASSUME NEW c \in Clients, NEW force \in BOOLEAN, Undo(c, force) \/ Redo(c, force), Witness(c)
        PROVE  Tracked'
    BY <1>3, ClosedTracked DEF Undo, Redo
  <1>4. ASSUME NEW c \in Clients, Commit(c) \/ Abort(c), Witness(c) PROVE Tracked'
    BY <1>4, ClosedTracked
  <1>5. CASE (Send /\ UNCHANGED since) \/ UNCHANGED vars
    <2>1. hist' = hist /\ since' = since /\ doc' = doc /\ born' = born /\ author' = author
      BY <1>5 DEF Send, Untouched, vars
    <2>. QED  BY <2>1 DEF Tracked, Tracks, Tells, Rebuilds
  <1>6. CASE Restart
    <2>1. \A c \in Clients : ~hist'[c].open
      BY <1>6 DEF Restart, Fresh
    <2>. QED  BY <2>1 DEF Tracked
  <1>. QED  BY <1>1, <1>2, <1>3, <1>4, <1>5, <1>6 DEF Next

LEMMA InitTracked == Init => Tracked
  BY DEF Init, Tracked, Fresh

\* What an abort makes of the document, record by record.
LEMMA AbortedIs ==
  ASSUME NEW B, NEW n \in Nat, DocsOK(B, n), NEW p \in PatchSet(B, n), Apart(p), NEW r \in Records
  PROVE  /\ r \in DOMAIN p.updated /\ doc[r] = p.updated[r].after => Aborted(p)[r] = p.updated[r].before
         /\ r \in DOMAIN p.added /\ doc[r] = p.added[r] => Aborted(p)[r] = Absent
         /\ /\ doc[r] # Absent
            /\ ~(r \in DOMAIN p.updated /\ doc[r] = p.updated[r].after)
            /\ ~(r \in DOMAIN p.added /\ doc[r] = p.added[r])
            => Aborted(p)[r] = doc[r]
         /\ /\ r \in DOMAIN p.removed \ DOMAIN p.updated /\ doc[r] = Absent
            /\ Parent[r] \in DOMAIN p.removed \cup {NoParent} \/ doc[Parent[r]] # Absent
            => Aborted(p)[r] = p.removed[r]
         /\ doc[r] = Absent /\ Aborted(p)[r] # Absent =>
              /\ r \in DOMAIN p.removed
              /\ Parent[r] \in DOMAIN p.removed \cup {NoParent} \/ doc[Parent[r]] # Absent
  <1>1. PICK i, rs, w : i = Inverted(p) /\ rs = Conflicts(doc, i) /\ w = Without(i, rs)
    OBVIOUS
  <1>2. /\ doc \in DocSet(n) /\ B \subseteq Records /\ Rebuilds(doc)
    BY DEF DocsOK
  <1>3. /\ i \in PatchSet(B, n) /\ i.added = p.removed /\ i.removed = p.added
        /\ DOMAIN i.updated = DOMAIN p.updated
        /\ \A q \in DOMAIN p.updated : /\ i.updated[q].before = p.updated[q].after
                                       /\ i.updated[q].after = p.updated[q].before
    BY <1>1, InvertedIs
  <1>4. /\ w \in PatchSet(B, n)
        /\ DOMAIN w.added = DOMAIN i.added \ rs /\ DOMAIN w.updated = DOMAIN i.updated \ rs
        /\ DOMAIN w.removed = DOMAIN i.removed \ rs
        /\ \A q \in DOMAIN i.updated \ rs : w.updated[q] = i.updated[q]
        /\ \A q \in DOMAIN i.added \ rs : w.added[q] = i.added[q]
    BY <1>1, <1>3, WithoutIs
  <1>5. /\ Aborted(p) = Apply(doc, w)
    BY <1>1 DEF Aborted
  <1>6. LET kept == IF r \in DOMAIN w.removed THEN Absent ELSE doc[r]
            now  == IF r \in DOMAIN w.updated THEN w.updated[r].after ELSE kept
        IN  Aborted(p)[r] = IF r \in DOMAIN w.added /\ now = Absent THEN w.added[r] ELSE now
    BY <1>2, <1>4, <1>5, ApplyIs
  <1>7. /\ r \in DOMAIN p.added => p.added[r] # Absent /\ r \notin DOMAIN p.updated /\ r \notin DOMAIN p.removed
        /\ r \in DOMAIN p.removed => p.removed[r] # Absent
        /\ r \in DOMAIN p.updated => /\ p.updated[r].before # Absent /\ p.updated[r].after # Absent
                                     /\ r \notin DOMAIN p.added
    BY IsPatch DEF Absent, Apart
  <1>8. r \in rs <=> \/ r \in DOMAIN p.updated /\ doc[r] # p.updated[r].after
                     \/ r \in DOMAIN p.updated /\ doc[r] = Absent
                     \/ r \in DOMAIN p.added /\ doc[r] # Absent /\ doc[r] # p.added[r]
                     \/ /\ r \in DOMAIN p.removed /\ Parent[r] # NoParent
                        /\ doc[Parent[r]] = Absent /\ Parent[r] \notin DOMAIN p.removed
    BY <1>1, <1>3 DEF Conflicts, Gone
  <1>9. doc[r] # Absent /\ Parent[r] # NoParent => doc[Parent[r]] # Absent
    BY <1>2 DEF Rebuilds
  <1>10. ASSUME r \in DOMAIN p.updated, doc[r] = p.updated[r].after
         PROVE  Aborted(p)[r] = p.updated[r].before
    <2>1. r \notin rs
      BY <1>7, <1>8, <1>9, <1>10
    <2>2. r \in DOMAIN w.updated /\ w.updated[r].after = p.updated[r].before
      BY <1>3, <1>4, <1>10, <2>1
    <2>. QED  BY <1>6, <1>7, <1>10, <2>2
  <1>11. ASSUME r \in DOMAIN p.added, doc[r] = p.added[r]
         PROVE  Aborted(p)[r] = Absent
    <2>1. r \notin rs
      BY <1>7, <1>8, <1>9, <1>11
    <2>2. r \in DOMAIN w.removed /\ r \notin DOMAIN w.updated /\ r \notin DOMAIN w.added
      BY <1>3, <1>4, <1>7, <1>11, <2>1
    <2>. QED  BY <1>6, <2>2
  <1>12. ASSUME doc[r] # Absent, ~(r \in DOMAIN p.updated /\ doc[r] = p.updated[r].after),
                ~(r \in DOMAIN p.added /\ doc[r] = p.added[r])
         PROVE  Aborted(p)[r] = doc[r]
    <2>1. r \notin DOMAIN w.updated /\ r \notin DOMAIN w.removed
      BY <1>3, <1>4, <1>8, <1>12
    <2>. QED  BY <1>6, <1>12, <2>1
  <1>13. ASSUME r \in DOMAIN p.removed \ DOMAIN p.updated, doc[r] = Absent,
                Parent[r] \in DOMAIN p.removed \cup {NoParent} \/ doc[Parent[r]] # Absent
         PROVE  Aborted(p)[r] = p.removed[r]
    <2>1. r \notin rs
      BY <1>7, <1>8, <1>13
    <2>2. r \in DOMAIN w.added /\ w.added[r] = p.removed[r] /\ r \notin DOMAIN w.updated
      BY <1>3, <1>4, <1>13, <2>1
    <2>. QED  BY <1>6, <1>13, <2>2
  <1>14. ASSUME doc[r] = Absent, Aborted(p)[r] # Absent
         PROVE  /\ r \in DOMAIN p.removed
                /\ Parent[r] \in DOMAIN p.removed \cup {NoParent} \/ doc[Parent[r]] # Absent
    <2>1. r \notin DOMAIN w.updated
      BY <1>3, <1>4, <1>8, <1>14
    <2>2. r \in DOMAIN i.added \ rs
      BY <1>4, <1>6, <1>14, <2>1
    <2>. QED  BY <1>3, <1>8, <2>2
  <1>. QED  BY <1>10, <1>11, <1>12, <1>13, <1>14

\* What one client's batch and the document are before its abort.
Aborting(c, B, n, p, s) ==
    /\ n \in Nat /\ DocsOK(B, n) /\ p = hist[c].batch /\ s = since[c]
    /\ p \in PatchSet(B, n) /\ Apart(p) /\ Tracks(p, s, doc, B, n, author, c)

\* An abort that nothing blocks makes a document that rebuilds.
LEMMA UnblockedRebuilds ==
  ASSUME NEW c, NEW B, NEW n, NEW p, NEW s, Aborting(c, B, n, p, s), ~Blocked(c)
  PROVE  Rebuilds(Aborted(p))
  <1>1. PICK d : d = Aborted(p)
    OBVIOUS
  <1>2. /\ n \in Nat /\ DocsOK(B, n) /\ p \in PatchSet(B, n) /\ Apart(p)
        /\ p = hist[c].batch /\ s = since[c]
    BY DEF Aborting
  <1>3. /\ Rebuilds(s.doc) /\ \A q \in Records \ s.theirs : Tells(p, q, s.doc[q], doc[q])
        /\ \A q \in DOMAIN p.added : s.doc[q] = Absent
    BY DEF Aborting, Tracks
  <1>4. /\ DOMAIN p.added \subseteq Records /\ DOMAIN p.removed \subseteq Records
        /\ \A q \in DOMAIN p.removed : p.removed[q] # Absent
        /\ \A q \in DOMAIN p.updated : p.updated[q].before # Absent
    BY <1>2, IsPatch DEF Absent, DocsOK
  <1>5. SUFFICES ASSUME NEW r \in Records, d[r] # Absent, Parent[r] # NoParent, d[Parent[r]] = Absent
                 PROVE  FALSE
    BY <1>1 DEF Rebuilds
  <1>6. PICK g \in Records : g = Parent[r]
    BY <1>5, SceneAssumption
  <1>7. doc[g] # Absent => g \in DOMAIN p.added
    BY <1>1, <1>2, <1>4, <1>5, <1>6, AbortedIs
  <1>8. g \in DOMAIN p.added => r \notin s.theirs /\ s.doc[r] = Absent
    BY <1>2, <1>3, <1>5, <1>6 DEF Blocked, Rebuilds
  <1>9. doc[r] = Absent
    <2> SUFFICES ASSUME doc[r] # Absent PROVE FALSE
      OBVIOUS
    <2>1. doc[g] # Absent
      BY <1>2, <1>5, <1>6 DEF DocsOK, Rebuilds
    <2>2. Tells(p, r, Absent, doc[r])
      BY <1>3, <1>7, <1>8, <2>1
    <2>3. r \in DOMAIN p.added /\ doc[r] = p.added[r]
      BY <2>2 DEF Tells
    <2>. QED  BY <1>1, <1>2, <1>5, <2>3, AbortedIs
  <1>10. r \in DOMAIN p.removed /\ (g \in DOMAIN p.removed \/ doc[g] # Absent)
    BY <1>1, <1>2, <1>5, <1>6, <1>9, AbortedIs
  <1>11. g \notin DOMAIN p.added
    <2> SUFFICES ASSUME g \in DOMAIN p.added PROVE FALSE
      OBVIOUS
    <2>1. Tells(p, r, Absent, Absent)
      BY <1>3, <1>8, <1>9
    <2>. QED  BY <1>10, <2>1 DEF Tells
  <1>12. doc[g] = Absent /\ g \in DOMAIN p.removed
    BY <1>7, <1>10, <1>11
  <1>13. g \notin Homeless(c)
    BY <1>2, <1>6, <1>10 DEF Blocked
  <1>14. /\ g \notin DOMAIN p.updated
         /\ Parent[g] \in DOMAIN p.removed \cup {NoParent} \/ doc[Parent[g]] # Absent
    BY <1>2, <1>12, <1>13 DEF Homeless
  <1>15. d[g] = p.removed[g]
    BY <1>1, <1>2, <1>12, <1>14, AbortedIs
  <1>. QED  BY <1>4, <1>5, <1>6, <1>12, <1>15

LEMMA AbortTakesBack ==
  ASSUME Shape, BatchesApart, Tracked, NEW c \in Clients, Abort(c), NEW r \in Records
  PROVE  /\ doc[r] # Absent /\ author[doc[r]] # c => doc'[r] = doc[r]
         /\ ~Blocked(c) /\ r \notin since[c].theirs \cup Homeless(c)
              => doc'[r] = since[c].doc[r]
  <1>1. PICK h, e, k : Aborts(c, h, e, k)
    BY AbortIs
  <1>2. PICK n, B, p, s, d : /\ n = Len(author) /\ B = born /\ p = hist[c].batch /\ s = since[c]
                             /\ d = Aborted(p)
    OBVIOUS
  <1>3. DocsOK(B, n) /\ n \in Nat
    BY <1>2 DEF Shape
  <1>4. Fits(h, B, n) /\ h.batch = p /\ hist[c].open
    <2>1. Fits(h, B, n) /\ Alike(h, hist[c]) /\ h.open
      BY <1>1, <1>2, LookedUp DEF Aborts
    <2>. QED  BY <1>2, <2>1 DEF Alike
  <1>5. Aborting(c, B, n, p, s)
    <2>1. p \in PatchSet(B, n)
      BY <1>4, FitsIs
    <2>2. Apart(p)
      BY <1>2 DEF BatchesApart
    <2>3. Tracks(p, s, doc, B, n, author, c)
      BY <1>2, <1>4 DEF Tracked
    <2>. QED  BY <1>2, <1>3, <2>1, <2>2, <2>3 DEF Aborting
  <1>6. p \in PatchSet(B, n) /\ Apart(p) /\ Tracks(p, s, doc, B, n, author, c)
    BY <1>5 DEF Aborting
  <1>7. /\ d \in DocSet(n) /\ doc \in DocSet(n)
    <2>1. d = Apply(doc, Without(Inverted(p), Conflicts(doc, Inverted(p))))
      BY <1>2 DEF Aborted
    <2>2. Inverted(p) \in PatchSet(B, n)
      BY <1>6, InvertedIs
    <2>. QED  BY <1>3, <2>1, <2>2, ResultIs DEF DocsOK
  <1>8. doc' = d \/ (doc' = doc /\ ~Rebuilds(d))
    <2>1. e = d /\ k = Diff(doc, d)
      BY <1>1, <1>2, <1>4 DEF Aborts
    <2>2. doc' = e \/ (doc' = doc /\ (~Rebuilds(e) \/ Empty(k)))
      BY <1>1 DEF Aborts
    <2>3. Empty(k) => d = doc
      BY <1>7, <2>1, EmptyDiff
    <2>. QED  BY <2>1, <2>2, <2>3
  <1>9. ASSUME doc[r] # Absent, author[doc[r]] # c PROVE doc'[r] = doc[r]
    <2>1. /\ ~(r \in DOMAIN p.updated /\ doc[r] = p.updated[r].after)
          /\ ~(r \in DOMAIN p.added /\ doc[r] = p.added[r])
      BY <1>6, <1>9 DEF Tracks
    <2>2. d[r] = doc[r]
      BY <1>2, <1>3, <1>6, <1>9, <2>1, AbortedIs
    <2>. QED  BY <1>8, <2>2
  <1>10. ASSUME ~Blocked(c), r \notin s.theirs, r \notin Homeless(c) PROVE doc'[r] = s.doc[r]
    <2>1. doc' = d
      BY <1>2, <1>5, <1>8, <1>10, UnblockedRebuilds
    <2>2. Tells(p, r, s.doc[r], doc[r])
      BY <1>6, <1>10 DEF Tracks
    <2>3. r \in DOMAIN p.removed =>
            /\ r \notin DOMAIN p.updated
            /\ Parent[r] \in DOMAIN p.removed \cup {NoParent} \/ doc[Parent[r]] # Absent
      BY <1>2, <1>10 DEF Homeless
    <2>4. CASE s.doc[r] = doc[r]
      <3>1. r \notin DOMAIN p.added /\ r \notin DOMAIN p.updated /\ r \notin DOMAIN p.removed
        BY <2>2, <2>4 DEF Tells
      <3>2. d[r] = doc[r]
        BY <1>2, <1>3, <1>6, <3>1, AbortedIs
      <3>. QED  BY <2>1, <2>4, <3>2
    <2>5. CASE s.doc[r] # doc[r] /\ doc[r] = Absent
      <3>1. r \in DOMAIN p.removed /\ p.removed[r] = s.doc[r]
        BY <2>2, <2>5 DEF Tells
      <3>2. d[r] = p.removed[r]
        BY <1>2, <1>3, <1>6, <2>3, <2>5, <3>1, AbortedIs
      <3>. QED  BY <2>1, <3>1, <3>2
    <2>6. CASE s.doc[r] # doc[r] /\ s.doc[r] = Absent
      <3>1. r \in DOMAIN p.added /\ doc[r] = p.added[r]
        BY <2>2, <2>6 DEF Tells
      <3>2. d[r] = Absent
        BY <1>2, <1>3, <1>6, <3>1, AbortedIs
      <3>. QED  BY <2>1, <2>6, <3>2
    <2>7. CASE s.doc[r] # doc[r] /\ doc[r] # Absent /\ s.doc[r] # Absent
      <3>1. r \in DOMAIN p.updated /\ doc[r] = p.updated[r].after /\ s.doc[r] = p.updated[r].before
        BY <2>2, <2>7 DEF Tells
      <3>2. d[r] = p.updated[r].before
        BY <1>2, <1>3, <1>6, <3>1, AbortedIs
      <3>. QED  BY <2>1, <3>1, <3>2
    <2>. QED  BY <2>4, <2>5, <2>6, <2>7
  <1>. QED  BY <1>2, <1>9, <1>10

\* An abort that nothing blocks does not fail, and puts back every record of its
\* transaction that nobody else has touched since it began; any abort leaves alone
\* what somebody else changed last: with any number of clients, of records however
\* they hang together, and of edits.
THEOREM AbortsPutBack == Spec => AbortPutsBack
  <1>1. Shape /\ BatchesApart /\ Tracked /\ [Next]_vars => BatchesApart' /\ Tracked'
    BY NextApart, NextTracked
  <1>2. Shape /\ BatchesApart /\ Tracked /\ [Next]_vars =>
          [\A c \in Clients : Abort(c) =>
             \A r \in Records :
               /\ doc[r] # Absent /\ author[doc[r]] # c => doc'[r] = doc[r]
               /\ ~Blocked(c) /\ r \notin since[c].theirs \cup Homeless(c)
                    => doc'[r] = since[c].doc[r]]_vars
    BY AbortTakesBack
  <1>. QED  BY <1>1, <1>2, InitApart, InitTracked, SpecShape, PTL DEF Spec, AbortPutsBack

-----------------------------------------------------------------------------
(* What the file holds while one client edits alone.                         *)

\* A patch taken back gives the document it was made from.
LEMMA DiffTakenBack ==
  ASSUME NEW n \in Nat, NEW was \in DocSet(n), NEW is \in DocSet(n)
  PROVE  Apply(is, Inverted(Diff(was, is))) = was
  <1>1. PICK p, i, z : p = Diff(was, is) /\ i = Inverted(p) /\ z = Apply(is, i)
    OBVIOUS
  <1>2. p \in PatchSet(Records, n)
    BY <1>1, DiffIsPatch
  <1>3. /\ i \in PatchSet(Records, n) /\ i.added = p.removed /\ i.removed = p.added
        /\ DOMAIN i.updated = DOMAIN p.updated
        /\ \A r \in DOMAIN p.updated : /\ i.updated[r].before = p.updated[r].after
                                       /\ i.updated[r].after = p.updated[r].before
    BY <1>1, <1>2, InvertedIs
  <1>4. /\ z \in DocSet(n)
        /\ \A r \in Records :
             LET kept == IF r \in DOMAIN i.removed THEN Absent ELSE is[r]
                 now  == IF r \in DOMAIN i.updated THEN i.updated[r].after ELSE kept
             IN  z[r] = IF r \in DOMAIN i.added /\ now = Absent THEN i.added[r] ELSE now
    BY <1>1, <1>3, ApplyIs
  <1>5. ASSUME NEW r \in Records PROVE z[r] = was[r]
    <2>1. IsDiff(p, was, is)
      BY <1>1, DiffAt
    <2>2. /\ r \in DOMAIN p.added <=> was[r] # is[r] /\ was[r] = Absent
          /\ r \in DOMAIN p.removed <=> was[r] # is[r] /\ is[r] = Absent
          /\ r \in DOMAIN p.updated <=> was[r] # is[r] /\ was[r] # Absent /\ is[r] # Absent
          /\ r \in DOMAIN p.removed => p.removed[r] = was[r]
          /\ r \in DOMAIN p.updated => p.updated[r].before = was[r]
      BY <2>1 DEF IsDiff
    <2>. QED  BY <1>3, <1>4, <2>2
  <1>6. was \in [Records -> 0 .. n] /\ z \in [Records -> 0 .. n]
    BY <1>4 DEF DocSet
  <1>. QED  BY <1>1, <1>5, <1>6

\* A change after a change, of which the later adds nothing the first removed,
\* is one change.
LEMMA DiffsMerge ==
  ASSUME NEW n \in Nat, NEW a \in DocSet(n), NEW b \in DocSet(n), NEW d \in DocSet(n),
         \A r \in Records : b[r] = Absent /\ d[r] # Absent => a[r] = Absent
  PROVE  Merge(Diff(a, b), Diff(b, d)) = Diff(a, d)
  <1>1. PICK p, q, m, w : p = Diff(a, b) /\ q = Diff(b, d) /\ m = Merge(p, q) /\ w = Diff(a, d)
    OBVIOUS
  <1>2. IsMerge(m, p, q)
    BY <1>1, MergeIs
  <1>3. IsDiff(p, a, b) /\ IsDiff(q, b, d) /\ IsDiff(w, a, d)
    BY <1>1, DiffAt
  <1>4. /\ \A r \in Records :
             /\ r \in DOMAIN p.added <=> a[r] # b[r] /\ a[r] = Absent
             /\ r \in DOMAIN p.removed <=> a[r] # b[r] /\ b[r] = Absent
             /\ r \in DOMAIN p.updated <=> a[r] # b[r] /\ a[r] # Absent /\ b[r] # Absent
        /\ \A r \in Records :
             /\ r \in DOMAIN q.added <=> b[r] # d[r] /\ b[r] = Absent
             /\ r \in DOMAIN q.removed <=> b[r] # d[r] /\ d[r] = Absent
             /\ r \in DOMAIN q.updated <=> b[r] # d[r] /\ b[r] # Absent /\ d[r] # Absent
    BY <1>3 DEF IsDiff
  <1>5. \A r \in Records :
          /\ r \in DOMAIN w.added <=> a[r] # d[r] /\ a[r] = Absent
          /\ r \in DOMAIN w.removed <=> a[r] # d[r] /\ d[r] = Absent
          /\ r \in DOMAIN w.updated <=> a[r] # d[r] /\ a[r] # Absent /\ d[r] # Absent
    BY <1>3 DEF IsDiff
  <1>6. /\ p \in PatchSet(Records, n) /\ q \in PatchSet(Records, n) /\ w \in PatchSet(Records, n)
        /\ m \in PatchSet(Records, n)
    <2>1. Diff(a, b) \in PatchSet(Records, n)
      BY DiffIsPatch
    <2>2. Diff(b, d) \in PatchSet(Records, n)
      BY DiffIsPatch
    <2>3. Diff(a, d) \in PatchSet(Records, n)
      BY DiffIsPatch
    <2>. QED  BY <1>1, <2>1, <2>2, <2>3, MergeIsPatch
  <1>7. /\ DOMAIN p.added \subseteq Records /\ DOMAIN p.updated \subseteq Records /\ DOMAIN p.removed \subseteq Records
        /\ DOMAIN q.added \subseteq Records /\ DOMAIN q.updated \subseteq Records /\ DOMAIN q.removed \subseteq Records
        /\ DOMAIN w.added \subseteq Records /\ DOMAIN w.updated \subseteq Records /\ DOMAIN w.removed \subseteq Records
        /\ DOMAIN m.added \subseteq Records /\ DOMAIN m.updated \subseteq Records /\ DOMAIN m.removed \subseteq Records
    BY <1>6, IsPatch
  <1>8. /\ \A r \in DOMAIN p.added : p.added[r] = b[r]
        /\ \A r \in DOMAIN p.removed : p.removed[r] = a[r]
        /\ \A r \in DOMAIN p.updated : /\ p.updated[r] = [before |-> a[r], after |-> b[r]]
                                       /\ p.updated[r].before = a[r] /\ p.updated[r].after = b[r]
        /\ \A r \in DOMAIN q.added : q.added[r] = d[r]
        /\ \A r \in DOMAIN q.removed : q.removed[r] = b[r]
        /\ \A r \in DOMAIN q.updated : /\ q.updated[r] = [before |-> b[r], after |-> d[r]]
                                       /\ q.updated[r].before = b[r] /\ q.updated[r].after = d[r]
        /\ \A r \in DOMAIN w.added : w.added[r] = d[r]
        /\ \A r \in DOMAIN w.removed : w.removed[r] = a[r]
        /\ \A r \in DOMAIN w.updated : w.updated[r] = [before |-> a[r], after |-> d[r]]
    BY <1>3 DEF IsDiff
  <1>9. ASSUME NEW r \in Records
        PROVE  /\ r \in Adds(p, q) <=> \/ a[r] = Absent /\ b[r] # Absent
                                       \/ b[r] = Absent /\ d[r] # Absent
               /\ r \in Drops(p, q) <=> a[r] # Absent /\ b[r] # Absent /\ d[r] = Absent
               /\ r \in Changes(p, q) <=> /\ a[r] # Absent /\ b[r] # Absent
                                          /\ a[r] # b[r] \/ (b[r] # d[r] /\ d[r] # Absent)
    <2>1. r \in Adds(p, q) <=> \/ a[r] = Absent /\ b[r] # Absent
                               \/ b[r] = Absent /\ d[r] # Absent
      BY <1>4 DEF Adds
    <2>2. r \in Drops(p, q) <=> a[r] # Absent /\ b[r] # Absent /\ d[r] = Absent
      BY <1>4, <2>1 DEF Drops
    <2>3. r \in Changes(p, q) <=> /\ a[r] # Absent /\ b[r] # Absent
                                  /\ a[r] # b[r] \/ (b[r] # d[r] /\ d[r] # Absent)
      BY <1>4, <2>1 DEF Changes
    <2>. QED  BY <2>1, <2>2, <2>3
  <1>10. ASSUME NEW r \in Records
         PROVE  /\ r \in DOMAIN m.added <=> r \in DOMAIN w.added
                /\ r \in DOMAIN m.added => m.added[r] = w.added[r]
    <2>1. r \in DOMAIN m.added <=> r \in Adds(p, q) /\ r \notin DOMAIN q.removed
      BY <1>2 DEF IsMerge
    <2>2. r \in DOMAIN m.added <=> r \in DOMAIN w.added
      BY <1>4, <1>5, <1>9, <2>1
    <2>3. r \in DOMAIN m.added => m.added[r] = Raised(p, q, r)
      BY <1>2 DEF IsMerge
    <2>4. r \in DOMAIN m.added => Raised(p, q, r) = d[r]
      <3>1. CASE r \in DOMAIN q.updated
        BY <1>8, <3>1 DEF Raised
      <3>2. CASE r \notin DOMAIN q.updated /\ r \in DOMAIN p.added /\ r \notin DOMAIN q.removed
        <4>1. b[r] = d[r]
          BY <1>4, <3>2
        <4>2. Raised(p, q, r) = p.added[r]
          BY <3>2 DEF Raised
        <4>. QED  BY <1>8, <3>2, <4>1, <4>2
      <3>3. CASE r \notin DOMAIN q.updated /\ r \notin DOMAIN p.added /\ r \in DOMAIN q.added
        BY <1>8, <3>3 DEF Raised
      <3>. QED  BY <2>1, <3>1, <3>2, <3>3 DEF Adds
    <2>. QED  BY <1>8, <2>2, <2>3, <2>4
  <1>11. ASSUME NEW r \in Records, r \in Changes(p, q)
         PROVE  Changed(p, q, r) = [before |-> a[r], after |-> IF d[r] = Absent THEN b[r] ELSE d[r]]
    <2>1. a[r] # Absent /\ b[r] # Absent /\ r \notin Adds(p, q)
      BY <1>9, <1>11
    <2>2. CASE r \in DOMAIN p.updated /\ r \in DOMAIN q.updated
      <3>1. Changed(p, q, r) = [before |-> p.updated[r].before, after |-> q.updated[r].after]
        BY <2>1, <2>2 DEF Changed, Adds
      <3>2. d[r] # Absent
        BY <1>4, <2>2
      <3>. QED  BY <1>8, <2>2, <3>1, <3>2
    <2>3. CASE r \in DOMAIN p.updated /\ r \notin DOMAIN q.updated
      <3>1. Changed(p, q, r) = p.updated[r]
        BY <2>3 DEF Changed
      <3>2. d[r] = Absent \/ d[r] = b[r]
        BY <1>4, <2>1, <2>3
      <3>3. p.updated[r] = [before |-> a[r], after |-> b[r]]
        BY <1>8, <2>3
      <3>. QED  BY <3>1, <3>2, <3>3
    <2>4. CASE r \notin DOMAIN p.updated
      <3>1. Changed(p, q, r) = q.updated[r] /\ r \in DOMAIN q.updated
        BY <1>11, <2>4 DEF Changed, Changes
      <3>2. a[r] = b[r] /\ d[r] # Absent
        BY <1>4, <2>1, <2>4, <3>1
      <3>3. q.updated[r] = [before |-> b[r], after |-> d[r]]
        BY <1>8, <3>1
      <3>. QED  BY <3>1, <3>2, <3>3
    <2>. QED  BY <2>2, <2>3, <2>4
  <1>12. ASSUME NEW r \in Records
         PROVE  /\ r \in DOMAIN m.updated <=> r \in DOMAIN w.updated
                /\ r \in DOMAIN m.updated => m.updated[r] = w.updated[r]
    <2>1. /\ r \in DOMAIN m.updated <=> /\ r \in Changes(p, q) /\ r \notin Drops(p, q)
                                        /\ Changed(p, q, r).before # Changed(p, q, r).after
          /\ r \in DOMAIN m.updated => m.updated[r] = Changed(p, q, r)
      BY <1>2 DEF IsMerge
    <2>2. r \in Changes(p, q) /\ r \notin Drops(p, q) =>
            /\ Changed(p, q, r) = [before |-> a[r], after |-> d[r]]
            /\ Changed(p, q, r).before = a[r] /\ Changed(p, q, r).after = d[r]
      BY <1>9, <1>11
    <2>. QED  BY <1>5, <1>8, <1>9, <2>1, <2>2
  <1>13. ASSUME NEW r \in Records
         PROVE  /\ r \in DOMAIN m.removed <=> r \in DOMAIN w.removed
                /\ r \in DOMAIN m.removed => m.removed[r] = w.removed[r]
    <2>1. /\ r \in DOMAIN m.removed <=> r \in DOMAIN p.removed \/ r \in Drops(p, q)
          /\ r \in DOMAIN m.removed =>
               m.removed[r] = IF r \in DOMAIN p.removed THEN p.removed[r]
                              ELSE IF r \in Changes(p, q) THEN Changed(p, q, r).before
                              ELSE q.removed[r]
      BY <1>2 DEF IsMerge
    <2>2. r \in Changes(p, q) => Changed(p, q, r).before = a[r]
      BY <1>11
    <2>3. r \in DOMAIN m.removed => m.removed[r] = a[r]
      <3>1. CASE r \in DOMAIN p.removed
        BY <1>8, <2>1, <3>1
      <3>2. CASE r \in Changes(p, q) /\ r \notin DOMAIN p.removed
        BY <2>1, <2>2, <3>2
      <3>3. CASE r \notin Changes(p, q) /\ r \in Drops(p, q) /\ r \notin DOMAIN p.removed
        <4>1. a[r] = b[r] /\ r \in DOMAIN q.removed
          BY <1>9, <3>3 DEF Drops
        <4>. QED  BY <1>8, <2>1, <3>3, <4>1
      <3>. QED  BY <2>1, <3>1, <3>2, <3>3
    <2>4. r \in DOMAIN m.removed <=> r \in DOMAIN w.removed
      BY <1>4, <1>5, <1>9, <2>1
    <2>. QED  BY <1>8, <2>3, <2>4
  <1>14. m.added = w.added
    <2>1. /\ m.added = [r \in DOMAIN m.added |-> m.added[r]] /\ w.added = [r \in DOMAIN w.added |-> w.added[r]]
      BY <1>6, IsPatch, IsStates
    <2>2. DOMAIN m.added = DOMAIN w.added /\ \A r \in DOMAIN w.added : m.added[r] = w.added[r]
      BY <1>7, <1>10
    <2>. QED  BY <2>1, <2>2
  <1>15. m.updated = w.updated
    <2>1. /\ m.updated = [r \in DOMAIN m.updated |-> m.updated[r]]
          /\ w.updated = [r \in DOMAIN w.updated |-> w.updated[r]]
      BY <1>6, IsPatch, IsChanges
    <2>2. DOMAIN m.updated = DOMAIN w.updated /\ \A r \in DOMAIN w.updated : m.updated[r] = w.updated[r]
      BY <1>7, <1>12
    <2>. QED  BY <2>1, <2>2
  <1>16. m.removed = w.removed
    <2>1. /\ m.removed = [r \in DOMAIN m.removed |-> m.removed[r]]
          /\ w.removed = [r \in DOMAIN w.removed |-> w.removed[r]]
      BY <1>6, IsPatch, IsStates
    <2>2. DOMAIN m.removed = DOMAIN w.removed /\ \A r \in DOMAIN w.removed : m.removed[r] = w.removed[r]
      BY <1>7, <1>13
    <2>. QED  BY <2>1, <2>2
  <1>17. m = [added |-> m.added, updated |-> m.updated, removed |-> m.removed]
         /\ w = [added |-> w.added, updated |-> w.updated, removed |-> w.removed]
    BY <1>6 DEF PatchSet
  <1>18. m = w
    BY <1>14, <1>15, <1>16, <1>17
  <1>. QED  BY <1>1, <1>18

\* One client and nobody else.
Alone == \A c, y \in Clients : c = y

\* While the client has no transaction open the file is the document; with one
\* open, the batch is what leads from the file to the document.
HeldApart(h, f, d) == IF h.open THEN h.batch = Diff(f, d) ELSE h.batch = NoPatch /\ f = d
FileApart == \A c \in Clients : HeldApart(hist[c], file, doc)

LEMMA ApartWritten ==
  ASSUME Alone, NEW c \in Clients, NEW x, NEW h, Remembers(c, x, h),
         HeldApart(h, file', doc')
  PROVE  FileApart'
  <1>1. hist'[c] = h
    BY RemembersIs
  <1>. QED  BY <1>1 DEF FileApart, Alone

LEMMA LookedUpApart ==
  ASSUME Shape, FileApart, NEW c \in Clients, NEW x, c \notin x, NEW h, h = Recall(c, x)[c],
         NEW n, n = Len(author), NEW B, B = born
  PROVE  /\ Fits(h, B, n) /\ HeldApart(h, file, doc) /\ History(h)
         /\ DocsOK(B, n) /\ n \in Nat /\ file \in DocSet(n) /\ doc \in DocSet(n)
  <1>1. Fits(h, B, n) /\ Alike(h, hist[c])
    BY LookedUp
  <1>2. DocsOK(B, n) /\ n \in Nat
    BY DEF Shape
  <1>. QED  BY <1>1, <1>2, FitsIs DEF FileApart, HeldApart, Alike, DocsOK

LEMMA EditKeepsApart ==
  ASSUME Shape, FileApart, Alone, NEW c \in Clients, Edit(c)
  PROVE  FileApart'
  <1>1. PICK x, h, d, p : x \in Forgotten(c) /\ Edits(c, x, h, d, p)
    BY EditIs
  <1>2. PICK n, B, C : n = Len(author) /\ B = born /\ C = born'
    OBVIOUS
  <1>3. /\ d \in DocSet(n + 1) /\ p \in PatchSet(C, n + 1) /\ Fits(h, C, n + 1)
        /\ \A r \in Records : doc[r] = Absent /\ d[r] # Absent => r \notin B
    BY <1>1, <1>2, EditsIs
  <1>4. h = Recall(c, x)[c] /\ p = Diff(doc, d) /\ doc' = d /\ Remembers(c, x, Remember(h, p))
    BY <1>1 DEF Edits
  <1>5. HeldApart(h, file, doc) /\ DocsOK(B, n) /\ n \in Nat /\ file \in DocSet(n) /\ doc \in DocSet(n)
    BY <1>1, <1>2, <1>4, OnlyIdleForgotten, LookedUpApart
  <1>6. CASE h.open
    <2>1. file' = file
      BY <1>1, <1>6 DEF Edits, Quiet
    <2>2. Remember(h, p).open /\ Remember(h, p).batch = Merge(Diff(file, doc), Diff(doc, d))
      BY <1>3, <1>4, <1>5, <1>6, RememberIs DEF HeldApart
    <2>3. Merge(Diff(file, doc), Diff(doc, d)) = Diff(file, d)
      <3>1. n + 1 \in Nat /\ n <= n + 1
        BY <1>5
      <3>2. file \in DocSet(n + 1) /\ doc \in DocSet(n + 1)
        BY <1>5, <3>1, StatesGrow
      <3>3. \A r \in Records : doc[r] = Absent /\ d[r] # Absent => file[r] = Absent
        BY <1>3, <1>5 DEF DocsOK
      <3>. QED  BY <1>3, <3>1, <3>2, <3>3, DiffsMerge
    <2>4. HeldApart(Remember(h, p), file', doc')
      BY <1>4, <2>1, <2>2, <2>3 DEF HeldApart
    <2>. QED  BY <1>4, <2>4, ApartWritten
  <1>7. CASE ~h.open
    <2>1. file' = d
      BY <1>1, <1>7 DEF Edits, Publish
    <2>2. ~Remember(h, p).open /\ Remember(h, p).batch = NoPatch
      BY <1>3, <1>5, <1>7, RememberIs DEF HeldApart
    <2>3. HeldApart(Remember(h, p), file', doc')
      BY <1>4, <2>1, <2>2 DEF HeldApart
    <2>. QED  BY <1>4, <2>3, ApartWritten
  <1>. QED  BY <1>6, <1>7

LEMMA QuietKeepsApart ==
  ASSUME Shape, FileApart, Alone, NEW c \in Clients,
         Mark(c) \/ Refuse(c) \/ Begin(c)
  PROVE  FileApart'
  <1>1. CASE Mark(c)
    <2>1. PICK label \in Marks \cup {NoLabel}, x \in Forgotten(c) :
            Remembers(c, x, [Recall(c, x)[c] EXCEPT !.group = label])
      BY <1>1 DEF Mark
    <2>2. file' = file /\ doc' = doc
      BY <1>1 DEF Mark, Quiet
    <2>3. PICK h : h = Recall(c, x)[c]
      OBVIOUS
    <2>4. HeldApart(h, file, doc) /\ History(h)
      BY <2>3, OnlyIdleForgotten, LookedUpApart
    <2>5. [h EXCEPT !.group = label].open = h.open /\ [h EXCEPT !.group = label].batch = h.batch
      BY <2>4 DEF History
    <2>6. HeldApart([h EXCEPT !.group = label], file', doc')
      BY <2>2, <2>4, <2>5 DEF HeldApart
    <2>. QED  BY <2>1, <2>3, <2>6, ApartWritten
  <1>2. CASE Refuse(c)
    <2>1. PICK x \in Forgotten(c) : Remembers(c, x, Recall(c, x)[c])
      BY <1>2 DEF Refuse
    <2>2. file' = file /\ doc' = doc
      BY <1>2 DEF Refuse, Quiet
    <2>3. HeldApart(Recall(c, x)[c], file', doc')
      BY <2>2, OnlyIdleForgotten, LookedUpApart
    <2>. QED  BY <2>1, <2>3, ApartWritten
  <1>3. CASE Begin(c)
    <2>1. PICK x \in Forgotten(c) :
            /\ ~Recall(c, x)[c].open
            /\ Remembers(c, x, [Recall(c, x)[c] EXCEPT !.open = TRUE, !.batch = NoPatch])
      BY <1>3 DEF Begin
    <2>2. file' = file /\ doc' = doc
      BY <1>3 DEF Begin, Quiet
    <2>3. PICK h : h = Recall(c, x)[c]
      OBVIOUS
    <2>4. HeldApart(h, file, doc) /\ History(h) /\ ~h.open
      BY <2>1, <2>3, OnlyIdleForgotten, LookedUpApart
    <2>5. PICK g : g = [undo |-> h.undo, redo |-> h.redo, group |-> h.group,
                        open |-> TRUE, batch |-> NoPatch, used |-> h.used]
      OBVIOUS
    <2>6. Remembers(c, x, g)
      <3>1. Remembers(c, x, [h EXCEPT !.open = TRUE, !.batch = NoPatch])
        BY <2>1, <2>3
      <3>2. [h EXCEPT !.open = TRUE, !.batch = NoPatch] = g
        BY <2>4, <2>5, FieldsWritten
      <3>. QED  BY <3>1, <3>2
    <2>7. Diff(doc, doc) = NoPatch
      <3>1. IsDiff(Diff(doc, doc), doc, doc)
        BY DiffAt
      <3>2. /\ DOMAIN Diff(doc, doc).added = {} /\ DOMAIN Diff(doc, doc).updated = {}
            /\ DOMAIN Diff(doc, doc).removed = {}
        BY <3>1 DEF IsDiff
      <3>3. /\ Diff(doc, doc) = [added |-> Diff(doc, doc).added, updated |-> Diff(doc, doc).updated,
                                 removed |-> Diff(doc, doc).removed]
            /\ Diff(doc, doc).added = [r \in DOMAIN Diff(doc, doc).added |-> Diff(doc, doc).added[r]]
            /\ Diff(doc, doc).updated = [r \in DOMAIN Diff(doc, doc).updated |-> Diff(doc, doc).updated[r]]
            /\ Diff(doc, doc).removed = [r \in DOMAIN Diff(doc, doc).removed |-> Diff(doc, doc).removed[r]]
        <4>1. Diff(doc, doc) \in PatchSet(Records, Len(author))
          BY DiffIsPatch DEF Shape, DocsOK
        <4>. QED  BY <4>1, IsPatch, IsStates, IsChanges DEF PatchSet
      <3>. QED  BY <3>2, <3>3 DEF NoPatch, None
    <2>8. g.open /\ g.batch = NoPatch
      BY <2>5
    <2>9. HeldApart(g, file', doc')
      BY <2>2, <2>4, <2>7, <2>8 DEF HeldApart
    <2>. QED  BY <2>6, <2>9, ApartWritten
  <1>. QED  BY <1>1, <1>2, <1>3

LEMMA TakeKeepsApart ==
  ASSUME Shape, FileApart, Alone, NEW c \in Clients,
         NEW back \in BOOLEAN, NEW force, Take(c, back, force)
  PROVE  FileApart'
  <1>1. PICK x, h, step, d, p : x \in Forgotten(c) /\ Takes(c, back, force, x, h, step, d, p)
    BY TakeIs
  <1>2. PICK n, B, other : n = Len(author) /\ B = born /\ other = Step(step.label, Inverted(p))
    OBVIOUS
  <1>3. /\ Fits(h, B, n) /\ Stack(h, back) # <<>> /\ other \in StepSet(B, n) /\ d \in DocSet(n)
    <2>1. /\ Fits(h, B, n) /\ Stack(h, back) # <<>> /\ d \in DocSet(n)
          /\ Step(step.label, Inverted(p)) \in StepSet(B, n)
      <3>1. n = Len(author) /\ B = born
        BY <1>2
      <3>. QED  BY <1>1, <3>1, TakesIs
    <2>. QED  BY <1>2, <2>1
  <1>4. /\ h = Recall(c, x)[c] /\ p = Diff(doc, d) /\ ~h.open /\ doc' = d
        /\ Remembers(c, x, Moved(h, back, other))
        /\ IF Empty(p) THEN Quiet ELSE Publish(d, p)
    BY <1>1, <1>2 DEF Takes, Refused
  <1>5. HeldApart(h, file, doc) /\ doc \in DocSet(n)
    BY <1>1, <1>2, <1>4, OnlyIdleForgotten, LookedUpApart
  <1>6. Moved(h, back, other).open = h.open /\ Moved(h, back, other).batch = h.batch
    BY <1>3, MovedIs
  <1>7. file' = d
    <2>1. CASE Empty(p)
      <3>1. d = doc
        BY <1>3, <1>4, <1>5, <2>1, EmptyDiff
      <3>. QED  BY <1>4, <1>5, <2>1, <3>1 DEF Quiet, HeldApart
    <2>2. CASE ~Empty(p)
      BY <1>4, <2>2 DEF Publish
    <2>. QED  BY <2>1, <2>2
  <1>8. HeldApart(Moved(h, back, other), file', doc')
    BY <1>4, <1>5, <1>6, <1>7 DEF HeldApart
  <1>. QED  BY <1>4, <1>8, ApartWritten

LEMMA CommitKeepsApart ==
  ASSUME Shape, FileApart, Alone, NEW c \in Clients, Commit(c)
  PROVE  FileApart'
  <1>1. PICK h : Commits(c, h)
    BY CommitIs
  <1>2. PICK n, B : n = Len(author) /\ B = born
    OBVIOUS
  <1>3. /\ Fits(h, B, n) /\ HeldApart(h, file, doc) /\ h.open
        /\ file \in DocSet(n) /\ doc \in DocSet(n)
    BY <1>1, <1>2, LookedUpApart DEF Commits
  <1>4. h.batch = Diff(file, doc) /\ doc' = doc
    BY <1>1, <1>3 DEF HeldApart, Commits
  <1>5. CASE Empty(h.batch) /\ Remembers(c, {}, Closed(h)) /\ Quiet
    <2>1. doc = file /\ file' = file
      BY <1>3, <1>4, <1>5, EmptyDiff DEF Quiet
    <2>2. ~Closed(h).open /\ Closed(h).batch = NoPatch
      BY <1>3, ClosedIs
    <2>3. HeldApart(Closed(h), file', doc')
      BY <1>4, <2>1, <2>2 DEF HeldApart
    <2>. QED  BY <1>5, <2>3, ApartWritten
  <1>6. CASE Remembers(c, {}, Committed(h)) /\ Publish(doc, h.batch)
    <2>1. file' = doc
      BY <1>6 DEF Publish
    <2>2. ~Committed(h).open /\ Committed(h).batch = NoPatch
      <3>1. Committed(h) = [undo |-> PushUndo(h.undo, Step(NoLabel, Inverted(h.batch))),
                            redo |-> <<>>, group |-> h.group,
                            open |-> FALSE, batch |-> NoPatch, used |-> h.used]
        BY <1>3, CommittedIs
      <3>. QED  BY <3>1
    <2>3. HeldApart(Committed(h), file', doc')
      BY <1>4, <2>1, <2>2 DEF HeldApart
    <2>. QED  BY <1>6, <2>3, ApartWritten
  <1>. QED  BY <1>1, <1>5, <1>6 DEF Commits

\* Nobody else is in the way of an abort, and what it takes back is the file.
LEMMA AbortedIsFile ==
  ASSUME NEW B, NEW n \in Nat, DocsOK(B, n)
  PROVE  Aborted(Diff(file, doc)) = file
  <1>1. PICK p, i : p = Diff(file, doc) /\ i = Inverted(p)
    OBVIOUS
  <1>2. /\ file \in DocSet(n) /\ doc \in DocSet(n) /\ Rebuilds(file)
        /\ \A r \in Records : file[r] # Absent \/ doc[r] # Absent => r \in B
    BY DEF DocsOK
  <1>3. IsDiff(p, file, doc) /\ p \in PatchSet(B, n)
    BY <1>1, <1>2, DiffAt, DiffIsPatch
  <1>4. /\ i \in PatchSet(B, n) /\ i.added = p.removed /\ i.removed = p.added
        /\ DOMAIN i.updated = DOMAIN p.updated
        /\ \A r \in DOMAIN p.updated : i.updated[r].before = p.updated[r].after
    BY <1>1, <1>3, InvertedIs
  <1>5. \A r \in DOMAIN i.updated : doc[r] = i.updated[r].before /\ doc[r] # Absent
    BY <1>3, <1>4 DEF IsDiff
  <1>6. \A r \in DOMAIN i.removed : doc[r] = i.removed[r]
    BY <1>3, <1>4 DEF IsDiff
  <1>7. ASSUME NEW r \in DOMAIN i.added, Parent[r] # NoParent, doc[Parent[r]] = Absent
        PROVE  Parent[r] \in DOMAIN i.added
    <2>1. r \in Records /\ file[r] # Absent
      BY <1>3, <1>4 DEF IsDiff
    <2>2. Parent[r] \in Records
      BY <1>7, <2>1, SceneAssumption
    <2>3. file[Parent[r]] # Absent
      BY <1>2, <1>7, <2>1 DEF Rebuilds
    <2>. QED  BY <1>3, <1>4, <1>7, <2>2, <2>3 DEF IsDiff
  <1>8. Conflicts(doc, i) = {}
    BY <1>5, <1>6, <1>7 DEF Conflicts, Gone
  <1>9. Without(i, {}) = i
    BY <1>4, WithoutNone
  <1>10. Apply(doc, i) = file
    BY <1>1, <1>2, DiffTakenBack
  <1>. QED  BY <1>1, <1>8, <1>9, <1>10 DEF Aborted

LEMMA AbortKeepsApart ==
  ASSUME Shape, FileApart, Alone, NEW c \in Clients, Abort(c)
  PROVE  FileApart'
  <1>1. PICK h, d, p : Aborts(c, h, d, p)
    BY AbortIs
  <1>2. PICK n, B : n = Len(author) /\ B = born
    OBVIOUS
  <1>3. /\ Fits(h, B, n) /\ HeldApart(h, file, doc) /\ h.open /\ DocsOK(B, n) /\ n \in Nat
        /\ file \in DocSet(n) /\ doc \in DocSet(n)
    BY <1>1, <1>2, LookedUpApart DEF Aborts
  <1>4. h.batch = Diff(file, doc)
    BY <1>3 DEF HeldApart
  <1>5. d = file /\ Rebuilds(d) /\ p = Diff(doc, d)
    BY <1>1, <1>3, <1>4, AbortedIsFile DEF Aborts, DocsOK
  <1>6. file' = file /\ doc' = file
    <2>1. CASE Empty(p)
      <3>1. d = doc
        BY <1>3, <1>5, <2>1, EmptyDiff
      <3>. QED  BY <1>1, <1>5, <2>1, <3>1 DEF Aborts, Quiet
    <2>2. CASE ~Empty(p)
      BY <1>1, <1>5, <2>2 DEF Aborts, Publish
    <2>. QED  BY <2>1, <2>2
  <1>7. ~Closed(h).open /\ Closed(h).batch = NoPatch
    BY <1>3, ClosedIs
  <1>8. HeldApart(Closed(h), file', doc')
    BY <1>6, <1>7 DEF HeldApart
  <1>. QED  BY <1>1, <1>8, ApartWritten DEF Aborts

LEMMA NextFileApart ==
  ASSUME Shape, FileApart, Alone, [Next]_vars
  PROVE  FileApart'
  <1>1. CASE \E c \in Clients : Edit(c)
    BY <1>1, EditKeepsApart
  <1>2. CASE \E c \in Clients : Mark(c) \/ Refuse(c) \/ Begin(c)
    BY <1>2, QuietKeepsApart
  <1>3. CASE \E c \in Clients, force \in BOOLEAN : Undo(c, force) \/ Redo(c, force)
    BY <1>3, TakeKeepsApart DEF Undo, Redo
  <1>4. CASE \E c \in Clients : Commit(c) \/ Abort(c)
    BY <1>4, CommitKeepsApart, AbortKeepsApart
  <1>5. CASE Send \/ UNCHANGED vars
    BY <1>5 DEF Send, vars, FileApart, HeldApart
  <1>6. CASE Restart
    <2>1. doc' = file' /\ \A c \in Clients : hist'[c] = Fresh
      BY <1>6 DEF Restart
    <2>. QED  BY <2>1 DEF FileApart, HeldApart, Fresh
  <1>. QED  BY <1>1, <1>2, <1>3, <1>4, <1>5, <1>6 DEF Next

LEMMA FileApartIsHeld ==
  ASSUME Shape, FileApart
  PROVE  FileHoldsCommitted
  <1> SUFFICES ASSUME NEW c \in Clients PROVE file = Settled(c)
    BY DEF FileHoldsCommitted
  <1>1. PICK n, B : n = Len(author) /\ B = born
    OBVIOUS
  <1>2. n \in Nat /\ file \in DocSet(n) /\ doc \in DocSet(n)
    BY <1>1 DEF Shape, DocsOK
  <1>3. CASE hist[c].open
    BY <1>2, <1>3, DiffTakenBack DEF FileApart, HeldApart, Settled
  <1>4. CASE ~hist[c].open
    <2>1. hist[c].batch = NoPatch /\ file = doc
      BY <1>4 DEF FileApart, HeldApart
    <2>2. PICK i : i = Inverted(NoPatch)
      OBVIOUS
    <2>3. /\ i \in PatchSet(Records, n)
          /\ DOMAIN i.added = {} /\ DOMAIN i.updated = {} /\ DOMAIN i.removed = {}
      <3>1. NoPatch \in PatchSet(Records, n)
        BY NoPatchIsPatch
      <3>2. DOMAIN NoPatch.added = {} /\ DOMAIN NoPatch.updated = {} /\ DOMAIN NoPatch.removed = {}
        BY DEF NoPatch, None
      <3>. QED  BY <2>2, <3>1, <3>2, InvertedIs
    <2>4. Apply(doc, i) \in DocSet(n) /\ \A r \in Records : Apply(doc, i)[r] = doc[r]
      BY <1>2, <2>3, ApplyIs
    <2>5. Apply(doc, i) = doc
      BY <1>2, <2>4 DEF DocSet
    <2>. QED  BY <2>1, <2>2, <2>5 DEF Settled
  <1>. QED  BY <1>3, <1>4

\* A client that edits alone finds in the file what it has committed and nothing
\* of the transaction it has open, so a core that stops anywhere in it starts on
\* the document as it was before: for any records, edits, undos and restarts.
THEOREM FileHolds ==
  ASSUME Alone
  PROVE  Spec => []FileHoldsCommitted
  <1>1. Init => FileApart
    BY DEF Init, FileApart, HeldApart, Fresh
  <1>2. Shape /\ FileApart /\ [Next]_vars => FileApart'
    BY NextFileApart
  <1>3. Shape /\ FileApart => FileHoldsCommitted
    BY FileApartIsHeld
  <1>. QED  BY <1>1, <1>2, <1>3, SpecShape, PTL DEF Spec

-----------------------------------------------------------------------------
(* A page that was told nothing is on the document.  Where nobody has a       *)
(* transaction open every change of the document is published, and what the    *)
(* patches still to come lead through is a film of it.                        *)

NothingOpen == \A c \in Clients : ~hist[c].open

\* A step that publishes what it does to the document.
Published ==
    /\ mirror' = mirror /\ seq' = seq + 1
    /\ unsent' = unsent \cup {[seq |-> seq + 1, patch |-> Diff(doc, doc')]}
    /\ Put(doc, Diff(doc, doc')) = doc'
Unpublished == doc' = doc /\ seq' = seq /\ unsent' = unsent /\ mirror' = mirror

LEMMA PutIs ==
  ASSUME NEW n, NEW was \in DocSet(n), NEW is \in DocSet(n)
  PROVE  Put(was, Diff(was, is)) = is
  <1>1. PICK p : p = Diff(was, is)
    OBVIOUS
  <1>2. IsDiff(p, was, is)
    BY <1>1, DiffAt
  <1>3. ASSUME NEW r \in Records PROVE Put(was, p)[r] = is[r]
    <2>1. Put(was, p)[r] = IF r \in DOMAIN p.removed THEN Absent
                           ELSE IF r \in DOMAIN p.updated THEN p.updated[r].after
                           ELSE IF r \in DOMAIN p.added THEN p.added[r] ELSE was[r]
      BY DEF Put
    <2>. QED  BY <1>2, <2>1 DEF IsDiff
  <1>4. Put(was, p) = [r \in Records |-> Put(was, p)[r]] /\ is = [r \in Records |-> is[r]]
    BY DEF Put, DocSet
  <1>. QED  BY <1>1, <1>3, <1>4

LEMMA ClosedKept ==
  ASSUME NothingOpen, NEW c \in Clients, NEW x, NEW h, Remembers(c, x, h), ~h.open
  PROVE  NothingOpen'
  <1>1. hist'[c] = h /\ \A y \in Clients : y # c => hist'[y] = IF y \in x THEN Fresh ELSE hist[y]
    BY RemembersIs
  <1>2. ~Fresh.open
    BY FreshIsHistory
  <1>. QED  BY <1>1, <1>2 DEF NothingOpen

LEMMA EditPublished ==
  ASSUME Shape, NothingOpen, NEW c \in Clients, Edit(c)
  PROVE  NothingOpen' /\ Published
  <1>1. PICK x, h, d, p : x \in Forgotten(c) /\ Edits(c, x, h, d, p)
    BY EditIs
  <1>2. PICK n, B, C : n = Len(author) /\ B = born /\ C = born'
    OBVIOUS
  <1>3. /\ n \in Nat /\ n + 1 \in Nat /\ DocsOK(B, n) /\ Alike(h, hist[c]) /\ d \in DocSet(n + 1)
        /\ p \in PatchSet(C, n + 1) /\ Fits(h, C, n + 1)
    BY <1>1, <1>2, EditsIs
  <1>4. ~h.open
    BY <1>3 DEF NothingOpen, Alike
  <1>5. ~Remember(h, p).open
    BY <1>3, <1>4, RememberIs
  <1>6. Remembers(c, x, Remember(h, p)) /\ doc' = d /\ p = Diff(doc, d) /\ mirror' = mirror
        /\ Publish(d, p)
    BY <1>1, <1>4 DEF Edits
  <1>7. doc \in DocSet(n + 1)
    <2>1. n <= n + 1 /\ doc \in DocSet(n)
      BY <1>3 DEF DocsOK
    <2>. QED  BY <1>3, <2>1, StatesGrow
  <1>8. Put(doc, Diff(doc, d)) = d
    BY <1>3, <1>7, PutIs
  <1>9. Published
    BY <1>6, <1>8 DEF Published, Publish
  <1>. QED  BY <1>5, <1>6, <1>9, ClosedKept

LEMMA TakePublished ==
  ASSUME Shape, NothingOpen, NEW c \in Clients, NEW back \in BOOLEAN, NEW force,
         Take(c, back, force)
  PROVE  NothingOpen' /\ (Published \/ Unpublished)
  <1>1. PICK x, h, step, d, p : x \in Forgotten(c) /\ Takes(c, back, force, x, h, step, d, p)
    BY TakeIs
  <1>2. PICK n, B, other : n = Len(author) /\ B = born /\ other = Step(step.label, Inverted(p))
    OBVIOUS
  <1>3. /\ Fits(h, B, n) /\ Alike(h, hist[c]) /\ Stack(h, back) # <<>>
        /\ d \in DocSet(n) /\ other \in StepSet(B, n)
    BY <1>1, <1>2, TakesIs
  <1>4. doc \in DocSet(n)
    BY <1>2 DEF Shape, DocsOK
  <1>5. Moved(h, back, other).open = h.open
    BY <1>3, MovedIs
  <1>6. ~Moved(h, back, other).open
    BY <1>3, <1>5 DEF NothingOpen, Alike
  <1>7. /\ Remembers(c, x, Moved(h, back, other)) /\ doc' = d /\ p = Diff(doc, d) /\ mirror' = mirror
        /\ IF Empty(p) THEN Quiet ELSE Publish(d, p)
    BY <1>1, <1>2 DEF Takes
  <1>8. NothingOpen'
    BY <1>6, <1>7, ClosedKept
  <1>9. CASE Empty(p)
    <2>1. d = doc
      BY <1>3, <1>4, <1>7, <1>9, EmptyDiff
    <2>. QED  BY <1>7, <1>8, <1>9, <2>1 DEF Unpublished, Quiet
  <1>10. CASE ~Empty(p)
    <2>1. Put(doc, Diff(doc, d)) = d
      BY <1>3, <1>4, PutIs
    <2>. QED  BY <1>7, <1>8, <1>10, <2>1 DEF Published, Publish
  <1>. QED  BY <1>9, <1>10

LEMMA QuietUnpublished ==
  ASSUME Shape, NothingOpen, NEW c \in Clients, Mark(c) \/ Refuse(c)
  PROVE  NothingOpen' /\ Unpublished
  <1>1. PICK n, B : n = Len(author) /\ B = born
    OBVIOUS
  <1>2. ASSUME NEW x \in Forgotten(c)
        PROVE  ~Recall(c, x)[c].open /\ History(Recall(c, x)[c])
    <2>1. c \notin x
      BY OnlyIdleForgotten
    <2>2. Fits(Recall(c, x)[c], B, n) /\ Alike(Recall(c, x)[c], hist[c])
      BY <1>1, <2>1, LookedUp
    <2>. QED  BY <2>2, FitsIs DEF NothingOpen, Alike
  <1>3. CASE Refuse(c)
    <2>1. PICK x \in Forgotten(c) : Remembers(c, x, Recall(c, x)[c])
      BY <1>3 DEF Refuse
    <2>2. NothingOpen'
      BY <1>2, <2>1, ClosedKept
    <2>. QED  BY <1>3, <2>2 DEF Refuse, Quiet, Unpublished
  <1>4. CASE Mark(c)
    <2>1. PICK label \in Marks \cup {NoLabel}, x \in Forgotten(c) :
            Remembers(c, x, [Recall(c, x)[c] EXCEPT !.group = label])
      BY <1>4 DEF Mark
    <2>2. PICK h : h = Recall(c, x)[c]
      OBVIOUS
    <2>3. ~[h EXCEPT !.group = label].open
      BY <1>2, <2>2, FieldWritten
    <2>4. NothingOpen'
      BY <2>1, <2>2, <2>3, ClosedKept
    <2>. QED  BY <1>4, <2>4 DEF Mark, Quiet, Unpublished
  <1>. QED  BY <1>3, <1>4

LEMMA NextPublished ==
  ASSUME Shape, NothingOpen, Batching = {}, ~Restarting, [Next]_vars
  PROVE  NothingOpen' /\ (Published \/ Unpublished \/ Send)
  <1>1. CASE \E c \in Clients : Edit(c)
    BY <1>1, EditPublished
  <1>2. CASE \E c \in Clients : Mark(c) \/ Refuse(c)
    BY <1>2, QuietUnpublished
  <1>3. CASE \E c \in Clients, force \in BOOLEAN : Undo(c, force) \/ Redo(c, force)
    BY <1>3, TakePublished DEF Undo, Redo
  <1>4. ASSUME NEW c \in Clients PROVE ~Begin(c) /\ ~Commit(c) /\ ~Abort(c)
    <2>1. Fits(Recall(c, {})[c], born, Len(author)) /\ Alike(Recall(c, {})[c], hist[c])
      BY LookedUp
    <2>2. ~Recall(c, {})[c].open
      BY <2>1 DEF NothingOpen, Alike
    <2>. QED  BY <2>2 DEF Begin, Commit, Abort
  <1>5. CASE Send
    BY <1>5 DEF Send, NothingOpen
  <1>6. CASE UNCHANGED vars
    BY <1>6 DEF vars, NothingOpen, Unpublished
  <1>. QED  BY <1>1, <1>2, <1>3, <1>4, <1>5, <1>6 DEF Next, Restart

\* f is the document after each patch: every patch still to come leads from one
\* to the next, and a page without a gap has them up to its number and has all
\* the later ones still to come.
Film(f) ==
    /\ f = [k \in Nat |-> f[k]] /\ f[seq] = doc
    /\ \A q \in unsent : q.seq \in 2 .. seq /\ f[q.seq] = Put(f[q.seq - 1], q.patch)
    /\ mirror = [seq |-> mirror.seq, doc |-> mirror.doc, gap |-> mirror.gap]
    /\ mirror.seq \in 1 .. seq
    /\ ~mirror.gap =>
         /\ mirror.doc = f[mirror.seq]
         /\ \A k \in mirror.seq + 1 .. seq : \E q \in unsent : q.seq = k
Filmed == seq \in Nat /\ \E f : Film(f)

LEMMA PublishFilmed == ASSUME Filmed, Published PROVE Filmed'
  <1>1. PICK f : Film(f)
    BY DEF Filmed
  <1>2. PICK s, g : s = seq /\ g = [k \in Nat |-> IF k = s + 1 THEN doc' ELSE f[k]]
    OBVIOUS
  <1>3. s \in Nat /\ seq' = s + 1
    BY <1>2 DEF Filmed, Published
  <1>4. g[s + 1] = doc' /\ \A k \in 0 .. s : g[k] = f[k]
    BY <1>2, <1>3
  <1>5. mirror' = mirror /\ mirror.seq \in 1 .. s /\ f[s] = doc
    BY <1>1, <1>2 DEF Published, Film
  <1>6. ASSUME NEW q \in unsent' PROVE q.seq \in 2 .. s + 1 /\ g[q.seq] = Put(g[q.seq - 1], q.patch)
    <2>1. CASE q \in unsent
      <3>1. q.seq \in 2 .. s /\ f[q.seq] = Put(f[q.seq - 1], q.patch)
        BY <1>1, <1>2, <2>1 DEF Film
      <3>2. q.seq \in 0 .. s /\ q.seq - 1 \in 0 .. s
        BY <1>3, <3>1
      <3>3. g[q.seq] = f[q.seq] /\ g[q.seq - 1] = f[q.seq - 1]
        BY <1>4, <3>2
      <3>. QED  BY <1>3, <3>1, <3>3
    <2>2. CASE q \notin unsent
      <3>1. q = [seq |-> s + 1, patch |-> Diff(doc, doc')]
        BY <1>2, <1>6, <2>2 DEF Published
      <3>2. q.seq = s + 1 /\ q.patch = Diff(doc, doc')
        BY <3>1
      <3>3. s >= 1
        BY <1>3, <1>5
      <3>4. q.seq - 1 = s /\ q.seq \in 2 .. s + 1 /\ s \in 0 .. s
        BY <1>3, <3>2, <3>3
      <3>5. g[q.seq - 1] = doc /\ g[q.seq] = doc'
        BY <1>4, <1>5, <3>2, <3>4
      <3>6. Put(doc, Diff(doc, doc')) = doc'
        BY DEF Published
      <3>. QED  BY <3>2, <3>4, <3>5, <3>6
    <2>. QED  BY <2>1, <2>2
  <1>7. ASSUME ~mirror.gap
        PROVE  /\ mirror.doc = g[mirror.seq]
               /\ \A k \in mirror.seq + 1 .. s + 1 : \E q \in unsent' : q.seq = k
    <2>1. mirror.doc = f[mirror.seq] /\ \A k \in mirror.seq + 1 .. s : \E q \in unsent : q.seq = k
      BY <1>1, <1>2, <1>7 DEF Film
    <2>2. mirror.seq \in 0 .. s
      BY <1>3, <1>5
    <2>3. unsent \subseteq unsent' /\ [seq |-> s + 1, patch |-> Diff(doc, doc')] \in unsent'
      BY <1>2 DEF Published
    <2>4. ASSUME NEW k \in mirror.seq + 1 .. s + 1 PROVE \E q \in unsent' : q.seq = k
      <3>1. CASE k = s + 1
        BY <2>3, <3>1
      <3>2. CASE k # s + 1
        <4>1. k \in mirror.seq + 1 .. s
          BY <1>3, <2>2, <3>2
        <4>. QED  BY <2>1, <2>3, <4>1
      <3>. QED  BY <3>1, <3>2
    <2>. QED  BY <1>4, <2>1, <2>2, <2>4
  <1>8. mirror.seq \in 1 .. s + 1
    BY <1>3, <1>5
  <1>9. g = [k \in Nat |-> g[k]]
    BY <1>2
  <1>10. Film(g)'
    BY <1>1, <1>3, <1>4, <1>5, <1>6, <1>7, <1>8, <1>9 DEF Film
  <1>11. seq' \in Nat
    BY <1>3
  <1>. QED  BY <1>10, <1>11 DEF Filmed

LEMMA SendFilmed == ASSUME Filmed, Send PROVE Filmed'
  <1>1. PICK f : Film(f)
    BY DEF Filmed
  <1>2. PICK q \in unsent : unsent' = unsent \ {q} /\ mirror' = Receive(mirror, q)
    BY DEF Send
  <1>3. seq' = seq /\ doc' = doc /\ seq \in Nat
    BY DEF Send, Filmed
  <1>4. PICK m, a, s : m = mirror /\ a = q.seq /\ s = seq
    OBVIOUS
  <1>5. /\ a \in 2 .. s /\ f[a] = Put(f[a - 1], q.patch) /\ m.seq \in 1 .. s /\ s \in Nat
        /\ m = [seq |-> m.seq, doc |-> m.doc, gap |-> m.gap]
    BY <1>1, <1>2, <1>3, <1>4 DEF Film
  <1>6. \A w \in unsent' : w \in unsent /\ w.seq \in 2 .. s /\ f[w.seq] = Put(f[w.seq - 1], w.patch)
    BY <1>1, <1>2, <1>4 DEF Film
  <1>7. f = [k \in Nat |-> f[k]] /\ f[seq'] = doc'
    BY <1>1, <1>3 DEF Film
  <1>8. CASE a <= m.seq
    <2>1. mirror' = m
      BY <1>2, <1>4, <1>8 DEF Receive
    <2>2. ASSUME ~m.gap
          PROVE  /\ m.doc = f[m.seq]
                 /\ \A k \in m.seq + 1 .. s : \E w \in unsent' : w.seq = k
      <3>1. m.doc = f[m.seq] /\ \A k \in m.seq + 1 .. s : \E w \in unsent : w.seq = k
        BY <1>1, <1>4, <2>2 DEF Film
      <3>2. ASSUME NEW k \in m.seq + 1 .. s PROVE \E w \in unsent' : w.seq = k
        <4>1. k # a
          BY <1>5, <1>8
        <4>. QED  BY <1>2, <1>4, <3>1, <4>1
      <3>. QED  BY <3>1, <3>2
    <2>3. Film(f)'
      BY <1>3, <1>4, <1>5, <1>6, <1>7, <2>1, <2>2 DEF Film
    <2>. QED  BY <1>3, <2>3 DEF Filmed
  <1>9. CASE ~(a <= m.seq)
    <2>1. mirror' = [seq |-> a, doc |-> Put(m.doc, q.patch),
                     gap |-> m.gap \/ (m.seq > 0 /\ a > m.seq + 1)]
      BY <1>2, <1>4, <1>9 DEF Receive
    <2>2. /\ mirror'.seq = a /\ mirror'.doc = Put(m.doc, q.patch)
          /\ mirror'.gap <=> m.gap \/ (m.seq > 0 /\ a > m.seq + 1)
          /\ mirror' = [seq |-> mirror'.seq, doc |-> mirror'.doc, gap |-> mirror'.gap]
      BY <2>1
    <2>3. ASSUME ~mirror'.gap
          PROVE  /\ mirror'.doc = f[a]
                 /\ \A k \in a + 1 .. s : \E w \in unsent' : w.seq = k
      <3>1. ~m.gap /\ a = m.seq + 1
        BY <1>5, <1>9, <2>2, <2>3
      <3>2. m.doc = f[m.seq] /\ \A k \in m.seq + 1 .. s : \E w \in unsent : w.seq = k
        BY <1>1, <1>4, <3>1 DEF Film
      <3>3. a - 1 = m.seq
        BY <1>5, <3>1
      <3>4. ASSUME NEW k \in a + 1 .. s PROVE \E w \in unsent' : w.seq = k
        <4>1. k # a /\ k \in m.seq + 1 .. s
          BY <1>5, <3>1
        <4>. QED  BY <1>2, <1>4, <3>2, <4>1
      <3>. QED  BY <1>5, <2>2, <3>2, <3>3, <3>4
    <2>4. a \in 1 .. s
      BY <1>5
    <2>5. Film(f)'
      BY <1>3, <1>4, <1>6, <1>7, <2>2, <2>3, <2>4 DEF Film
    <2>. QED  BY <1>3, <2>5 DEF Filmed
  <1>. QED  BY <1>8, <1>9

LEMMA FilmedFollows ==
  ASSUME Filmed
  PROVE  MirrorFollows
  <1> SUFFICES ASSUME unsent = {}, ~mirror.gap PROVE mirror.doc = doc
    BY DEF MirrorFollows
  <1>1. PICK f : Film(f)
    BY DEF Filmed
  <1>2. /\ mirror.doc = f[mirror.seq] /\ f[seq] = doc /\ mirror.seq \in 1 .. seq
        /\ \A k \in mirror.seq + 1 .. seq : \E q \in unsent : q.seq = k
    BY <1>1 DEF Film
  <1>3. mirror.seq = seq
    <2>1. seq \notin mirror.seq + 1 .. seq
      BY <1>2
    <2>. QED  BY <1>2, <2>1 DEF Filmed
  <1>. QED  BY <1>2, <1>3

\* Once every patch is out, a page that was not told to read the document again
\* shows the document the core holds, for any number of patches sent in any order
\* after their unlock.  A commit and a page that has had no patch yet break this,
\* so no client opens transactions, the page has had one and the core goes on.
THEOREM MirrorStays ==
  ASSUME Batching = {}, FirstPatchSeen, ~Restarting
  PROVE  Spec => []MirrorFollows
  <1>1. Init => NothingOpen /\ Filmed
    <2> SUFFICES ASSUME Init PROVE NothingOpen /\ Filmed
      OBVIOUS
    <2>1. NothingOpen
      BY DEF Init, NothingOpen, Fresh
    <2>2. /\ seq = 1 /\ unsent = {} /\ mirror = [seq |-> 1, doc |-> doc, gap |-> FALSE]
      BY DEF Init
    <2>3. PICK f : f = [k \in Nat |-> doc]
      OBVIOUS
    <2>4. Film(f)
      BY <2>2, <2>3 DEF Film
    <2>. QED  BY <2>1, <2>2, <2>4 DEF Filmed
  <1>2. Shape /\ NothingOpen /\ Filmed /\ [Next]_vars => NothingOpen' /\ Filmed'
    <2> SUFFICES ASSUME Shape, NothingOpen, Filmed, [Next]_vars PROVE NothingOpen' /\ Filmed'
      OBVIOUS
    <2>1. NothingOpen' /\ (Published \/ Unpublished \/ Send)
      BY NextPublished
    <2>2. CASE Unpublished
      BY <2>1, <2>2 DEF Unpublished, Filmed, Film
    <2>. QED  BY <2>1, <2>2, PublishFilmed, SendFilmed
  <1>3. Filmed => MirrorFollows
    BY FilmedFollows
  <1>. QED  BY <1>1, <1>2, <1>3, SpecShape, PTL DEF Spec

-----------------------------------------------------------------------------
(* Whose work an undo takes away.  a is who made each edit and b what was     *)
(* beneath it; an edit loses c's own work and nobody else's from d to e when   *)
(* all that is under d and not under e is c's.                                *)

Under(b, v) == IF v = Absent THEN {} ELSE {v} \cup b[v]
Loses(a, b, c, d, e) ==
    \A r \in Records : \A k \in Under(b, d[r]) \ Under(b, e[r]) : a[k] = c

\* Taking a patch back loses only c's own work; putting it back brings only that.
OwnBack(a, b, c, p) ==
    /\ \A r \in DOMAIN p.updated :
         \A k \in Under(b, p.updated[r].before) \ Under(b, p.updated[r].after) : a[k] = c
    /\ \A r \in DOMAIN p.removed : \A k \in Under(b, p.removed[r]) : a[k] = c
OwnAgain(a, b, c, p) ==
    /\ \A r \in DOMAIN p.updated :
         \A k \in Under(b, p.updated[r].after) \ Under(b, p.updated[r].before) : a[k] = c
    /\ \A r \in DOMAIN p.added : \A k \in Under(b, p.added[r]) : a[k] = c

\* What is written of the edits so far: what is beneath one is earlier.
Written(b, n) == n \in Nat /\ \A k \in 1 .. n : b[k] \subseteq 1 .. n
\* a2 and b2 say of the first n edits what a and b say.
Continues(a, b, n, a2, b2) == \A k \in 1 .. n : a2[k] = a[k] /\ b2[k] = b[k]

LEMMA UnderKept ==
  ASSUME NEW n, NEW a, NEW b, NEW a2, NEW b2, Written(b, n), Continues(a, b, n, a2, b2),
         NEW v \in 0 .. n
  PROVE  Under(b2, v) = Under(b, v) /\ Under(b, v) \subseteq 1 .. n
  <1>1. CASE v = Absent
    BY <1>1 DEF Under
  <1>2. CASE v # Absent
    <2>1. v \in 1 .. n /\ n \in Nat
      BY <1>2 DEF Absent, Written
    <2>2. b2[v] = b[v] /\ b[v] \subseteq 1 .. n
      BY <2>1 DEF Continues, Written
    <2>. QED  BY <1>2, <2>1, <2>2 DEF Under
  <1>. QED  BY <1>1, <1>2

LEMMA OwnKept ==
  ASSUME NEW n, NEW a, NEW b, NEW a2, NEW b2, Written(b, n), Continues(a, b, n, a2, b2),
         NEW c, NEW B, NEW p \in PatchSet(B, n)
  PROVE  /\ OwnBack(a, b, c, p) => OwnBack(a2, b2, c, p)
         /\ OwnAgain(a, b, c, p) => OwnAgain(a2, b2, c, p)
  <1>1. \A v \in 0 .. n : Under(b2, v) = Under(b, v) /\ Under(b, v) \subseteq 1 .. n
    BY UnderKept
  <1>2. \A k \in 1 .. n : a2[k] = a[k]
    BY DEF Continues
  <1>3. 1 .. n \subseteq 0 .. n
    BY DEF Written
  <1>4. \A r \in DOMAIN p.updated : p.updated[r].before \in 0 .. n /\ p.updated[r].after \in 0 .. n
    BY <1>3, IsPatch
  <1>5. \A r \in DOMAIN p.removed : p.removed[r] \in 0 .. n
    BY <1>3, IsPatch
  <1>6. \A r \in DOMAIN p.added : p.added[r] \in 0 .. n
    BY <1>3, IsPatch
  <1>7. ASSUME OwnBack(a, b, c, p) PROVE OwnBack(a2, b2, c, p)
    <2>1. ASSUME NEW r \in DOMAIN p.updated,
                 NEW k \in Under(b2, p.updated[r].before) \ Under(b2, p.updated[r].after)
          PROVE  a2[k] = c
      <3>1. k \in Under(b, p.updated[r].before) \ Under(b, p.updated[r].after) /\ k \in 1 .. n
        BY <1>1, <1>4, <2>1
      <3>. QED  BY <1>2, <1>7, <3>1 DEF OwnBack
    <2>2. ASSUME NEW r \in DOMAIN p.removed, NEW k \in Under(b2, p.removed[r]) PROVE a2[k] = c
      <3>1. k \in Under(b, p.removed[r]) /\ k \in 1 .. n
        BY <1>1, <1>5, <2>2
      <3>. QED  BY <1>2, <1>7, <3>1 DEF OwnBack
    <2>. QED  BY <2>1, <2>2 DEF OwnBack
  <1>8. ASSUME OwnAgain(a, b, c, p) PROVE OwnAgain(a2, b2, c, p)
    <2>1. ASSUME NEW r \in DOMAIN p.updated,
                 NEW k \in Under(b2, p.updated[r].after) \ Under(b2, p.updated[r].before)
          PROVE  a2[k] = c
      <3>1. k \in Under(b, p.updated[r].after) \ Under(b, p.updated[r].before) /\ k \in 1 .. n
        BY <1>1, <1>4, <2>1
      <3>. QED  BY <1>2, <1>8, <3>1 DEF OwnAgain
    <2>2. ASSUME NEW r \in DOMAIN p.added, NEW k \in Under(b2, p.added[r]) PROVE a2[k] = c
      <3>1. k \in Under(b, p.added[r]) /\ k \in 1 .. n
        BY <1>1, <1>6, <2>2
      <3>. QED  BY <1>2, <1>8, <3>1 DEF OwnAgain
    <2>. QED  BY <2>1, <2>2 DEF OwnAgain
  <1>. QED  BY <1>7, <1>8

\* What an edit, an undo or a redo puts on a stack.
LEMMA OwnOfDiff ==
  ASSUME NEW n \in Nat, NEW d \in DocSet(n), NEW e \in DocSet(n), NEW B,
         Diff(d, e) \in PatchSet(B, n), NEW a, NEW b, NEW c
  PROVE  /\ Loses(a, b, c, e, d) => OwnBack(a, b, c, Inverted(Diff(d, e)))
         /\ Loses(a, b, c, d, e) => OwnAgain(a, b, c, Inverted(Diff(d, e)))
  <1>1. PICK p, i : p = Diff(d, e) /\ i = Inverted(p)
    OBVIOUS
  <1>2. IsDiff(p, d, e) /\ p \in PatchSet(B, n)
    BY <1>1, DiffAt
  <1>3. /\ i.added = p.removed /\ i.removed = p.added /\ DOMAIN i.updated = DOMAIN p.updated
        /\ \A r \in DOMAIN p.updated : /\ i.updated[r].before = p.updated[r].after
                                       /\ i.updated[r].after = p.updated[r].before
    BY <1>1, <1>2, InvertedIs
  <1>4. \A r \in DOMAIN i.updated : r \in Records /\ i.updated[r].before = e[r] /\ i.updated[r].after = d[r]
    BY <1>2, <1>3 DEF IsDiff
  <1>5. \A r \in DOMAIN i.removed : r \in Records /\ i.removed[r] = e[r] /\ d[r] = Absent
    BY <1>2, <1>3 DEF IsDiff
  <1>6. \A r \in DOMAIN i.added : r \in Records /\ i.added[r] = d[r] /\ e[r] = Absent
    BY <1>2, <1>3 DEF IsDiff
  <1>7. Under(b, Absent) = {}
    BY DEF Under
  <1>8. Loses(a, b, c, e, d) => OwnBack(a, b, c, i)
    BY <1>4, <1>5, <1>7 DEF Loses, OwnBack
  <1>9. Loses(a, b, c, d, e) => OwnAgain(a, b, c, i)
    BY <1>4, <1>6, <1>7 DEF Loses, OwnAgain
  <1>. QED  BY <1>1, <1>8, <1>9

\* What taking a step that meets no conflict does to the document.
LEMMA OwnTaken ==
  ASSUME NEW n \in Nat, NEW B, B \subseteq Records, NEW p \in PatchSet(B, n), NEW d \in DocSet(n),
         Conflicts(d, p) = {}, NEW a, NEW b, NEW c
  PROVE  /\ OwnBack(a, b, c, p) => Loses(a, b, c, d, Apply(d, p))
         /\ OwnAgain(a, b, c, p) => Loses(a, b, c, Apply(d, p), d)
  <1>1. PICK e : e = Apply(d, p)
    OBVIOUS
  <1>2. \A r \in DOMAIN p.updated : d[r] = p.updated[r].before /\ p.updated[r].after # Absent
    <2>1. \A r \in DOMAIN p.updated : p.updated[r].after \in 1 .. n
      BY IsPatch
    <2>. QED  BY <2>1 DEF Conflicts, Absent
  <1>3. \A r \in DOMAIN p.removed : d[r] = Absent \/ d[r] = p.removed[r]
    BY DEF Conflicts
  <1>4. Under(b, Absent) = {}
    BY DEF Under
  <1>5. ASSUME NEW r \in Records
        PROVE  /\ r \in DOMAIN p.updated => e[r] = p.updated[r].after
               /\ r \notin DOMAIN p.updated /\ r \in DOMAIN p.removed =>
                    e[r] = Absent \/ (r \in DOMAIN p.added /\ e[r] = p.added[r])
               /\ r \notin DOMAIN p.updated /\ r \notin DOMAIN p.removed =>
                    e[r] = d[r] \/ (d[r] = Absent /\ r \in DOMAIN p.added /\ e[r] = p.added[r])
    <2>1. PICK kept, now : /\ kept = IF r \in DOMAIN p.removed THEN Absent ELSE d[r]
                           /\ now = IF r \in DOMAIN p.updated THEN p.updated[r].after ELSE kept
      OBVIOUS
    <2>2. e[r] = IF r \in DOMAIN p.added /\ now = Absent THEN p.added[r] ELSE now
      BY <1>1, <2>1 DEF Apply
    <2>. QED  BY <1>2, <2>1, <2>2
  <1>6. ASSUME OwnBack(a, b, c, p), NEW r \in Records, NEW k \in Under(b, d[r]) \ Under(b, e[r])
        PROVE  a[k] = c
    <2>1. CASE r \in DOMAIN p.updated
      BY <1>2, <1>5, <1>6, <2>1 DEF OwnBack
    <2>2. CASE r \notin DOMAIN p.updated /\ r \in DOMAIN p.removed
      BY <1>3, <1>4, <1>6, <2>2 DEF OwnBack
    <2>3. CASE r \notin DOMAIN p.updated /\ r \notin DOMAIN p.removed
      BY <1>4, <1>5, <1>6, <2>3
    <2>. QED  BY <2>1, <2>2, <2>3
  <1>7. ASSUME OwnAgain(a, b, c, p), NEW r \in Records, NEW k \in Under(b, e[r]) \ Under(b, d[r])
        PROVE  a[k] = c
    <2>1. CASE r \in DOMAIN p.updated
      BY <1>2, <1>5, <1>7, <2>1 DEF OwnAgain
    <2>2. CASE r \notin DOMAIN p.updated /\ r \in DOMAIN p.removed
      BY <1>4, <1>5, <1>7, <2>2 DEF OwnAgain
    <2>3. CASE r \notin DOMAIN p.updated /\ r \notin DOMAIN p.removed
      BY <1>5, <1>7, <2>3 DEF OwnAgain
    <2>. QED  BY <2>1, <2>2, <2>3
  <1>. QED  BY <1>1, <1>6, <1>7 DEF Loses

\* A command gives one record at most a new state.
LEMMA EditedOnce ==
  ASSUME NEW n \in Nat, doc \in DocSet(n), NEW d \in Edited(n + 1),
         NEW r \in Records, NEW s \in Records, d[r] = n + 1, d[s] = n + 1
  PROVE  r = s
  <1>1. \A q \in Records : doc[q] # n + 1
    BY DEF DocSet
  <1>2. n + 1 # Absent
    BY DEF Absent
  <1>3. CASE \E q \in Records : d = [doc EXCEPT ![q] = n + 1]
    BY <1>1, <1>3 DEF DocSet
  <1>4. CASE \E q \in Records : d = [t \in Records |-> IF t \in Below(q) THEN Absent ELSE doc[t]]
    BY <1>1, <1>2, <1>4
  <1>. QED  BY <1>3, <1>4 DEF Edited

LEMMA EditLoses ==
  ASSUME NEW c, NEW n \in Nat, n = Len(author), author \in Seq(Clients \cup {Nobody}), c \in Clients,
         beneath \in Seq(SUBSET Nat), Len(beneath) = n, Written(beneath, n),
         doc \in DocSet(n), NEW d \in Edited(n + 1),
         \A r \in Records : d[r] \in {doc[r], n + 1, Absent}, Ghosts(c, d)
  PROVE  /\ Continues(author, beneath, n, author', beneath') /\ Written(beneath', n + 1)
         /\ beneath' \in Seq(SUBSET Nat) /\ Len(beneath') = n + 1
         /\ Loses(author', beneath', c, d, doc)
  <1>1. PICK w : w = (UNION {{doc[r]} \cup (IF doc[r] = Absent THEN {} ELSE beneath[doc[r]]) :
                             r \in {s \in Records : d[s] = Len(author) + 1}}) \ {Absent}
    OBVIOUS
  <1>2. beneath' = Append(beneath, w) /\ author' = Append(author, c)
    BY <1>1 DEF Ghosts
  <1>3. \A k \in w : \E r \in Records : d[r] = n + 1 /\ k \in Under(beneath, doc[r])
    BY <1>1 DEF Under
  <1>4. ASSUME NEW r \in Records PROVE Under(beneath, doc[r]) \subseteq 1 .. n
    <2>1. doc[r] \in 0 .. n
      BY DEF DocSet
    <2>2. Continues(author, beneath, n, author, beneath)
      BY DEF Continues
    <2>. QED  BY <2>1, <2>2, UnderKept
  <1>5. w \subseteq 1 .. n
    BY <1>3, <1>4
  <1>6. w \in SUBSET Nat
    BY <1>5
  <1>7. beneath' \in Seq(SUBSET Nat) /\ Len(beneath') = n + 1
    BY <1>2, <1>6
  <1>8. /\ \A k \in 1 .. n : author'[k] = author[k] /\ beneath'[k] = beneath[k]
        /\ author'[n + 1] = c /\ beneath'[n + 1] = w
    BY <1>2, <1>6
  <1>9. Continues(author, beneath, n, author', beneath')
    BY <1>8 DEF Continues
  <1>10. Written(beneath', n + 1)
    <2>1. ASSUME NEW k \in 1 .. n + 1 PROVE beneath'[k] \subseteq 1 .. n + 1
      <3>1. 1 .. n \subseteq 1 .. n + 1
        OBVIOUS
      <3>2. CASE k = n + 1
        BY <1>5, <1>8, <3>1, <3>2
      <3>3. CASE k # n + 1
        <4>1. k \in 1 .. n
          BY <3>3
        <4>. QED  BY <1>8, <3>1, <4>1 DEF Written
      <3>. QED  BY <3>2, <3>3
    <2>. QED  BY <2>1 DEF Written
  <1>11. ASSUME NEW r \in Records, NEW k \in Under(beneath', d[r]) \ Under(beneath', doc[r])
         PROVE  author'[k] = c
    <2>1. d[r] # doc[r]
      BY <1>11
    <2>2. d[r] # Absent
      BY <1>11 DEF Under
    <2>3. d[r] = n + 1
      BY <2>1, <2>2
    <2>4. k \in {n + 1} \cup w
      BY <1>8, <1>11, <2>2, <2>3 DEF Under
    <2>5. CASE k = n + 1
      BY <1>8, <2>5
    <2>6. CASE k \in w
      <3>1. PICK s \in Records : d[s] = n + 1 /\ k \in Under(beneath, doc[s])
        BY <1>3, <2>6
      <3>2. s = r
        BY <2>3, <3>1, EditedOnce
      <3>3. doc[r] \in 0 .. n
        BY DEF DocSet
      <3>4. Under(beneath', doc[r]) = Under(beneath, doc[r])
        BY <1>9, <3>3, UnderKept
      <3>. QED  BY <1>11, <3>1, <3>2, <3>4
    <2>. QED  BY <2>4, <2>5, <2>6
  <1>12. Loses(author', beneath', c, d, doc)
    BY <1>11 DEF Loses
  <1>. QED  BY <1>7, <1>9, <1>10, <1>12

-----------------------------------------------------------------------------
(* What is on the stacks of a client that does not force takes back and       *)
(* brings back its own work alone.                                             *)

OwnSteps(c, back) ==
    {s \in StepSet(born, Len(author)) :
        IF back THEN OwnBack(author, beneath, c, s.patch) ELSE OwnAgain(author, beneath, c, s.patch)}
OwnHistory(c, h) ==
    ~h.open /\ h.undo \in Seq(OwnSteps(c, TRUE)) /\ h.redo \in Seq(OwnSteps(c, FALSE))
Told == /\ beneath \in Seq(SUBSET Nat) /\ Len(beneath) = Len(author) /\ Written(beneath, Len(author))
OwnKeptApart == Told /\ \A c \in Clients \ Forcing : OwnHistory(c, hist[c])

LEMMA SequencesGrow ==
  ASSUME NEW S, NEW T, S \subseteq T, NEW s \in Seq(S)
  PROVE  s \in Seq(T)
  <1>1. Len(s) \in Nat /\ s = [i \in 1 .. Len(s) |-> s[i]] /\ \A i \in 1 .. Len(s) : s[i] \in T
    OBVIOUS
  <1>. QED  BY <1>1

LEMMA OwnHistoryGrows ==
  ASSUME NEW c, NEW h, OwnHistory(c, h), OwnSteps(c, TRUE) \subseteq OwnSteps(c, TRUE)',
         OwnSteps(c, FALSE) \subseteq OwnSteps(c, FALSE)'
  PROVE  OwnHistory(c, h)'
  <1>1. PICK S, T, X, Y : /\ S = OwnSteps(c, TRUE) /\ T = OwnSteps(c, FALSE)
                          /\ X = OwnSteps(c, TRUE)' /\ Y = OwnSteps(c, FALSE)'
    OBVIOUS
  <1>2. h.undo \in Seq(S) /\ h.redo \in Seq(T) /\ ~h.open /\ S \subseteq X /\ T \subseteq Y
    BY <1>1 DEF OwnHistory
  <1>3. h.undo \in Seq(X) /\ h.redo \in Seq(Y)
    BY <1>2, SequencesGrow
  <1>. QED  BY <1>1, <1>2, <1>3 DEF OwnHistory

LEMMA FreshIsOwn == ASSUME NEW c PROVE OwnHistory(c, Fresh)
  <1>1. ~Fresh.open /\ Fresh.undo = <<>> /\ Fresh.redo = <<>>
    BY DEF Fresh
  <1>2. \A S : <<>> \in Seq(S)
    OBVIOUS
  <1>. QED  BY <1>1, <1>2 DEF OwnHistory

\* A step of one client that leaves it its own work.
LEMMA OwnWritten ==
  ASSUME OwnKeptApart, Told', NEW c \in Clients, NEW x, NEW h, Remembers(c, x, h),
         \A y : /\ OwnSteps(y, TRUE) \subseteq OwnSteps(y, TRUE)'
                /\ OwnSteps(y, FALSE) \subseteq OwnSteps(y, FALSE)',
         c \notin Forcing => OwnHistory(c, h)'
  PROVE  OwnKeptApart'
  <1>1. hist'[c] = h /\ \A y \in Clients : y # c => hist'[y] = IF y \in x THEN Fresh ELSE hist[y]
    BY RemembersIs
  <1>2. ASSUME NEW y \in Clients \ Forcing PROVE OwnHistory(y, hist[y])'
    <2>1. CASE y = c
      BY <1>1, <1>2, <2>1 DEF OwnHistory, OwnSteps
    <2>2. CASE y # c
      <3>1. PICK g : g = IF y \in x THEN Fresh ELSE hist[y]
        OBVIOUS
      <3>2. OwnHistory(y, g)
        BY <1>2, <3>1, FreshIsOwn DEF OwnKeptApart
      <3>3. OwnHistory(y, g)'
        BY <3>2, OwnHistoryGrows
      <3>4. hist'[y] = g
        BY <1>1, <1>2, <2>2, <3>1
      <3>. QED  BY <3>3, <3>4 DEF OwnHistory, OwnSteps
    <2>. QED  BY <2>1, <2>2
  <1>. QED  BY <1>2 DEF OwnKeptApart

\* Of the operations that add no edit.
LEMMA UntouchedOwn ==
  ASSUME OwnKeptApart, UNCHANGED <<born, author, beneath>>
  PROVE  /\ Told'
         /\ \A y : OwnSteps(y, TRUE)' = OwnSteps(y, TRUE) /\ OwnSteps(y, FALSE)' = OwnSteps(y, FALSE)
  BY DEF OwnKeptApart, Told, Written, OwnSteps, OwnBack, OwnAgain, Under

LEMMA UntouchedKeepsOwn ==
  ASSUME OwnKeptApart, Untouched, NEW c \in Clients, NEW x, NEW h, Remembers(c, x, h),
         c \notin Forcing => OwnHistory(c, h)
  PROVE  OwnKeptApart'
  <1>1. Told' /\ \A y : /\ OwnSteps(y, TRUE) \subseteq OwnSteps(y, TRUE)'
                        /\ OwnSteps(y, FALSE) \subseteq OwnSteps(y, FALSE)'
    BY UntouchedOwn DEF Untouched
  <1>2. c \notin Forcing => OwnHistory(c, h)'
    BY <1>1, OwnHistoryGrows
  <1>. QED  BY <1>1, <1>2, OwnWritten

LEMMA LookedUpOwn ==
  ASSUME Shape, OwnKeptApart, NEW c \in Clients, c \notin Forcing, NEW x, c \notin x
  PROVE  /\ OwnHistory(c, Recall(c, x)[c]) /\ History(Recall(c, x)[c])
         /\ Fits(Recall(c, x)[c], born, Len(author))
  <1>1. Fits(Recall(c, x)[c], born, Len(author)) /\ Alike(Recall(c, x)[c], hist[c])
    BY LookedUp
  <1>2. OwnHistory(c, hist[c])
    BY DEF OwnKeptApart
  <1>. QED  BY <1>1, <1>2, FitsIs DEF OwnHistory, Alike

LEMMA EditKeepsOwn ==
  ASSUME Shape, OwnKeptApart, Marks = {}, NEW c \in Clients, Edit(c)
  PROVE  OwnKeptApart'
  <1>1. PICK x, h, d, p : x \in Forgotten(c) /\ Edits(c, x, h, d, p)
    BY EditIs
  <1>2. PICK n, B, C : n = Len(author) /\ B = born /\ C = born'
    OBVIOUS
  <1>3. /\ n \in Nat /\ n + 1 \in Nat /\ DocsOK(B, n) /\ B \subseteq C
        /\ d \in DocSet(n + 1) /\ \A r \in Records : d[r] \in {doc[r], n + 1, Absent}
        /\ p \in PatchSet(C, n + 1) /\ Fits(h, C, n + 1)
    BY <1>1, <1>2, EditsIs
  <1>4. /\ h = Recall(c, x)[c] /\ p = Diff(doc, d) /\ Remembers(c, x, Remember(h, p))
        /\ Ghosts(c, d) /\ d \in Edited(n + 1)
    BY <1>1, <1>2 DEF Edits
  <1>5. author \in Seq(Clients \cup {Nobody}) /\ doc \in DocSet(n)
    BY <1>3 DEF Shape, DocsOK
  <1>6. PICK a, b, a2, b2 : a = author /\ b = beneath /\ a2 = author' /\ b2 = beneath'
    OBVIOUS
  <1>7. beneath \in Seq(SUBSET Nat) /\ Len(beneath) = n /\ Written(beneath, n)
    BY <1>2 DEF OwnKeptApart, Told
  <1>8. /\ Continues(a, b, n, a2, b2) /\ Written(b, n) /\ Written(b2, n + 1)
        /\ b2 \in Seq(SUBSET Nat) /\ Len(b2) = n + 1 /\ Loses(a2, b2, c, d, doc)
    BY <1>2, <1>3, <1>4, <1>5, <1>6, <1>7, EditLoses
  <1>9. Len(author') = n + 1
    BY <1>2, <1>4, <1>5 DEF Ghosts
  <1>10. Told'
    BY <1>6, <1>8, <1>9 DEF Told
  <1>11. StepSet(B, n) \subseteq StepSet(C, n + 1)
    BY <1>3, StatesGrow
  <1>12. ASSUME NEW y
         PROVE  OwnSteps(y, TRUE) \subseteq OwnSteps(y, TRUE)' /\ OwnSteps(y, FALSE) \subseteq OwnSteps(y, FALSE)'
    <2>1. ASSUME NEW s \in StepSet(B, n)
          PROVE  /\ OwnBack(a, b, y, s.patch) => OwnBack(a2, b2, y, s.patch)
                 /\ OwnAgain(a, b, y, s.patch) => OwnAgain(a2, b2, y, s.patch)
      <3>1. s.patch \in PatchSet(B, n)
        BY DEF StepSet
      <3>. QED  BY <1>8, <3>1, OwnKept
    <2>. QED  BY <1>2, <1>6, <1>9, <1>11, <2>1 DEF OwnSteps
  <1>13. ASSUME c \notin Forcing PROVE OwnHistory(c, Remember(h, p))'
    <2>1. PICK S, T : S = OwnSteps(c, TRUE)' /\ T = OwnSteps(c, FALSE)'
      OBVIOUS
    <2>2. c \notin x
      BY <1>1, OnlyIdleForgotten
    <2>3. OwnHistory(c, h)
      BY <1>4, <1>13, <2>2, LookedUpOwn
    <2>4. OwnHistory(c, h)'
      BY <1>12, <2>3, OwnHistoryGrows
    <2>5. ~h.open /\ h.undo \in Seq(S)
      BY <2>1, <2>4 DEF OwnHistory
    <2>6. h.group = NoLabel
      BY <1>3, FitsIs
    <2>7. Remember(h, p).undo = PushUndo(h.undo, Step(NoLabel, Inverted(p)))
      <3>1. Remember(h, p).undo = Newest(h, p)
        BY <1>3, <2>5, RememberIs
      <3>. QED  BY <2>6, <3>1 DEF Newest
    <2>8. Step(NoLabel, Inverted(p)) \in S
      <3>1. doc \in DocSet(n + 1)
        <4>1. n <= n + 1
          BY <1>3
        <4>. QED  BY <1>3, <1>5, <4>1, StatesGrow
      <3>2. OwnBack(a2, b2, c, Inverted(p))
        BY <1>3, <1>4, <1>8, <3>1, OwnOfDiff
      <3>3. Inverted(p) \in PatchSet(C, n + 1)
        BY <1>3, InvertedIs
      <3>4. Step(NoLabel, Inverted(p)) \in StepSet(C, n + 1) /\ Step(NoLabel, Inverted(p)).patch = Inverted(p)
        BY <3>3, StepIs
      <3>. QED  BY <1>2, <1>6, <1>9, <2>1, <3>2, <3>4 DEF OwnSteps
    <2>9. Remember(h, p).undo \in Seq(S)
      BY <2>5, <2>7, <2>8, PushUndoIs
    <2>10. ~Remember(h, p).open /\ Remember(h, p).redo = <<>>
      BY <1>3, <2>5, RememberIs
    <2>11. <<>> \in Seq(T)
      OBVIOUS
    <2>. QED  BY <2>1, <2>9, <2>10, <2>11 DEF OwnHistory
  <1>. QED  BY <1>4, <1>10, <1>12, <1>13, OwnWritten

\* Nothing is in the way of what an unforced undo or redo takes, and it loses or
\* brings back its own client's work alone.
LEMMA TakeOwn ==
  ASSUME Shape, OwnKeptApart, NEW c \in Clients, c \notin Forcing, NEW back \in BOOLEAN,
         NEW x, x \in Forgotten(c), NEW h, NEW step, NEW d, NEW p,
         Takes(c, back, FALSE, x, h, step, d, p)
  PROVE  /\ back => Loses(author, beneath, c, doc, d)
         /\ ~back => Loses(author, beneath, c, d, doc)
         /\ OwnHistory(c, Moved(h, back, Step(step.label, Inverted(p))))
  <1>1. PICK n, B, a, b, q, S, T :
          /\ n = Len(author) /\ B = born /\ a = author /\ b = beneath /\ q = step.patch
          /\ S = OwnSteps(c, TRUE) /\ T = OwnSteps(c, FALSE)
    OBVIOUS
  <1>2. /\ Fits(h, B, n) /\ Stack(h, back) # <<>>
        /\ q \in PatchSet(B, n) /\ d \in DocSet(n)
        /\ p \in PatchSet(B, n) /\ Step(step.label, Inverted(p)) \in StepSet(B, n)
    BY <1>1, TakesIs
  <1>3. n \in Nat /\ B \subseteq Records /\ doc \in DocSet(n)
    BY <1>1 DEF Shape, DocsOK
  <1>4. /\ h = Recall(c, x)[c] /\ step = Last(Stack(h, back)) /\ d = Result(q) /\ p = Diff(doc, d)
        /\ ~Refused(h, back, FALSE)
    BY <1>1 DEF Takes
  <1>5. ~h.open /\ h.undo \in Seq(S) /\ h.redo \in Seq(T)
    <2>1. c \notin x
      BY OnlyIdleForgotten
    <2>. QED  BY <1>1, <1>4, <2>1, LookedUpOwn DEF OwnHistory
  <1>6. step \in IF back THEN S ELSE T
    <2>1. CASE back
      BY <1>2, <1>4, <1>5, <2>1, FrontIs DEF Stack
    <2>2. CASE ~back
      BY <1>2, <1>4, <1>5, <2>2, FrontIs DEF Stack
    <2>. QED  BY <2>1, <2>2
  <1>7. IF back THEN OwnBack(a, b, c, q) ELSE OwnAgain(a, b, c, q)
    BY <1>1, <1>6 DEF OwnSteps
  <1>8. Conflicts(doc, q) = {}
    BY <1>1, <1>4 DEF Refused, Stack
  <1>9. d = Apply(doc, q)
    <2>1. Gone(doc, q) = {}
      BY <1>8 DEF Conflicts
    <2>2. Without(q, {}) = q
      BY <1>2, WithoutNone
    <2>. QED  BY <1>4, <2>1, <2>2 DEF Result
  <1>10. back => Loses(a, b, c, doc, d)
    BY <1>2, <1>3, <1>7, <1>8, <1>9, OwnTaken
  <1>11. ~back => Loses(a, b, c, d, doc)
    BY <1>2, <1>3, <1>7, <1>8, <1>9, OwnTaken
  <1>12. PICK other : other = Step(step.label, Inverted(p))
    OBVIOUS
  <1>13. other \in StepSet(B, n) /\ other.patch = Inverted(p)
    BY <1>2, <1>12 DEF Step
  <1>14. other \in IF back THEN T ELSE S
    <2>1. CASE back
      <3>1. OwnAgain(a, b, c, Inverted(p))
        BY <1>2, <1>3, <1>4, <1>10, <2>1, OwnOfDiff
      <3>. QED  BY <1>1, <1>13, <2>1, <3>1 DEF OwnSteps
    <2>2. CASE ~back
      <3>1. OwnBack(a, b, c, Inverted(p))
        BY <1>2, <1>3, <1>4, <1>11, <2>2, OwnOfDiff
      <3>. QED  BY <1>1, <1>13, <2>2, <3>1 DEF OwnSteps
    <2>. QED  BY <2>1, <2>2
  <1>15. /\ Moved(h, back, other).undo = IF back THEN Front(h.undo) ELSE PushUndo(h.undo, other)
         /\ Moved(h, back, other).redo = IF back THEN Append(h.redo, other) ELSE Front(h.redo)
         /\ Moved(h, back, other).open = h.open
    BY <1>2, <1>13, MovedIs
  <1>16. CASE back
    <2>1. Front(h.undo) \in Seq(S)
      BY <1>2, <1>5, <1>16, FrontIs DEF Stack
    <2>2. Append(h.redo, other) \in Seq(T)
      BY <1>5, <1>14, <1>16
    <2>3. OwnHistory(c, Moved(h, back, other))
      BY <1>1, <1>5, <1>15, <1>16, <2>1, <2>2 DEF OwnHistory
    <2>. QED  BY <1>1, <1>10, <1>12, <1>16, <2>3
  <1>17. CASE ~back
    <2>1. Front(h.redo) \in Seq(T)
      BY <1>2, <1>5, <1>17, FrontIs DEF Stack
    <2>2. PushUndo(h.undo, other) \in Seq(S)
      BY <1>5, <1>14, <1>17, PushUndoIs
    <2>3. OwnHistory(c, Moved(h, back, other))
      BY <1>1, <1>5, <1>15, <1>17, <2>1, <2>2 DEF OwnHistory
    <2>. QED  BY <1>1, <1>11, <1>12, <1>17, <2>3
  <1>. QED  BY <1>16, <1>17

LEMMA TakeKeepsOwn ==
  ASSUME Shape, OwnKeptApart, NEW c \in Clients, NEW back \in BOOLEAN, NEW force \in BOOLEAN,
         force => c \in Forcing, Take(c, back, force)
  PROVE  OwnKeptApart'
  <1>1. PICK x, h, step, d, p : x \in Forgotten(c) /\ Takes(c, back, force, x, h, step, d, p)
    BY TakeIs
  <1>2. PICK g : g = Moved(h, back, Step(step.label, Inverted(p)))
    OBVIOUS
  <1>3. Remembers(c, x, g) /\ Untouched
    BY <1>1, <1>2 DEF Takes
  <1>4. c \notin Forcing => OwnHistory(c, g)
    <2> SUFFICES ASSUME c \notin Forcing PROVE OwnHistory(c, g)
      OBVIOUS
    <2>1. Takes(c, back, FALSE, x, h, step, d, p)
      <3>1. force = FALSE
        OBVIOUS
      <3>. QED  BY <1>1, <3>1
    <2>. QED  BY <1>1, <1>2, <2>1, TakeOwn
  <1>. QED  BY <1>3, <1>4, UntouchedKeepsOwn

LEMMA QuietKeepsOwn ==
  ASSUME Shape, OwnKeptApart, Batching \subseteq Forcing, NEW c \in Clients,
         Mark(c) \/ Refuse(c) \/ Begin(c) \/ Commit(c) \/ Abort(c)
  PROVE  OwnKeptApart'
  <1>1. ASSUME NEW x, c \notin x, c \notin Forcing
        PROVE  OwnHistory(c, Recall(c, x)[c]) /\ History(Recall(c, x)[c]) /\ ~Recall(c, x)[c].open
    BY <1>1, LookedUpOwn DEF OwnHistory
  <1>2. \A x \in Forgotten(c) : c \notin x
    BY OnlyIdleForgotten
  <1>3. CASE Mark(c)
    <2>1. PICK label \in Marks \cup {NoLabel}, x \in Forgotten(c) :
            Remembers(c, x, [Recall(c, x)[c] EXCEPT !.group = label])
      BY <1>3 DEF Mark
    <2>2. PICK h, g : h = Recall(c, x)[c] /\ g = [h EXCEPT !.group = label]
      OBVIOUS
    <2>3. c \notin Forcing => OwnHistory(c, h) /\ History(h)
      BY <1>1, <1>2, <2>2
    <2>4. History(h) => g.undo = h.undo /\ g.redo = h.redo /\ g.open = h.open
      BY <2>2 DEF History
    <2>5. c \notin Forcing => OwnHistory(c, g)
      BY <2>3, <2>4 DEF OwnHistory
    <2>6. Remembers(c, x, g) /\ Untouched
      BY <1>3, <2>1, <2>2 DEF Mark
    <2>. QED  BY <2>5, <2>6, UntouchedKeepsOwn
  <1>4. CASE Refuse(c)
    <2>1. PICK x \in Forgotten(c) : Remembers(c, x, Recall(c, x)[c])
      BY <1>4 DEF Refuse
    <2>2. Untouched
      BY <1>4 DEF Refuse
    <2>. QED  BY <1>1, <1>2, <2>1, <2>2, UntouchedKeepsOwn
  <1>5. CASE Begin(c)
    <2>1. \E x : \E h : Remembers(c, x, h)
      BY <1>5 DEF Begin
    <2>2. Untouched /\ c \in Forcing
      BY <1>5 DEF Begin
    <2>. QED  BY <2>1, <2>2, UntouchedKeepsOwn
  <1>6. CASE Commit(c)
    <2>1. PICK h : Commits(c, h)
      BY <1>6, CommitIs
    <2>2. c \in Forcing
      BY <1>1, <2>1 DEF Commits
    <2>3. Untouched /\ \E g : Remembers(c, {}, g)
      BY <1>6, <2>1 DEF Commits, Commit
    <2>. QED  BY <2>2, <2>3, UntouchedKeepsOwn
  <1>7. CASE Abort(c)
    <2>1. PICK h, d, p : Aborts(c, h, d, p)
      BY <1>7, AbortIs
    <2>2. c \in Forcing
      BY <1>1, <2>1 DEF Aborts
    <2>3. Untouched /\ \E g : Remembers(c, {}, g)
      BY <1>7, <2>1 DEF Aborts, Abort
    <2>. QED  BY <2>2, <2>3, UntouchedKeepsOwn
  <1>. QED  BY <1>3, <1>4, <1>5, <1>6, <1>7

LEMMA NextKeepsOwn ==
  ASSUME Shape, OwnKeptApart, Marks = {}, Batching \subseteq Forcing, [Next]_vars
  PROVE  OwnKeptApart'
  <1>1. CASE \E c \in Clients : Edit(c)
    BY <1>1, EditKeepsOwn
  <1>2. CASE \E c \in Clients : Mark(c) \/ Refuse(c) \/ Begin(c) \/ Commit(c) \/ Abort(c)
    BY <1>2, QuietKeepsOwn
  <1>3. CASE \E c \in Clients, force \in BOOLEAN :
               (force => c \in Forcing) /\ (Undo(c, force) \/ Redo(c, force))
    BY <1>3, TakeKeepsOwn DEF Undo, Redo
  <1>4. CASE UNCHANGED <<hist, author, beneath, born>>
    <2>1. \A c \in Clients \ Forcing : hist'[c] = hist[c] /\ OwnHistory(c, hist[c])
      BY <1>4 DEF OwnKeptApart
    <2>2. Told' /\ \A c : /\ OwnSteps(c, TRUE)' = OwnSteps(c, TRUE)
                         /\ OwnSteps(c, FALSE)' = OwnSteps(c, FALSE)
      BY <1>4, UntouchedOwn
    <2>. QED  BY <2>1, <2>2 DEF OwnKeptApart, OwnHistory
  <1>5. CASE Restart
    <2>1. UNCHANGED <<born, author, beneath>> /\ \A c \in Clients : hist'[c] = Fresh
      BY <1>5 DEF Restart
    <2>2. Told'
      BY <2>1, UntouchedOwn
    <2>3. \A c \in Clients : OwnHistory(c, Fresh)'
      BY FreshIsOwn DEF OwnHistory, Fresh
    <2>. QED  BY <2>1, <2>2, <2>3 DEF OwnKeptApart, OwnHistory
  <1>6. CASE Send \/ UNCHANGED vars
    BY <1>4, <1>6 DEF Send, Untouched, vars
  <1>. QED  BY <1>1, <1>2, <1>3, <1>5, <1>6 DEF Next

LEMMA UndoOwn ==
  ASSUME Shape, OwnKeptApart, NEW c \in Clients \ Forcing, Undo(c, FALSE)
  PROVE  OnlyTheirOwn(c)
  <1>1. PICK x, h, step, d, p : x \in Forgotten(c) /\ Takes(c, TRUE, FALSE, x, h, step, d, p)
    BY TakeIs DEF Undo
  <1>2. Loses(author, beneath, c, doc, d)
    BY <1>1, TakeOwn
  <1>3. doc' = d
    BY <1>1 DEF Takes
  <1>. QED  BY <1>2, <1>3 DEF OnlyTheirOwn, LostBetween, Beneath, Loses, Under

\* An undo that is not forced takes back its own client's work and nobody else's,
\* for any clients, records, edits, forced undos of others and restarts.  A mark
\* and a transaction each make one step of several edits that others may have
\* edited between, and it does not know of them: so nobody marks, and a client
\* that opens transactions is not among those that are promised this.
THEOREM UndoStaysOwn ==
  ASSUME Marks = {}, Batching \subseteq Forcing
  PROVE  Spec => UndoTakesOwnBack
  <1>1. Init => OwnKeptApart
    <2> SUFFICES ASSUME Init PROVE OwnKeptApart
      OBVIOUS
    <2>1. beneath = <<{}>> /\ author = <<Nobody>> /\ \A c \in Clients : hist[c] = Fresh
      BY DEF Init
    <2>2. Len(author) = 1 /\ Len(beneath) = 1 /\ beneath[1] = {} /\ beneath \in Seq(SUBSET Nat)
      BY <2>1
    <2>3. Told
      <3>1. \A k \in 1 .. 1 : beneath[k] \subseteq 1 .. 1
        BY <2>2
      <3>. QED  BY <2>2, <3>1 DEF Told, Written
    <2>. QED  BY <2>1, <2>3, FreshIsOwn DEF OwnKeptApart
  <1>2. Shape /\ OwnKeptApart /\ [Next]_vars => OwnKeptApart'
    BY NextKeepsOwn
  <1>3. Shape /\ OwnKeptApart /\ [Next]_vars =>
          [\A c \in Clients \ Forcing : Undo(c, FALSE) => OnlyTheirOwn(c)]_vars
    BY UndoOwn
  <1>. QED  BY <1>1, <1>2, <1>3, SpecShape, PTL DEF Spec, UndoTakesOwnBack

-----------------------------------------------------------------------------
(* What a client that edits alone has on its stacks is a film: every step     *)
(* leads from one document to the one before it, back from what the file holds.*)

\* Documents there may be: of records given out, none hanging off nothing.
Pages(B, n) == {d \in DocSet(n) : Rebuilds(d) /\ \A r \in Records : d[r] # Absent => r \in B}

Leads(f, stack, d, S) ==
    /\ f \in [0 .. Len(stack) -> S] /\ f[Len(stack)] = d
    /\ \A i \in 1 .. Len(stack) : stack[i].patch = Diff(f[i], f[i - 1])

LEMMA FilmGrows ==
  ASSUME NEW f, NEW stack, NEW d, NEW S, NEW T, S \subseteq T, Leads(f, stack, d, S)
  PROVE  Leads(f, stack, d, T)
  BY DEF Leads

LEMMA NoFilm ==
  ASSUME NEW S, NEW d \in S
  PROVE  Leads([i \in 0 .. 0 |-> d], <<>>, d, S) /\ [i \in 0 .. 0 |-> d][0] = d
  BY DEF Leads

\* One more step at the end.
LEMMA FilmLonger ==
  ASSUME NEW X, NEW stack \in Seq(X), NEW S, NEW f, NEW d, Leads(f, stack, d, S),
         NEW e \in S, NEW step \in X, step.patch = Diff(e, d)
  PROVE  \E g : Leads(g, Append(stack, step), e, S) /\ g[0] = f[0]
  <1>. DEFINE k == Len(stack)
              g == [i \in 0 .. k + 1 |-> IF i = k + 1 THEN e ELSE f[i]]
  <1>1. /\ k \in Nat /\ Len(Append(stack, step)) = k + 1
        /\ Append(stack, step)[k + 1] = step
        /\ \A i \in 1 .. k : Append(stack, step)[i] = stack[i]
    OBVIOUS
  <1>2. /\ f \in [0 .. k -> S] /\ f[k] = d
        /\ \A i \in 1 .. k : stack[i].patch = Diff(f[i], f[i - 1])
    BY DEF Leads
  <1>. HIDE DEF k
  <1>3. g \in [0 .. k + 1 -> S] /\ g[k + 1] = e /\ g[k] = d /\ g[0] = f[0]
    BY <1>1, <1>2
  <1>4. ASSUME NEW i \in 1 .. k + 1 PROVE Append(stack, step)[i].patch = Diff(g[i], g[i - 1])
    <2>1. CASE i = k + 1
      <3>1. i - 1 = k
        BY <1>1, <2>1
      <3>. QED  BY <1>1, <1>3, <2>1, <3>1
    <2>2. CASE i # k + 1
      <3>1. i \in 1 .. k /\ i - 1 \in 0 .. k
        BY <1>1, <2>2
      <3>2. g[i] = f[i] /\ g[i - 1] = f[i - 1]
        BY <1>1, <3>1
      <3>. QED  BY <1>1, <1>2, <3>1, <3>2
    <2>. QED  BY <2>1, <2>2
  <1>5. Leads(g, Append(stack, step), e, S)
    <2>. HIDE DEF g
    <2>. QED  BY <1>1, <1>3, <1>4 DEF Leads
  <1>. QED  BY <1>3, <1>5

\* One less at the end.
LEMMA FilmShorter ==
  ASSUME NEW X, NEW stack \in Seq(X), stack # <<>>, NEW S, NEW f, NEW d, Leads(f, stack, d, S)
  PROVE  \E e, g : /\ e \in S /\ Leads(g, Front(stack), e, S) /\ g[0] = f[0]
                   /\ Last(stack).patch = Diff(d, e)
  <1>. DEFINE k == Len(stack)
              g == [i \in 0 .. k - 1 |-> f[i]]
  <1>1. k \in Nat /\ k # 0 /\ k - 1 \in Nat
    OBVIOUS
  <1>2. /\ Len(Front(stack)) = k - 1
        /\ \A i \in 1 .. k - 1 : Front(stack)[i] = stack[i]
    BY FrontIs
  <1>3. /\ f \in [0 .. k -> S] /\ f[k] = d
        /\ \A i \in 1 .. k : stack[i].patch = Diff(f[i], f[i - 1])
    BY DEF Leads
  <1>4. Last(stack) = stack[k]
    BY DEF Last
  <1>. HIDE DEF k
  <1>5. Last(stack).patch = Diff(d, f[k - 1]) /\ f[k - 1] \in S
    BY <1>1, <1>3, <1>4
  <1>6. g \in [0 .. k - 1 -> S] /\ g[k - 1] = f[k - 1] /\ g[0] = f[0]
    BY <1>1, <1>3
  <1>7. ASSUME NEW i \in 1 .. k - 1 PROVE Front(stack)[i].patch = Diff(g[i], g[i - 1])
    <2>1. i \in 1 .. k /\ g[i] = f[i] /\ g[i - 1] = f[i - 1]
      BY <1>1
    <2>. QED  BY <1>2, <1>3, <2>1
  <1>8. Leads(g, Front(stack), f[k - 1], S)
    <2>. HIDE DEF g
    <2>. QED  BY <1>2, <1>6, <1>7 DEF Leads
  <1>. QED  BY <1>5, <1>6, <1>8

\* One less at the start.
LEMMA FilmTrimmed ==
  ASSUME NEW X, NEW stack \in Seq(X), stack # <<>>, NEW S, NEW f, NEW d, Leads(f, stack, d, S)
  PROVE  \E g : Leads(g, Tail(stack), d, S)
  <1>. DEFINE k == Len(stack)
              g == [i \in 0 .. k - 1 |-> f[i + 1]]
  <1>1. k \in Nat /\ k # 0 /\ k - 1 \in Nat
    OBVIOUS
  <1>2. Len(Tail(stack)) = k - 1 /\ \A i \in 1 .. k - 1 : Tail(stack)[i] = stack[i + 1]
    OBVIOUS
  <1>3. /\ f \in [0 .. k -> S] /\ f[k] = d
        /\ \A i \in 1 .. k : stack[i].patch = Diff(f[i], f[i - 1])
    BY DEF Leads
  <1>. HIDE DEF k
  <1>4. g \in [0 .. k - 1 -> S] /\ g[k - 1] = d
    BY <1>1, <1>3
  <1>5. ASSUME NEW i \in 1 .. k - 1 PROVE Tail(stack)[i].patch = Diff(g[i], g[i - 1])
    <2>1. i + 1 \in 1 .. k /\ i + 1 - 1 = i /\ g[i] = f[i + 1] /\ g[i - 1] = f[i]
      BY <1>1
    <2>. QED  BY <1>2, <1>3, <2>1
  <1>6. Leads(g, Tail(stack), d, S)
    <2>. HIDE DEF g
    <2>. QED  BY <1>2, <1>4, <1>5 DEF Leads
  <1>. QED  BY <1>6

\* A push leads on from where the stack led, and back as far while none falls off.
LEMMA FilmPushed ==
  ASSUME NEW X, NEW stack \in Seq(X), NEW S, NEW f, NEW d, Leads(f, stack, d, S),
         NEW e \in S, NEW step \in X, step.patch = Diff(e, d)
  PROVE  \E g : /\ Leads(g, PushUndo(stack, step), e, S)
                /\ Len(stack) < UndoDepth => g[0] = f[0]
  <1>. DEFINE s == Append(stack, step)
  <1>1. PICK g : Leads(g, s, e, S) /\ g[0] = f[0]
    BY FilmLonger
  <1>2. s \in Seq(X) /\ s # <<>> /\ Len(s) = Len(stack) + 1 /\ Len(stack) \in Nat /\ UndoDepth \in Nat
    <2>1. s \in Seq(X) /\ Len(s) = Len(stack) + 1 /\ Len(stack) \in Nat
      OBVIOUS
    <2>. QED  BY <2>1, SceneAssumption
  <1>3. PushUndo(stack, step) = IF Len(s) > UndoDepth THEN Tail(s) ELSE s
    BY DEF PushUndo
  <1>. HIDE DEF s
  <1>4. CASE Len(s) > UndoDepth
    <2>1. PICK t : Leads(t, Tail(s), e, S)
      BY <1>1, <1>2, FilmTrimmed
    <2>2. ~(Len(stack) < UndoDepth)
      BY <1>2, <1>4
    <2>. QED  BY <1>3, <1>4, <2>1, <2>2
  <1>5. CASE ~(Len(s) > UndoDepth)
    BY <1>1, <1>3, <1>5
  <1>. QED  BY <1>4, <1>5

\* A change and the change that undoes it.
LEMMA DiffInverted == ASSUME NEW d, NEW e PROVE Inverted(Diff(d, e)) = Diff(e, d)
  <1>. DEFINE U == {q \in Records : d[q] # e[q] /\ d[q] # Absent /\ e[q] # Absent}
  <1>1. PICK p, i : p = Diff(d, e) /\ i = Diff(e, d)
    OBVIOUS
  <1>2. /\ p.added = [r \in {q \in Records : d[q] # e[q] /\ d[q] = Absent} |-> e[r]]
        /\ p.removed = [r \in {q \in Records : d[q] # e[q] /\ e[q] = Absent} |-> d[r]]
        /\ p.updated = [r \in U |-> [before |-> d[r], after |-> e[r]]]
    BY <1>1, DiffIs
  <1>3. /\ i = [added |-> i.added, updated |-> i.updated, removed |-> i.removed]
        /\ i.added = [r \in {q \in Records : e[q] # d[q] /\ e[q] = Absent} |-> d[r]]
        /\ i.removed = [r \in {q \in Records : e[q] # d[q] /\ d[q] = Absent} |-> e[r]]
        /\ i.updated = [r \in {q \in Records : e[q] # d[q] /\ e[q] # Absent /\ d[q] # Absent} |->
                          [before |-> e[r], after |-> d[r]]]
    BY <1>1, DiffIs
  <1>4. {q \in Records : e[q] # d[q] /\ e[q] # Absent /\ d[q] # Absent} = U
    OBVIOUS
  <1>5. i.added = p.removed /\ i.removed = p.added
    BY <1>2, <1>3
  <1>6. i.updated = [r \in DOMAIN p.updated |->
                       [before |-> p.updated[r].after, after |-> p.updated[r].before]]
    <2>. HIDE DEF U
    <2>1. DOMAIN p.updated = U
      BY <1>2
    <2>2. \A r \in U : p.updated[r].after = e[r] /\ p.updated[r].before = d[r]
      BY <1>2
    <2>. QED  BY <1>3, <1>4, <2>1, <2>2
  <1>. QED  BY <1>1, <1>3, <1>5, <1>6 DEF Inverted

\* From a document to another one that rebuilds nothing is in the way.
LEMMA DiffTaken ==
  ASSUME NEW n \in Nat, NEW B, B \subseteq Records, NEW d \in Pages(B, n), NEW e \in Pages(B, n)
  PROVE  /\ Apply(d, Diff(d, e)) = e /\ Conflicts(d, Diff(d, e)) = {} /\ Gone(d, Diff(d, e)) = {}
         /\ Without(Diff(d, e), {}) = Diff(d, e) /\ Diff(d, e) \in PatchSet(B, n)
  <1>1. PICK p : p = Diff(d, e)
    OBVIOUS
  <1>2. /\ d \in DocSet(n) /\ e \in DocSet(n) /\ Rebuilds(e)
        /\ \A r \in Records : d[r] # Absent \/ e[r] # Absent => r \in B
    BY DEF Pages
  <1>3. IsDiff(p, d, e) /\ p \in PatchSet(B, n)
    BY <1>1, <1>2, DiffAt, DiffIsPatch
  <1>4. \A r \in DOMAIN p.updated : d[r] = p.updated[r].before /\ d[r] # Absent
    BY <1>3 DEF IsDiff
  <1>5. \A r \in DOMAIN p.removed : d[r] = p.removed[r]
    BY <1>3 DEF IsDiff
  <1>6. ASSUME NEW r \in DOMAIN p.added, Parent[r] # NoParent, d[Parent[r]] = Absent
        PROVE  Parent[r] \in DOMAIN p.added
    <2>1. r \in Records /\ e[r] # Absent
      BY <1>3 DEF IsDiff
    <2>2. Parent[r] \in Records
      BY <1>6, <2>1, SceneAssumption
    <2>3. e[Parent[r]] # Absent
      BY <1>2, <1>6, <2>1 DEF Rebuilds
    <2>. QED  BY <1>3, <1>6, <2>2, <2>3 DEF IsDiff
  <1>7. Conflicts(d, p) = {} /\ Gone(d, p) = {}
    BY <1>4, <1>5, <1>6 DEF Conflicts, Gone
  <1>8. Without(p, {}) = p
    BY <1>3, WithoutNone
  <1>9. Apply(d, p) = e
    <2>1. Apply(d, Inverted(Diff(e, d))) = e
      BY <1>2, DiffTakenBack
    <2>. QED  BY <1>1, <2>1, DiffInverted
  <1>. QED  BY <1>1, <1>3, <1>7, <1>8, <1>9

\* A set of numbers with 0 and with the next of each has them all.
LEMMA Upwards ==
  ASSUME NEW S, 0 \in S, \A k \in Nat : k \in S => k + 1 \in S
  PROVE  Nat \subseteq S
  <1>. SUFFICES ASSUME Nat \ S # {} PROVE FALSE
    OBVIOUS
  <1>. DEFINE F == FiniteSubsetsOf(Nat)
              T == {0 .. k - 1 : k \in Nat \ S}
  <1>1. \A m \in Nat : 0 .. m - 1 \subseteq Nat /\ IsFiniteSet(0 .. m - 1)
    BY FS_Interval
  <1>2. T \subseteq F /\ T # {}
    BY <1>1 DEF FiniteSubsetsOf
  <1>3. IsWellFoundedOn(StrictSubsetOrdering(Nat), F)
    BY FS_StrictSubsetOrderingWellFounded
  <1>. HIDE DEF F
  <1>4. PICK x \in T : \A y \in T : <<y, x>> \notin StrictSubsetOrdering(Nat)
    <2>. HIDE DEF T
    <2>. QED  BY <1>2, <1>3, WFMin
  <1>5. PICK k \in Nat \ S : x = 0 .. k - 1
    OBVIOUS
  <1>6. k # 0 /\ k - 1 \in Nat \ S
    <2>1. k # 0
      BY <1>5
    <2>2. k - 1 \in Nat /\ k - 1 + 1 = k
      BY <1>5, <2>1
    <2>. QED  BY <1>5, <2>1, <2>2
  <1>. DEFINE y == 0 .. k - 1 - 1
  <1>7. y \in T /\ y \in SUBSET Nat /\ x \in SUBSET Nat
    BY <1>1, <1>5, <1>6
  <1>8. y \subseteq x /\ k - 1 \in x /\ k - 1 \notin y
    BY <1>5, <1>6
  <1>9. <<y, x>> \in StrictSubsetOrdering(Nat)
    <2>1. y # x
      BY <1>8
    <2>. HIDE DEF y
    <2>. QED  BY <1>7, <1>8, <2>1 DEF StrictSubsetOrdering
  <1>. QED  BY <1>4, <1>7, <1>9

\* One step of a replay, and the replay as the list of what its steps make.
Rewinding(was, p) ==
    [doc |-> Apply(was.doc, p),
     ok  |-> was.ok /\ Conflicts(was.doc, p) = {} /\ Rebuilds(Apply(was.doc, p))]
Rewinds(f, d, stack) ==
    f = [n \in 0 .. Len(stack) |->
           IF n = 0 THEN [doc |-> d, ok |-> TRUE]
           ELSE Rewinding(f[n - 1], stack[Len(stack) + 1 - n].patch)]

LEMMA ReplayIs ==
  ASSUME NEW d, NEW stack
  PROVE  Replay(d, stack) = (CHOOSE f : Rewinds(f, d, stack))[Len(stack)]
  BY DEF Replay, Rewinds, Rewinding

\* A replay along a film meets no conflict and ends where the film starts.
LEMMA ReplayLeadsBack ==
  ASSUME NEW n \in Nat, NEW B, B \subseteq Records, NEW X, NEW stack \in Seq(X), NEW d,
         NEW u, Leads(u, stack, d, Pages(B, n))
  PROVE  Replay(d, stack).ok /\ Replay(d, stack).doc = u[0]
  <1>. DEFINE k == Len(stack)
              g == [m \in 0 .. k |-> [doc |-> u[k - m], ok |-> TRUE]]
  <1>1. k \in Nat
    OBVIOUS
  <1>2. /\ u[k] = d /\ \A i \in 0 .. k : u[i] \in Pages(B, n)
        /\ \A i \in 1 .. k : stack[i].patch = Diff(u[i], u[i - 1])
    BY DEF Leads
  <1>3. /\ g = [m \in 0 .. k |-> g[m]] /\ g[0] = [doc |-> d, ok |-> TRUE]
        /\ \A m \in 0 .. k : g[m].doc = u[k - m] /\ g[m].ok = TRUE
        /\ \A m \in 0 .. k : g[m] = [doc |-> u[k - m], ok |-> TRUE]
    <2>1. 0 \in 0 .. k /\ k - 0 = k
      BY <1>1
    <2>. QED  BY <1>2, <2>1
  <1>. HIDE DEF g
  <1>4. ASSUME NEW m \in 1 .. k PROVE g[m] = Rewinding(g[m - 1], stack[k + 1 - m].patch)
    <2>1. PICK i : i = k + 1 - m
      OBVIOUS
    <2>2. /\ i \in 1 .. k /\ i \in 0 .. k /\ i - 1 \in 0 .. k /\ m \in 0 .. k /\ m - 1 \in 0 .. k
          /\ k - (m - 1) = i /\ k - m = i - 1
      BY <1>1, <2>1
    <2>3. u[i] \in Pages(B, n) /\ u[i - 1] \in Pages(B, n) /\ stack[i].patch = Diff(u[i], u[i - 1])
      BY <1>2, <2>2
    <2>4. PICK p : p = Diff(u[i], u[i - 1])
      OBVIOUS
    <2>5. Apply(u[i], p) = u[i - 1] /\ Conflicts(u[i], p) = {} /\ Rebuilds(u[i - 1])
      <3>1. Rebuilds(u[i - 1])
        BY <2>3 DEF Pages
      <3>2. Apply(u[i], p) = u[i - 1] /\ Conflicts(u[i], p) = {}
        BY <2>3, <2>4, DiffTaken
      <3>. QED  BY <3>1, <3>2
    <2>6. g[m - 1].doc = u[i] /\ g[m - 1].ok = TRUE /\ g[m] = [doc |-> u[i - 1], ok |-> TRUE]
      BY <1>3, <2>2
    <2>7. (g[m - 1].ok /\ Conflicts(u[i], p) = {} /\ Rebuilds(u[i - 1])) = TRUE
      BY <2>5, <2>6
    <2>8. Rewinding(g[m - 1], p) = [doc |-> u[i - 1], ok |-> TRUE]
      BY <2>5, <2>6, <2>7 DEF Rewinding
    <2>. QED  BY <2>1, <2>3, <2>4, <2>6, <2>8
  <1>5. Rewinds(g, d, stack)
    <2>1. ASSUME NEW m \in 0 .. k
          PROVE  g[m] = IF m = 0 THEN [doc |-> d, ok |-> TRUE]
                        ELSE Rewinding(g[m - 1], stack[k + 1 - m].patch)
      <3>1. CASE m = 0
        BY <1>3, <3>1
      <3>2. CASE m # 0
        BY <1>1, <1>4, <3>2
      <3>. QED  BY <3>1, <3>2
    <2>. QED  BY <1>3, <2>1 DEF Rewinds
  <1>6. PICK f : f = CHOOSE h : Rewinds(h, d, stack)
    OBVIOUS
  <1>7. Rewinds(f, d, stack)
    BY <1>5, <1>6
  <1>8. /\ f[0] = [doc |-> d, ok |-> TRUE]
        /\ \A m \in 1 .. k : f[m] = Rewinding(f[m - 1], stack[k + 1 - m].patch)
    <2>1. f = [m \in 0 .. k |-> IF m = 0 THEN [doc |-> d, ok |-> TRUE]
                             ELSE Rewinding(f[m - 1], stack[k + 1 - m].patch)]
      BY <1>7 DEF Rewinds
    <2>2. 0 \in 0 .. k /\ \A m \in 1 .. k : m \in 0 .. k /\ m # 0
      BY <1>1
    <2>3. f[0] = [doc |-> d, ok |-> TRUE]
      BY <2>1, <2>2
    <2>. QED  BY <2>1, <2>2, <2>3
  <1>9. f[k] = g[k]
    <2>. DEFINE S == {m \in Nat : m <= k => f[m] = g[m]}
    <2>1. 0 \in S
      BY <1>3, <1>8
    <2>2. ASSUME NEW m \in Nat, m \in S PROVE m + 1 \in S
      <3>1. CASE m + 1 <= k
        <4>1. m + 1 \in 1 .. k /\ m + 1 - 1 = m /\ m <= k
          BY <1>1, <3>1
        <4>2. f[m] = g[m]
          BY <2>2, <4>1
        <4>. QED  BY <1>4, <1>8, <4>1, <4>2
      <3>2. CASE ~(m + 1 <= k)
        BY <3>2
      <3>. QED  BY <3>1, <3>2
    <2>. HIDE DEF S
    <2>3. Nat \subseteq S
      BY <2>1, <2>2, Upwards
    <2>. QED  BY <1>1, <2>3 DEF S
  <1>10. k - k = 0 /\ k \in 0 .. k
    BY <1>1
  <1>11. Replay(d, stack) = f[k]
    BY <1>6, ReplayIs
  <1>. QED  BY <1>3, <1>9, <1>10, <1>11

-----------------------------------------------------------------------------
(* A client editing alone has a film on either stack, from what the file     *)
(* holds; the undo stack leads back to the document as it was opened while    *)
(* no step can have fallen off.                                              *)

Back(stack, d, o, S) == \E u : Leads(u, stack, d, S) /\ (UndoDepth > MaxSeq => u[0] = o)
Forth(stack, d, S) == \E u : Leads(u, stack, d, S)
Rewound(h, f, o, k, S) ==
    Back(h.undo, f, o, S) /\ Forth(h.redo, f, S) /\ Len(h.undo) + Len(h.redo) <= k
HistoryKept == \A c \in Clients : Rewound(hist[c], file, opened, seq, Pages(born, Len(author)))

LEMMA RewoundGrows ==
  ASSUME NEW S, NEW T, S \subseteq T, NEW h, NEW f, NEW o, NEW k, Rewound(h, f, o, k, S)
  PROVE  Rewound(h, f, o, k, T)
  <1>1. PICK u : Leads(u, h.undo, f, S) /\ (UndoDepth > MaxSeq => u[0] = o)
    BY DEF Rewound, Back
  <1>2. PICK v : Leads(v, h.redo, f, S)
    BY DEF Rewound, Forth
  <1>3. Leads(u, h.undo, f, T) /\ Leads(v, h.redo, f, T)
    BY <1>1, <1>2, FilmGrows
  <1>. QED  BY <1>1, <1>3 DEF Rewound, Back, Forth

LEMMA RewoundAnew ==
  ASSUME NEW S, NEW f \in S
  PROVE  Back(<<>>, f, f, S) /\ Forth(<<>>, f, S)
  BY NoFilm DEF Back, Forth

LEMMA BackPushed ==
  ASSUME NEW X, NEW stack \in Seq(X), NEW S, NEW d, NEW o, Back(stack, d, o, S),
         NEW e \in S, NEW step \in X, step.patch = Diff(e, d), Len(stack) <= MaxSeq
  PROVE  Back(PushUndo(stack, step), e, o, S) /\ Len(PushUndo(stack, step)) <= Len(stack) + 1
  <1>1. PICK u : Leads(u, stack, d, S) /\ (UndoDepth > MaxSeq => u[0] = o)
    BY DEF Back
  <1>2. PICK g : Leads(g, PushUndo(stack, step), e, S) /\ (Len(stack) < UndoDepth => g[0] = u[0])
    BY <1>1, FilmPushed
  <1>3. UndoDepth > MaxSeq => Len(stack) < UndoDepth
    <2>1. Len(stack) \in Nat /\ UndoDepth \in Nat /\ MaxSeq \in Nat
      BY SceneAssumption
    <2>. QED  BY <2>1
  <1>4. Len(PushUndo(stack, step)) <= Len(stack) + 1
    BY PushUndoIs
  <1>. QED  BY <1>1, <1>2, <1>3, <1>4 DEF Back

LEMMA BackShorter ==
  ASSUME NEW X, NEW stack \in Seq(X), stack # <<>>, NEW S, NEW d, NEW o, Back(stack, d, o, S)
  PROVE  \E e \in S : Back(Front(stack), e, o, S) /\ Last(stack).patch = Diff(d, e)
  <1>1. PICK u : Leads(u, stack, d, S) /\ (UndoDepth > MaxSeq => u[0] = o)
    BY DEF Back
  <1>2. PICK e, g : e \in S /\ Leads(g, Front(stack), e, S) /\ g[0] = u[0] /\ Last(stack).patch = Diff(d, e)
    BY <1>1, FilmShorter
  <1>. QED  BY <1>1, <1>2 DEF Back

LEMMA ForthLonger ==
  ASSUME NEW X, NEW stack \in Seq(X), NEW S, NEW d, Forth(stack, d, S),
         NEW e \in S, NEW step \in X, step.patch = Diff(e, d)
  PROVE  Forth(Append(stack, step), e, S)
  <1>1. PICK u : Leads(u, stack, d, S)
    BY DEF Forth
  <1>2. \E g : Leads(g, Append(stack, step), e, S) /\ g[0] = u[0]
    BY <1>1, FilmLonger
  <1>. QED  BY <1>2 DEF Forth

LEMMA ForthShorter ==
  ASSUME NEW X, NEW stack \in Seq(X), stack # <<>>, NEW S, NEW d, Forth(stack, d, S)
  PROVE  \E e \in S : Forth(Front(stack), e, S) /\ Last(stack).patch = Diff(d, e)
  <1>1. PICK u : Leads(u, stack, d, S)
    BY DEF Forth
  <1>2. PICK e, g : e \in S /\ Leads(g, Front(stack), e, S) /\ g[0] = u[0] /\ Last(stack).patch = Diff(d, e)
    BY <1>1, FilmShorter
  <1>. QED  BY <1>2 DEF Forth

\* A step of the client, and what it finds.
LEMMA RewoundWritten ==
  ASSUME Alone, NEW c \in Clients, NEW x, NEW h, Remembers(c, x, h),
         NEW S, S = Pages(born, Len(author))', Rewound(h, file', opened', seq', S)
  PROVE  HistoryKept'
  <1>1. hist'[c] = h
    BY RemembersIs
  <1>. QED  BY <1>1 DEF HistoryKept, Alone

LEMMA LookedUpRewound ==
  ASSUME Shape, HistoryKept, NEW c \in Clients, NEW x, c \notin x, NEW h, h = Recall(c, x)[c],
         NEW n, n = Len(author), NEW B, B = born
  PROVE  Rewound(h, file, opened, seq, Pages(B, n))
  <1>1. Alike(h, hist[c])
    BY LookedUp
  <1>. QED  BY <1>1 DEF HistoryKept, Rewound, Alike

LEMMA FileIsPage ==
  ASSUME Shape, NEW n, n = Len(author), NEW B, B = born
  PROVE  /\ file \in Pages(B, n) /\ doc \in Pages(B, n) /\ n \in Nat /\ B \subseteq Records
         /\ seq \in Nat /\ MaxSeq \in Nat /\ seq <= MaxSeq
  <1>1. seq \in 0 .. MaxSeq /\ MaxSeq \in Nat
    BY SceneAssumption DEF Shape, WireOK
  <1>. QED  BY <1>1 DEF Shape, DocsOK, Pages

\* A later number, or one at least as big, still bounds both stacks.
LEMMA RewoundLengths ==
  ASSUME NEW h, NEW f, NEW o, NEW k \in Nat, NEW m \in Nat, k <= m, NEW S, Rewound(h, f, o, k, S),
         Len(h.undo) \in Nat, Len(h.redo) \in Nat
  PROVE  Rewound(h, f, o, m, S) /\ Len(h.undo) <= k /\ Len(h.undo) <= m
  <1>1. PICK a, b : a = Len(h.undo) /\ b = Len(h.redo)
    OBVIOUS
  <1>2. a \in Nat /\ b \in Nat /\ a + b <= k
    BY <1>1 DEF Rewound
  <1>3. a <= k /\ a <= m /\ a + b <= m
    BY <1>2
  <1>. QED  BY <1>1, <1>3 DEF Rewound

LEMMA BackGrows ==
  ASSUME NEW S, NEW T, S \subseteq T, NEW stack, NEW d, NEW o, Back(stack, d, o, S)
  PROVE  Back(stack, d, o, T)
  <1>1. PICK u : Leads(u, stack, d, S) /\ (UndoDepth > MaxSeq => u[0] = o)
    BY DEF Back
  <1>2. Leads(u, stack, d, T)
    BY <1>1, FilmGrows
  <1>. QED  BY <1>1, <1>2 DEF Back

\* The newest step of the undo stack takes back everything since it began; P are
\* the documents there were before the edit from f to e.
LEMMA NewestLeads ==
  ASSUME NEW n \in Nat, NEW C, C \subseteq Records, NEW h, Fits(h, C, n),
         NEW S, S = Pages(C, n), NEW f \in S, NEW e \in S, NEW P, P \subseteq S,
         NEW o, Back(h.undo, f, o, P), Len(h.undo) <= MaxSeq,
         \A q \in P, r \in Records : f[r] = Absent /\ e[r] # Absent => q[r] = Absent
  PROVE  /\ Back(Newest(h, Diff(f, e)), e, o, S)
         /\ Len(Newest(h, Diff(f, e))) <= Len(h.undo) + 1
  <1>1. /\ h.undo \in Seq(StepSet(C, n)) /\ h.group \in Marks \cup {NoLabel} /\ Len(h.undo) \in Nat
    BY FitsIs
  <1>2. Inverted(Diff(f, e)) = Diff(e, f)
    BY DiffInverted
  <1>3. CASE h.group # NoLabel /\ h.undo # <<>> /\ Last(h.undo).label = h.group
    <2>1. PICK g \in P : Back(Front(h.undo), g, o, P) /\ Last(h.undo).patch = Diff(f, g)
      BY <1>1, <1>3, BackShorter
    <2>2. g \in S /\ Back(Front(h.undo), g, o, S)
      BY <2>1, BackGrows
    <2>3. Merge(Diff(e, f), Diff(f, g)) = Diff(e, g)
      <3>1. e \in DocSet(n) /\ f \in DocSet(n) /\ g \in DocSet(n)
        BY <2>2 DEF Pages
      <3>2. \A r \in Records : f[r] = Absent /\ g[r] # Absent => e[r] = Absent
        BY <2>1
      <3>. QED  BY <3>1, <3>2, DiffsMerge
    <2>4. PICK step : step = Step(h.group, Diff(e, g))
      OBVIOUS
    <2>5. step \in StepSet(C, n) /\ step.patch = Diff(e, g)
      <3>1. h.group \in Marks \cup {NoLabel}
        BY <1>1
      <3>2. Diff(e, g) \in PatchSet(C, n)
        BY <2>2, DiffTaken
      <3>3. Step(h.group, Diff(e, g)) \in StepSet(C, n) /\ Step(h.group, Diff(e, g)).patch = Diff(e, g)
        BY <3>1, <3>2 DEF Step, StepSet
      <3>. QED  BY <2>4, <3>3
    <2>6. /\ Front(h.undo) \in Seq(StepSet(C, n)) /\ Len(Front(h.undo)) = Len(h.undo) - 1
      BY <1>1, <1>3, FrontIs
    <2>7. Len(Front(h.undo)) <= MaxSeq /\ Len(Front(h.undo)) + 1 <= Len(h.undo) + 1
      BY <1>1, <2>6, SceneAssumption
    <2>8. /\ Back(PushUndo(Front(h.undo), step), e, o, S)
          /\ Len(PushUndo(Front(h.undo), step)) <= Len(Front(h.undo)) + 1
      BY <2>2, <2>5, <2>6, <2>7, BackPushed
    <2>9. Newest(h, Diff(f, e)) = PushUndo(Front(h.undo), step)
      BY <1>2, <1>3, <2>1, <2>3, <2>4 DEF Newest
    <2>10. Len(PushUndo(Front(h.undo), step)) \in Nat
      <3>1. PushUndo(Front(h.undo), step) \in Seq(StepSet(C, n))
        BY <2>5, <2>6, PushUndoIs
      <3>. QED  BY <3>1
    <2>. QED  BY <1>1, <2>6, <2>7, <2>8, <2>9, <2>10
  <1>4. CASE ~(h.group # NoLabel /\ h.undo # <<>> /\ Last(h.undo).label = h.group)
    <2>1. PICK step : step = Step(h.group, Diff(e, f))
      OBVIOUS
    <2>2. step \in StepSet(C, n) /\ step.patch = Diff(e, f)
      <3>1. h.group \in Marks \cup {NoLabel}
        BY <1>1
      <3>2. Diff(e, f) \in PatchSet(C, n)
        BY DiffTaken
      <3>3. Step(h.group, Diff(e, f)) \in StepSet(C, n) /\ Step(h.group, Diff(e, f)).patch = Diff(e, f)
        BY <3>1, <3>2 DEF Step, StepSet
      <3>. QED  BY <2>1, <3>3
    <2>3. Back(h.undo, f, o, S)
      BY BackGrows
    <2>4. Newest(h, Diff(f, e)) = PushUndo(h.undo, step)
      BY <1>2, <1>4, <2>1 DEF Newest
    <2>. QED  BY <1>1, <2>2, <2>3, <2>4, BackPushed
  <1>. QED  BY <1>3, <1>4

LEMMA EditKeepsRewound ==
  ASSUME Shape, FileApart, HistoryKept, Alone, NEW c \in Clients, Edit(c)
  PROVE  HistoryKept'
  <1>1. PICK x, h, d, p : x \in Forgotten(c) /\ Edits(c, x, h, d, p)
    BY EditIs
  <1>2. PICK n, B, C, P, S : /\ n = Len(author) /\ B = born /\ C = born'
                             /\ P = Pages(B, n) /\ S = Pages(C, n + 1)
    OBVIOUS
  <1>3. /\ n + 1 \in Nat /\ n <= n + 1 /\ d \in DocSet(n + 1) /\ Rebuilds(d)
        /\ \A r \in Records : doc[r] = Absent /\ d[r] # Absent => r \notin B
        /\ B \subseteq C /\ C \subseteq Records /\ Fits(h, C, n + 1) /\ p \in PatchSet(C, n + 1)
    <2>1. n \in Nat
      BY <1>1, <1>2, EditsIs
    <2>. QED  BY <1>1, <1>2, <2>1, EditsIs
  <1>4. /\ h = Recall(c, x)[c] /\ p = Diff(doc, d) /\ doc' = d /\ Remembers(c, x, Remember(h, p))
        /\ Ghosts(c, d) /\ (IF h.open THEN Quiet ELSE Publish(d, p))
    BY <1>1 DEF Edits
  <1>5. HeldApart(h, file, doc) /\ Rewound(h, file, opened, seq, P)
    BY <1>1, <1>2, <1>4, OnlyIdleForgotten, LookedUpApart, LookedUpRewound
  <1>6. /\ file \in P /\ doc \in P /\ n \in Nat /\ seq \in Nat /\ MaxSeq \in Nat /\ seq <= MaxSeq
    BY <1>2, FileIsPage
  <1>7. P \subseteq S
    <2>1. DocSet(n) \subseteq DocSet(n + 1)
      BY <1>3, <1>6, StatesGrow
    <2>. QED  BY <1>2, <1>3, <2>1 DEF Pages
  <1>8. d \in S
    <2>1. C = B \cup {r \in Records : d[r] # Absent}
      BY <1>2, <1>4 DEF Ghosts
    <2>. QED  BY <1>2, <1>3, <2>1 DEF Pages
  <1>9. Pages(born, Len(author))' = S /\ opened' = opened
    <2>1. Len(author') = n + 1
      BY <1>2, <1>4 DEF Ghosts, Shape
    <2>. QED  BY <1>2, <1>4, <2>1 DEF Ghosts, Pages, DocSet, Rebuilds
  <1>10. Rewound(Remember(h, p), file', opened', seq', S)
    <2>1. CASE h.open
      <3>1. file' = file /\ seq' = seq
        BY <1>4, <2>1 DEF Quiet
      <3>2. Remember(h, p).undo = h.undo /\ Remember(h, p).redo = h.redo
        BY <1>3, <2>1, RememberIs
      <3>3. Rewound(h, file, opened, seq, S)
        BY <1>5, <1>7, RewoundGrows
      <3>. QED  BY <1>9, <3>1, <3>2, <3>3 DEF Rewound
    <2>2. CASE ~h.open
      <3>1. file' = d /\ seq' = seq + 1 /\ file = doc
        BY <1>4, <1>5, <2>2 DEF Publish, HeldApart
      <3>2. Remember(h, p).undo = Newest(h, p) /\ Remember(h, p).redo = <<>>
        BY <1>3, <2>2, RememberIs
      <3>3. /\ Back(h.undo, doc, opened, P) /\ Len(h.undo) <= seq /\ Len(h.undo) \in Nat
            /\ Len(h.undo) <= MaxSeq
        <4>1. Back(h.undo, doc, opened, P)
          BY <1>5, <3>1 DEF Rewound
        <4>2. Len(h.undo) \in Nat /\ Len(h.redo) \in Nat
          BY <1>3, FitsIs
        <4>3. Len(h.undo) <= seq /\ Len(h.undo) <= MaxSeq
          BY <1>5, <1>6, <4>2, RewoundLengths
        <4>. QED  BY <4>1, <4>2, <4>3
      <3>4. \A q \in P, r \in Records : doc[r] = Absent /\ d[r] # Absent => q[r] = Absent
        BY <1>2, <1>3 DEF Pages
      <3>5. Back(Newest(h, p), d, opened, S) /\ Len(Newest(h, p)) <= Len(h.undo) + 1
        <4>1. n + 1 \in Nat /\ C \subseteq Records /\ Fits(h, C, n + 1) /\ S = Pages(C, n + 1)
          BY <1>2, <1>3
        <4>2. doc \in S /\ d \in S /\ P \subseteq S
          BY <1>6, <1>7, <1>8
        <4>3. Back(h.undo, doc, opened, P) /\ Len(h.undo) <= MaxSeq
          BY <3>3
        <4>4. /\ Back(Newest(h, Diff(doc, d)), d, opened, S)
              /\ Len(Newest(h, Diff(doc, d))) <= Len(h.undo) + 1
          BY <3>4, <4>1, <4>2, <4>3, NewestLeads
        <4>. QED  BY <1>4, <4>4
      <3>6. Forth(<<>>, d, S)
        BY <1>8, RewoundAnew
      <3>7. Len(Newest(h, p)) \in Nat
        BY <1>3, NewestIs
      <3>8. Len(Newest(h, p)) + Len(<<>>) <= seq + 1
        BY <1>6, <3>3, <3>5, <3>7
      <3>. QED  BY <1>9, <3>1, <3>2, <3>5, <3>6, <3>8 DEF Rewound
    <2>. QED  BY <2>1, <2>2
  <1>. QED  BY <1>4, <1>9, <1>10, RewoundWritten

LEMMA RewoundAlike ==
  ASSUME NEW g, NEW h, g.undo = h.undo, g.redo = h.redo,
         NEW f, NEW o, NEW k, NEW S, Rewound(h, f, o, k, S)
  PROVE  Rewound(g, f, o, k, S)
  BY DEF Rewound

\* A step that leaves both stacks and the file as they are.
LEMMA StacksKept ==
  ASSUME Shape, HistoryKept, Alone, NEW c \in Clients, NEW x, c \notin x, NEW h, h = Recall(c, x)[c],
         NEW g, g.undo = h.undo, g.redo = h.redo, Remembers(c, x, g),
         Untouched, file' = file, seq' = seq \/ seq' = seq + 1
  PROVE  HistoryKept'
  <1>1. PICK n, B : n = Len(author) /\ B = born
    OBVIOUS
  <1>2. Rewound(h, file, opened, seq, Pages(B, n)) /\ Fits(h, B, n) /\ seq \in Nat
    BY <1>1, LookedUpRewound, LookedUp, FileIsPage
  <1>3. Rewound(g, file, opened, seq, Pages(B, n))
    BY <1>2, RewoundAlike
  <1>4. Len(g.undo) \in Nat /\ Len(g.redo) \in Nat
    BY <1>2, FitsIs
  <1>5. Rewound(g, file, opened, seq', Pages(B, n))
    <2>1. PICK k : k = seq'
      OBVIOUS
    <2>2. k \in Nat /\ seq <= k
      BY <1>2, <2>1
    <2>. QED  BY <1>2, <1>3, <1>4, <2>1, <2>2, RewoundLengths
  <1>6. opened' = opened /\ Pages(born, Len(author))' = Pages(B, n)
    BY <1>1 DEF Untouched, Pages, DocSet, Rebuilds
  <1>. QED  BY <1>5, <1>6, RewoundWritten

LEMMA QuietKeepsRewound ==
  ASSUME Shape, HistoryKept, Alone, NEW c \in Clients, Mark(c) \/ Refuse(c) \/ Begin(c)
  PROVE  HistoryKept'
  <1>1. PICK x \in Forgotten(c) :
          \/ Remembers(c, x, Recall(c, x)[c])
          \/ \E label : Remembers(c, x, [Recall(c, x)[c] EXCEPT !.group = label])
          \/ Remembers(c, x, [Recall(c, x)[c] EXCEPT !.open = TRUE, !.batch = NoPatch])
    BY DEF Mark, Refuse, Begin
  <1>2. Untouched /\ Quiet
    BY DEF Mark, Refuse, Begin
  <1>3. file' = file /\ seq' = seq
    BY <1>2 DEF Quiet
  <1>4. PICK h : h = Recall(c, x)[c]
    OBVIOUS
  <1>5. History(h) /\ c \notin x
    BY <1>4, OnlyIdleForgotten, LookedUp, FitsIs
  <1>6. CASE Remembers(c, x, h)
    BY <1>2, <1>3, <1>4, <1>5, <1>6, StacksKept
  <1>7. ASSUME NEW label, Remembers(c, x, [h EXCEPT !.group = label])
        PROVE  HistoryKept'
    <2>1. PICK g : g = [h EXCEPT !.group = label]
      OBVIOUS
    <2>2. g.undo = h.undo /\ g.redo = h.redo
      BY <1>5, <2>1 DEF History
    <2>. QED  BY <1>2, <1>3, <1>4, <1>5, <1>7, <2>1, <2>2, StacksKept
  <1>8. CASE Remembers(c, x, [h EXCEPT !.open = TRUE, !.batch = NoPatch])
    <2>1. PICK g : g = [h EXCEPT !.open = TRUE, !.batch = NoPatch]
      OBVIOUS
    <2>2. g = [undo |-> h.undo, redo |-> h.redo, group |-> h.group,
               open |-> TRUE, batch |-> NoPatch, used |-> h.used]
      BY <1>5, <2>1, FieldsWritten
    <2>3. g.undo = h.undo /\ g.redo = h.redo
      BY <2>2
    <2>. QED  BY <1>2, <1>3, <1>4, <1>5, <1>8, <2>1, <2>3, StacksKept
  <1>. QED  BY <1>1, <1>4, <1>6, <1>7, <1>8

\* A step off one stack and onto the other.
LEMMA TakeKeepsRewound ==
  ASSUME Shape, FileApart, HistoryKept, Alone, NEW c \in Clients,
         NEW back \in BOOLEAN, NEW force, Take(c, back, force)
  PROVE  HistoryKept'
  <1>1. PICK x, h, step, d, p : x \in Forgotten(c) /\ Takes(c, back, force, x, h, step, d, p)
    BY TakeIs
  <1>2. PICK n, B, S, other : /\ n = Len(author) /\ B = born /\ S = Pages(B, n)
                              /\ other = Step(step.label, Inverted(p))
    OBVIOUS
  <1>3. /\ Fits(h, B, n) /\ Stack(h, back) # <<>> /\ d \in DocSet(n)
        /\ Step(step.label, Inverted(p)) \in StepSet(B, n)
    <2>1. n = Len(author) /\ B = born
      BY <1>2
    <2>. QED  BY <1>1, <2>1, TakesIs
  <1>4. /\ h = Recall(c, x)[c] /\ step = Last(Stack(h, back)) /\ d = Result(step.patch)
        /\ p = Diff(doc, d) /\ ~h.open /\ doc' = d
        /\ Remembers(c, x, Moved(h, back, other)) /\ Untouched
        /\ IF Empty(p) THEN Quiet ELSE Publish(d, p)
    BY <1>1, <1>2 DEF Takes, Refused
  <1>5. HeldApart(h, file, doc) /\ Rewound(h, file, opened, seq, S)
    BY <1>1, <1>2, <1>4, OnlyIdleForgotten, LookedUpApart, LookedUpRewound
  <1>6. /\ doc \in S /\ doc \in DocSet(n) /\ n \in Nat /\ B \subseteq Records
        /\ seq \in Nat /\ MaxSeq \in Nat /\ seq <= MaxSeq
    BY <1>2, FileIsPage DEF Pages
  <1>7. file = doc
    BY <1>4, <1>5 DEF HeldApart
  <1>8. /\ h.undo \in Seq(StepSet(B, n)) /\ h.redo \in Seq(StepSet(B, n))
        /\ Len(h.undo) \in Nat /\ Len(h.redo) \in Nat
    BY <1>3, FitsIs
  <1>9. other \in StepSet(B, n) /\ other.patch = Inverted(p)
    <2>1. step.label \in Marks \cup {NoLabel} /\ Inverted(p) \in PatchSet(B, n)
      BY <1>3 DEF Step, StepSet
    <2>2. Step(step.label, Inverted(p)).patch = Inverted(p)
      BY <2>1, StepIs
    <2>. QED  BY <1>2, <1>3, <2>2
  <1>10. Back(h.undo, doc, opened, S) /\ Forth(h.redo, doc, S)
    BY <1>5, <1>7 DEF Rewound
  <1>11. ASSUME NEW e \in S, step.patch = Diff(doc, e)
         PROVE  d = e /\ other.patch = Diff(e, doc)
    <2>1. PICK q : q = Diff(doc, e)
      OBVIOUS
    <2>2. Apply(doc, q) = e /\ Gone(doc, q) = {} /\ Without(q, {}) = q
      BY <1>2, <1>6, <2>1, DiffTaken
    <2>3. d = e
      BY <1>4, <1>11, <2>1, <2>2 DEF Result
    <2>. QED  BY <1>4, <1>9, <2>3, DiffInverted
  <1>12. /\ file' = d /\ seq' \in Nat /\ seq <= seq'
    <2>1. CASE Empty(p)
      <3>1. d = doc
        BY <1>3, <1>4, <1>6, <2>1, EmptyDiff
      <3>. QED  BY <1>4, <1>6, <1>7, <2>1, <3>1 DEF Quiet
    <2>2. CASE ~Empty(p)
      BY <1>4, <1>6, <2>2 DEF Publish
    <2>. QED  BY <2>1, <2>2
  <1>13. PICK a, b, k : a = Len(h.undo) /\ b = Len(h.redo) /\ k = seq'
    OBVIOUS
  <1>14. a \in Nat /\ b \in Nat /\ k \in Nat /\ a + b <= k /\ a <= MaxSeq
    <2>1. a \in Nat /\ b \in Nat /\ a <= MaxSeq
      BY <1>5, <1>6, <1>8, <1>13, RewoundLengths
    <2>2. a + b <= seq
      BY <1>5, <1>13 DEF Rewound
    <2>3. seq \in Nat /\ k \in Nat /\ seq <= k
      BY <1>6, <1>12, <1>13
    <2>4. a + b <= k
      BY <2>1, <2>2, <2>3
    <2>. QED  BY <2>1, <2>3, <2>4
  <1>15. PICK g : g = Moved(h, back, other)
    OBVIOUS
  <1>16. /\ g.undo = IF back THEN Front(h.undo) ELSE PushUndo(h.undo, other)
         /\ g.redo = IF back THEN Append(h.redo, other) ELSE Front(h.redo)
    BY <1>3, <1>9, <1>15, MovedIs
  <1>17. Rewound(g, d, opened, seq', S)
    <2>1. CASE back
      <3>1. h.undo # <<>> /\ step = Last(h.undo)
        BY <1>3, <1>4, <2>1 DEF Stack
      <3>2. PICK e \in S : Back(Front(h.undo), e, opened, S) /\ Last(h.undo).patch = Diff(doc, e)
        BY <1>8, <1>10, <3>1, BackShorter
      <3>3. d = e /\ other.patch = Diff(e, doc)
        BY <1>11, <3>1, <3>2
      <3>4. Forth(Append(h.redo, other), e, S)
        BY <1>8, <1>9, <1>10, <3>3, ForthLonger
      <3>5. Len(Front(h.undo)) = Len(h.undo) - 1 /\ Len(Append(h.redo, other)) = Len(h.redo) + 1
        BY <1>8, <3>1, FrontIs
      <3>6. Len(Front(h.undo)) + Len(Append(h.redo, other)) <= seq'
        <4>1. Len(Front(h.undo)) = a - 1 /\ Len(Append(h.redo, other)) = b + 1
          BY <1>13, <3>5
        <4>2. a - 1 + (b + 1) <= k
          BY <1>14
        <4>. QED  BY <1>13, <4>1, <4>2
      <3>. QED  BY <1>16, <2>1, <3>2, <3>3, <3>4, <3>6 DEF Rewound
    <2>2. CASE ~back
      <3>1. h.redo # <<>> /\ step = Last(h.redo)
        BY <1>3, <1>4, <2>2 DEF Stack
      <3>2. PICK e \in S : Forth(Front(h.redo), e, S) /\ Last(h.redo).patch = Diff(doc, e)
        BY <1>8, <1>10, <3>1, ForthShorter
      <3>3. d = e /\ other.patch = Diff(e, doc)
        BY <1>11, <3>1, <3>2
      <3>4. Len(h.undo) <= MaxSeq
        BY <1>13, <1>14
      <3>5. Back(PushUndo(h.undo, other), e, opened, S) /\ Len(PushUndo(h.undo, other)) <= Len(h.undo) + 1
        BY <1>8, <1>9, <1>10, <3>3, <3>4, BackPushed
      <3>6. Len(Front(h.redo)) = Len(h.redo) - 1 /\ Len(PushUndo(h.undo, other)) \in Nat
        <4>1. PushUndo(h.undo, other) \in Seq(StepSet(B, n))
          BY <1>8, <1>9, PushUndoIs
        <4>. QED  BY <1>8, <3>1, <4>1, FrontIs
      <3>7. Len(PushUndo(h.undo, other)) + Len(Front(h.redo)) <= seq'
        <4>1. PICK z : z = Len(PushUndo(h.undo, other))
          OBVIOUS
        <4>2. z \in Nat /\ z <= a + 1 /\ Len(Front(h.redo)) = b - 1
          BY <1>13, <3>5, <3>6, <4>1
        <4>3. z + (b - 1) <= k
          BY <1>14, <4>2
        <4>. QED  BY <1>13, <4>1, <4>2, <4>3
      <3>. QED  BY <1>16, <2>2, <3>2, <3>3, <3>5, <3>7 DEF Rewound
    <2>. QED  BY <2>1, <2>2
  <1>18. opened' = opened /\ Pages(born, Len(author))' = S
    BY <1>2, <1>4 DEF Untouched, Pages, DocSet, Rebuilds
  <1>. QED  BY <1>4, <1>12, <1>15, <1>17, <1>18, RewoundWritten

LEMMA CommitKeepsRewound ==
  ASSUME Shape, FileApart, HistoryKept, Alone, NEW c \in Clients, Commit(c)
  PROVE  HistoryKept'
  <1>1. PICK h : Commits(c, h)
    BY CommitIs
  <1>2. PICK n, B, S : n = Len(author) /\ B = born /\ S = Pages(B, n)
    OBVIOUS
  <1>3. /\ h = Recall(c, {})[c] /\ Fits(h, B, n) /\ HeldApart(h, file, doc) /\ h.open
        /\ Rewound(h, file, opened, seq, S)
    BY <1>1, <1>2, LookedUpApart, LookedUpRewound DEF Commits
  <1>4. h.batch = Diff(file, doc) /\ Untouched
    BY <1>1, <1>3 DEF HeldApart, Commits
  <1>5. CASE Remembers(c, {}, Closed(h)) /\ Quiet
    <2>1. Closed(h).undo = h.undo /\ Closed(h).redo = h.redo
      BY <1>3, ClosedIs
    <2>2. file' = file /\ seq' = seq
      BY <1>5 DEF Quiet
    <2>. QED  BY <1>3, <1>4, <1>5, <2>1, <2>2, StacksKept
  <1>6. CASE Remembers(c, {}, Committed(h)) /\ Publish(doc, h.batch)
    <2>1. file' = doc /\ seq' = seq + 1
      BY <1>6 DEF Publish
    <2>2. PICK step : step = Step(NoLabel, Diff(doc, file))
      OBVIOUS
    <2>3. PICK g : g = Committed(h)
      OBVIOUS
    <2>4. /\ file \in S /\ doc \in S /\ n \in Nat /\ B \subseteq Records
          /\ seq \in Nat /\ MaxSeq \in Nat /\ seq <= MaxSeq
      BY <1>2, FileIsPage
    <2>5. step \in StepSet(B, n) /\ step.patch = Diff(doc, file)
      <3>1. Diff(doc, file) \in PatchSet(B, n)
        BY <1>2, <2>4, DiffTaken
      <3>2. Step(NoLabel, Diff(doc, file)) \in StepSet(B, n) /\ Step(NoLabel, Diff(doc, file)).patch = Diff(doc, file)
        BY <3>1 DEF Step, StepSet
      <3>. QED  BY <2>2, <3>2
    <2>6. g.undo = PushUndo(h.undo, step) /\ g.redo = <<>>
      <3>1. Inverted(h.batch) = Diff(doc, file)
        BY <1>4, DiffInverted
      <3>2. Committed(h) = [undo |-> PushUndo(h.undo, Step(NoLabel, Inverted(h.batch))),
                            redo |-> <<>>, group |-> h.group,
                            open |-> FALSE, batch |-> NoPatch, used |-> h.used]
        BY <1>3, CommittedIs
      <3>. QED  BY <2>2, <2>3, <3>1, <3>2
    <2>7. h.undo \in Seq(StepSet(B, n)) /\ Len(h.undo) \in Nat /\ Len(h.redo) \in Nat
      BY <1>3, FitsIs
    <2>8. Back(h.undo, file, opened, S) /\ Len(h.undo) <= seq /\ Len(h.undo) <= MaxSeq
      <3>1. Back(h.undo, file, opened, S)
        BY <1>3 DEF Rewound
      <3>2. Len(h.undo) <= seq /\ Len(h.undo) <= MaxSeq
        BY <1>3, <2>4, <2>7, RewoundLengths
      <3>. QED  BY <3>1, <3>2
    <2>9. Back(g.undo, doc, opened, S) /\ Len(g.undo) <= Len(h.undo) + 1
      BY <2>4, <2>5, <2>6, <2>7, <2>8, BackPushed
    <2>10. Forth(g.redo, doc, S) /\ Len(g.redo) = 0
      BY <2>4, <2>6, RewoundAnew
    <2>11. Len(g.undo) \in Nat
      <3>1. PushUndo(h.undo, step) \in Seq(StepSet(B, n))
        BY <2>5, <2>7, PushUndoIs
      <3>. QED  BY <2>6, <3>1
    <2>12. Len(g.undo) + Len(g.redo) <= seq + 1
      BY <2>4, <2>7, <2>8, <2>9, <2>10, <2>11
    <2>13. Rewound(g, doc, opened, seq + 1, S)
      BY <2>9, <2>10, <2>12 DEF Rewound
    <2>14. opened' = opened /\ Pages(born, Len(author))' = S
      BY <1>2, <1>4 DEF Untouched, Pages, DocSet, Rebuilds
    <2>. QED  BY <1>6, <2>1, <2>3, <2>13, <2>14, RewoundWritten
  <1>. QED  BY <1>1, <1>5, <1>6 DEF Commits

LEMMA AbortKeepsRewound ==
  ASSUME Shape, FileApart, HistoryKept, Alone, NEW c \in Clients, Abort(c)
  PROVE  HistoryKept'
  <1>1. PICK h, d, p : Aborts(c, h, d, p)
    BY AbortIs
  <1>2. PICK n, B : n = Len(author) /\ B = born
    OBVIOUS
  <1>3. /\ h = Recall(c, {})[c] /\ Fits(h, B, n) /\ HeldApart(h, file, doc) /\ h.open
        /\ DocsOK(B, n) /\ n \in Nat
    BY <1>1, <1>2, LookedUpApart DEF Aborts
  <1>4. d = file
    BY <1>1, <1>3, AbortedIsFile DEF Aborts, HeldApart
  <1>5. file' = file /\ (seq' = seq \/ seq' = seq + 1) /\ Untouched /\ Remembers(c, {}, Closed(h))
    BY <1>1, <1>4 DEF Aborts, Quiet, Publish
  <1>6. Closed(h).undo = h.undo /\ Closed(h).redo = h.redo
    BY <1>3, ClosedIs
  <1>. QED  BY <1>3, <1>5, <1>6, StacksKept

LEMMA NextRewound ==
  ASSUME Shape, FileApart, HistoryKept, Alone, [Next]_vars
  PROVE  HistoryKept'
  <1>1. CASE \E c \in Clients : Edit(c)
    BY <1>1, EditKeepsRewound
  <1>2. CASE \E c \in Clients : Mark(c) \/ Refuse(c) \/ Begin(c)
    BY <1>2, QuietKeepsRewound
  <1>3. CASE \E c \in Clients, force \in BOOLEAN : Undo(c, force) \/ Redo(c, force)
    BY <1>3, TakeKeepsRewound DEF Undo, Redo
  <1>4. CASE \E c \in Clients : Commit(c) \/ Abort(c)
    BY <1>4, CommitKeepsRewound, AbortKeepsRewound
  <1>5. CASE Send \/ UNCHANGED vars
    <2>1. UNCHANGED <<file, opened, seq, born, author, hist>>
      BY <1>5 DEF Send, Untouched, vars
    <2>2. Pages(born, Len(author))' = Pages(born, Len(author))
      BY <2>1 DEF Pages, DocSet, Rebuilds
    <2>. QED  BY <2>1, <2>2 DEF HistoryKept
  <1>6. CASE Restart
    <2>1. /\ file' = file /\ opened' = file /\ seq' = 0 /\ born' = born /\ author' = author
          /\ \A c \in Clients : hist'[c] = Fresh
      BY <1>6 DEF Restart
    <2>2. PICK S : S = Pages(born, Len(author))
      OBVIOUS
    <2>3. Pages(born, Len(author))' = S
      BY <2>1, <2>2 DEF Pages, DocSet, Rebuilds
    <2>4. file \in S
      BY <2>2, FileIsPage
    <2>5. Rewound(Fresh, file, file, 0, S)
      BY <2>4, RewoundAnew DEF Rewound, Fresh
    <2>. QED  BY <2>1, <2>3, <2>5 DEF HistoryKept
  <1>. QED  BY <1>1, <1>2, <1>3, <1>4, <1>5, <1>6 DEF Next

LEMMA InitRewound == Init => HistoryKept
  <1>. SUFFICES ASSUME Init PROVE HistoryKept
    OBVIOUS
  <1>1. Shape
    BY InitShape
  <1>2. file \in Pages(born, Len(author))
    BY <1>1, FileIsPage
  <1>3. opened = file /\ seq = 1 /\ \A c \in Clients : hist[c] = Fresh
    BY DEF Init
  <1>4. Rewound(Fresh, file, file, 1, Pages(born, Len(author)))
    BY <1>2, RewoundAnew DEF Rewound, Fresh
  <1>. QED  BY <1>3, <1>4 DEF HistoryKept

LEMMA RewoundReplays ==
  ASSUME Shape, FileApart, HistoryKept
  PROVE  HistoryRewinds
  <1>. SUFFICES ASSUME NEW c \in Clients
                PROVE  /\ Replay(Settled(c), hist[c].undo).ok /\ Replay(Settled(c), hist[c].redo).ok
                       /\ UndoDepth > MaxSeq => Replay(Settled(c), hist[c].undo).doc = opened
    BY DEF HistoryRewinds
  <1>1. Settled(c) = file
    BY FileApartIsHeld DEF FileHoldsCommitted
  <1>2. PICK n, B : n = Len(author) /\ B = born
    OBVIOUS
  <1>3. Rewound(hist[c], file, opened, seq, Pages(B, n)) /\ Fits(hist[c], B, n)
    BY <1>2 DEF HistoryKept, Shape, HistOK
  <1>4. hist[c].undo \in Seq(StepSet(B, n)) /\ hist[c].redo \in Seq(StepSet(B, n))
    BY <1>3, FitsIs
  <1>5. n \in Nat /\ B \subseteq Records
    BY <1>2, FileIsPage
  <1>6. PICK u : Leads(u, hist[c].undo, file, Pages(B, n)) /\ (UndoDepth > MaxSeq => u[0] = opened)
    BY <1>3 DEF Rewound, Back
  <1>7. PICK v : Leads(v, hist[c].redo, file, Pages(B, n))
    BY <1>3 DEF Rewound, Forth
  <1>8. Replay(file, hist[c].undo).ok /\ Replay(file, hist[c].undo).doc = u[0]
    BY <1>4, <1>5, <1>6, ReplayLeadsBack
  <1>9. Replay(file, hist[c].redo).ok
    BY <1>4, <1>5, <1>7, ReplayLeadsBack
  <1>. QED  BY <1>1, <1>6, <1>8, <1>9

\* A client that edits alone, grouping what it likes and opening what it likes,
\* can take back everything on its undo stack and bring back everything on its
\* redo stack without a conflict, through documents that rebuild, and, while the
\* stack has room for every patch of a run of the core, back to the document as
\* the core opened it: for any records, edits, marks, transactions and restarts.
THEOREM HistoryIsRewound ==
  ASSUME Alone
  PROVE  Spec => []HistoryRewinds
  <1>1. Init => FileApart
    BY DEF Init, FileApart, HeldApart, Fresh
  <1>2. Shape /\ FileApart /\ [Next]_vars => FileApart'
    BY NextFileApart
  <1>3. Shape /\ FileApart /\ HistoryKept /\ [Next]_vars => HistoryKept'
    BY NextRewound
  <1>4. Shape /\ FileApart /\ HistoryKept => HistoryRewinds
    BY RewoundReplays
  <1>. QED  BY <1>1, <1>2, <1>3, <1>4, InitRewound, SpecShape, PTL DEF Spec
=============================================================================
