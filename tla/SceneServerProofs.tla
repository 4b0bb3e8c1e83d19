------------------------- MODULE SceneServerProofs -------------------------
(***************************************************************************)
(* That nobody's open transaction is lost to another client, for any       *)
(* number of clients, records, histories kept and edits.                   *)
(*                                                                         *)
(* Every operation looks its client's history up through Histories::of,    *)
(* which may forget somebody else's to make room.  So every operation is   *)
(* a case of one step, Remembers(c, x, h), with x forgotten and h the new  *)
(* history of c, and what is left to show of each is that h is still open  *)
(* if it was.                                                              *)
(***************************************************************************)
EXTENDS SceneServer, TLAPS

-----------------------------------------------------------------------------
(* A history has its six fields, and whether it is open is a Boolean.        *)

History(h) ==
    /\ h = [undo |-> h.undo, redo |-> h.redo, group |-> h.group,
            open |-> h.open, batch |-> h.batch, used |-> h.used]
    /\ h.open \in BOOLEAN
Histories == /\ hist = [c \in Clients |-> hist[c]]
             /\ \A c \in Clients : History(hist[c])

\* The history of a client that is forgotten is a new one, with nothing open.
LEMMA FreshIsHistory == History(Fresh) /\ ~Fresh.open
  BY DEF History, Fresh

\* Writing a field of a history leaves it one, and open if it was not that field.
LEMMA FieldWritten ==
  ASSUME NEW h, History(h), NEW v
  PROVE  /\ History([h EXCEPT !.undo = v]) /\ [h EXCEPT !.undo = v].open = h.open
         /\ History([h EXCEPT !.redo = v]) /\ [h EXCEPT !.redo = v].open = h.open
         /\ History([h EXCEPT !.group = v]) /\ [h EXCEPT !.group = v].open = h.open
         /\ History([h EXCEPT !.batch = v]) /\ [h EXCEPT !.batch = v].open = h.open
         /\ v \in BOOLEAN => /\ History([h EXCEPT !.open = v])
                             /\ [h EXCEPT !.open = v].open = v
  <1>1. History([h EXCEPT !.undo = v]) /\ [h EXCEPT !.undo = v].open = h.open
    BY DEF History
  <1>2. History([h EXCEPT !.redo = v]) /\ [h EXCEPT !.redo = v].open = h.open
    BY DEF History
  <1>3. History([h EXCEPT !.group = v]) /\ [h EXCEPT !.group = v].open = h.open
    BY DEF History
  <1>4. History([h EXCEPT !.batch = v]) /\ [h EXCEPT !.batch = v].open = h.open
    BY DEF History
  <1>5. ASSUME v \in BOOLEAN
        PROVE  History([h EXCEPT !.open = v]) /\ [h EXCEPT !.open = v].open = v
    BY <1>5 DEF History
  <1>. QED  BY <1>1, <1>2, <1>3, <1>4, <1>5

\* Whoever is forgotten is known, is not the client there is room made for, and
\* has no transaction open (forget_one_if_full).
LEMMA OnlyIdleForgotten ==
  ASSUME NEW c, NEW x \in Forgotten(c)
  PROVE  c \notin x /\ \A y \in x : ~hist[y].open
  <1>1. CASE c \in known \/ Cardinality(known) < ClientsKept \/ {z \in known : ~hist[z].open} = {}
    BY <1>1 DEF Forgotten
  <1>2. CASE ~(c \in known \/ Cardinality(known) < ClientsKept \/ {z \in known : ~hist[z].open} = {})
    BY <1>2 DEF Forgotten
  <1>. QED  BY <1>1, <1>2

\* Looking a client up opens and closes nothing of hers.
LEMMA RecallKeepsOwn ==
  ASSUME Histories, NEW c \in Clients, NEW x, c \notin x
  PROVE  /\ History(Recall(c, x)[c])
         /\ Recall(c, x)[c].open = hist[c].open
         /\ Recall(c, x)[c].batch = hist[c].batch
  <1>. DEFINE u == IF seq > hist[c].used THEN seq ELSE hist[c].used
  <1>1. Recall(c, x)[c] = [hist[c] EXCEPT !.used = u]
    BY DEF Recall
  <1>2. History(hist[c])
    BY DEF Histories
  <1>. HIDE DEF u
  <1>. QED  BY <1>1, <1>2 DEF History

\* Nor of anybody else's whom it does not forget.
LEMMA RecallKeepsOthers ==
  ASSUME Histories, NEW c \in Clients, NEW x, NEW y \in Clients, y # c
  PROVE  /\ History(Recall(c, x)[y])
         /\ y \notin x => Recall(c, x)[y] = hist[y]
  BY FreshIsHistory DEF Recall, Histories

\* Remembering an edit neither opens nor closes a transaction.
LEMMA RememberKeepsOpen ==
  ASSUME NEW h, NEW p, History(h)
  PROVE  History(Remember(h, p)) /\ Remember(h, p).open = h.open
  <1>1. CASE h.open
    BY <1>1 DEF Remember, History
  <1>2. CASE ~h.open
    <2>1. PICK undo : Remember(h, p) = [h EXCEPT !.redo = <<>>, !.undo = undo]
      BY <1>2 DEF Remember
    <2>. QED  BY <2>1 DEF History
  <1>. QED  BY <1>1, <1>2

-----------------------------------------------------------------------------
(* One step of one client.                                                   *)

\* What Remembers does to the histories, when what it writes is a history.
LEMMA RemembersHistories ==
  ASSUME Histories, NEW c \in Clients, NEW x, NEW h, History(h), Remembers(c, x, h)
  PROVE  /\ Histories'
         /\ hist'[c] = h
         /\ \A y \in Clients \ (x \cup {c}) : hist'[y] = hist[y]
  <1>1. hist' = [Recall(c, x) EXCEPT ![c] = h]
    BY DEF Remembers
  <1>2. Recall(c, x) = [y \in Clients |-> Recall(c, x)[y]]
    BY DEF Recall
  <1>3. hist'[c] = h /\ \A y \in Clients : y # c => hist'[y] = Recall(c, x)[y]
    BY <1>1, <1>2
  <1>4. \A y \in Clients : y # c => History(hist'[y])
    BY <1>3, RecallKeepsOthers
  <1>5. hist' = [y \in Clients |-> hist'[y]]
    BY <1>1, <1>2
  <1>. QED  BY <1>3, <1>4, <1>5, RecallKeepsOthers DEF Histories

\* Whatever c does, a transaction of another client it leaves open, and so one
\* that is closed was c's, whose history it wrote.
LEMMA ClosesOnlyItsOwn ==
  ASSUME Histories, NEW c \in Clients, NEW x \in Forgotten(c),
         NEW h, History(h), Remembers(c, x, h)
  PROVE  /\ Histories'
         /\ \A y \in Clients : hist[y].open /\ ~hist'[y].open => y = c /\ ~h.open
  BY RemembersHistories, OnlyIdleForgotten

\* What an edit, a mark, a refusal, an undo, a redo and a begin write has a
\* transaction open if there was one.
Writes(c, h, x) == History(h) /\ (hist[c].open => h.open) /\ Remembers(c, x, h)

LEMMA EditKeepsOpen ==
  ASSUME Histories, NEW c \in Clients, Edit(c)
  PROVE  \E x \in Forgotten(c) : \E h : Writes(c, h, x)
  <1>1. PICK x \in Forgotten(c), d \in Edited(Len(author) + 1) :
          Remembers(c, x, Remember(Recall(c, x)[c], Diff(doc, d)))
    BY DEF Edit
  <1>2. c \notin x
    BY OnlyIdleForgotten
  <1>. QED  BY <1>1, <1>2, RecallKeepsOwn, RememberKeepsOpen DEF Writes

LEMMA MarkKeepsOpen ==
  ASSUME Histories, NEW c \in Clients, Mark(c)
  PROVE  \E x \in Forgotten(c) : \E h : Writes(c, h, x)
  <1>1. PICK x \in Forgotten(c), label \in Marks \cup {NoLabel} :
          Remembers(c, x, [Recall(c, x)[c] EXCEPT !.group = label])
    BY DEF Mark
  <1>2. c \notin x
    BY OnlyIdleForgotten
  <1>. DEFINE h == Recall(c, x)[c]
              g == [h EXCEPT !.group = label]
  <1>3. History(h) /\ h.open = hist[c].open
    BY <1>2, RecallKeepsOwn
  <1>. HIDE DEF h
  <1>4. History(g) /\ g.open = h.open
    BY <1>3 DEF History
  <1>5. Remembers(c, x, g)
    BY <1>1 DEF h
  <1>. QED  BY <1>3, <1>4, <1>5 DEF Writes

LEMMA RefuseKeepsOpen ==
  ASSUME Histories, NEW c \in Clients, Refuse(c)
  PROVE  \E x \in Forgotten(c) : \E h : Writes(c, h, x)
  <1>1. PICK x \in Forgotten(c) : Remembers(c, x, Recall(c, x)[c])
    BY DEF Refuse
  <1>. QED  BY <1>1, OnlyIdleForgotten, RecallKeepsOwn DEF Writes

LEMMA TakeKeepsOpen ==
  ASSUME Histories, NEW c \in Clients, NEW back, NEW force, Take(c, back, force)
  PROVE  \E x \in Forgotten(c) : \E h : Writes(c, h, x)
  <1>1. PICK x \in Forgotten(c) :
          \E undo, redo : Remembers(c, x, [Recall(c, x)[c] EXCEPT
                             !.undo = undo, !.redo = redo, !.group = NoLabel])
    BY DEF Take
  <1>2. PICK undo, redo : Remembers(c, x, [Recall(c, x)[c] EXCEPT
                             !.undo = undo, !.redo = redo, !.group = NoLabel])
    BY <1>1
  <1>. DEFINE h == Recall(c, x)[c]
              g == [h EXCEPT !.undo = undo, !.redo = redo, !.group = NoLabel]
  <1>3. History(h) /\ h.open = hist[c].open
    BY OnlyIdleForgotten, RecallKeepsOwn
  <1>4. Remembers(c, x, g)
    BY <1>2
  <1>. HIDE DEF h
  <1>. DEFINE h1 == [h EXCEPT !.undo = undo]
              h2 == [h1 EXCEPT !.redo = redo]
  <1>5. History(h1) /\ h1.open = h.open
    BY <1>3, FieldWritten
  <1>6. History(h2) /\ h2.open = h1.open
    <2>. HIDE DEF h1
    <2>. QED  BY <1>5, FieldWritten
  <1>7. History([h2 EXCEPT !.group = NoLabel]) /\ [h2 EXCEPT !.group = NoLabel].open = h2.open
    <2>. HIDE DEF h2
    <2>. QED  BY <1>6, FieldWritten
  <1>8. History(g) /\ g.open = h.open
    BY <1>5, <1>6, <1>7
  <1>. QED  BY <1>3, <1>4, <1>8 DEF Writes

LEMMA BeginKeepsOpen ==
  ASSUME Histories, NEW c \in Clients, Begin(c)
  PROVE  \E x \in Forgotten(c) : \E h : Writes(c, h, x)
  <1>1. PICK x \in Forgotten(c) :
          Remembers(c, x, [Recall(c, x)[c] EXCEPT !.open = TRUE, !.batch = NoPatch])
    BY DEF Begin
  <1>. DEFINE h == Recall(c, x)[c]
              g == [h EXCEPT !.open = TRUE, !.batch = NoPatch]
  <1>2. History(h)
    BY OnlyIdleForgotten, RecallKeepsOwn
  <1>3. Remembers(c, x, g)
    BY <1>1
  <1>. HIDE DEF h
  <1>. DEFINE b == [h EXCEPT !.open = TRUE]
  <1>4. History(b) /\ b.open
    BY <1>2, FieldWritten
  <1>5. History(g) /\ g.open
    <2>1. History([b EXCEPT !.batch = NoPatch]) /\ [b EXCEPT !.batch = NoPatch].open = b.open
      <3>. HIDE DEF b
      <3>. QED  BY <1>4, FieldWritten
    <2>. QED  BY <1>4, <2>1
  <1>. QED  BY <1>3, <1>5 DEF Writes

\* A commit and an abort forget nobody: they write the history of c alone.
LEMMA ClosingWritesOwn ==
  ASSUME Histories, NEW c \in Clients, Commit(c) \/ Abort(c)
  PROVE  \E h : History(h) /\ Remembers(c, {}, h)
  <1>. DEFINE h == Recall(c, {})[c]
              z == Closed(h)
  <1>1. History(h)
    BY RecallKeepsOwn
  <1>. HIDE DEF h
  <1>. DEFINE b == [h EXCEPT !.open = FALSE]
  <1>2. History(b)
    BY <1>1, FieldWritten
  <1>3. History(z)
    <2>1. History([b EXCEPT !.batch = NoPatch])
      <3>. HIDE DEF b
      <3>. QED  BY <1>2, FieldWritten
    <2>. QED  BY <2>1 DEF Closed
  <1>4. CASE Abort(c)
    <2>1. Remembers(c, {}, z)
      BY <1>4 DEF Abort, h
    <2>. QED  BY <1>3, <2>1
  <1>5. CASE Commit(c)
    <2>. DEFINE s == PushUndo(z.undo, Step(NoLabel, Inverted(h.batch)))
                w == [z EXCEPT !.redo = <<>>, !.undo = s]
    <2>1. Remembers(c, {}, z) \/ Remembers(c, {}, w)
      BY <1>5 DEF Commit, h
    <2>. HIDE DEF s, z
    <2>. DEFINE r == [z EXCEPT !.redo = <<>>]
    <2>2. History(r)
      BY <1>3, FieldWritten
    <2>3. History(w)
      <3>1. History([r EXCEPT !.undo = s])
        <4>. HIDE DEF r
        <4>. QED  BY <2>2, FieldWritten
      <3>. QED  BY <3>1
    <2>. QED  BY <1>3, <2>1, <2>3
  <1>. QED  BY <1>4, <1>5

-----------------------------------------------------------------------------
(* All steps.                                                                *)

\* A step keeps the histories histories, and closes a transaction only as a
\* commit or an abort of its own client, or a restart.
LEMMA StepKeepsBatches ==
  ASSUME Histories, [Next]_vars
  PROVE  /\ Histories'
         /\ \A y \in Clients : hist[y].open /\ ~hist'[y].open =>
              Commit(y) \/ Abort(y) \/ Restart
  <1>1. ASSUME NEW c \in Clients, NEW x \in Forgotten(c), NEW h, Writes(c, h, x)
        PROVE  /\ Histories'
               /\ \A y \in Clients : ~(hist[y].open /\ ~hist'[y].open)
    <2>1. /\ Histories'
          /\ \A y \in Clients : hist[y].open /\ ~hist'[y].open => y = c /\ ~h.open
      BY <1>1, ClosesOnlyItsOwn DEF Writes
    <2>2. hist[c].open => h.open
      BY <1>1 DEF Writes
    <2>. QED  BY <2>1, <2>2
  <1>2. ASSUME NEW c \in Clients, Commit(c) \/ Abort(c)
        PROVE  /\ Histories'
               /\ \A y \in Clients : hist[y].open /\ ~hist'[y].open => y = c
    <2>1. PICK h : History(h) /\ Remembers(c, {}, h)
      BY <1>2, ClosingWritesOwn
    <2>2. /\ Histories'
          /\ \A y \in Clients \ ({} \cup {c}) : hist'[y] = hist[y]
      BY <2>1, RemembersHistories
    <2>. QED  BY <2>2
  <1>3. CASE \E c \in Clients : Edit(c)
    BY <1>1, <1>3, EditKeepsOpen
  <1>4. CASE \E c \in Clients : Mark(c)
    BY <1>1, <1>4, MarkKeepsOpen
  <1>5. CASE \E c \in Clients : Refuse(c)
    BY <1>1, <1>5, RefuseKeepsOpen
  <1>6. CASE \E c \in Clients, force \in BOOLEAN : Undo(c, force) \/ Redo(c, force)
    <2>1. PICK c \in Clients, back \in BOOLEAN, force \in BOOLEAN : Take(c, back, force)
      BY <1>6 DEF Undo, Redo
    <2>. QED  BY <1>1, <2>1, TakeKeepsOpen
  <1>7. CASE \E c \in Clients : Begin(c)
    BY <1>1, <1>7, BeginKeepsOpen
  <1>8. CASE \E c \in Clients : Commit(c) \/ Abort(c)
    BY <1>2, <1>8
  <1>9. CASE Send \/ UNCHANGED vars
    <2>1. hist' = hist
      BY <1>9 DEF Send, vars
    <2>. QED  BY <2>1 DEF Histories
  <1>10. CASE Restart
    <2>1. hist' = [c \in Clients |-> Fresh]
      BY <1>10 DEF Restart
    <2>2. Histories'
      BY <2>1, FreshIsHistory DEF Histories
    <2>. QED  BY <1>10, <2>2
  <1>. QED  BY <1>3, <1>4, <1>5, <1>6, <1>7, <1>8, <1>9, <1>10 DEF Next

\* An open transaction is kept, with what was done in it, until its own client
\* commits or aborts it or the core stops: with any number of clients, of whom
\* the server remembers as few as it likes, somebody new never costs anybody
\* theirs (clients.rs, forget_one_if_full).
THEOREM BatchesKept == Spec => BatchKept
  <1>1. Init => Histories
    BY FreshIsHistory DEF Init, Histories
  <1>2. Histories /\ [Next]_vars => Histories'
    BY StepKeepsBatches
  <1>3. Histories /\ [Next]_vars =>
          [\A c \in Clients : hist[c].open /\ ~(hist'[c].open) =>
             Commit(c) \/ Abort(c) \/ Restart]_vars
    BY StepKeepsBatches
  <1>. QED  BY <1>1, <1>2, <1>3, PTL DEF Spec, BatchKept
=============================================================================
