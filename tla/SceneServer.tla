---------------------------- MODULE SceneServer ----------------------------
(***************************************************************************)
(* The scene document and the people editing it (scene/server).  Every     *)
(* operation runs under the server's lock on a copy of the document; its   *)
(* patch is sent after the lock is given back, so two patches may go out   *)
(* in the other order.  Each client has its own undo and redo stack, its   *)
(* own mark and its own transaction.                                       *)
(*                                                                         *)
(* A record is one scene or one item; its state is the number of the edit  *)
(* that gave it that state, so two edits are never mistaken for another,   *)
(* and 0 when it is not in the document.  The document's header behaves as *)
(* a record that is never removed.                                         *)
(***************************************************************************)
EXTENDS Integers, Sequences, FiniteSets, SequencesExt

CONSTANTS
    Clients,      \* client ids
    Records,      \* ids of scenes and items
    Parent,       \* what each record hangs off, NoParent for a scene
    NoParent,
    InitRecords,  \* the records in the file at the start
    Marks,        \* labels a client may group its commands under
    Batching,     \* the clients that open transactions
    Forcing,      \* the clients that undo and redo with force
    Restarting,   \* TRUE if the core may stop and start again
    FirstPatchSeen, \* FALSE if the mirror was filled and has had no patch yet
    UndoDepth,    \* UNDO_DEPTH
    ClientsKept,  \* CLIENTS_KEPT
    MaxUnsent,    \* bound: patches between the unlock and the send at once
    MaxEdits,     \* bound: edits in one behaviour
    MaxSeq        \* bound: patches published in one run of the core

ASSUME SceneAssumption ==
    /\ Parent \in [Records -> Records \cup {NoParent}] /\ NoParent \notin Records
    /\ InitRecords \subseteq Records
    /\ \A r \in InitRecords : Parent[r] \in InitRecords \cup {NoParent}
    /\ Batching \subseteq Clients /\ Forcing \subseteq Clients
    /\ Restarting \in BOOLEAN /\ FirstPatchSeen \in BOOLEAN
    /\ UndoDepth \in Nat \ {0} /\ ClientsKept \in Nat \ {0}
    /\ MaxUnsent \in Nat /\ MaxEdits \in Nat /\ MaxSeq \in Nat \ {0}

Absent == 0
NoLabel == "none"   \* group and Patch::label when there is none
Nobody == "nobody"

VARIABLES
    doc, file,   \* Inner::doc, and the collection on disk
    seq,         \* SceneServer::seq
    known, hist, \* the clients in Histories, and the history of each
    unsent,      \* patches whose lock is given back and which are not sent yet
    mirror,      \* a page's SceneMirror: seq, records, and whether it saw a gap
    born,        \* ids given out; an id is never given out twice
    author, beneath, \* of each edit: who made it, and what was under it then
    opened,      \* the document as this run of the core opened it
    since        \* of an open transaction: the document it began on, and the
                 \* records others have touched since

vars == <<doc, file, seq, known, hist, unsent, mirror, born, author, beneath, opened, since>>

-----------------------------------------------------------------------------
(* Patches (patch.rs).                                                       *)

None == [r \in {} |-> Absent]     \* no records
Join(f, g) == [r \in DOMAIN f \cup DOMAIN g |-> IF r \in DOMAIN f THEN f[r] ELSE g[r]]
NoPatch == [added |-> None, updated |-> None, removed |-> None]
Empty(p) == p = NoPatch

\* removed holds Patch::removed_records, the states the records had.
Diff(was, is) ==
    LET changed == {r \in Records : was[r] # is[r]} IN
    [added   |-> Restrict(is, {r \in changed : was[r] = Absent}),
     updated |-> [r \in {s \in changed : was[s] # Absent /\ is[s] # Absent} |->
                     [before |-> was[r], after |-> is[r]]],
     removed |-> Restrict(was, {r \in changed : is[r] = Absent})]

Inverted(p) ==
    [added   |-> p.removed,
     updated |-> [r \in DOMAIN p.updated |->
                     [before |-> p.updated[r].after, after |-> p.updated[r].before]],
     removed |-> p.added]

Merge(p, later) ==
    LET pushed  == Join(p.added, later.added)
        added   == [r \in DOMAIN pushed |->
                      IF r \in DOMAIN later.updated THEN later.updated[r].after ELSE pushed[r]]
        mine    == [r \in DOMAIN p.updated |->
                      IF r \in DOMAIN later.updated \ DOMAIN added
                      THEN [before |-> p.updated[r].before, after |-> later.updated[r].after]
                      ELSE p.updated[r]]
        updated == Join(mine, Restrict(later.updated, DOMAIN later.updated \ DOMAIN added))
        gone    == DOMAIN later.removed
        removed == [r \in gone \ DOMAIN added |->
                      IF r \in DOMAIN updated THEN updated[r].before ELSE later.removed[r]]
        left    == Restrict(updated, DOMAIN updated \ DOMAIN removed)
    IN  [added   |-> Restrict(added, DOMAIN added \ gone),
         updated |-> Restrict(left, {r \in DOMAIN left : left[r].before # left[r].after}),
         removed |-> Join(p.removed, removed)]

\* apply() in mod.rs: header, removed, updated, added, in this order.
Apply(d, p) ==
    [r \in Records |->
        LET kept == IF r \in DOMAIN p.removed THEN Absent ELSE d[r]
            now  == IF r \in DOMAIN p.updated THEN p.updated[r].after ELSE kept
        IN  IF r \in DOMAIN p.added /\ now = Absent THEN p.added[r] ELSE now]

\* FlatDocument::to_tree: no record may hang off one that is not there.
Rebuilds(d) ==
    \A r \in Records : d[r] # Absent /\ Parent[r] # NoParent => d[Parent[r]] # Absent

\* conflict::check; a record is gone when it, or what it hung off, was removed.
Gone(d, p) ==
    {r \in DOMAIN p.updated : d[r] = Absent}
      \cup {r \in DOMAIN p.added : /\ Parent[r] # NoParent
                                   /\ d[Parent[r]] = Absent
                                   /\ Parent[r] \notin DOMAIN p.added}
ConflictsAnyThere(d, p) ==   \* mutant: a record the step removes is in the way when it is there
    Gone(d, p)
      \cup {r \in DOMAIN p.updated : d[r] # p.updated[r].before}
      \cup {r \in DOMAIN p.removed : d[r] # Absent}
ConflictsUpdatedOnly(d, p) ==   \* mutant: a record the step removes is not looked at
    Gone(d, p) \cup {r \in DOMAIN p.updated : d[r] # p.updated[r].before}
Conflicts(d, p) ==
    Gone(d, p)
      \cup {r \in DOMAIN p.updated : d[r] # p.updated[r].before}
      \cup {r \in DOMAIN p.removed : d[r] # Absent /\ d[r] # p.removed[r]}
Without(p, rs) ==
    [added   |-> Restrict(p.added, DOMAIN p.added \ rs),
     updated |-> Restrict(p.updated, DOMAIN p.updated \ rs),
     removed |-> Restrict(p.removed, DOMAIN p.removed \ rs)]

-----------------------------------------------------------------------------
(* Histories (clients.rs).  A step is an inverse patch and its label.        *)

Step(label, p) == [label |-> label, patch |-> p]
Fresh == [undo |-> <<>>, redo |-> <<>>, group |-> NoLabel,
          open |-> FALSE, batch |-> NoPatch, used |-> 0]

\* forget_one_if_full: whom Histories::of may forget to make room for c.  Of
\* those used equally long ago, the first in the table's order goes.
ForgottenAny(c) ==   \* mutant: a client in a transaction may be forgotten
    IF c \in known \/ Cardinality(known) < ClientsKept THEN {{}}
    ELSE {{x} : x \in known}
Forgotten(c) ==
    LET idle == {x \in known : ~hist[x].open}
        oldest == {x \in idle : \A y \in idle : hist[x].used <= hist[y].used}
    IN  IF c \in known \/ Cardinality(known) < ClientsKept \/ idle = {} THEN {{}}
        ELSE {{x} : x \in oldest}

\* Histories::of, with x the clients it forgot.
Recall(c, x) ==
    [y \in Clients |->
        IF y \in x THEN Fresh
        ELSE IF y = c THEN [hist[y] EXCEPT !.used = IF seq > @ THEN seq ELSE @] ELSE hist[y]]
Remembers(c, x, h) ==
    /\ known' = (known \ x) \cup {c}
    /\ hist' = [Recall(c, x) EXCEPT ![c] = h]

PushUndoUntrimmed(stack, step) == Append(stack, step)   \* mutant: the stack grows
PushUndo(stack, step) ==
    LET s == Append(stack, step) IN IF Len(s) > UndoDepth THEN Tail(s) ELSE s

\* ClientHistory::remember; the pending patches are kept folded, which is what
\* fold() makes of them at the commit or the abort.
RememberNewerLast(h, p) ==   \* mutant: the merge folds the newer inverse into the older
    LET grouped == h.group # NoLabel /\ h.undo # <<>> /\ Last(h.undo).label = h.group
        undo == IF grouped
                THEN PushUndo(Front(h.undo), Step(h.group, Merge(Last(h.undo).patch, Inverted(p))))
                ELSE PushUndo(h.undo, Step(h.group, Inverted(p)))
    IN  IF h.open THEN [h EXCEPT !.batch = Merge(@, p)]
        ELSE [h EXCEPT !.redo = <<>>, !.undo = undo]
Remember(h, p) ==
    LET grouped == h.group # NoLabel /\ h.undo # <<>> /\ Last(h.undo).label = h.group
        undo == IF grouped
                THEN PushUndo(Front(h.undo), Step(h.group, Merge(Inverted(p), Last(h.undo).patch)))
                ELSE PushUndo(h.undo, Step(h.group, Inverted(p)))
    IN  IF h.open THEN [h EXCEPT !.batch = Merge(@, p)]
        ELSE [h EXCEPT !.redo = <<>>, !.undo = undo]

-----------------------------------------------------------------------------
NotBegun == [doc |-> [r \in Records |-> Absent], theirs |-> {}]

Init ==
    /\ doc = [r \in Records |-> IF r \in InitRecords THEN 1 ELSE Absent]
    /\ file = doc /\ seq = 1 /\ unsent = {} /\ born = InitRecords
    /\ known = {} /\ hist = [c \in Clients |-> Fresh]
    /\ mirror = [seq |-> IF FirstPatchSeen THEN 1 ELSE 0, doc |-> doc, gap |-> FALSE]
    /\ author = <<Nobody>> /\ beneath = <<{}>> /\ opened = doc
    /\ since = [c \in Clients |-> NotBegun]

\* A patch takes the next number, is saved and goes out after the unlock.
PublishUnsaved(d, p) ==   \* mutant: the collection is not saved
    /\ seq < MaxSeq /\ Cardinality(unsent) < MaxUnsent /\ seq' = seq + 1
    /\ file' = file /\ unsent' = unsent \cup {[seq |-> seq + 1, patch |-> p]}
Publish(d, p) ==
    /\ seq < MaxSeq /\ Cardinality(unsent) < MaxUnsent /\ seq' = seq + 1
    /\ file' = d /\ unsent' = unsent \cup {[seq |-> seq + 1, patch |-> p]}
Quiet == UNCHANGED <<seq, file, unsent>>

\* A record and what hangs off it, however deep.
Below(r) ==
    {s \in Records : \A S \in SUBSET Records :
        r \in S /\ (\A q \in Records : Parent[q] \in S => q \in S) => s \in S}
\* What one command makes of the document: change a record, add one where its
\* parent is, or remove one with what hangs off it.
Edited(n) ==
    {[doc EXCEPT ![r] = n] : r \in {s \in Records : doc[s] # Absent}}
      \cup {[doc EXCEPT ![r] = n] :
              r \in {s \in Records \ born : Parent[s] = NoParent \/ doc[Parent[s]] # Absent}}
      \cup {[s \in Records |-> IF s \in Below(r) THEN Absent ELSE doc[s]] :
              r \in {q \in Records : doc[q] # Absent}}

Ghosts(c, d) ==
    /\ born' = born \cup {r \in Records : d[r] # Absent}
    /\ author' = Append(author, c)
    /\ beneath' = Append(beneath,
          (UNION {{doc[r]} \cup (IF doc[r] = Absent THEN {} ELSE beneath[doc[r]]) :
                   r \in {s \in Records : d[s] = Len(author) + 1}}) \ {Absent})
    /\ UNCHANGED opened
Untouched == UNCHANGED <<born, author, beneath, opened>>

\* SceneServer::edit_at
Edit(c) ==
    \E d \in Edited(Len(author) + 1), x \in Forgotten(c) :
      LET p == Diff(doc, d)
          h == Recall(c, x)[c]
      IN  /\ Len(author) < MaxEdits + 1
          /\ doc' = d
          /\ Remembers(c, x, Remember(h, p))
          /\ IF h.open THEN Quiet ELSE Publish(d, p)
          /\ Ghosts(c, d) /\ UNCHANGED mirror

\* SceneServer::mark
Mark(c) ==
    \E label \in Marks \cup {NoLabel}, x \in Forgotten(c) :
      /\ label # hist[c].group
      /\ Remembers(c, x, [Recall(c, x)[c] EXCEPT !.group = label])
      /\ Quiet /\ Untouched /\ UNCHANGED <<doc, mirror>>

-----------------------------------------------------------------------------
(* Undo and redo (undo.rs).                                                  *)

Refused(h, back, force) ==
    LET stack == IF back THEN h.undo ELSE h.redo IN
    \/ h.open
    \/ stack = <<>>
    \/ ~force /\ Conflicts(doc, Last(stack).patch) # {}
    \/ ~Rebuilds(Apply(doc, Without(Last(stack).patch, Gone(doc, Last(stack).patch))))

\* An undo that is refused, a begin inside a transaction or a commit outside one
\* leaves the asking client's history there and changes nothing else.
Refuse(c) ==
    \E x \in Forgotten(c) :
      /\ Remembers(c, x, Recall(c, x)[c])
      /\ Quiet /\ Untouched /\ UNCHANGED <<doc, mirror>>

Take(c, back, force) ==
    \E x \in Forgotten(c) :
      LET h == Recall(c, x)[c]
          step == Last(IF back THEN h.undo ELSE h.redo)
          d == Apply(doc, Without(step.patch, Gone(doc, step.patch)))
          p == Diff(doc, d)
          other == Step(step.label, Inverted(p))
      IN  /\ ~Refused(h, back, force)
          /\ doc' = d
          /\ Remembers(c, x, [h EXCEPT
                !.undo = IF back THEN Front(@) ELSE PushUndo(@, other),
                !.redo = IF back THEN Append(@, other) ELSE Front(@),
                !.group = NoLabel])
          /\ IF Empty(p) THEN Quiet ELSE Publish(d, p)
          /\ Untouched /\ UNCHANGED mirror

Undo(c, force) == Take(c, TRUE, force)
Redo(c, force) == Take(c, FALSE, force)

-----------------------------------------------------------------------------
(* Transactions (transaction.rs).                                            *)

Begin(c) ==
    \E x \in Forgotten(c) :
      LET h == Recall(c, x)[c] IN
      /\ c \in Batching /\ ~h.open
      /\ Remembers(c, x, [h EXCEPT !.open = TRUE, !.batch = NoPatch])
      /\ Quiet /\ Untouched /\ UNCHANGED <<doc, mirror>>

Closed(h) == [h EXCEPT !.open = FALSE, !.batch = NoPatch]

Commit(c) ==
    LET h == Recall(c, {})[c] IN
    /\ h.open
    /\ IF Empty(h.batch)
       THEN Remembers(c, {}, Closed(h)) /\ Quiet
       ELSE /\ Remembers(c, {}, [Closed(h) EXCEPT
                  !.redo = <<>>,
                  !.undo = PushUndo(@, Step(NoLabel, Inverted(h.batch)))])
            /\ Publish(doc, h.batch)
    /\ Untouched /\ UNCHANGED <<doc, mirror>>

\* What an abort would make of the document: the batch taken back, but for the
\* records somebody else has changed since.
Aborted(batch) ==
    LET step == Inverted(batch) IN Apply(doc, Without(step, Conflicts(doc, step)))

\* An abort whose result does not rebuild fails with the transaction closed.
Abort(c) ==
    LET h == Recall(c, {})[c]
        d == Aborted(h.batch)
        p == Diff(doc, d)
    IN  /\ h.open
        /\ Remembers(c, {}, Closed(h))
        /\ IF ~Rebuilds(d) \/ Empty(p) THEN Quiet /\ UNCHANGED doc
           ELSE doc' = d /\ Publish(d, p)
        /\ Untouched /\ UNCHANGED mirror

-----------------------------------------------------------------------------
(* The broadcast, a page's mirror (ui/kits/protocol/mirror.js), a restart.   *)

Put(d, p) ==
    [r \in Records |->
        IF r \in DOMAIN p.removed THEN Absent
        ELSE IF r \in DOMAIN p.updated THEN p.updated[r].after
        ELSE IF r \in DOMAIN p.added THEN p.added[r] ELSE d[r]]

\* The broadcast keeps the order of the sends.
ReceiveAnyOrder(m, q) ==   \* mutant: a gap in the numbers is not looked for
    IF q.seq <= m.seq THEN m
    ELSE [seq |-> q.seq, doc |-> Put(m.doc, q.patch), gap |-> m.gap]
Receive(m, q) ==
    IF q.seq <= m.seq THEN m
    ELSE [seq |-> q.seq, doc |-> Put(m.doc, q.patch),
          gap |-> m.gap \/ (m.seq > 0 /\ q.seq > m.seq + 1)]

Send ==
    \E q \in unsent :
      /\ unsent' = unsent \ {q}
      /\ mirror' = Receive(mirror, q)
      /\ Untouched /\ UNCHANGED <<doc, file, seq, known, hist>>

\* The core stops anywhere and starts on what the file holds; the page's socket
\* closes and it reads the document again.
Restart ==
    /\ Restarting /\ seq > 0
    /\ doc' = file /\ opened' = file /\ seq' = 0 /\ unsent' = {}
    /\ known' = {} /\ hist' = [c \in Clients |-> Fresh]
    /\ mirror' = [seq |-> 0, doc |-> file, gap |-> FALSE]
    /\ UNCHANGED <<file, born, author, beneath>>

\* What the transactions see of a step of c.
Witness(c) ==
    since' = [y \in Clients |->
        IF ~hist'[y].open THEN NotBegun
        ELSE IF ~hist[y].open THEN [doc |-> doc, theirs |-> {}]
        ELSE IF y = c THEN since[y]
        ELSE [doc |-> since[y].doc,
              theirs |-> since[y].theirs \cup {r \in Records : doc'[r] # doc[r]}]]

Next ==
    \/ \E c \in Clients : /\ \/ Edit(c) \/ Mark(c) \/ Refuse(c)
                             \/ \E force \in BOOLEAN :
                                   /\ force => c \in Forcing
                                   /\ Undo(c, force) \/ Redo(c, force)
                             \/ Begin(c) \/ Commit(c) \/ Abort(c)
                          /\ Witness(c)
    \/ Send /\ UNCHANGED since
    \/ Restart /\ Witness(Nobody)

Spec == Init /\ [][Next]_vars

-----------------------------------------------------------------------------
(* Properties.                                                               *)

Stamps == 0 .. MaxEdits + 1
States(f) == DOMAIN f \subseteq Records /\ \A r \in DOMAIN f : f[r] \in Stamps \ {Absent}
PatchOK(p) ==
    /\ States(p.added) /\ States(p.removed) /\ DOMAIN p.updated \subseteq Records
    /\ \A r \in DOMAIN p.updated :
         /\ p.updated[r].before \in Stamps \ {Absent} /\ p.updated[r].after \in Stamps \ {Absent}
         /\ p.updated[r].before # p.updated[r].after

\* Types.  Both stacks of a client stay within UNDO_DEPTH, the redo stack bounded
\* by the stack it came off, and no record in the document or in the file hangs
\* off one that is not there.
TypeOK ==
    /\ doc \in [Records -> Stamps] /\ file \in [Records -> Stamps]
    /\ Rebuilds(doc) /\ Rebuilds(file)
    /\ seq \in 0 .. MaxSeq /\ known \subseteq Clients
    /\ \A c \in Clients :
         /\ Len(hist[c].undo) <= UndoDepth /\ Len(hist[c].redo) <= UndoDepth
         /\ \A i \in 1 .. Len(hist[c].undo) : PatchOK(hist[c].undo[i].patch)
         /\ PatchOK(hist[c].batch)
    /\ \A q \in unsent : q.seq \in 1 .. seq /\ PatchOK(q.patch)

\* Every edit that is in d's place for a record and is not under what e has there.
Beneath(v) == IF v = Absent THEN {} ELSE {v} \cup beneath[v]
LostBetween(d, e) ==
    UNION {Beneath(d[r]) \ Beneath(e[r]) : r \in {s \in Records : d[s] # e[s]}}
OnlyTheirOwn(c) == \A n \in LostBetween(doc, doc') : author[n] = c

\* An undo that is not forced takes back the asking client's own edits and
\* nobody else's, however the edits, undos and forced undos of the others fell
\* between them (conflict.rs: it refuses rather than throw their work away).
UndoTakesOwnBack ==
    [][\A c \in Clients \ Forcing : Undo(c, FALSE) => OnlyTheirOwn(c)]_vars

\* The same of a client that has forced an undo before.  Its redo brings back
\* what somebody else did, and the undo after it takes that away unasked.
EveryUndoTakesOwnBack == [][\A c \in Clients : Undo(c, FALSE) => OnlyTheirOwn(c)]_vars

\* The same of an abort: it takes back what the client did inside the
\* transaction and leaves what somebody else changed since.
AbortTakesOwnBack == [][\A c \in Clients : Abort(c) => OnlyTheirOwn(c)]_vars

\* The records a client removed in its transaction of which what they hung off is
\* gone, or which were put back, changed and removed again.
Homeless(c) ==
    LET p == hist[c].batch
        orphans == {r \in DOMAIN p.removed :
                      Parent[r] \notin DOMAIN p.removed \cup {NoParent} /\ doc[Parent[r]] = Absent}
    IN  orphans \cup (DOMAIN p.removed \cap DOMAIN p.updated)
Blocked(c) ==
    LET p == hist[c].batch IN
    \/ \E r \in since[c].theirs : Parent[r] \in DOMAIN p.added
    \/ \E r \in DOMAIN p.removed : Parent[r] \in Homeless(c)

\* An abort that nothing blocks puts back every record, changed, added or removed
\* in the transaction, that nobody else has touched since it began; and any abort
\* leaves alone what somebody else changed last (transaction.rs:5-7).  What blocks
\* one is somebody else's record on one it would take away, or a record it would
\* put back on another that has nowhere to go: what it makes of the document then
\* need not rebuild, and it fails with the transaction gone.
AbortPutsBack ==
    [][\A c \in Clients : Abort(c) =>
         \A r \in Records :
           /\ doc[r] # Absent /\ author[doc[r]] # c => doc'[r] = doc[r]
           /\ ~Blocked(c) /\ r \notin since[c].theirs \cup Homeless(c)
                => doc'[r] = since[c].doc[r]]_vars

\* Only somebody else's record on one it takes away makes an abort fail.  A group
\* that cannot come back is taken for one that does, where what it held is put
\* back (conflict.rs:103), so this is not so.
AbortGoesThrough ==
    [][\A c \in Clients : Abort(c) =>
         \/ Rebuilds(Aborted(hist[c].batch))
         \/ \E r \in since[c].theirs : Parent[r] \in DOMAIN hist[c].batch.added]_vars

\* Once every patch is out and no transaction is open, a page that was not told
\* to read the document again shows the document the core holds.
MirrorFollows ==
    /\ unsent = {} /\ (\A c \in Clients : ~hist[c].open) /\ ~mirror.gap
    => mirror.doc = doc

\* A transaction is there, with what was done in it, until its own client
\* commits or aborts it: other clients arriving never cost anybody theirs.
BatchKept ==
    [][\A c \in Clients : hist[c].open /\ ~(hist'[c].open) =>
         Commit(c) \/ Abort(c) \/ Restart]_vars

\* What one client has on its stacks when nobody else edits: applied in turn to
\* the document without its open transaction, every step meets no conflict and
\* rebuilds, and the undo steps lead back to the document as it was opened when
\* none can have fallen off the end.
Replay(d, stack) ==
    LET back[n \in 0 .. Len(stack)] ==
          IF n = 0 THEN [doc |-> d, ok |-> TRUE]
          ELSE LET was == back[n - 1]
                   p   == stack[Len(stack) + 1 - n].patch
                   is  == Apply(was.doc, p)
               IN  [doc |-> is,
                    ok  |-> was.ok /\ Conflicts(was.doc, p) = {} /\ Rebuilds(is)]
    IN  back[Len(stack)]
Settled(c) == Apply(doc, Inverted(hist[c].batch))
HistoryRewinds ==
    \A c \in Clients :
      LET back == Replay(Settled(c), hist[c].undo) IN
      /\ back.ok /\ Replay(Settled(c), hist[c].redo).ok
      /\ UndoDepth > MaxSeq => back.doc = opened

\* A client editing alone: what is in an open transaction is not in the file yet
\* and everything else is, so a restart takes back the open transaction whole.
FileHoldsCommitted == \A c \in Clients : file = Settled(c)
=============================================================================
