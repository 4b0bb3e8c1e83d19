----------------------------- MODULE SceneTakes -----------------------------
(***************************************************************************)
(* Calls on the scene server that take more than one lock, and what they   *)
(* leave on air and in Preview: an edit and the push of the scene that is  *)
(* on air, drafts and their apply (scene/server/drafts.rs, stale.rs), a    *)
(* take of a scene (methods/program.rs), what stays armed after it         *)
(* (after_take.rs) and a draft shown in Preview (shown.rs).                *)
(*                                                                         *)
(* A connection makes one call at a time, in the steps the code makes      *)
(* between its locks and its awaits; the calls of different connections    *)
(* interleave.  Layouts are numbered: each edit makes one that was not there. *)
(* The mixer's commands are one queue with one reader, so a command takes  *)
(* effect where it is put in the queue; its answer comes in a later step.  *)
(***************************************************************************)
EXTENDS Integers, FiniteSets

CONSTANTS
    Scenes, Clients, Conns,
    ClientOf,     \* the client each connection belongs to
    Calls,        \* bound: the kinds of call each connection makes
    None,
    Modes,        \* the settings of "after take" somebody asks for
    Forcing,      \* TRUE if somebody applies with force
    MaxDrafts,    \* bound: drafts opened
    MaxLayouts,   \* bound: layouts made by edits of scenes and drafts
    MaxGone,      \* bound: scenes that are gone at a time
    MaxTakes,     \* bound: takes and cuts asked for
    MaxJoins      \* bound: connections opened again

ASSUME TakesAssumption ==
    /\ ClientOf \in [Conns -> Clients]
    /\ Calls \in [Conns -> SUBSET {"edit", "draft", "take", "arm", "show", "leave"}]
    /\ None \notin Scenes \cup Clients \cup Conns
    /\ Modes \subseteq {"same", "swap"} /\ Forcing \in BOOLEAN
    /\ {MaxDrafts, MaxLayouts, MaxGone, MaxTakes, MaxJoins} \subseteq Nat

VARIABLES
    content,        \* Inner::doc: the layout of each scene, Gone when removed
    drafts,         \* Inner::drafts: of, live, base and layout, or None
    armed,          \* Inner::preview
    shown, shownBy, \* Inner::preview_draft and preview_draft_by
    mode,           \* Inner::after_take
    air,            \* what the mixer draws: a scene and the layout it was sent
    turn,           \* the connection that has TAKE_TURN
    seated,         \* the connections with a seat in Presence
    call,           \* what each connection is in the middle of
    opened, made, taken, joined, \* counters
    lately,         \* layouts a scene to be replaced has had since its apply began
    led             \* TRUE while what is armed and on air has only been moved by takes

vars == <<content, drafts, armed, shown, shownBy, mode, air, turn, seated, call,
          opened, made, taken, joined, lately, led>>
counters == <<opened, made, taken, joined>>
preview == <<armed, shown, shownBy, mode>>

DraftIds == 1 .. MaxDrafts
Gone == 0
Layouts == 1 .. MaxLayouts + 1
Fresh == made + 2
There(s) == content[s] # Gone
Client(c) == ClientOf[c]

Rest == [at |-> "rest", scene |-> None, taking |-> FALSE, todo |-> {}, draft |-> None,
         copy |-> None, forced |-> FALSE, layout |-> Gone, was |-> None]
At(c, p) == call[c].at = p
Now(c, r) == call' = [call EXCEPT ![c] = r]
Goto(c, p) == Now(c, [call[c] EXCEPT !.at = p])
Done(c) == Now(c, Rest)
Ready(c, kind) == At(c, "rest") /\ c \in seated /\ kind \in Calls[c]

-----------------------------------------------------------------------------
(* A mixer that starts with its scenes, nothing armed and the slate on air. *)

Init ==
    /\ content = [s \in Scenes |-> 1]
    /\ drafts = [d \in DraftIds |-> None]
    /\ armed = None /\ shown = None /\ shownBy = None /\ mode = "same"
    /\ air = [scene |-> None, layout |-> Gone] /\ turn = None
    /\ seated = Conns /\ call = [c \in Conns |-> Rest]
    /\ opened = 0 /\ made = 0 /\ taken = 0 /\ joined = 0
    /\ lately = [c \in Conns |-> {}] /\ led = TRUE

\* The document has another layout for s; whoever is applying a draft of s
\* has seen it come.
Becomes(s, n) ==
    /\ content' = [content EXCEPT ![s] = n]
    /\ lately' = [c \in Conns |-> IF call[c].copy # None /\ call[c].copy.of = s
                                  THEN lately[c] \cup {n} ELSE lately[c]]

-----------------------------------------------------------------------------
(* An edit, and the push of the scene when it is on air.                   *)

Edit(c) ==
    \E s \in Scenes :
      /\ Ready(c, "edit") /\ There(s) /\ made < MaxLayouts
      /\ Becomes(s, Fresh) /\ made' = made + 1
      /\ Now(c, [Rest EXCEPT !.at = "status", !.scene = s])
      /\ UNCHANGED <<drafts, preview, air, turn, seated, opened, taken, joined, led>>

Remove(c) ==
    \E s \in Scenes :
      /\ Ready(c, "edit") /\ There(s) /\ Becomes(s, Gone)
      /\ Cardinality({t \in Scenes : ~There(t)}) < MaxGone
      /\ led' = FALSE
      /\ UNCHANGED <<drafts, preview, air, turn, seated, call, counters>>

\* reapply_if_on_air: the mixer is asked what is on air (another scene, or no
\* answer in time, ends it), then the document what the scene looks like, then
\* the mixer is sent it, which a full queue drops.
AskStatus(c) ==
    /\ At(c, "status")
    /\ \/ air.scene = call[c].scene /\ Goto(c, "look")
       \/ Done(c)
    /\ UNCHANGED <<content, drafts, preview, air, turn, seated, counters, lately, led>>

LookUnchecked(c) ==   \* mutant: a scene removed meanwhile is sent all the same
    /\ At(c, "look")
    /\ Now(c, [call[c] EXCEPT !.at = "send", !.layout = content[call[c].scene]])
    /\ UNCHANGED <<content, drafts, preview, air, turn, seated, counters, lately, led>>
Look(c) ==
    LET s == call[c].scene IN
    /\ At(c, "look")
    /\ IF There(s) THEN Now(c, [call[c] EXCEPT !.at = "send", !.layout = content[s]])
                   ELSE Done(c)
    /\ UNCHANGED <<content, drafts, preview, air, turn, seated, counters, lately, led>>

Push(c) ==
    /\ At(c, "send") /\ Done(c)
    /\ \/ /\ air' = [scene |-> call[c].scene, layout |-> call[c].layout]
          /\ led' = (led /\ air.scene = call[c].scene)
       \/ UNCHANGED <<air, led>>
    /\ UNCHANGED <<content, drafts, preview, turn, seated, counters, lately>>

-----------------------------------------------------------------------------
(* Drafts.                                                                 *)

EditBegin(c) ==
    \E s \in Scenes, live \in BOOLEAN :
      /\ Ready(c, "draft") /\ There(s) /\ opened < MaxDrafts /\ opened' = opened + 1
      /\ drafts' = [drafts EXCEPT ![opened'] =
            [of |-> s, live |-> live, base |-> content[s], layout |-> content[s]]]
      /\ UNCHANGED <<content, preview, air, turn, seated, call, made, taken, joined, lately, led>>

EditDraft(c) ==
    \E d \in DraftIds :
      /\ Ready(c, "draft") /\ drafts[d] # None /\ made < MaxLayouts /\ made' = made + 1
      /\ drafts' = [drafts EXCEPT ![d].layout = Fresh]
      /\ UNCHANGED <<content, preview, air, turn, seated, call, opened, taken, joined, lately, led>>

EditDiscard(c) ==
    \E d \in DraftIds :
      /\ Ready(c, "draft") /\ drafts[d] # None /\ drafts' = [drafts EXCEPT ![d] = None]
      /\ UNCHANGED <<content, preview, air, turn, seated, call, counters, lately, led>>

\* edit_apply works on a copy of the draft it takes here.
StartApply(c, d, rec) ==
    /\ Now(c, [rec EXCEPT !.at = IF rec.forced THEN "replace" ELSE "check",
                          !.draft = d, !.copy = drafts[d]])
    /\ lately' = [lately EXCEPT ![c] = {content[drafts[d].of]}]

EditApply(c) ==
    \E d \in DraftIds, forced \in {FALSE, Forcing} :
      /\ Ready(c, "draft") /\ drafts[d] # None
      /\ StartApply(c, d, [Rest EXCEPT !.forced = forced])
      /\ UNCHANGED <<content, drafts, preview, air, turn, seated, counters, led>>

\* After an apply, or one refused: the next draft of the take's, or the end of
\* the call, with a push when the scene is still there.
Applied(c, pushed) ==
    LET s == call[c].copy.of IN
    /\ IF call[c].taking THEN Now(c, [call[c] EXCEPT !.at = "drafts", !.draft = None, !.copy = None])
       ELSE IF pushed /\ There(s) THEN Now(c, [Rest EXCEPT !.at = "status", !.scene = s])
       ELSE Done(c)
    /\ lately' = [lately EXCEPT ![c] = {}]

\* SceneServer::stale: what the scene is now against what it was.
StaleIfThere(copy) ==   \* mutant: a scene that was removed counts as untouched
    There(copy.of) /\ content[copy.of] # copy.base
Stale(copy) == content[copy.of] # copy.base

Check(c) ==
    /\ At(c, "check")
    /\ IF Stale(call[c].copy) THEN Applied(c, FALSE) ELSE Goto(c, "replace") /\ UNCHANGED lately
    /\ UNCHANGED <<content, drafts, preview, air, turn, seated, counters, led>>

\* put_in: a scene that has gone comes back.
Replace(c) ==
    /\ At(c, "replace") /\ Becomes(call[c].copy.of, call[c].copy.layout) /\ Goto(c, "retain")
    /\ UNCHANGED <<drafts, preview, air, turn, seated, counters, led>>

Retain(c) ==
    /\ At(c, "retain") /\ drafts' = [drafts EXCEPT ![call[c].draft] = None]
    /\ Applied(c, TRUE)
    /\ UNCHANGED <<content, preview, air, turn, seated, counters, led>>

-----------------------------------------------------------------------------
(* A take of a scene.                                                      *)

Waiting(s) == {d \in DraftIds : drafts[d] # None /\ drafts[d].of = s /\ ~drafts[d].live}

TakeScene(c) ==
    \E s \in Scenes :
      /\ Ready(c, "take") /\ taken < MaxTakes /\ taken' = taken + 1
      /\ Now(c, [Rest EXCEPT !.at = "drafts", !.scene = s, !.taking = TRUE,
                             !.todo = IF There(s) THEN Waiting(s) ELSE {}])
      /\ UNCHANGED <<content, drafts, preview, air, turn, seated, opened, made, joined, lately, led>>

\* apply_drafts_of, the oldest draft first; one that has gone is passed over.
ApplyNext(c) ==
    \E d \in call[c].todo :
      LET rest == [call[c] EXCEPT !.todo = @ \ {d}] IN
      /\ At(c, "drafts") /\ \A e \in call[c].todo : d <= e
      /\ IF drafts[d] # None THEN StartApply(c, d, rest)
         ELSE Now(c, rest) /\ UNCHANGED lately
      /\ UNCHANGED <<content, drafts, preview, air, turn, seated, counters, led>>

\* placements(); a scene that is not there is refused.
Place(c) ==
    LET s == call[c].scene IN
    /\ At(c, "drafts") /\ call[c].todo = {}
    /\ IF There(s) THEN Now(c, [call[c] EXCEPT !.at = "turn", !.layout = content[s]])
                   ELSE Done(c)
    /\ UNCHANGED <<content, drafts, preview, air, turn, seated, counters, lately, led>>

\* Nothing of the scene is here, or a safety rule holds the take back.
Refuse(c) ==
    /\ At(c, "turn") /\ Done(c)
    /\ UNCHANGED <<content, drafts, preview, air, turn, seated, counters, lately, led>>

TurnAnyway(c) ==   \* mutant: the take lock is not waited for
    /\ At(c, "turn") /\ turn' = c /\ Goto(c, "before")
    /\ UNCHANGED <<content, drafts, preview, air, seated, counters, lately, led>>
Turn(c) ==
    /\ At(c, "turn") /\ turn = None /\ turn' = c /\ Goto(c, "before")
    /\ UNCHANGED <<content, drafts, preview, air, seated, counters, lately, led>>

\* on_air_scene, which finds nothing when the scene on air has gone, or when the
\* mixer does not answer in time.
Before(c) ==
    LET was == IF air.scene # None /\ There(air.scene) THEN air.scene ELSE None IN
    /\ At(c, "before")
    /\ \/ /\ Now(c, [call[c] EXCEPT !.at = "request", !.was = was])
          /\ UNCHANGED led
       \/ /\ Now(c, [call[c] EXCEPT !.at = "request", !.was = None])
          /\ led' = (led /\ was = None)
    /\ UNCHANGED <<content, drafts, preview, air, turn, seated, counters, lately>>

\* The mixer takes it and answers; or takes it too late for the caller, who has
\* gone by then; or refuses it.
Request(c) ==
    /\ At(c, "request")
    /\ \/ /\ air' = [scene |-> call[c].scene, layout |-> call[c].layout]
          /\ Goto(c, "follow") /\ UNCHANGED <<turn, led>>
       \/ /\ air' = [scene |-> call[c].scene, layout |-> call[c].layout]
          /\ Done(c) /\ turn' = None /\ led' = FALSE
       \/ UNCHANGED <<air, led>> /\ Done(c) /\ turn' = None
    /\ UNCHANGED <<content, drafts, preview, seated, counters, lately>>

\* follow_take: what is armed once s went to air in place of was.
FollowedAnything(s, was) == s   \* mutant: a scene armed to go next is taken away
Followed(s, was) ==
    IF ~There(s) THEN armed
    ELSE IF mode = "same"
    THEN IF armed = None \/ (armed # s /\ armed = was) THEN s ELSE armed
    ELSE IF was # None /\ was # s /\ armed = s /\ There(was) THEN was ELSE armed

Follow(c) ==
    /\ At(c, "follow") /\ Done(c) /\ turn' = None
    /\ armed' = Followed(call[c].scene, call[c].was)
    /\ UNCHANGED <<content, drafts, shown, shownBy, mode, air, seated, counters, lately, led>>

\* A cut to a source or to the slate waits for no turn and is not followed.
Cut(c) ==
    /\ Ready(c, "take") /\ taken < MaxTakes /\ taken' = taken + 1
    /\ air' = [scene |-> None, layout |-> Gone] /\ led' = FALSE
    /\ UNCHANGED <<content, drafts, preview, turn, seated, call, opened, made, joined, lately>>

-----------------------------------------------------------------------------
(* Preview.                                                                *)

Arm(c) ==
    \E s \in {t \in Scenes : There(t)} \cup {None} :
      /\ Ready(c, "arm") /\ armed' = s /\ led' = FALSE
      /\ IF shownBy \in {None, Client(c)} THEN shown' = None /\ shownBy' = None
         ELSE UNCHANGED <<shown, shownBy>>
      /\ UNCHANGED <<content, drafts, mode, air, turn, seated, call, counters, lately>>

SetAfterTake(c) ==
    \E m \in Modes :
      /\ Ready(c, "arm") /\ m # mode /\ mode' = m /\ led' = FALSE
      /\ UNCHANGED <<content, drafts, armed, shown, shownBy, air, turn, seated, call, counters, lately>>

ShowDraft(c) ==
    \E d \in {e \in DraftIds : drafts[e] # None} \cup {None} :
      /\ Ready(c, "show") /\ shown' = d /\ shownBy' = IF d = None THEN None ELSE Client(c)
      /\ UNCHANGED <<content, drafts, armed, mode, air, turn, seated, call, counters, lately, led>>

\* A connection ends: its seat goes, then the client's other connections are
\* looked for, then what the client shows in Preview is let go.
HangUpSeated(c) ==   \* mutant: the seat goes when everything else is done
    /\ Ready(c, "leave") /\ Goto(c, "gone")
    /\ UNCHANGED <<content, drafts, preview, air, turn, seated, counters, lately, led>>
HangUp(c) ==
    /\ Ready(c, "leave") /\ Goto(c, "gone") /\ seated' = seated \ {c}
    /\ UNCHANGED <<content, drafts, preview, air, turn, counters, lately, led>>

Present(c) ==
    /\ At(c, "gone")
    /\ Goto(c, IF \E o \in seated : Client(o) = Client(c) THEN "left" ELSE "leaving")
    /\ UNCHANGED <<content, drafts, preview, air, turn, seated, counters, lately, led>>

ClientLeft(c) ==
    /\ At(c, "leaving") /\ Goto(c, "left")
    /\ IF shownBy = Client(c) THEN shown' = None /\ shownBy' = None
       ELSE UNCHANGED <<shown, shownBy>>
    /\ UNCHANGED <<content, drafts, armed, mode, air, turn, seated, counters, lately, led>>

Join(c) ==
    /\ At(c, "left") /\ joined < MaxJoins /\ joined' = joined + 1
    /\ seated' = seated \cup {c} /\ Done(c)
    /\ UNCHANGED <<content, drafts, preview, air, turn, opened, made, taken, lately, led>>

Next ==
    \E c \in Conns :
      \/ Edit(c) \/ Remove(c) \/ AskStatus(c) \/ Look(c) \/ Push(c)
      \/ EditBegin(c) \/ EditDraft(c) \/ EditDiscard(c)
      \/ EditApply(c) \/ Check(c) \/ Replace(c) \/ Retain(c)
      \/ TakeScene(c) \/ ApplyNext(c) \/ Place(c) \/ Refuse(c) \/ Turn(c)
      \/ Before(c) \/ Request(c) \/ Follow(c) \/ Cut(c)
      \/ Arm(c) \/ SetAfterTake(c) \/ ShowDraft(c)
      \/ HangUp(c) \/ Present(c) \/ ClientLeft(c) \/ Join(c)

Spec == Init /\ [][Next]_vars

-----------------------------------------------------------------------------
(* Properties.                                                             *)

Steps == {"rest", "status", "look", "send", "check", "replace", "retain", "drafts", "turn",
          "before", "request", "follow", "gone", "leaving", "left"}
Drafted == [of : Scenes, live : BOOLEAN, base : Layouts, layout : Layouts]

\* Each variable holds what its place in the code can hold; in particular the
\* mixer is never sent a scene without its layout, the take lock is held by a
\* take, and a hold on Preview has a draft.
TypeOK ==
    /\ content \in [Scenes -> Layouts \cup {Gone}]
    /\ \A d \in DraftIds : drafts[d] \in Drafted \cup {None}
    /\ armed \in Scenes \cup {None} /\ mode \in {"same", "swap"}
    /\ shown \in DraftIds \cup {None} /\ shownBy \in Clients \cup {None}
    /\ shownBy # None => shown # None
    /\ air \in [scene : Scenes, layout : Layouts] \cup {[scene |-> None, layout |-> Gone]}
    /\ turn \in Conns \cup {None} /\ seated \subseteq Conns
    /\ turn # None => call[turn].at \in {"before", "request", "follow"}
    /\ \A c \in Conns : call[c].at \in Steps /\ call[c].todo \subseteq DraftIds

\* While nobody arms, cuts, removes a scene or has an edit bring one back, the
\* mixer answers in time and the setting is "same", what is armed is what is on
\* air whenever no take is under way: takes by name that arrive together are
\* followed in the order the mixer took them (after_take.rs:29-31), which is what
\* TAKE_TURN is for.
FollowsProgramme == led /\ turn = None /\ mode = "same" => armed = air.scene

\* A draft that somebody shows in Preview is let go when they have gone: one of
\* their connections is open, or is closing and has still to ask or to let go
\* (ws.rs:371-378).
HoldEnds == shownBy # None => \E c \in Conns : Client(c) = shownBy /\ ~At(c, "left")

\* An apply without force goes ahead only on a scene that was, at some moment
\* since the apply began, what it was when the draft was taken (drafts.rs:8-11).
\* The code does not promise that it still is: see the README.
RefusesStale ==
    \A c \in Conns : At(c, "replace") /\ ~call[c].forced => call[c].copy.base \in lately[c]

\* What the comment on reapply_if_on_air says (edit.rs:440, "A no op off air"):
\* pushing an edit never changes which scene is on air, only a take or a cut does.
EditNeverTakes ==
    [][air'.scene # air.scene => \E c \in Conns : At(c, "request") \/ Cut(c)]_vars
=============================================================================
