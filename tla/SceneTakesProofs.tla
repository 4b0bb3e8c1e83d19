-------------------------- MODULE SceneTakesProofs --------------------------
(***************************************************************************)
(* Theorems of SceneTakes for any scenes, people, connections and bounds.  *)
(***************************************************************************)
EXTENDS SceneTakes, TLAPS

-----------------------------------------------------------------------------
(* The inductive invariant.                                                *)

OnTurn == {"before", "request", "follow"}
Applying == {"check", "replace", "retain"}
Closing == {"gone", "leaving", "left"}

Call == [at : Steps, scene : Scenes \cup {None}, taking : BOOLEAN, todo : SUBSET DraftIds,
         draft : DraftIds \cup {None}, copy : Drafted \cup {None}, forced : BOOLEAN,
         layout : Layouts \cup {Gone}, was : Scenes \cup {None}]

\* What each variable holds, and how far the counters go.
Typed ==
    /\ content \in [Scenes -> Layouts \cup {Gone}]
    /\ drafts \in [DraftIds -> Drafted \cup {None}]
    /\ armed \in Scenes \cup {None} /\ mode \in {"same", "swap"}
    /\ shown \in DraftIds \cup {None} /\ shownBy \in Clients \cup {None}
    /\ shownBy # None => shown # None
    /\ air \in [scene : Scenes, layout : Layouts] \cup {[scene |-> None, layout |-> Gone]}
    /\ turn \in Conns \cup {None} /\ seated \subseteq Conns
    /\ call \in [Conns -> Call]
    /\ opened \in 0 .. MaxDrafts /\ made \in 0 .. MaxLayouts
    /\ lately \in [Conns -> SUBSET (Layouts \cup {Gone})]

\* What a connection carries at each step of its call.
Carries(c) ==
    /\ call[c].at \in {"status", "look", "send", "drafts", "turn"} \cup OnTurn => call[c].scene \in Scenes
    /\ call[c].at \in {"send", "turn"} \cup OnTurn => call[c].layout \in Layouts
    /\ call[c].at \in Applying =>
         call[c].copy \in Drafted /\ call[c].copy # None /\ call[c].draft \in DraftIds
    /\ call[c].taking => call[c].scene \in Scenes

\* One take between reading what is on air and following it.
OneTurn(c) == turn = c <=> call[c].at \in OnTurn

\* A seat is kept until the connection closes.
Seated(c) == c \in seated <=> call[c].at \notin Closing

\* An apply has seen what the scene is now, and, past its check, what the
\* draft was taken from.
Looked(c) ==
    /\ call[c].at \in {"check", "replace"} => content[call[c].copy.of] \in lately[c]
    /\ At(c, "replace") /\ ~call[c].forced => call[c].copy.base \in lately[c]

Shape == Typed /\ \A c \in Conns : Carries(c) /\ OneTurn(c) /\ Seated(c) /\ Looked(c)

-----------------------------------------------------------------------------
(* What a call becomes is a call.                                          *)

Pushing(r, s) == [r EXCEPT !.at = "status", !.scene = s]
Laid(r, p, n) == [r EXCEPT !.at = p, !.layout = n]
Asking(r, s) == [r EXCEPT !.at = "request", !.was = s]
Copied(r, p, d, copy) == [r EXCEPT !.at = p, !.draft = d, !.copy = copy]
Taking(r, s, D) == [r EXCEPT !.at = "drafts", !.scene = s, !.taking = TRUE, !.todo = D]

LEMMA RestCall == Rest \in Call /\ Rest.at = "rest" /\ ~Rest.taking /\ Gone \notin Layouts
BY DEF Rest, Call, Steps, Layouts, Gone

LEMMA MovedCall ==
  ASSUME NEW r \in Call, NEW p \in Steps
  PROVE  /\ [r EXCEPT !.at = p] \in Call /\ [r EXCEPT !.at = p].at = p
         /\ [r EXCEPT !.at = p].scene = r.scene /\ [r EXCEPT !.at = p].taking = r.taking
         /\ [r EXCEPT !.at = p].copy = r.copy /\ [r EXCEPT !.at = p].draft = r.draft
         /\ [r EXCEPT !.at = p].layout = r.layout /\ [r EXCEPT !.at = p].was = r.was
         /\ [r EXCEPT !.at = p].forced = r.forced
<1>1. [r EXCEPT !.at = p] \in Call
  BY Zenon DEF Call
<1>2. QED
  BY <1>1, SMT DEF Call

LEMMA PushingCall ==
  ASSUME NEW r \in Call, NEW s \in Scenes
  PROVE  /\ Pushing(r, s) \in Call
         /\ Pushing(r, s).at = "status" /\ Pushing(r, s).scene = s
         /\ Pushing(r, s).taking = r.taking
<1>1. "status" \in Steps
  BY DEF Steps
<1>2. Pushing(r, s) \in Call
  BY <1>1, Zenon DEF Pushing, Call
<1>3. QED
  BY <1>2, SMT DEF Pushing, Call

LEMMA LaidCall ==
  ASSUME NEW r \in Call, NEW p \in Steps, NEW n \in Layouts
  PROVE  /\ Laid(r, p, n) \in Call
         /\ Laid(r, p, n).at = p /\ Laid(r, p, n).layout = n
         /\ Laid(r, p, n).scene = r.scene /\ Laid(r, p, n).taking = r.taking
<1>1. Laid(r, p, n) \in Call
  BY Zenon DEF Laid, Call
<1>2. QED
  BY <1>1, SMT DEF Laid, Call

LEMMA AskingCall ==
  ASSUME NEW r \in Call, NEW s \in Scenes \cup {None}
  PROVE  /\ Asking(r, s) \in Call
         /\ Asking(r, s).at = "request" /\ Asking(r, s).layout = r.layout
         /\ Asking(r, s).scene = r.scene /\ Asking(r, s).taking = r.taking
         /\ Asking(r, s).was = s
<1>1. "request" \in Steps
  BY DEF Steps
<1>2. Asking(r, s) \in Call
  BY <1>1, Zenon DEF Asking, Call
<1>3. QED
  BY <1>2, SMT DEF Asking, Call

LEMMA CopiedCall ==
  ASSUME NEW r \in Call, NEW p \in Steps, NEW d \in DraftIds \cup {None},
         NEW copy \in Drafted \cup {None}
  PROVE  /\ Copied(r, p, d, copy) \in Call
         /\ Copied(r, p, d, copy).at = p /\ Copied(r, p, d, copy).draft = d
         /\ Copied(r, p, d, copy).copy = copy /\ Copied(r, p, d, copy).forced = r.forced
         /\ Copied(r, p, d, copy).scene = r.scene /\ Copied(r, p, d, copy).taking = r.taking
<1>1. Copied(r, p, d, copy) \in Call
  BY Zenon DEF Copied, Call
<1>2. QED
  BY <1>1, SMT DEF Copied, Call

LEMMA NextDraftCall ==
  ASSUME NEW r \in Call
  PROVE  /\ Copied(r, "drafts", None, None) \in Call
         /\ Copied(r, "drafts", None, None).at = "drafts"
         /\ Copied(r, "drafts", None, None).scene = r.scene
<1>1. "drafts" \in Steps /\ None \in DraftIds \cup {None} /\ None \in Drafted \cup {None}
  BY DEF Steps
<1>2. QED
  BY <1>1, CopiedCall

LEMMA TakingCall ==
  ASSUME NEW r \in Call, NEW s \in Scenes, NEW D \in SUBSET DraftIds
  PROVE  /\ Taking(r, s, D) \in Call
         /\ Taking(r, s, D).at = "drafts" /\ Taking(r, s, D).scene = s
<1>1. "drafts" \in Steps
  BY DEF Steps
<1>2. Taking(r, s, D) \in Call
  BY <1>1, Zenon DEF Taking, Call
<1>3. QED
  BY <1>2, SMT DEF Taking, Call

LEMMA TodoCall ==
  ASSUME NEW r \in Call, NEW D \in SUBSET DraftIds
  PROVE  /\ [r EXCEPT !.todo = D] \in Call
         /\ [r EXCEPT !.todo = D].at = r.at /\ [r EXCEPT !.todo = D].forced = r.forced
         /\ [r EXCEPT !.todo = D].taking = r.taking /\ [r EXCEPT !.todo = D].scene = r.scene
<1>1. [r EXCEPT !.todo = D] \in Call
  BY Zenon DEF Call
<1>2. QED
  BY <1>1, SMT DEF Call

LEMMA ForcedCall ==
  ASSUME NEW r \in Call, NEW f \in BOOLEAN
  PROVE  /\ [r EXCEPT !.forced = f] \in Call /\ [r EXCEPT !.forced = f].forced = f
         /\ [r EXCEPT !.forced = f].taking = r.taking
<1>1. [r EXCEPT !.forced = f] \in Call
  BY Zenon DEF Call
<1>2. [r EXCEPT !.forced = f].forced = f
  BY Zenon DEF Call
<1>3. QED
  BY <1>1, <1>2, SMT DEF Call


-----------------------------------------------------------------------------
(* Shape holds at first, and every step keeps it.                          *)

LEMMA ShapeInit == Init => Shape
<1> SUFFICES ASSUME Init PROVE Shape OBVIOUS
<1> USE TakesAssumption DEF Init, Rest, Steps, Drafted, DraftIds, Layouts, Gone
<1>1. Rest \in Call BY SMT DEF Call
<1>2. Typed BY <1>1, SMT DEF Typed, Call
<1>3. ASSUME NEW c \in Conns PROVE Carries(c) /\ OneTurn(c) /\ Seated(c) /\ Looked(c)
  BY SMT DEF Carries, OneTurn, Seated, Looked, OnTurn, Applying, Closing, At
<1> QED BY <1>2, <1>3 DEF Shape

LEMMA NowCall ==
  ASSUME Typed, NEW c \in Conns, NEW q \in Call, Now(c, q)
  PROVE  /\ call' \in [Conns -> Call] /\ call'[c] = q
         /\ \A k \in Conns \ {c} : call'[k] = call[k]
BY DEF Now, Typed

LEMMA EditShape == ASSUME Shape, NEW c \in Conns, Edit(c) PROVE Shape'
<1>1. Typed /\ call[c] \in Call
  BY DEF Shape, Typed
<1>2. PICK s \in Scenes :
        /\ made < MaxLayouts /\ made' = made + 1 /\ Becomes(s, Fresh) /\ c \in seated
        /\ Now(c, Pushing(Rest, s))
        /\ UNCHANGED <<drafts, preview, air, turn, seated, opened, taken, joined, led>>
        /\ turn # c
  BY TakesAssumption, Zenon DEF Edit, Pushing, Ready, At, Shape, OneTurn, OnTurn
<1>3. PICK q \in Call : Now(c, q) /\ q.at = "status" /\ q.scene = s
  BY <1>2, RestCall, PushingCall
<1>4. /\ call' \in [Conns -> Call] /\ call'[c] = q
      /\ \A k \in Conns \ {c} : call'[k] = call[k]
  BY <1>1, <1>3, NowCall
<1>5. Typed'
  BY <1>1, <1>2, <1>4, TakesAssumption, SMT
  DEF Typed, Becomes, Fresh, preview, Layouts, Gone
<1>6. ASSUME NEW k \in Conns PROVE (Carries(k) /\ OneTurn(k) /\ Seated(k) /\ Looked(k))'
  BY <1>2, <1>3, <1>4, SMT
  DEF Shape, Typed, Call, Drafted, Becomes, At, Carries, OneTurn, Seated, Looked, Closing,
      Applying, OnTurn
<1> QED BY <1>5, <1>6 DEF Shape

LEMMA LookShape == ASSUME Shape, NEW c \in Conns, Look(c) PROVE Shape'
<1>1. Typed /\ call[c] \in Call /\ call[c].scene \in Scenes
  BY DEF Shape, Typed, Look, At, Carries
<1>2. /\ call[c].at = "look"
      /\ UNCHANGED <<content, drafts, preview, air, turn, seated, counters, lately, led>>
      /\ \/ There(call[c].scene) /\ Now(c, Laid(call[c], "send", content[call[c].scene]))
         \/ Now(c, Rest)
  BY Zenon DEF Look, Laid, At, Done
<1>3. PICK q \in Call :
        /\ Now(c, q)
        /\ \/ q.at = "send" /\ q.scene = call[c].scene /\ q.layout \in Layouts
           \/ q.at = "rest" /\ ~q.taking
  <2>1. CASE Now(c, Rest)
    BY <2>1, RestCall
  <2>2. CASE There(call[c].scene) /\ Now(c, Laid(call[c], "send", content[call[c].scene]))
    <3>1. content[call[c].scene] \in Layouts /\ "send" \in Steps
      BY <1>1, <2>2 DEF Typed, There, Steps
    <3>2. QED
      BY <1>1, <2>2, <3>1, LaidCall
  <2>3. QED
    BY <1>2, <2>1, <2>2
<1>4. /\ call' \in [Conns -> Call] /\ call'[c] = q
      /\ \A k \in Conns \ {c} : call'[k] = call[k]
  BY <1>1, <1>3, NowCall
<1>5. Typed'
  BY <1>1, <1>2, <1>4, SMT DEF Typed, preview, counters
<1>6. ASSUME NEW k \in Conns PROVE (Carries(k) /\ OneTurn(k) /\ Seated(k) /\ Looked(k))'
  BY <1>1, <1>2, <1>3, <1>4, SMT
  DEF Shape, At, Carries, OneTurn, Seated, Looked, Closing, Applying, OnTurn
<1> QED BY <1>5, <1>6 DEF Shape

LEMMA PlaceShape == ASSUME Shape, NEW c \in Conns, Place(c) PROVE Shape'
<1>1. Typed /\ call[c] \in Call /\ call[c].scene \in Scenes
  BY DEF Shape, Typed, Place, At, Carries
<1>2. /\ call[c].at = "drafts"
      /\ UNCHANGED <<content, drafts, preview, air, turn, seated, counters, lately, led>>
      /\ \/ There(call[c].scene) /\ Now(c, Laid(call[c], "turn", content[call[c].scene]))
         \/ Now(c, Rest)
  BY Zenon DEF Place, Laid, At, Done
<1>3. PICK q \in Call :
        /\ Now(c, q)
        /\ \/ q.at = "turn" /\ q.scene = call[c].scene /\ q.layout \in Layouts
           \/ q.at = "rest" /\ ~q.taking
  <2>1. CASE Now(c, Rest)
    BY <2>1, RestCall
  <2>2. CASE There(call[c].scene) /\ Now(c, Laid(call[c], "turn", content[call[c].scene]))
    <3>1. content[call[c].scene] \in Layouts /\ "turn" \in Steps
      BY <1>1, <2>2 DEF Typed, There, Steps
    <3>2. QED
      BY <1>1, <2>2, <3>1, LaidCall
  <2>3. QED
    BY <1>2, <2>1, <2>2
<1>4. /\ call' \in [Conns -> Call] /\ call'[c] = q
      /\ \A k \in Conns \ {c} : call'[k] = call[k]
  BY <1>1, <1>3, NowCall
<1>5. Typed'
  BY <1>1, <1>2, <1>4, SMT DEF Typed, preview, counters
<1>6. ASSUME NEW k \in Conns PROVE (Carries(k) /\ OneTurn(k) /\ Seated(k) /\ Looked(k))'
  BY <1>1, <1>2, <1>3, <1>4, SMT
  DEF Shape, At, Carries, OneTurn, Seated, Looked, Closing, Applying, OnTurn
<1> QED BY <1>5, <1>6 DEF Shape

LEMMA EditDraftShape == ASSUME Shape, NEW c \in Conns, EditDraft(c) PROVE Shape'
<1>1. Typed
  BY DEF Shape
<1>2. PICK d \in DraftIds :
        /\ drafts[d] # None /\ made < MaxLayouts /\ made' = made + 1
        /\ drafts' = [drafts EXCEPT ![d].layout = Fresh]
        /\ UNCHANGED <<content, preview, air, turn, seated, call, opened, taken, joined, lately, led>>
  BY DEF EditDraft
<1>3. PICK old \in Drafted : old = drafts[d]
  BY <1>1, <1>2 DEF Typed
<1>4. Fresh \in Layouts /\ made' \in 0 .. MaxLayouts
  BY <1>1, <1>2, TakesAssumption, SMT DEF Typed, Fresh, Layouts
<1>5. [old EXCEPT !.layout = Fresh] \in Drafted
  BY <1>4, Zenon DEF Drafted
<1>6. drafts' = [drafts EXCEPT ![d] = [old EXCEPT !.layout = Fresh]]
  BY <1>2, <1>3, Zenon
<1>7. drafts' \in [DraftIds -> Drafted \cup {None}]
  BY <1>1, <1>5, <1>6, Zenon DEF Typed
<1>8. Typed'
  BY <1>1, <1>2, <1>4, <1>7, SMT DEF Typed, preview
<1>9. ASSUME NEW k \in Conns PROVE (Carries(k) /\ OneTurn(k) /\ Seated(k) /\ Looked(k))'
  BY <1>2, SMT DEF Shape, At, Carries, OneTurn, Seated, Looked
<1> QED BY <1>8, <1>9 DEF Shape

LEMMA EditApplyShape == ASSUME Shape, NEW c \in Conns, EditApply(c) PROVE Shape'
<1>1. Typed /\ call[c] \in Call /\ call[c].at = "rest" /\ c \in seated
  BY DEF Shape, Typed, EditApply, Ready, At
<1>2. PICK d \in DraftIds, forced \in BOOLEAN :
        /\ drafts[d] # None /\ StartApply(c, d, [Rest EXCEPT !.forced = forced])
        /\ UNCHANGED <<content, drafts, preview, air, turn, seated, counters, led>>
  BY TakesAssumption DEF EditApply
<1>3. PICK r \in Call : r = [Rest EXCEPT !.forced = forced] /\ ~r.taking
  BY RestCall, ForcedCall
<1>4. /\ Now(c, Copied(r, IF r.forced THEN "replace" ELSE "check", d, drafts[d]))
      /\ lately' = [lately EXCEPT ![c] = {content[drafts[d].of]}]
  BY <1>2, <1>3, Zenon DEF StartApply, Copied
<1>5. drafts[d] \in Drafted /\ "replace" \in Steps /\ "check" \in Steps
  BY <1>1, <1>2 DEF Typed, Steps
<1>6. PICK q \in Call :
        /\ Now(c, q) /\ q.at \in {"check", "replace"} /\ (q.at = "replace" => q.forced)
        /\ q.draft = d /\ q.copy = drafts[d] /\ ~q.taking
  <2>1. CASE r.forced
    <3>1. Now(c, Copied(r, "replace", d, drafts[d]))
      BY <1>4, <2>1
    <3>2. PICK q \in Call :
            /\ q = Copied(r, "replace", d, drafts[d]) /\ q.at = "replace" /\ q.forced = r.forced
            /\ q.draft = d /\ q.copy = drafts[d] /\ q.taking = r.taking
      BY <1>5, CopiedCall
    <3>3. QED
      BY <1>3, <2>1, <3>1, <3>2
  <2>2. CASE ~r.forced
    <3>1. Now(c, Copied(r, "check", d, drafts[d]))
      BY <1>4, <2>2
    <3>2. PICK q \in Call :
            /\ q = Copied(r, "check", d, drafts[d]) /\ q.at = "check"
            /\ q.draft = d /\ q.copy = drafts[d] /\ q.taking = r.taking
      BY <1>5, CopiedCall
    <3>3. QED
      BY <1>3, <3>1, <3>2
  <2>3. QED
    BY <2>1, <2>2
<1>7. /\ call' \in [Conns -> Call] /\ call'[c] = q
      /\ \A k \in Conns \ {c} : call'[k] = call[k]
  BY <1>1, <1>6, NowCall
<1>8. content[drafts[d].of] \in Layouts \cup {Gone}
  BY <1>1, <1>5 DEF Typed, Drafted
<1>9. Typed'
  <2>1. lately' \in [Conns -> SUBSET (Layouts \cup {Gone})]
    BY <1>1, <1>4, <1>8 DEF Typed
  <2>2. QED
    BY <1>1, <1>2, <1>7, <2>1, SMT DEF Typed, preview, counters
<1>10. ASSUME NEW k \in Conns PROVE (Carries(k) /\ OneTurn(k) /\ Seated(k) /\ Looked(k))'
  BY <1>1, <1>2, <1>4, <1>5, <1>6, <1>7, SMT
  DEF Shape, Typed, At, Carries, OneTurn, Seated, Looked, Closing, Applying, OnTurn
<1> QED BY <1>9, <1>10 DEF Shape

LEMMA CheckShape == ASSUME Shape, NEW c \in Conns, Check(c) PROVE Shape'
<1>1. /\ Typed /\ call[c] \in Call /\ call[c].at = "check" /\ call[c].copy \in Drafted
      /\ call[c].copy # None /\ call[c].draft \in DraftIds
      /\ call[c].taking => call[c].scene \in Scenes
  BY DEF Shape, Typed, Check, At, Carries, Applying
<1>2. /\ UNCHANGED <<content, drafts, preview, air, turn, seated, counters, led>>
      /\ \/ /\ ~Stale(call[c].copy) /\ Goto(c, "replace") /\ lately' = lately
         \/ /\ lately' = [lately EXCEPT ![c] = {}]
            /\ \/ call[c].taking /\ Now(c, Copied(call[c], "drafts", None, None))
               \/ Now(c, Rest)
  BY Zenon DEF Check, Applied, Copied, Done
<1>3. PICK q \in Call :
        /\ Now(c, q)
        /\ \/ /\ ~Stale(call[c].copy) /\ q.at = "replace" /\ lately' = lately
              /\ q.copy = call[c].copy /\ q.draft = call[c].draft
              /\ q.taking => q.scene \in Scenes
           \/ /\ lately' = [lately EXCEPT ![c] = {}]
              /\ \/ q.at = "drafts" /\ q.scene \in Scenes
                 \/ q.at = "rest" /\ ~q.taking
  <2>1. CASE /\ ~Stale(call[c].copy) /\ Goto(c, "replace") /\ lately' = lately
    <3>1. "replace" \in Steps
      BY DEF Steps
    <3>2. PICK q \in Call : /\ q = [call[c] EXCEPT !.at = "replace"]
                            /\ q.at = "replace" /\ q.copy = call[c].copy
                            /\ q.draft = call[c].draft /\ q.taking = call[c].taking
                            /\ q.scene = call[c].scene
      BY <1>1, <3>1, MovedCall
    <3>3. QED
      BY <1>1, <2>1, <3>2 DEF Goto
  <2>2. CASE lately' = [lately EXCEPT ![c] = {}] /\ Now(c, Rest)
    BY <2>2, RestCall
  <2>3. CASE /\ lately' = [lately EXCEPT ![c] = {}] /\ call[c].taking
             /\ Now(c, Copied(call[c], "drafts", None, None))
    BY <1>1, <2>3, NextDraftCall
  <2>4. QED
    BY <1>2, <2>1, <2>2, <2>3
<1>4. /\ call' \in [Conns -> Call] /\ call'[c] = q
      /\ \A k \in Conns \ {c} : call'[k] = call[k]
  BY <1>1, <1>3, NowCall
<1>5. Typed'
  <2>1. lately' \in [Conns -> SUBSET (Layouts \cup {Gone})]
    BY <1>1, <1>3 DEF Typed
  <2>2. QED
    BY <1>1, <1>2, <1>4, <2>1, SMT DEF Typed, preview, counters
<1>6. ASSUME NEW k \in Conns PROVE (Carries(k) /\ OneTurn(k) /\ Seated(k) /\ Looked(k))'
  BY <1>1, <1>2, <1>3, <1>4, SMT
  DEF Shape, Typed, Stale, At, Carries, OneTurn, Seated, Looked, Closing, Applying, OnTurn
<1> QED BY <1>5, <1>6 DEF Shape

LEMMA ReplaceShape == ASSUME Shape, NEW c \in Conns, Replace(c) PROVE Shape'
<1>1. /\ Typed /\ call[c] \in Call /\ call[c].at = "replace" /\ call[c].copy \in Drafted
      /\ call[c].copy # None /\ call[c].draft \in DraftIds
      /\ call[c].taking => call[c].scene \in Scenes
  BY DEF Shape, Typed, Replace, At, Carries, Applying
<1>2. PICK s \in Scenes, n \in Layouts : s = call[c].copy.of /\ n = call[c].copy.layout
  BY <1>1 DEF Drafted
<1>3. /\ Becomes(s, n) /\ Goto(c, "retain")
      /\ UNCHANGED <<drafts, preview, air, turn, seated, counters, led>>
  BY <1>2 DEF Replace
<1>4. PICK q \in Call :
        /\ Now(c, q) /\ q.at = "retain" /\ q.copy = call[c].copy /\ q.draft = call[c].draft
        /\ q.taking => q.scene \in Scenes
  <2>1. "retain" \in Steps
    BY DEF Steps
  <2>2. PICK q \in Call : /\ q = [call[c] EXCEPT !.at = "retain"]
                          /\ q.at = "retain" /\ q.copy = call[c].copy
                          /\ q.draft = call[c].draft /\ q.taking = call[c].taking
                          /\ q.scene = call[c].scene
    BY <1>1, <2>1, MovedCall
  <2>3. QED
    BY <1>1, <1>3, <2>2 DEF Goto
<1>5. /\ call' \in [Conns -> Call] /\ call'[c] = q
      /\ \A k \in Conns \ {c} : call'[k] = call[k]
  BY <1>1, <1>4, NowCall
<1>6. Typed'
  BY <1>1, <1>3, <1>5, SMT DEF Typed, Becomes, preview, counters
<1>7. ASSUME NEW k \in Conns PROVE (Carries(k) /\ OneTurn(k) /\ Seated(k) /\ Looked(k))'
  BY <1>1, <1>3, <1>4, <1>5, SMT
  DEF Shape, Typed, Drafted, Becomes, At, Carries, OneTurn, Seated, Looked, Closing, Applying, OnTurn
<1> QED BY <1>6, <1>7 DEF Shape

LEMMA RetainShape == ASSUME Shape, NEW c \in Conns, Retain(c) PROVE Shape'
<1>1. /\ Typed /\ call[c] \in Call /\ call[c].at = "retain" /\ call[c].copy \in Drafted
      /\ call[c].taking => call[c].scene \in Scenes
  BY DEF Shape, Typed, Retain, At, Carries, Applying
<1>2. /\ drafts' = [drafts EXCEPT ![call[c].draft] = None]
      /\ UNCHANGED <<content, preview, air, turn, seated, counters, led>>
      /\ lately' = [lately EXCEPT ![c] = {}]
      /\ \/ call[c].taking /\ Now(c, Copied(call[c], "drafts", None, None))
         \/ Now(c, Pushing(Rest, call[c].copy.of))
         \/ Now(c, Rest)
  BY Zenon DEF Retain, Applied, Copied, Pushing, Done
<1>3. PICK q \in Call :
        /\ Now(c, q)
        /\ \/ q.at = "drafts" /\ q.scene \in Scenes
           \/ q.at = "status" /\ q.scene \in Scenes /\ ~q.taking
           \/ q.at = "rest" /\ ~q.taking
  <2>1. CASE Now(c, Rest)
    BY <2>1, RestCall
  <2>2. CASE Now(c, Pushing(Rest, call[c].copy.of))
    <3>1. call[c].copy.of \in Scenes
      BY <1>1 DEF Drafted
    <3>2. QED
      BY <2>2, <3>1, RestCall, PushingCall
  <2>3. CASE call[c].taking /\ Now(c, Copied(call[c], "drafts", None, None))
    BY <1>1, <2>3, NextDraftCall
  <2>4. QED
    BY <1>2, <2>1, <2>2, <2>3
<1>4. /\ call' \in [Conns -> Call] /\ call'[c] = q
      /\ \A k \in Conns \ {c} : call'[k] = call[k]
  BY <1>1, <1>3, NowCall
<1>5. Typed'
  <2>1. /\ lately' \in [Conns -> SUBSET (Layouts \cup {Gone})]
        /\ drafts' \in [DraftIds -> Drafted \cup {None}]
    BY <1>1, <1>2 DEF Typed
  <2>2. QED
    BY <1>1, <1>2, <1>4, <2>1, SMT DEF Typed, preview, counters
<1>6. ASSUME NEW k \in Conns PROVE (Carries(k) /\ OneTurn(k) /\ Seated(k) /\ Looked(k))'
  BY <1>1, <1>2, <1>3, <1>4, SMT
  DEF Shape, Typed, At, Carries, OneTurn, Seated, Looked, Closing, Applying, OnTurn
<1> QED BY <1>5, <1>6 DEF Shape

LEMMA TakeSceneShape == ASSUME Shape, NEW c \in Conns, TakeScene(c) PROVE Shape'
<1>1. Typed /\ call[c] \in Call /\ call[c].at = "rest" /\ c \in seated
  BY DEF Shape, Typed, TakeScene, Ready, At
<1>2. PICK s \in Scenes :
        /\ Now(c, Taking(Rest, s, IF There(s) THEN Waiting(s) ELSE {}))
        /\ UNCHANGED <<content, drafts, preview, air, turn, seated, opened, made, joined, lately, led>>
  BY Zenon DEF TakeScene, Taking
<1>3. (IF There(s) THEN Waiting(s) ELSE {}) \in SUBSET DraftIds
  BY DEF Waiting
<1>4. PICK q \in Call : Now(c, q) /\ q.at = "drafts" /\ q.scene = s
  BY <1>2, <1>3, RestCall, TakingCall
<1>5. /\ call' \in [Conns -> Call] /\ call'[c] = q
      /\ \A k \in Conns \ {c} : call'[k] = call[k]
  BY <1>1, <1>4, NowCall
<1>6. Typed'
  BY <1>1, <1>2, <1>5, SMT DEF Typed, preview
<1>7. ASSUME NEW k \in Conns PROVE (Carries(k) /\ OneTurn(k) /\ Seated(k) /\ Looked(k))'
  BY <1>1, <1>2, <1>4, <1>5, SMT
  DEF Shape, Typed, At, Carries, OneTurn, Seated, Looked, Closing, Applying, OnTurn
<1> QED BY <1>6, <1>7 DEF Shape

LEMMA ApplyNextShape == ASSUME Shape, NEW c \in Conns, ApplyNext(c) PROVE Shape'
<1>1. PICK d \in call[c].todo :
        LET rest == [call[c] EXCEPT !.todo = @ \ {d}] IN
        /\ At(c, "drafts")
        /\ \/ drafts[d] # None /\ StartApply(c, d, rest)
           \/ Now(c, rest) /\ UNCHANGED lately
        /\ UNCHANGED <<content, drafts, preview, air, turn, seated, counters, led>>
  BY Zenon DEF ApplyNext
<1>2. /\ Typed /\ call[c] \in Call /\ call[c].at = "drafts" /\ d \in DraftIds
      /\ call[c].scene \in Scenes /\ call[c].todo \ {d} \in SUBSET DraftIds
  BY <1>1 DEF Shape, Typed, At, Carries, Call
<1>3. PICK r \in Call : /\ r = [call[c] EXCEPT !.todo = @ \ {d}]
                        /\ r.at = "drafts" /\ r.scene \in Scenes
  <2>1. \A r \in Call, D \in SUBSET DraftIds :
          /\ [r EXCEPT !.todo = D] \in Call
          /\ [r EXCEPT !.todo = D].at = r.at /\ [r EXCEPT !.todo = D].scene = r.scene
    BY TodoCall
  <2>2. /\ [call[c] EXCEPT !.todo = @ \ {d}] \in Call
        /\ [call[c] EXCEPT !.todo = @ \ {d}].at = "drafts"
        /\ [call[c] EXCEPT !.todo = @ \ {d}].scene = call[c].scene
    BY <1>2, <2>1, Zenon
  <2>3. QED
    BY <1>2, <2>2
<1>4. /\ \/ /\ drafts[d] # None
            /\ Now(c, Copied(r, IF r.forced THEN "replace" ELSE "check", d, drafts[d]))
            /\ lately' = [lately EXCEPT ![c] = {content[drafts[d].of]}]
         \/ Now(c, r) /\ lately' = lately
  BY <1>1, <1>3, Zenon DEF StartApply, Copied
<1>5. PICK q \in Call :
        /\ Now(c, q) /\ q.scene \in Scenes
        /\ \/ q.at = "drafts" /\ lately' = lately
           \/ /\ q.at \in {"check", "replace"} /\ (q.at = "replace" => q.forced)
              /\ q.draft = d /\ q.copy = drafts[d] /\ drafts[d] \in Drafted /\ drafts[d] # None
              /\ lately' = [lately EXCEPT ![c] = {content[drafts[d].of]}]
  <2>1. CASE Now(c, r) /\ lately' = lately
    BY <1>3, <2>1
  <2> DEFINE p == IF r.forced THEN "replace" ELSE "check"
  <2>2. CASE /\ drafts[d] # None /\ Now(c, Copied(r, p, d, drafts[d]))
             /\ lately' = [lately EXCEPT ![c] = {content[drafts[d].of]}]
    <3>1. /\ drafts[d] \in Drafted /\ p \in Steps /\ p \in {"check", "replace"}
          /\ p = "replace" => r.forced
      BY <1>2, <2>2 DEF Typed, Steps
    <3> HIDE DEF p
    <3>2. PICK q \in Call :
            /\ q = Copied(r, p, d, drafts[d]) /\ q.at = p /\ q.forced = r.forced
            /\ q.draft = d /\ q.copy = drafts[d] /\ q.scene = r.scene
      BY <1>2, <3>1, CopiedCall
    <3>3. QED
      BY <1>3, <2>2, <3>1, <3>2
  <2>3. QED
    BY <1>4, <2>1, <2>2
<1>6. /\ call' \in [Conns -> Call] /\ call'[c] = q
      /\ \A k \in Conns \ {c} : call'[k] = call[k]
  BY <1>2, <1>5, NowCall
<1>7. Typed'
  <2>1. lately' \in [Conns -> SUBSET (Layouts \cup {Gone})]
    <3>1. drafts[d] \in Drafted => content[drafts[d].of] \in Layouts \cup {Gone}
      BY <1>2 DEF Typed, Drafted
    <3>2. QED
      BY <1>2, <1>5, <3>1 DEF Typed
  <2>2. QED
    BY <1>1, <1>2, <1>6, <2>1, SMT DEF Typed, preview, counters
<1>8. ASSUME NEW k \in Conns PROVE (Carries(k) /\ OneTurn(k) /\ Seated(k) /\ Looked(k))'
  BY <1>1, <1>2, <1>5, <1>6, SMT
  DEF Shape, Typed, At, Carries, OneTurn, Seated, Looked, Closing, Applying, OnTurn
<1> QED BY <1>7, <1>8 DEF Shape

LEMMA BeforeShape == ASSUME Shape, NEW c \in Conns, Before(c) PROVE Shape'
<1>1. Typed /\ call[c] \in Call /\ call[c].at = "before"
  BY DEF Shape, Typed, Before, At
<1>2. PICK s \in Scenes \cup {None} :
        /\ Now(c, Asking(call[c], s))
        /\ UNCHANGED <<content, drafts, preview, air, turn, seated, counters, lately>>
  <2>1. air.scene \in Scenes \cup {None}
    BY <1>1 DEF Typed
  <2>2. QED
    BY <2>1, Zenon DEF Before, Asking
<1>3. PICK q \in Call : /\ Now(c, q) /\ q.at = "request" /\ q.scene = call[c].scene
                        /\ q.layout = call[c].layout /\ q.taking = call[c].taking
  BY <1>1, <1>2, AskingCall
<1>4. /\ call' \in [Conns -> Call] /\ call'[c] = q
      /\ \A k \in Conns \ {c} : call'[k] = call[k]
  BY <1>1, <1>3, NowCall
<1>5. Typed'
  BY <1>1, <1>2, <1>4, SMT DEF Typed, preview, counters
<1>6. ASSUME NEW k \in Conns PROVE (Carries(k) /\ OneTurn(k) /\ Seated(k) /\ Looked(k))'
  BY <1>1, <1>2, <1>3, <1>4, SMT
  DEF Shape, Typed, At, Carries, OneTurn, Seated, Looked, Closing, Applying, OnTurn
<1> QED BY <1>5, <1>6 DEF Shape

LEMMA TurnShape == ASSUME Shape, NEW c \in Conns, Turn(c) PROVE Shape'
<1>1. /\ Typed /\ call[c] \in Call /\ call[c].at = "turn" /\ turn = None /\ turn' = c
      /\ Goto(c, "before")
      /\ UNCHANGED <<content, drafts, preview, air, seated, counters, lately, led>>
  BY DEF Shape, Typed, Turn, At
<1>2. PICK q \in Call : /\ Now(c, q) /\ q.at = "before" /\ q.scene = call[c].scene
                        /\ q.layout = call[c].layout /\ q.taking = call[c].taking
  <2>1. "before" \in Steps
    BY DEF Steps
  <2>2. QED
    BY <1>1, <2>1, MovedCall DEF Goto
<1>3. /\ call' \in [Conns -> Call] /\ call'[c] = q
      /\ \A k \in Conns \ {c} : call'[k] = call[k]
  BY <1>1, <1>2, NowCall
<1>4. Typed'
  BY <1>1, <1>3, SMT DEF Typed, preview, counters
<1>5. ASSUME NEW k \in Conns PROVE (Carries(k) /\ OneTurn(k) /\ Seated(k) /\ Looked(k))'
  BY <1>1, <1>2, <1>3, TakesAssumption, SMT
  DEF Shape, Typed, At, Carries, OneTurn, Seated, Looked, Closing, Applying, OnTurn
<1> QED BY <1>4, <1>5 DEF Shape

LEMMA RemoveShape == ASSUME Shape, NEW c \in Conns, Remove(c) PROVE Shape'
<1>1. Typed /\ call[c] \in Call
  BY DEF Shape, Typed
<1>2. call' \in [Conns -> Call]
  BY <1>1, RestCall, SMT
  DEF Remove, Becomes, There, Ready, preview, counters, At, Typed, Call, Steps
<1>3. Typed'
  BY <1>1, <1>2, RestCall, TakesAssumption, SMT
  DEF Remove, Becomes, There, Ready, preview, counters, At, Shape, Typed, Carries, Call,
      OnTurn, Drafted, Layouts, DraftIds, Gone
<1>4. ASSUME NEW k \in Conns \ {c} PROVE (Carries(k) /\ OneTurn(k) /\ Seated(k) /\ Looked(k))'
  BY <1>1, TakesAssumption, SMT
  DEF Remove, Becomes, There, Ready, preview, counters, At, Shape, Typed, Drafted, Carries,
      OneTurn, Seated, Looked, Closing, Applying, OnTurn
<1>5. (Carries(c) /\ OneTurn(c) /\ Seated(c) /\ Looked(c))'
  BY <1>1, RestCall, TakesAssumption, SMT
  DEF Remove, Becomes, There, Ready, preview, counters, At, Shape, Typed, Call, Drafted,
      Carries, OneTurn, Seated, Looked, Closing, Applying, OnTurn
<1> QED BY <1>3, <1>4, <1>5 DEF Shape

LEMMA AskStatusShape == ASSUME Shape, NEW c \in Conns, AskStatus(c) PROVE Shape'
<1>1. Typed /\ call[c] \in Call
  BY DEF Shape, Typed
<1>2. call' \in [Conns -> Call]
  BY <1>1, RestCall, SMT
  DEF AskStatus, At, Goto, Done, preview, counters, Now, Typed, Call, Steps
<1>3. Typed'
  BY <1>1, <1>2, RestCall, TakesAssumption, SMT
  DEF AskStatus, At, Goto, Done, preview, counters, Now, Shape, Typed, Carries, Call,
      OnTurn, Drafted
<1>4. ASSUME NEW k \in Conns \ {c} PROVE (Carries(k) /\ OneTurn(k) /\ Seated(k) /\ Looked(k))'
  BY <1>1, TakesAssumption, SMT
  DEF AskStatus, At, Goto, Done, preview, counters, Now, Rest, Shape, Typed, Drafted,
      Carries, OneTurn, Seated, Looked, Closing, Applying, OnTurn
<1>5. (Carries(c) /\ OneTurn(c) /\ Seated(c) /\ Looked(c))'
  BY <1>1, RestCall, TakesAssumption, SMT
  DEF AskStatus, At, Goto, Done, preview, counters, Now, Rest, Shape, Typed, Call, Drafted,
      Carries, OneTurn, Seated, Looked, Closing, Applying, OnTurn
<1> QED BY <1>3, <1>4, <1>5 DEF Shape

LEMMA PushShape == ASSUME Shape, NEW c \in Conns, Push(c) PROVE Shape'
<1>1. Typed /\ call[c] \in Call
  BY DEF Shape, Typed
<1>2. call' \in [Conns -> Call]
  BY <1>1, RestCall, SMT
  DEF Push, At, Done, preview, counters, Now, Typed, Call, Steps
<1>3. Typed'
  BY <1>1, <1>2, RestCall, TakesAssumption, SMT
  DEF Push, At, Done, preview, counters, Now, Shape, Typed, Carries, Call, OnTurn, Drafted
<1>4. ASSUME NEW k \in Conns \ {c} PROVE (Carries(k) /\ OneTurn(k) /\ Seated(k) /\ Looked(k))'
  BY <1>1, TakesAssumption, SMT
  DEF Push, At, Done, preview, counters, Now, Rest, Shape, Typed, Drafted, Carries,
      OneTurn, Seated, Looked, Closing, Applying, OnTurn
<1>5. (Carries(c) /\ OneTurn(c) /\ Seated(c) /\ Looked(c))'
  BY <1>1, RestCall, TakesAssumption, SMT
  DEF Push, At, Done, preview, counters, Now, Rest, Shape, Typed, Call, Drafted, Carries,
      OneTurn, Seated, Looked, Closing, Applying, OnTurn
<1> QED BY <1>3, <1>4, <1>5 DEF Shape

LEMMA EditBeginShape == ASSUME Shape, NEW c \in Conns, EditBegin(c) PROVE Shape'
<1>1. Typed /\ call[c] \in Call
  BY DEF Shape, Typed
<1>2. call' \in [Conns -> Call]
  BY <1>1, RestCall, SMT
  DEF EditBegin, There, Ready, preview, At, Typed, Call, Steps
<1>3. Typed'
  BY <1>1, <1>2, RestCall, TakesAssumption, SMT
  DEF EditBegin, There, Ready, preview, At, Shape, Typed, Carries, Call, OnTurn, Drafted,
      Layouts, DraftIds, Gone
<1>4. ASSUME NEW k \in Conns \ {c} PROVE (Carries(k) /\ OneTurn(k) /\ Seated(k) /\ Looked(k))'
  BY <1>1, TakesAssumption, SMT
  DEF EditBegin, There, Ready, preview, At, Shape, Typed, Drafted, Carries, OneTurn,
      Seated, Looked, Closing, Applying, OnTurn
<1>5. (Carries(c) /\ OneTurn(c) /\ Seated(c) /\ Looked(c))'
  BY <1>1, RestCall, TakesAssumption, SMT
  DEF EditBegin, There, Ready, preview, At, Shape, Typed, Call, Drafted, Carries, OneTurn,
      Seated, Looked, Closing, Applying, OnTurn
<1> QED BY <1>3, <1>4, <1>5 DEF Shape

LEMMA EditDiscardShape == ASSUME Shape, NEW c \in Conns, EditDiscard(c) PROVE Shape'
<1>1. Typed /\ call[c] \in Call
  BY DEF Shape, Typed
<1>2. call' \in [Conns -> Call]
  BY <1>1, RestCall, SMT
  DEF EditDiscard, Ready, preview, counters, At, Typed, Call, Steps
<1>3. Typed'
  BY <1>1, <1>2, RestCall, TakesAssumption, SMT
  DEF EditDiscard, Ready, preview, counters, At, Shape, Typed, Carries, Call, OnTurn,
      Drafted
<1>4. ASSUME NEW k \in Conns \ {c} PROVE (Carries(k) /\ OneTurn(k) /\ Seated(k) /\ Looked(k))'
  BY <1>1, TakesAssumption, SMT
  DEF EditDiscard, Ready, preview, counters, At, Shape, Typed, Drafted, Carries, OneTurn,
      Seated, Looked, Closing, Applying, OnTurn
<1>5. (Carries(c) /\ OneTurn(c) /\ Seated(c) /\ Looked(c))'
  BY <1>1, RestCall, TakesAssumption, SMT
  DEF EditDiscard, Ready, preview, counters, At, Shape, Typed, Call, Drafted, Carries,
      OneTurn, Seated, Looked, Closing, Applying, OnTurn
<1> QED BY <1>3, <1>4, <1>5 DEF Shape

LEMMA RefuseShape == ASSUME Shape, NEW c \in Conns, Refuse(c) PROVE Shape'
<1>1. Typed /\ call[c] \in Call
  BY DEF Shape, Typed
<1>2. call' \in [Conns -> Call]
  BY <1>1, RestCall, SMT
  DEF Refuse, At, Done, preview, counters, Now, Typed, Call, Steps
<1>3. Typed'
  BY <1>1, <1>2, RestCall, TakesAssumption, SMT
  DEF Refuse, At, Done, preview, counters, Now, Shape, Typed, Carries, Call, OnTurn,
      Drafted
<1>4. ASSUME NEW k \in Conns \ {c} PROVE (Carries(k) /\ OneTurn(k) /\ Seated(k) /\ Looked(k))'
  BY <1>1, TakesAssumption, SMT
  DEF Refuse, At, Done, preview, counters, Now, Rest, Shape, Typed, Drafted, Carries,
      OneTurn, Seated, Looked, Closing, Applying, OnTurn
<1>5. (Carries(c) /\ OneTurn(c) /\ Seated(c) /\ Looked(c))'
  BY <1>1, RestCall, TakesAssumption, SMT
  DEF Refuse, At, Done, preview, counters, Now, Rest, Shape, Typed, Call, Drafted, Carries,
      OneTurn, Seated, Looked, Closing, Applying, OnTurn
<1> QED BY <1>3, <1>4, <1>5 DEF Shape

LEMMA RequestShape == ASSUME Shape, NEW c \in Conns, Request(c) PROVE Shape'
<1>1. Typed /\ call[c] \in Call
  BY DEF Shape, Typed
<1>2. call' \in [Conns -> Call]
  BY <1>1, RestCall, SMT
  DEF Request, At, Goto, Done, preview, counters, Now, Typed, Call, Steps
<1>3. Typed'
  BY <1>1, <1>2, RestCall, TakesAssumption, SMT
  DEF Request, At, Goto, Done, preview, counters, Now, Shape, Typed, Carries, Call, OnTurn,
      Drafted
<1>4. ASSUME NEW k \in Conns \ {c} PROVE (Carries(k) /\ OneTurn(k) /\ Seated(k) /\ Looked(k))'
  BY <1>1, TakesAssumption, SMT
  DEF Request, At, Goto, Done, preview, counters, Now, Rest, Shape, Typed, Drafted,
      Carries, OneTurn, Seated, Looked, Closing, Applying, OnTurn
<1>5. (Carries(c) /\ OneTurn(c) /\ Seated(c) /\ Looked(c))'
  BY <1>1, RestCall, TakesAssumption, SMT
  DEF Request, At, Goto, Done, preview, counters, Now, Rest, Shape, Typed, Call, Drafted,
      Carries, OneTurn, Seated, Looked, Closing, Applying, OnTurn
<1> QED BY <1>3, <1>4, <1>5 DEF Shape

LEMMA FollowShape == ASSUME Shape, NEW c \in Conns, Follow(c) PROVE Shape'
<1>1. Typed /\ call[c] \in Call
  BY DEF Shape, Typed
<1>2. call' \in [Conns -> Call]
  BY <1>1, RestCall, SMT
  DEF Follow, At, Done, counters, Followed, Now, There, Typed, Call, Steps
<1>3. Typed'
  BY <1>1, <1>2, RestCall, TakesAssumption, SMT
  DEF Follow, At, Done, counters, Followed, Now, There, Shape, Typed, Carries, Call,
      OnTurn, Drafted
<1>4. ASSUME NEW k \in Conns \ {c} PROVE (Carries(k) /\ OneTurn(k) /\ Seated(k) /\ Looked(k))'
  BY <1>1, TakesAssumption, SMT
  DEF Follow, At, Done, counters, Followed, Now, Rest, There, Shape, Typed, Drafted,
      Carries, OneTurn, Seated, Looked, Closing, Applying, OnTurn
<1>5. (Carries(c) /\ OneTurn(c) /\ Seated(c) /\ Looked(c))'
  BY <1>1, RestCall, TakesAssumption, SMT
  DEF Follow, At, Done, counters, Followed, Now, Rest, There, Shape, Typed, Call, Drafted,
      Carries, OneTurn, Seated, Looked, Closing, Applying, OnTurn
<1> QED BY <1>3, <1>4, <1>5 DEF Shape

LEMMA CutShape == ASSUME Shape, NEW c \in Conns, Cut(c) PROVE Shape'
<1>1. Typed /\ call[c] \in Call
  BY DEF Shape, Typed
<1>2. call' \in [Conns -> Call]
  BY <1>1, RestCall, SMT
  DEF Cut, Ready, preview, At, Typed, Call, Steps
<1>3. Typed'
  BY <1>1, <1>2, RestCall, TakesAssumption, SMT
  DEF Cut, Ready, preview, At, Shape, Typed, Carries, Call, OnTurn, Drafted
<1>4. ASSUME NEW k \in Conns \ {c} PROVE (Carries(k) /\ OneTurn(k) /\ Seated(k) /\ Looked(k))'
  BY <1>1, TakesAssumption, SMT
  DEF Cut, Ready, preview, At, Shape, Typed, Drafted, Carries, OneTurn, Seated, Looked,
      Closing, Applying, OnTurn
<1>5. (Carries(c) /\ OneTurn(c) /\ Seated(c) /\ Looked(c))'
  BY <1>1, RestCall, TakesAssumption, SMT
  DEF Cut, Ready, preview, At, Shape, Typed, Call, Drafted, Carries, OneTurn, Seated,
      Looked, Closing, Applying, OnTurn
<1> QED BY <1>3, <1>4, <1>5 DEF Shape

LEMMA ArmShape == ASSUME Shape, NEW c \in Conns, Arm(c) PROVE Shape'
<1>1. Typed /\ call[c] \in Call
  BY DEF Shape, Typed
<1>2. call' \in [Conns -> Call]
  BY <1>1, RestCall, SMT
  DEF Arm, There, Ready, counters, Client, At, Typed, Call, Steps
<1>3. Typed'
  BY <1>1, <1>2, RestCall, TakesAssumption, SMT
  DEF Arm, There, Ready, counters, Client, At, Shape, Typed, Carries, Call, OnTurn,
      Drafted
<1>4. ASSUME NEW k \in Conns \ {c} PROVE (Carries(k) /\ OneTurn(k) /\ Seated(k) /\ Looked(k))'
  BY <1>1, TakesAssumption, SMT
  DEF Arm, There, Ready, counters, Client, At, Shape, Typed, Drafted, Carries, OneTurn,
      Seated, Looked, Closing, Applying, OnTurn
<1>5. (Carries(c) /\ OneTurn(c) /\ Seated(c) /\ Looked(c))'
  BY <1>1, RestCall, TakesAssumption, SMT
  DEF Arm, There, Ready, counters, Client, At, Shape, Typed, Call, Drafted, Carries,
      OneTurn, Seated, Looked, Closing, Applying, OnTurn
<1> QED BY <1>3, <1>4, <1>5 DEF Shape

LEMMA SetAfterTakeShape == ASSUME Shape, NEW c \in Conns, SetAfterTake(c) PROVE Shape'
<1>1. Typed /\ call[c] \in Call
  BY DEF Shape, Typed
<1>2. call' \in [Conns -> Call]
  BY <1>1, RestCall, SMT
  DEF SetAfterTake, Ready, counters, At, Typed, Call, Steps
<1>3. Typed'
  BY <1>1, <1>2, RestCall, TakesAssumption, SMT
  DEF SetAfterTake, Ready, counters, At, Shape, Typed, Carries, Call, OnTurn, Drafted
<1>4. ASSUME NEW k \in Conns \ {c} PROVE (Carries(k) /\ OneTurn(k) /\ Seated(k) /\ Looked(k))'
  BY <1>1, TakesAssumption, SMT
  DEF SetAfterTake, Ready, counters, At, Shape, Typed, Drafted, Carries, OneTurn, Seated,
      Looked, Closing, Applying, OnTurn
<1>5. (Carries(c) /\ OneTurn(c) /\ Seated(c) /\ Looked(c))'
  BY <1>1, RestCall, TakesAssumption, SMT
  DEF SetAfterTake, Ready, counters, At, Shape, Typed, Call, Drafted, Carries, OneTurn,
      Seated, Looked, Closing, Applying, OnTurn
<1> QED BY <1>3, <1>4, <1>5 DEF Shape

LEMMA ShowDraftShape == ASSUME Shape, NEW c \in Conns, ShowDraft(c) PROVE Shape'
<1>1. Typed /\ call[c] \in Call
  BY DEF Shape, Typed
<1>2. call' \in [Conns -> Call]
  BY <1>1, RestCall, SMT
  DEF ShowDraft, Ready, counters, Client, At, Typed, Call, Steps
<1>3. Typed'
  BY <1>1, <1>2, RestCall, TakesAssumption, SMT
  DEF ShowDraft, Ready, counters, Client, At, Shape, Typed, Carries, Call, OnTurn, Drafted
<1>4. ASSUME NEW k \in Conns \ {c} PROVE (Carries(k) /\ OneTurn(k) /\ Seated(k) /\ Looked(k))'
  BY <1>1, TakesAssumption, SMT
  DEF ShowDraft, Ready, counters, Client, At, Shape, Typed, Drafted, Carries, OneTurn,
      Seated, Looked, Closing, Applying, OnTurn
<1>5. (Carries(c) /\ OneTurn(c) /\ Seated(c) /\ Looked(c))'
  BY <1>1, RestCall, TakesAssumption, SMT
  DEF ShowDraft, Ready, counters, Client, At, Shape, Typed, Call, Drafted, Carries,
      OneTurn, Seated, Looked, Closing, Applying, OnTurn
<1> QED BY <1>3, <1>4, <1>5 DEF Shape

LEMMA HangUpShape == ASSUME Shape, NEW c \in Conns, HangUp(c) PROVE Shape'
<1>1. Typed /\ call[c] \in Call
  BY DEF Shape, Typed
<1>2. call' \in [Conns -> Call]
  BY <1>1, RestCall, SMT
  DEF HangUp, Ready, Goto, preview, counters, At, Now, Typed, Call, Steps
<1>3. Typed'
  BY <1>1, <1>2, RestCall, TakesAssumption, SMT
  DEF HangUp, Ready, Goto, preview, counters, At, Now, Shape, Typed, Carries, Call, OnTurn,
      Drafted
<1>4. ASSUME NEW k \in Conns \ {c} PROVE (Carries(k) /\ OneTurn(k) /\ Seated(k) /\ Looked(k))'
  BY <1>1, TakesAssumption, SMT
  DEF HangUp, Ready, Goto, preview, counters, At, Now, Shape, Typed, Drafted, Carries,
      OneTurn, Seated, Looked, Closing, Applying, OnTurn
<1>5. (Carries(c) /\ OneTurn(c) /\ Seated(c) /\ Looked(c))'
  BY <1>1, RestCall, TakesAssumption, SMT
  DEF HangUp, Ready, Goto, preview, counters, At, Now, Shape, Typed, Call, Drafted,
      Carries, OneTurn, Seated, Looked, Closing, Applying, OnTurn
<1> QED BY <1>3, <1>4, <1>5 DEF Shape

LEMMA PresentShape == ASSUME Shape, NEW c \in Conns, Present(c) PROVE Shape'
<1>1. Typed /\ call[c] \in Call
  BY DEF Shape, Typed
<1>2. call' \in [Conns -> Call]
  BY <1>1, RestCall, SMT
  DEF Present, At, Goto, preview, counters, Client, Now, Typed, Call, Steps
<1>3. Typed'
  BY <1>1, <1>2, RestCall, TakesAssumption, SMT
  DEF Present, At, Goto, preview, counters, Client, Now, Shape, Typed, Carries, Call,
      OnTurn, Drafted
<1>4. ASSUME NEW k \in Conns \ {c} PROVE (Carries(k) /\ OneTurn(k) /\ Seated(k) /\ Looked(k))'
  BY <1>1, TakesAssumption, SMT
  DEF Present, At, Goto, preview, counters, Client, Now, Shape, Typed, Drafted, Carries,
      OneTurn, Seated, Looked, Closing, Applying, OnTurn
<1>5. (Carries(c) /\ OneTurn(c) /\ Seated(c) /\ Looked(c))'
  BY <1>1, RestCall, TakesAssumption, SMT
  DEF Present, At, Goto, preview, counters, Client, Now, Shape, Typed, Call, Drafted,
      Carries, OneTurn, Seated, Looked, Closing, Applying, OnTurn
<1> QED BY <1>3, <1>4, <1>5 DEF Shape

LEMMA ClientLeftShape == ASSUME Shape, NEW c \in Conns, ClientLeft(c) PROVE Shape'
<1>1. Typed /\ call[c] \in Call
  BY DEF Shape, Typed
<1>2. call' \in [Conns -> Call]
  BY <1>1, RestCall, SMT
  DEF ClientLeft, At, Goto, counters, Client, Now, Typed, Call, Steps
<1>3. Typed'
  BY <1>1, <1>2, RestCall, TakesAssumption, SMT
  DEF ClientLeft, At, Goto, counters, Client, Now, Shape, Typed, Carries, Call, OnTurn,
      Drafted
<1>4. ASSUME NEW k \in Conns \ {c} PROVE (Carries(k) /\ OneTurn(k) /\ Seated(k) /\ Looked(k))'
  BY <1>1, TakesAssumption, SMT
  DEF ClientLeft, At, Goto, counters, Client, Now, Shape, Typed, Drafted, Carries, OneTurn,
      Seated, Looked, Closing, Applying, OnTurn
<1>5. (Carries(c) /\ OneTurn(c) /\ Seated(c) /\ Looked(c))'
  BY <1>1, RestCall, TakesAssumption, SMT
  DEF ClientLeft, At, Goto, counters, Client, Now, Shape, Typed, Call, Drafted, Carries,
      OneTurn, Seated, Looked, Closing, Applying, OnTurn
<1> QED BY <1>3, <1>4, <1>5 DEF Shape

LEMMA JoinShape == ASSUME Shape, NEW c \in Conns, Join(c) PROVE Shape'
<1>1. Typed /\ call[c] \in Call
  BY DEF Shape, Typed
<1>2. call' \in [Conns -> Call]
  BY <1>1, RestCall, SMT
  DEF Join, At, Done, preview, Now, Typed, Call, Steps
<1>3. Typed'
  BY <1>1, <1>2, RestCall, TakesAssumption, SMT
  DEF Join, At, Done, preview, Now, Shape, Typed, Carries, Call, OnTurn, Drafted
<1>4. ASSUME NEW k \in Conns \ {c} PROVE (Carries(k) /\ OneTurn(k) /\ Seated(k) /\ Looked(k))'
  BY <1>1, TakesAssumption, SMT
  DEF Join, At, Done, preview, Now, Rest, Shape, Typed, Drafted, Carries, OneTurn, Seated,
      Looked, Closing, Applying, OnTurn
<1>5. (Carries(c) /\ OneTurn(c) /\ Seated(c) /\ Looked(c))'
  BY <1>1, RestCall, TakesAssumption, SMT
  DEF Join, At, Done, preview, Now, Rest, Shape, Typed, Call, Drafted, Carries, OneTurn,
      Seated, Looked, Closing, Applying, OnTurn
<1> QED BY <1>3, <1>4, <1>5 DEF Shape


-----------------------------------------------------------------------------
(* The steps together.                                                     *)

Step(c) ==
  \/ Edit(c) \/ Remove(c) \/ AskStatus(c) \/ Look(c) \/ Push(c)
  \/ EditBegin(c) \/ EditDraft(c) \/ EditDiscard(c)
  \/ EditApply(c) \/ Check(c) \/ Replace(c) \/ Retain(c)
  \/ TakeScene(c) \/ ApplyNext(c) \/ Place(c) \/ Refuse(c) \/ Turn(c)
  \/ Before(c) \/ Request(c) \/ Follow(c) \/ Cut(c)
  \/ Arm(c) \/ SetAfterTake(c) \/ ShowDraft(c)
  \/ HangUp(c) \/ Present(c) \/ ClientLeft(c) \/ Join(c)

LEMMA NextStep == Next => \E c \in Conns : Step(c)
BY Zenon DEF Next, Step

LEMMA StepShape == ASSUME Shape, NEW c \in Conns, Step(c) PROVE Shape'
BY Zenon,
   EditShape, RemoveShape, AskStatusShape, LookShape, PushShape, EditBeginShape, EditDraftShape,
   EditDiscardShape, EditApplyShape, CheckShape, ReplaceShape, RetainShape, TakeSceneShape,
   ApplyNextShape, PlaceShape, RefuseShape, TurnShape, BeforeShape, RequestShape, FollowShape,
   CutShape, ArmShape, SetAfterTakeShape, ShowDraftShape, HangUpShape, PresentShape,
   ClientLeftShape, JoinShape
DEF Step

LEMMA ShapeIdle == Shape /\ UNCHANGED vars => Shape'
BY SMT DEF Shape, Typed, Carries, OneTurn, Seated, Looked, At, vars

\* Shape always holds.
THEOREM ShapeAlways == Spec => []Shape
<1>1. Shape /\ [Next]_vars => Shape'
  BY NextStep, StepShape, ShapeIdle
<1> QED BY <1>1, ShapeInit, PTL DEF Spec

\* Every variable always holds what its place in the code can hold, whatever the
\* people, the scenes and the order of their calls.
THEOREM TypesAlwaysOK == Spec => []TypeOK
<1>1. Shape => TypeOK
  <2> SUFFICES ASSUME Shape PROVE TypeOK OBVIOUS
  <2>1. turn # None => call[turn].at \in {"before", "request", "follow"}
    BY DEF Shape, Typed, OneTurn, OnTurn
  <2>2. \A c \in Conns : call[c].at \in Steps /\ call[c].todo \subseteq DraftIds
    BY DEF Shape, Typed, Call
  <2>3. QED
    BY <2>1, <2>2 DEF TypeOK, Shape, Typed
<1> QED BY <1>1, ShapeAlways, PTL

\* An apply without force never replaces a scene that was, all along, something
\* else than what its draft was taken from (drafts.rs:8-11).
THEOREM StaleRefused == Spec => []RefusesStale
<1>1. Shape => RefusesStale
  BY DEF Shape, Looked, RefusesStale, At
<1> QED BY <1>1, ShapeAlways, PTL

-----------------------------------------------------------------------------
(* A step moves one connection.                                            *)

Apart(c) == \A k \in Conns \ {c} : call'[k] = call[k]

LEMMA NowApart == ASSUME Typed, NEW c \in Conns, NEW r, Now(c, r) PROVE Apart(c)
BY SMT DEF Now, Typed, Apart

LEMMA StillApart == ASSUME NEW c \in Conns, call' = call PROVE Apart(c)
BY DEF Apart

LEMMA StepApart == ASSUME Typed, NEW c \in Conns, Step(c) PROVE Apart(c)
<1>1. CASE Edit(c)
  BY <1>1, NowApart, Zenon DEF Edit
<1>2. CASE AskStatus(c)
  BY <1>2, NowApart, Zenon DEF AskStatus, Goto, Done
<1>3. CASE Look(c)
  BY <1>3, NowApart, Zenon DEF Look, Goto, Done
<1>4. CASE Push(c)
  BY <1>4, NowApart, Zenon DEF Push, Goto, Done
<1>5. CASE EditApply(c)
  BY <1>5, NowApart, Zenon DEF EditApply, StartApply
<1>6. CASE Check(c)
  BY <1>6, NowApart, Zenon DEF Check, Applied, Goto, Done
<1>7. CASE Replace(c)
  BY <1>7, NowApart, Zenon DEF Replace, Goto, Done
<1>8. CASE Retain(c)
  BY <1>8, NowApart, Zenon DEF Retain, Applied, Goto, Done
<1>9. CASE TakeScene(c)
  BY <1>9, NowApart, Zenon DEF TakeScene
<1>10. CASE ApplyNext(c)
  BY <1>10, NowApart, Zenon DEF ApplyNext, StartApply
<1>11. CASE Place(c)
  BY <1>11, NowApart, Zenon DEF Place, Goto, Done
<1>12. CASE Refuse(c)
  BY <1>12, NowApart, Zenon DEF Refuse, Goto, Done
<1>13. CASE Turn(c)
  BY <1>13, NowApart, Zenon DEF Turn, Goto, Done
<1>14. CASE Before(c)
  BY <1>14, NowApart, Zenon DEF Before
<1>15. CASE Request(c)
  BY <1>15, NowApart, Zenon DEF Request, Goto, Done
<1>16. CASE Follow(c)
  BY <1>16, NowApart, Zenon DEF Follow, Goto, Done
<1>17. CASE HangUp(c)
  BY <1>17, NowApart, Zenon DEF HangUp, Goto, Done
<1>18. CASE Present(c)
  BY <1>18, NowApart, Zenon DEF Present, Goto, Done
<1>19. CASE ClientLeft(c)
  BY <1>19, NowApart, Zenon DEF ClientLeft, Goto, Done
<1>20. CASE Join(c)
  BY <1>20, NowApart, Zenon DEF Join, Goto, Done
<1>21. CASE Remove(c)
  <2>1. call' = call
    BY <1>21 DEF Remove
  <2>2. QED
    BY <2>1, StillApart
<1>22. CASE EditBegin(c)
  <2>1. call' = call
    BY <1>22 DEF EditBegin
  <2>2. QED
    BY <2>1, StillApart
<1>23. CASE EditDraft(c)
  <2>1. call' = call
    BY <1>23 DEF EditDraft
  <2>2. QED
    BY <2>1, StillApart
<1>24. CASE EditDiscard(c)
  <2>1. call' = call
    BY <1>24 DEF EditDiscard
  <2>2. QED
    BY <2>1, StillApart
<1>25. CASE Cut(c)
  <2>1. call' = call
    BY <1>25 DEF Cut
  <2>2. QED
    BY <2>1, StillApart
<1>26. CASE Arm(c)
  <2>1. call' = call
    BY <1>26 DEF Arm
  <2>2. QED
    BY <2>1, StillApart
<1>27. CASE SetAfterTake(c)
  <2>1. call' = call
    BY <1>27 DEF SetAfterTake
  <2>2. QED
    BY <2>1, StillApart
<1>28. CASE ShowDraft(c)
  <2>1. call' = call
    BY <1>28 DEF ShowDraft
  <2>2. QED
    BY <2>1, StillApart
<1> QED
  BY <1>1, <1>2, <1>3, <1>4, <1>5, <1>6, <1>7, <1>8, <1>9, <1>10, <1>11, <1>12, <1>13, <1>14, <1>15, <1>16, <1>17, <1>18, <1>19, <1>20, <1>21, <1>22, <1>23, <1>24, <1>25, <1>26, <1>27, <1>28 DEF Step

-----------------------------------------------------------------------------
(* A hold on Preview ends with its client.                                 *)

\* A step of a connection that stays: it shows no draft that was not shown.
Stays(c) ==
  call[c].at \notin Closing /\ seated' = seated /\ shownBy' \in {None, shownBy}

LEMMA StepStays ==
  ASSUME NEW c \in Conns,
         \/ Edit(c) \/ Remove(c) \/ EditBegin(c) \/ EditDraft(c) \/ EditDiscard(c)
         \/ EditApply(c) \/ TakeScene(c) \/ Cut(c) \/ Arm(c) \/ SetAfterTake(c)
         \/ AskStatus(c) \/ Look(c) \/ Push(c) \/ Check(c) \/ Replace(c) \/ Retain(c)
         \/ ApplyNext(c) \/ Place(c) \/ Refuse(c) \/ Turn(c) \/ Before(c) \/ Request(c)
         \/ Follow(c)
  PROVE  Stays(c)
<1>1. CASE Edit(c)
  BY <1>1 DEF Edit, Ready, At, preview, Stays, Closing
<1>2. CASE Remove(c)
  BY <1>2 DEF Remove, Ready, At, preview, Stays, Closing
<1>3. CASE EditBegin(c)
  BY <1>3 DEF EditBegin, Ready, At, preview, Stays, Closing
<1>4. CASE EditDraft(c)
  BY <1>4 DEF EditDraft, Ready, At, preview, Stays, Closing
<1>5. CASE EditDiscard(c)
  BY <1>5 DEF EditDiscard, Ready, At, preview, Stays, Closing
<1>6. CASE EditApply(c)
  BY <1>6 DEF EditApply, Ready, At, preview, Stays, Closing
<1>7. CASE TakeScene(c)
  BY <1>7 DEF TakeScene, Ready, At, preview, Stays, Closing
<1>8. CASE Cut(c)
  BY <1>8 DEF Cut, Ready, At, preview, Stays, Closing
<1>9. CASE Arm(c)
  BY <1>9 DEF Arm, Ready, At, preview, Stays, Closing
<1>10. CASE SetAfterTake(c)
  BY <1>10 DEF SetAfterTake, Ready, At, preview, Stays, Closing
<1>11. CASE AskStatus(c)
  BY <1>11 DEF AskStatus, Ready, At, preview, Stays, Closing
<1>12. CASE Look(c)
  BY <1>12 DEF Look, Ready, At, preview, Stays, Closing
<1>13. CASE Push(c)
  BY <1>13 DEF Push, Ready, At, preview, Stays, Closing
<1>14. CASE Check(c)
  BY <1>14 DEF Check, Ready, At, preview, Stays, Closing
<1>15. CASE Replace(c)
  BY <1>15 DEF Replace, Ready, At, preview, Stays, Closing
<1>16. CASE Retain(c)
  BY <1>16 DEF Retain, Ready, At, preview, Stays, Closing
<1>17. CASE ApplyNext(c)
  BY <1>17 DEF ApplyNext, Ready, At, preview, Stays, Closing
<1>18. CASE Place(c)
  BY <1>18 DEF Place, Ready, At, preview, Stays, Closing
<1>19. CASE Refuse(c)
  BY <1>19 DEF Refuse, Ready, At, preview, Stays, Closing
<1>20. CASE Turn(c)
  BY <1>20 DEF Turn, Ready, At, preview, Stays, Closing
<1>21. CASE Before(c)
  BY <1>21 DEF Before, Ready, At, preview, Stays, Closing
<1>22. CASE Request(c)
  BY <1>22 DEF Request, Ready, At, preview, Stays, Closing
<1>23. CASE Follow(c)
  BY <1>23 DEF Follow, Ready, At, preview, Stays, Closing
<1> QED
  BY <1>1, <1>2, <1>3, <1>4, <1>5, <1>6, <1>7, <1>8, <1>9, <1>10, <1>11, <1>12, <1>13, <1>14, <1>15, <1>16, <1>17, <1>18, <1>19, <1>20, <1>21, <1>22, <1>23

LEMMA GotoCall ==
  ASSUME Typed, NEW c \in Conns, NEW p \in Steps, Goto(c, p)
  PROVE  /\ call'[c].at = p
         /\ call'[c].scene = call[c].scene /\ call'[c].was = call[c].was
<1>1. call[c] \in Call
  BY DEF Typed
<1>2. PICK q \in Call : /\ q = [call[c] EXCEPT !.at = p]
                        /\ q.at = p /\ q.scene = call[c].scene /\ q.was = call[c].was
  BY <1>1, MovedCall
<1>3. Now(c, q)
  BY <1>2 DEF Goto
<1>4. call'[c] = q
  BY <1>3, NowCall
<1>5. QED
  BY <1>2, <1>4

LEMMA HoldStep == ASSUME Shape, HoldEnds, NEW c \in Conns, Step(c) PROVE HoldEnds'
<1>1. Apart(c) /\ Shape'
  BY StepApart, StepShape DEF Shape
<1>2. CASE Stays(c)
  <2>1. call'[c].at # "left"
    BY <1>1, <1>2 DEF Stays, Shape, Seated, Closing
  <2>2. QED
    BY <1>1, <1>2, <2>1 DEF Stays, Apart, HoldEnds, At
<1>3. CASE ShowDraft(c)
  <2>1. call' = call /\ call[c].at = "rest" /\ shownBy' \in {None, Client(c)}
    BY <1>3 DEF ShowDraft, Ready, At
  <2>2. QED
    BY <2>1 DEF HoldEnds, At, Client
<1>4. CASE HangUp(c)
  <2>1. call'[c].at = "gone" /\ shownBy' = shownBy
    <3>1. Goto(c, "gone") /\ shownBy' = shownBy
      BY <1>4 DEF HangUp, preview
    <3>2. Typed /\ "gone" \in Steps
      BY DEF Shape, Steps
    <3>3. QED
      BY <3>1, <3>2, GotoCall
  <2>2. QED
    BY <1>1, <2>1 DEF Apart, HoldEnds, At
<1>5. CASE Present(c)
  <2>1. call[c].at = "gone" /\ shownBy' = shownBy /\ seated' = seated
    BY <1>5 DEF Present, At, preview
  <2>2. CASE \E o \in seated : Client(o) = Client(c)
    <3>1. PICK o \in seated : Client(o) = Client(c)
      BY <2>2
    <3>2. o \in Conns /\ call[o].at \notin Closing
      BY <3>1 DEF Shape, Typed, Seated
    <3>3. o # c /\ call'[o] = call[o]
      BY <1>1, <2>1, <3>2 DEF Closing, Apart
    <3>4. QED
      BY <1>1, <2>1, <3>1, <3>2, <3>3 DEF HoldEnds, At, Apart, Closing
  <2>3. CASE ~\E o \in seated : Client(o) = Client(c)
    <3>1. Goto(c, "leaving")
      BY <1>5, <2>3 DEF Present
    <3>2. Typed /\ "leaving" \in Steps
      BY DEF Shape, Steps
    <3>3. call'[c].at = "leaving"
      BY <3>1, <3>2, GotoCall
    <3>4. QED
      BY <1>1, <2>1, <3>3 DEF HoldEnds, At, Apart
  <2>4. QED
    BY <2>2, <2>3
<1>6. CASE ClientLeft(c)
  <2>1. /\ shownBy = Client(c) => shownBy' = None
        /\ shownBy # Client(c) => shownBy' = shownBy
    BY <1>6 DEF ClientLeft
  <2>2. QED
    BY <1>1, <2>1 DEF HoldEnds, At, Apart
<1>7. CASE Join(c)
  <2>1. Now(c, Rest) /\ call[c].at = "left" /\ shownBy' = shownBy
    BY <1>7 DEF Join, At, Done, preview
  <2>2. call'[c].at = "rest"
    BY <2>1, NowCall, RestCall DEF Shape
  <2>3. QED
    BY <1>1, <2>1, <2>2 DEF HoldEnds, At, Apart
<1>8. QED
  BY <1>2, <1>3, <1>4, <1>5, <1>6, <1>7, StepStays DEF Step

\* A draft that somebody shows in Preview is let go when the last of their
\* connections has gone, however the connections close and open again
\* (ws.rs:371-378).
THEOREM HoldsEnd == Spec => []HoldEnds
<1>1. Init => HoldEnds
  BY DEF Init, HoldEnds
<1>2. Shape /\ HoldEnds /\ [Next]_vars => HoldEnds'
  <2>1. HoldEnds /\ UNCHANGED vars => HoldEnds'
    BY DEF HoldEnds, At, vars
  <2>2. QED
    BY <2>1, NextStep, HoldStep
<1> QED BY <1>1, <1>2, ShapeAlways, PTL DEF Spec

-----------------------------------------------------------------------------
(* What is armed follows what is on air.                                   *)

\* The take that has the turn knows what was on air, which is what is armed,
\* until it is followed.
Following ==
  led /\ mode = "same" =>
    /\ \A s \in Scenes : There(s)
    /\ turn = None => armed = air.scene
    /\ turn # None =>
         /\ call[turn].at \in {"before", "request"} => armed = air.scene
         /\ call[turn].at \in {"request", "follow"} => call[turn].was = armed
         /\ call[turn].at = "follow" => air.scene = call[turn].scene

\* A step that is not of a take that has, or gets, the turn.
Quiet(c) ==
  /\ call[c].at \notin OnTurn /\ turn' = turn
  /\ led' => /\ led /\ mode' = mode /\ armed' = armed /\ air'.scene = air.scene
             /\ \A s \in Scenes : There(s) => There(s)'

LEMMA PushQuiet == ASSUME Shape, NEW c \in Conns, Push(c) PROVE Quiet(c)
<1>1. /\ call[c].at = "send" /\ UNCHANGED <<content, preview, turn>>
      /\ \/ air' = [scene |-> call[c].scene, layout |-> call[c].layout]
            /\ led' = (led /\ air.scene = call[c].scene)
         \/ air' = air /\ led' = led
  BY DEF Push, At
<1>2. /\ air'.scene \in {air.scene, call[c].scene}
      /\ led' => led /\ (air'.scene = air.scene \/ air.scene = call[c].scene)
  <2>1. CASE /\ air' = [scene |-> call[c].scene, layout |-> call[c].layout]
             /\ led' = (led /\ air.scene = call[c].scene)
    <3>1. air'.scene = call[c].scene
      BY <2>1
    <3>2. led' => led /\ air.scene = call[c].scene
      BY <2>1, Zenon
    <3>3. QED
      BY <3>1, <3>2
  <2>2. CASE air' = air /\ led' = led
    BY <2>2
  <2>3. QED
    BY <1>1, <2>1, <2>2
<1>3. QED
  BY <1>1, <1>2, SMT DEF Quiet, OnTurn, There, preview

LEMMA EditQuiet == ASSUME Shape, NEW c \in Conns, Edit(c) PROVE Quiet(c)
<1>1. /\ call[c].at = "rest" /\ UNCHANGED <<preview, air, turn, led>>
      /\ \E s \in Scenes : content' = [content EXCEPT ![s] = Fresh]
  BY DEF Edit, Ready, At, Becomes
<1>2. Fresh # Gone
  BY DEF Shape, Typed, Fresh, Gone
<1>3. QED
  BY <1>1, <1>2 DEF Quiet, OnTurn, There, preview, Shape, Typed

LEMMA ReplaceQuiet == ASSUME Shape, NEW c \in Conns, Replace(c) PROVE Quiet(c)
<1>1. /\ call[c].at = "replace" /\ UNCHANGED <<preview, air, turn, led>>
      /\ content' = [content EXCEPT ![call[c].copy.of] = call[c].copy.layout]
  BY DEF Replace, At, Becomes
<1>2. call[c].copy.layout # Gone
  BY <1>1 DEF Shape, Carries, Applying, Drafted, Layouts, Gone
<1>3. QED
  BY <1>1, <1>2 DEF Quiet, OnTurn, There, preview, Shape, Typed

LEMMA StepQuiet ==
  ASSUME Shape, NEW c \in Conns,
         \/ Edit(c) \/ Remove(c) \/ AskStatus(c) \/ Look(c) \/ Push(c) \/ EditBegin(c)
         \/ EditDraft(c) \/ EditDiscard(c) \/ EditApply(c) \/ Check(c) \/ Replace(c)
         \/ Retain(c) \/ TakeScene(c) \/ ApplyNext(c) \/ Place(c) \/ Refuse(c) \/ Cut(c)
         \/ Arm(c) \/ SetAfterTake(c) \/ ShowDraft(c) \/ HangUp(c) \/ Present(c)
         \/ ClientLeft(c) \/ Join(c)
  PROVE  Quiet(c)
<1>1. CASE Edit(c)
  BY <1>1, EditQuiet
<1>2. CASE Remove(c)
  BY <1>2 DEF Remove, Ready, At, preview, counters, Quiet, OnTurn, There
<1>3. CASE AskStatus(c)
  BY <1>3 DEF AskStatus, Ready, At, preview, counters, Quiet, OnTurn, There
<1>4. CASE Look(c)
  BY <1>4 DEF Look, Ready, At, preview, counters, Quiet, OnTurn, There
<1>5. CASE Push(c)
  BY <1>5, PushQuiet
<1>6. CASE EditBegin(c)
  BY <1>6 DEF EditBegin, Ready, At, preview, counters, Quiet, OnTurn, There
<1>7. CASE EditDraft(c)
  BY <1>7 DEF EditDraft, Ready, At, preview, counters, Quiet, OnTurn, There
<1>8. CASE EditDiscard(c)
  BY <1>8 DEF EditDiscard, Ready, At, preview, counters, Quiet, OnTurn, There
<1>9. CASE EditApply(c)
  BY <1>9 DEF EditApply, Ready, At, preview, counters, Quiet, OnTurn, There
<1>10. CASE Check(c)
  BY <1>10 DEF Check, Ready, At, preview, counters, Quiet, OnTurn, There
<1>11. CASE Replace(c)
  BY <1>11, ReplaceQuiet
<1>12. CASE Retain(c)
  BY <1>12 DEF Retain, Ready, At, preview, counters, Quiet, OnTurn, There
<1>13. CASE TakeScene(c)
  <2>1. call[c].at = "rest" /\ UNCHANGED <<content, preview, air, turn, led>>
    BY <1>13, Zenon DEF TakeScene, Ready, At
  <2>2. QED
    BY <2>1 DEF Quiet, OnTurn, There, preview
<1>14. CASE ApplyNext(c)
  BY <1>14 DEF ApplyNext, Ready, At, preview, counters, Quiet, OnTurn, There
<1>15. CASE Place(c)
  BY <1>15 DEF Place, Ready, At, preview, counters, Quiet, OnTurn, There
<1>16. CASE Refuse(c)
  BY <1>16 DEF Refuse, Ready, At, preview, counters, Quiet, OnTurn, There
<1>17. CASE Cut(c)
  BY <1>17 DEF Cut, Ready, At, preview, counters, Quiet, OnTurn, There
<1>18. CASE Arm(c)
  BY <1>18 DEF Arm, Ready, At, preview, counters, Quiet, OnTurn, There
<1>19. CASE SetAfterTake(c)
  BY <1>19 DEF SetAfterTake, Ready, At, preview, counters, Quiet, OnTurn, There
<1>20. CASE ShowDraft(c)
  BY <1>20 DEF ShowDraft, Ready, At, preview, counters, Quiet, OnTurn, There
<1>21. CASE HangUp(c)
  BY <1>21 DEF HangUp, Ready, At, preview, counters, Quiet, OnTurn, There
<1>22. CASE Present(c)
  BY <1>22 DEF Present, Ready, At, preview, counters, Quiet, OnTurn, There
<1>23. CASE ClientLeft(c)
  BY <1>23 DEF ClientLeft, Ready, At, preview, counters, Quiet, OnTurn, There
<1>24. CASE Join(c)
  BY <1>24 DEF Join, Ready, At, preview, counters, Quiet, OnTurn, There
<1> QED
  BY <1>1, <1>2, <1>3, <1>4, <1>5, <1>6, <1>7, <1>8, <1>9, <1>10, <1>11, <1>12, <1>13,
     <1>14, <1>15, <1>16, <1>17, <1>18, <1>19, <1>20, <1>21, <1>22, <1>23, <1>24

LEMMA QuietFollowing ==
  ASSUME Shape, Following, NEW c \in Conns, Quiet(c), Apart(c)
  PROVE  Following'
<1>1. turn # c
  BY DEF Shape, OneTurn, Quiet
<1>2. turn # None => turn \in Conns /\ call'[turn] = call[turn]
  BY <1>1 DEF Shape, Typed, Apart
<1>3. QED
  BY <1>2 DEF Following, Quiet

LEMMA TurnFollowing ==
  ASSUME Shape, Following, NEW c \in Conns, Turn(c)
  PROVE  Following'
<1>1. /\ turn = None /\ turn' = c /\ Goto(c, "before")
      /\ UNCHANGED <<content, preview, air, led>>
  BY DEF Turn
<1>2. Typed /\ "before" \in Steps /\ c # None
  BY TakesAssumption DEF Shape, Steps
<1>3. call'[c].at = "before"
  BY <1>1, <1>2, GotoCall
<1>4. QED
  BY <1>1, <1>2, <1>3 DEF Following, There, preview

LEMMA BeforeFollowing ==
  ASSUME Shape, Following, NEW c \in Conns, Before(c)
  PROVE  Following'
<1>1. /\ Typed /\ call[c] \in Call /\ call[c].at = "before" /\ turn = c /\ c # None
      /\ air.scene \in Scenes \cup {None}
  BY TakesAssumption DEF Shape, Typed, OneTurn, OnTurn, Before, At
<1>2. PICK s \in Scenes \cup {None} :
        /\ Now(c, Asking(call[c], s))
        /\ led' => led /\ ((\A t \in Scenes : There(t)) => s = air.scene)
        /\ UNCHANGED <<content, preview, air, turn>>
  <2> DEFINE was == IF air.scene # None /\ There(air.scene) THEN air.scene ELSE None
  <2>1. /\ \/ Now(c, Asking(call[c], was)) /\ led' = led
           \/ Now(c, Asking(call[c], None)) /\ led' = (led /\ was = None)
        /\ UNCHANGED <<content, preview, air, turn>>
    BY Zenon DEF Before, Asking
  <2>2. was \in Scenes \cup {None} /\ ((\A t \in Scenes : There(t)) => was = air.scene)
    BY <1>1
  <2> HIDE DEF was
  <2>3. CASE Now(c, Asking(call[c], was)) /\ led' = led
    BY <2>1, <2>2, <2>3, Zenon
  <2>4. CASE Now(c, Asking(call[c], None)) /\ led' = (led /\ was = None)
    <3>1. led' => led /\ was = None
      BY <2>4
    <3>2. QED
      BY <2>1, <2>2, <2>4, <3>1, Zenon
  <2>5. QED
    BY <2>1, <2>3, <2>4
<1>3. PICK q \in Call : q = Asking(call[c], s) /\ q.at = "request" /\ q.was = s
  BY <1>1, AskingCall
<1>4. call'[c] = q
  BY <1>1, <1>2, <1>3, NowCall
<1>5. QED
  BY <1>1, <1>2, <1>3, <1>4 DEF Following, There, preview

LEMMA RequestFollowing ==
  ASSUME Shape, Following, NEW c \in Conns, Request(c)
  PROVE  Following'
<1>1. /\ Typed /\ call[c].at = "request" /\ turn = c /\ c # None /\ "follow" \in Steps
      /\ UNCHANGED <<content, preview>>
  BY TakesAssumption DEF Shape, OneTurn, OnTurn, Request, At, Steps
<1>2. CASE /\ air' = [scene |-> call[c].scene, layout |-> call[c].layout]
           /\ Goto(c, "follow") /\ UNCHANGED <<turn, led>>
  <2>1. /\ call'[c].at = "follow" /\ call'[c].scene = call[c].scene
        /\ call'[c].was = call[c].was
    BY <1>1, <1>2, GotoCall
  <2>2. QED
    BY <1>1, <1>2, <2>1 DEF Following, There, preview
<1>3. CASE turn' = None /\ led' = FALSE
  BY <1>3 DEF Following
<1>4. CASE UNCHANGED <<air, led>> /\ turn' = None
  BY <1>1, <1>4 DEF Following, There, preview
<1>5. QED
  BY <1>2, <1>3, <1>4 DEF Request

LEMMA FollowFollowing ==
  ASSUME Shape, Following, NEW c \in Conns, Follow(c)
  PROVE  Following'
<1>1. /\ call[c].at = "follow" /\ turn = c /\ c # None /\ turn' = None
      /\ call[c].scene \in Scenes /\ armed' = Followed(call[c].scene, call[c].was)
      /\ UNCHANGED <<content, mode, air, led>>
  BY TakesAssumption DEF Shape, OneTurn, OnTurn, Carries, Follow, At
<1>2. QED
  BY <1>1, TakesAssumption DEF Following, Followed, There

LEMMA FollowingStep ==
  ASSUME Shape, Following, NEW c \in Conns, Step(c)
  PROVE  Following'
<1>1. Apart(c)
  BY StepApart DEF Shape
<1>2. CASE Quiet(c)
  BY <1>1, <1>2, QuietFollowing
<1>3. QED
  BY <1>2, StepQuiet, TurnFollowing, BeforeFollowing, RequestFollowing, FollowFollowing DEF Step

\* While only takes by name move it, what is armed is what is on air whenever no
\* take is under way, whichever takes arrive together (after_take.rs:29-31).
THEOREM ProgrammeFollowed == Spec => []FollowsProgramme
<1>1. Init => Following
  BY DEF Init, Following, There, Gone
<1>2. Shape /\ Following /\ [Next]_vars => Following'
  <2>1. Following /\ UNCHANGED vars => Following'
    BY DEF Following, There, vars
  <2>2. QED
    BY <2>1, NextStep, FollowingStep
<1>3. Following => FollowsProgramme
  BY DEF Following, FollowsProgramme
<1> QED BY <1>1, <1>2, <1>3, ShapeAlways, PTL DEF Spec
=============================================================================
