--------------------------- MODULE FailoverProofs ---------------------------
(***************************************************************************)
(* What holds of the board for any sources, rules and times.               *)
(*                                                                         *)
(* The induction is on Sound: the shape of the board's own state, that no  *)
(* flag or clock of a return outlives the outage, that only a source with  *)
(* a rule is on its backup, and that a backup drawn for a source that is   *)
(* no longer on it has the reason for its going already written down.      *)
(* What a chain of backups is made of is shown by counting its links, and  *)
(* from it the shape of the rest and what a tick draws; two invariants     *)
(* more compare the board's clocks with what the looks have found.         *)
(***************************************************************************)
EXTENDS Failover, FiniteSetTheorems, WellFoundedInduction, TLAPS

(* The part of TypeOK the argument needs. *)
Shape ==
  /\ waited \in [Sources -> Age \cup {None}]
  /\ rule \in [Sources -> Rules \cup {None}]
  /\ watch \in [Sources -> Watches]
  /\ {leaving, cause} \subseteq [Sources -> Reasons \cup {None}]
  /\ showing = [s \in Sources |-> showing[s]]

RulesKnown == \A s \in Sources : rule[s] # None => s \in known

(* One watch on its own: nothing runs on while the backup is off. *)
Fresh(w) == w.stay \/ w.up # None => w.on

Sound == Shape /\ RulesKnown /\ OneOutage /\ OffHasReason

-----------------------------------------------------------------------------
(* The operators on watches.                                               *)

(* An age that moves on is an age, and a clock that is not running stays   *)
(* so.                                                                     *)
LEMMA OlderAge ==
  ASSUME NEW age \in Age \cup {None}, NEW d \in Nat
  PROVE  /\ Older(age, d) \in Age \cup {None}
         /\ age = None => Older(age, d) = None
<1>1. Long \in Nat /\ None \notin Nat
  BY FailoverAssumption
<1>2. QED
  BY <1>1 DEF Older, Age

(* A watch taken off its backup is a watch, and fresh. *)
LEMMA DisengagedFresh ==
  ASSUME NEW w \in Watches
  PROVE  /\ Disengaged(w) \in Watches
         /\ Fresh(Disengaged(w)) /\ ~Disengaged(w).on /\ ~Disengaged(w).stay
  BY DEF Disengaged, Watches, Fresh

(* A look that finds the source live starts at most the return's clock. *)
LEMMA SeenLiveFresh ==
  ASSUME NEW w \in Watches, Fresh(w)
  PROVE  /\ SeenLive(w) \in Watches
         /\ Fresh(SeenLive(w))
         /\ SeenLive(w).on = w.on /\ SeenLive(w).stay = w.stay
<1>1. Long \in Nat /\ 0 \in Age
  BY FailoverAssumption DEF Age
<1>2. QED
  BY <1>1 DEF SeenLive, Watches, Fresh

(* A look that finds it down stops the return's clock and at most puts the *)
(* backup on.                                                              *)
LEMMA SeenDownFresh ==
  ASSUME NEW w \in Watches, Fresh(w), NEW r \in Rules, NEW first \in Age \cup {None}
  PROVE  /\ SeenDown(w, r, first) \in Watches
         /\ Fresh(SeenDown(w, r, first))
         /\ w.on => SeenDown(w, r, first).on
         /\ SeenDown(w, r, first).stay = w.stay
<1> DEFINE since == IF w.down # None THEN w.down ELSE IF first = None THEN 0 ELSE first
<1>1. Long \in Nat /\ 0 \in Age /\ r.after \in Nat
  BY FailoverAssumption DEF Age
<1>2. since \in Age
  BY <1>1 DEF Watches
<1>3. (w.on \/ since >= r.after) \in BOOLEAN /\ w.on \in BOOLEAN
  BY <1>1, <1>2 DEF Watches, Age
<1>4. SeenDown(w, r, first) = [w EXCEPT !.up = None, !.down = since, !.on = w.on \/ since >= r.after]
  BY DEF SeenDown
<1> HIDE DEF since
<1>5. QED
  BY <1>2, <1>3, <1>4 DEF Watches, Fresh

(* Whatever a look finds, the watch stays a watch and fresh; told to stay, *)
(* a source that is on its backup stays on it.                             *)
LEMMA LookedFresh ==
  ASSUME NEW w \in Watches, Fresh(w), NEW r \in Rules, NEW first \in Age \cup {None},
         NEW live \in BOOLEAN, NEW down \in BOOLEAN
  PROVE  /\ Looked(w, r, live, down, first) \in Watches
         /\ Fresh(Looked(w, r, live, down, first))
         /\ w.stay => Looked(w, r, live, down, first).on /\ Looked(w, r, live, down, first).stay
<1>1. CASE Unsure(live, down, first)
  BY <1>1 DEF Looked, Fresh
<1>2. CASE ~Unsure(live, down, first) /\ ~live
  BY <1>2, SeenDownFresh DEF Looked, Fresh
<1>3. CASE ~Unsure(live, down, first) /\ live
  <2>1. SeenLive(w) \in Watches
    BY SeenLiveFresh
  <2>2. CASE Returns(w, r)
    <3>1. Looked(w, r, live, down, first) = Disengaged(SeenLive(w)) /\ ~w.stay
      BY <1>3, <2>2 DEF Looked, Returns
    <3>2. QED
      BY <2>1, <3>1, DisengagedFresh
  <2>3. CASE ~Returns(w, r)
    BY <1>3, <2>3, SeenLiveFresh DEF Looked, Fresh
  <2>4. QED
    BY <2>2, <2>3
<1>4. QED
  BY <1>1, <1>2, <1>3

(* What a swap, drawn or put off, does with the reasons: it keeps them in  *)
(* shape, and leaves no source off its backup drawn as it without one.     *)
LEMMA SwapKeepsReasons ==
  ASSUME NEW why \in [Sources -> Reasons \cup {None}], NEW d,
         SwapStandIns(why, d),
         \A s \in Sources : showing[s] # None /\ ~watch'[s].on => why[s] # None,
         showing = [s \in Sources |-> showing[s]]
  PROVE  /\ leaving' \in [Sources -> Reasons \cup {None}] /\ OffHasReason'
         /\ showing' = [s \in Sources |-> showing'[s]]
<1> DEFINE to == [s \in Sources |-> Target(s, d)]
<1>1. CASE crossing \/ to = showing
  <2>1. leaving' = why /\ showing' = showing
    BY <1>1 DEF SwapStandIns, PutOff
  <2>2. QED
    BY <2>1 DEF OffHasReason
<1>2. CASE ~(crossing \/ to = showing)
  <2> DEFINE off == {s \in Sources : showing[s] # None /\ showing'[s] = None}
  <2>1. showing' = to
    BY <1>2 DEF SwapStandIns
  <2>2. leaving' = [s \in Sources |-> IF s \in off THEN None ELSE why[s]]
    BY <1>2 DEF SwapStandIns
  <2>3. ASSUME NEW s \in Sources, ~watch'[s].on PROVE showing'[s] = None
    BY <2>1, <2>3 DEF Target
  <2>4. leaving' \in [Sources -> Reasons \cup {None}]
    BY <2>2
  <2>5. QED
    BY <2>1, <2>3, <2>4 DEF OffHasReason
<1>3. QED
  BY <1>1, <1>2

-----------------------------------------------------------------------------
(* The steps.                                                              *)

(* The ages of every watch moved on, and every source with a rule looked   *)
(* at.                                                                     *)
LEMMA TickSound ==
  ASSUME Sound, NEW d \in Elapsed, TickAfter(d)
  PROVE  /\ Sound'
         /\ \A s \in Sources : watch[s].stay => watch'[s].on /\ watch'[s].stay
<1> DEFINE why == [s \in Sources |-> IF s \in Leaving THEN "returned" ELSE leaving[s]]
<1>1. /\ d \in Nat /\ Long \in Nat /\ 0 \in Age
      /\ None \notin Reasons /\ "returned" \in Reasons
  BY FailoverAssumption DEF Age, Reasons
<1>2. ASSUME NEW s \in Sources
      PROVE  /\ watch'[s] \in Watches /\ Fresh(watch'[s])
             /\ watch[s].stay => watch'[s].on /\ watch'[s].stay
             /\ watch'[s].on => rule[s] # None
  <2>1. watch[s] \in Watches /\ Fresh(watch[s]) /\ (watch[s].on => rule[s] # None)
    BY DEF Sound, Shape, OneOutage, Fresh
  <2>2. /\ Older(watch[s].down, d) \in Age \cup {None}
        /\ Older(watch[s].up, d) \in Age \cup {None}
        /\ watch[s].up = None => Older(watch[s].up, d) = None
    BY <1>1, <2>1, OlderAge DEF Watches
  <2>3. /\ Aged(d)[s] \in Watches /\ Fresh(Aged(d)[s])
        /\ Aged(d)[s].on = watch[s].on /\ Aged(d)[s].stay = watch[s].stay
    BY <2>1, <2>2 DEF Aged, Watches, Fresh
  <2>4. Unconnected(s, d) \in Age \cup {None}
    <3>1. waited[s] \in Age \cup {None}
      BY DEF Sound, Shape
    <3>2. QED
      BY <1>1, <3>1, OlderAge DEF Unconnected
  <2>5. Live(s) \in BOOLEAN /\ Down(s) \in BOOLEAN
    BY DEF Live, Down
  <2>6. CASE rule[s] = None
    <3>1. watch'[s] = Aged(d)[s]
      BY <2>6 DEF TickAfter
    <3>2. ~Aged(d)[s].on /\ ~watch[s].stay
      BY <2>1, <2>3, <2>6 DEF Fresh
    <3>3. QED
      BY <2>3, <3>1, <3>2
  <2>7. CASE rule[s] # None
    <3>1. rule[s] \in Rules
      BY <2>7 DEF Sound, Shape
    <3>2. watch'[s] = Looked(Aged(d)[s], rule[s], Live(s), Down(s), Unconnected(s, d))
      BY <2>7 DEF TickAfter
    <3>3. QED
      BY <2>3, <2>4, <2>5, <2>7, <3>1, <3>2, LookedFresh
  <2>8. QED
    BY <2>6, <2>7
<1>3. why \in [Sources -> Reasons \cup {None}]
  BY <1>1 DEF Sound, Shape
<1>4. \A s \in Sources : showing[s] # None /\ ~watch'[s].on => why[s] # None
  BY <1>1 DEF Leaving, Sound, OffHasReason
<1>5. SwapStandIns(why, d)
  BY DEF TickAfter
<1>6. /\ leaving' \in [Sources -> Reasons \cup {None}] /\ OffHasReason'
      /\ showing' = [s \in Sources |-> showing'[s]]
  <2>1. showing = [s \in Sources |-> showing[s]]
    BY DEF Sound, Shape
  <2> HIDE DEF why
  <2>2. QED
    BY <1>3, <1>4, <1>5, <2>1, SwapKeepsReasons
<1>7. waited' \in [Sources -> Age \cup {None}]
  <2>1. \A s \in Sources : Older(waited[s], d) \in Age \cup {None}
    BY <1>1, OlderAge DEF Sound, Shape
  <2>2. QED
    BY <1>1, <2>1 DEF TickAfter
<1>8. cause' \in [Sources -> Reasons \cup {None}]
  BY <1>1 DEF TickAfter, Sound, Shape
<1>9. watch' \in [Sources -> Watches]
  <2>1. watch' = [s \in Sources |-> watch'[s]]
    BY DEF TickAfter
  <2>2. QED
    BY <1>2, <2>1
<1>10. UNCHANGED <<known, rule>>
  BY DEF TickAfter
<1>11. OneOutage'
  BY <1>2, <1>10 DEF Sound, RulesKnown, OneOutage, Fresh
<1>12. QED
  BY <1>2, <1>6, <1>7, <1>8, <1>9, <1>10, <1>11 DEF Sound, Shape, RulesKnown

(* The source is built again, refused or added: a source the board knows   *)
(* keeps its rule and its watch, another starts with the config's.         *)
LEMMA AdoptSound ==
  ASSUME Sound, NEW s \in Sources, Adopt(s), UNCHANGED <<showing, leaving, cause>>,
         waited' \in [Sources -> Age \cup {None}]
  PROVE  /\ Sound'
         /\ \A x \in Sources : watch[x].stay => watch'[x].on /\ watch'[x].stay
<1>1. CASE UNCHANGED <<known, rule, watch>>
  BY <1>1 DEF Sound, Shape, RulesKnown, OneOutage, OffHasReason
<1>2. CASE /\ s \notin known
           /\ known' = known \cup {s}
           /\ rule' = [rule EXCEPT ![s] = Config[s]]
           /\ watch' = [watch EXCEPT ![s] = Idle]
           /\ Config[s] # None
  <2>1. Idle \in Watches /\ ~Idle.on /\ ~Idle.stay /\ Idle.up = None
    BY DEF Idle, Watches
  <2>2. Config[s] \in Rules \cup {None}
    BY FailoverAssumption
  <2>3. watch[s].on = FALSE /\ ~watch[s].stay
    BY <1>2 DEF Sound, Shape, OneOutage, Watches
  <2>4. Shape' /\ RulesKnown'
    BY <1>2, <2>1, <2>2 DEF Sound, Shape, RulesKnown
  <2>5. OneOutage'
    BY <1>2, <2>1 DEF Sound, Shape, OneOutage
  <2>6. OffHasReason'
    BY <1>2, <2>1, <2>3 DEF Sound, Shape, OffHasReason
  <2>7. QED
    BY <1>2, <2>3, <2>4, <2>5, <2>6 DEF Sound, Shape, OneOutage
<1>3. QED
  BY <1>1, <1>2 DEF Adopt

(* A removal takes the entry with everything in it. *)
LEMMA RemoveSound ==
  ASSUME Sound, NEW s \in Sources, Remove(s)
  PROVE  /\ Sound'
         /\ \A x \in Sources \ {s} : watch[x].stay => watch'[x].on /\ watch'[x].stay
<1>1. Idle \in Watches /\ ~Idle.on /\ ~Idle.stay /\ Idle.up = None
  BY DEF Idle, Watches
<1>2. Shape' /\ RulesKnown'
  <2>1. showing' = [x \in Sources |-> showing'[x]]
    <3>1. showing = [x \in Sources |-> showing[x]] /\ showing' = [showing EXCEPT ![s] = None]
      BY DEF Sound, Shape, Remove
    <3>2. QED
      BY <3>1
  <2>2. RulesKnown'
    BY DEF Sound, Shape, RulesKnown, Remove
  <2>3. QED
    BY <1>1, <2>1, <2>2 DEF Sound, Shape, Remove
<1>3. OneOutage'
  BY <1>1 DEF Sound, Shape, RulesKnown, OneOutage, Remove
<1>4. OffHasReason'
  BY <1>1 DEF Sound, Shape, OffHasReason, Remove
<1>5. QED
  BY <1>2, <1>3, <1>4 DEF Sound, Shape, OneOutage, Remove

(* The operator's return, and the rule taken away while its backup is on:  *)
(* the source is off its backup with the reason given.                     *)
LEMMA TakenOff ==
  ASSUME Sound, NEW s \in Sources, NEW reason \in Reasons,
         watch' = [watch EXCEPT ![s] = Disengaged(@)],
         SwapStandIns([leaving EXCEPT ![s] = reason], 0)
  PROVE  /\ watch' \in [Sources -> Watches]
         /\ leaving' \in [Sources -> Reasons \cup {None}] /\ OffHasReason'
         /\ showing' = [x \in Sources |-> showing'[x]]
         /\ \A x \in Sources : Fresh(watch'[x]) /\ (watch'[x].on => x # s /\ watch[x].on)
         /\ ~watch'[s].stay /\ \A x \in Sources \ {s} : watch'[x] = watch[x]
<1>1. None \notin Reasons
  BY FailoverAssumption DEF Reasons
<1>2. watch \in [Sources -> Watches] /\ leaving \in [Sources -> Reasons \cup {None}]
      /\ showing = [x \in Sources |-> showing[x]]
  BY DEF Sound, Shape
<1>3. watch[s] \in Watches
  BY <1>2
<1>4. /\ watch'[s] = Disengaged(watch[s])
      /\ \A x \in Sources \ {s} : watch'[x] = watch[x]
  BY <1>2
<1>5. Disengaged(watch[s]) \in Watches /\ Fresh(watch'[s]) /\ ~watch'[s].on /\ ~watch'[s].stay
  BY <1>3, <1>4, DisengagedFresh
<1>6. \A x \in Sources : Fresh(watch'[x])
  BY <1>4, <1>5 DEF Sound, OneOutage, Fresh
<1>7. [leaving EXCEPT ![s] = reason] \in [Sources -> Reasons \cup {None}]
  BY <1>2
<1>8. \A x \in Sources : showing[x] # None /\ ~watch'[x].on => [leaving EXCEPT ![s] = reason][x] # None
  BY <1>1, <1>2, <1>4 DEF Sound, OffHasReason
<1>9. /\ leaving' \in [Sources -> Reasons \cup {None}] /\ OffHasReason'
      /\ showing' = [x \in Sources |-> showing'[x]]
  BY <1>2, <1>7, <1>8, SwapKeepsReasons
<1>10. watch' \in [Sources -> Watches]
  BY <1>2, <1>5
<1>11. QED
  BY <1>4, <1>5, <1>6, <1>9, <1>10

(* The operator sets a rule, changes it or takes it away. *)
LEMMA SetSound ==
  ASSUME Sound, NEW s \in Sources, NEW r \in Settable, SetOnLoss(s, r)
  PROVE  /\ Sound'
         /\ \A x \in Sources : watch[x].stay =>
              \/ watch'[x].on /\ watch'[x].stay
              \/ ~watch'[x].on /\ ~watch'[x].stay /\ cause'[x] \in {"operator", "cleared"}
<1>1. /\ rule' = [rule EXCEPT ![s] = r] /\ known' = known \cup {s} /\ waited' = waited
      /\ r \in Rules \cup {None} /\ "cleared" \in Reasons
  BY FailoverAssumption DEF SetOnLoss, slots, clocks, Reasons
<1>2. rule' \in [Sources -> Rules \cup {None}] /\ RulesKnown'
  BY <1>1 DEF Sound, Shape, RulesKnown
<1>3. CASE r = None /\ watch[s].on
  <2>1. /\ watch' = [watch EXCEPT ![s] = Disengaged(@)]
        /\ cause' = [cause EXCEPT ![s] = "cleared"]
        /\ SwapStandIns([leaving EXCEPT ![s] = "cleared"], 0)
    BY <1>3 DEF SetOnLoss
  <2>2. /\ watch' \in [Sources -> Watches]
        /\ leaving' \in [Sources -> Reasons \cup {None}] /\ OffHasReason'
        /\ showing' = [x \in Sources |-> showing'[x]]
        /\ \A x \in Sources : Fresh(watch'[x]) /\ (watch'[x].on => x # s /\ watch[x].on)
        /\ ~watch'[s].stay /\ \A x \in Sources \ {s} : watch'[x] = watch[x]
    BY <1>1, <2>1, TakenOff
  <2>3. cause' \in [Sources -> Reasons \cup {None}]
    BY <1>1, <2>1 DEF Sound, Shape
  <2>4. OneOutage'
    BY <1>1, <2>2 DEF Sound, Shape, OneOutage, Fresh
  <2>5. cause'[s] = "cleared"
    BY <2>1 DEF Sound, Shape
  <2>6. QED
    BY <1>1, <1>2, <2>2, <2>3, <2>4, <2>5 DEF Sound, Shape, OneOutage
<1>4. CASE ~(r = None /\ watch[s].on)
  <2>1. UNCHANGED <<watch, cause>> /\ SwapStandIns(leaving, 0)
    BY <1>4 DEF SetOnLoss
  <2>2. /\ leaving' \in [Sources -> Reasons \cup {None}] /\ OffHasReason'
        /\ showing' = [x \in Sources |-> showing'[x]]
    BY <2>1, SwapKeepsReasons DEF Sound, Shape, OffHasReason
  <2>3. OneOutage'
    BY <1>1, <1>4, <2>1 DEF Sound, Shape, OneOutage
  <2>4. QED
    BY <1>1, <1>2, <2>1, <2>2, <2>3 DEF Sound, Shape, OneOutage
<1>5. QED
  BY <1>3, <1>4

(* The operator goes back to the source. *)
LEMMA ReturnSound ==
  ASSUME Sound, NEW s \in Sources, Return(s)
  PROVE  /\ Sound'
         /\ \A x \in Sources : watch[x].stay =>
              \/ watch'[x].on /\ watch'[x].stay
              \/ ~watch'[x].on /\ ~watch'[x].stay /\ cause'[x] \in {"operator", "cleared"}
<1>1. /\ UNCHANGED <<known, rule, waited>> /\ "operator" \in Reasons
      /\ watch' = [watch EXCEPT ![s] = Disengaged(@)]
      /\ cause' = [cause EXCEPT ![s] = "operator"]
      /\ SwapStandIns([leaving EXCEPT ![s] = "operator"], 0)
  BY DEF Return, slots, clocks, Reasons
<1>2. /\ watch' \in [Sources -> Watches]
      /\ leaving' \in [Sources -> Reasons \cup {None}] /\ OffHasReason'
      /\ showing' = [x \in Sources |-> showing'[x]]
      /\ \A x \in Sources : Fresh(watch'[x]) /\ (watch'[x].on => x # s /\ watch[x].on)
      /\ ~watch'[s].stay /\ \A x \in Sources \ {s} : watch'[x] = watch[x]
  BY <1>1, TakenOff
<1>3. cause' \in [Sources -> Reasons \cup {None}] /\ cause'[s] = "operator"
  BY <1>1 DEF Sound, Shape
<1>4. OneOutage'
  BY <1>1, <1>2 DEF Sound, OneOutage, Fresh
<1>5. QED
  BY <1>1, <1>2, <1>3, <1>4 DEF Sound, Shape, RulesKnown, OneOutage

-----------------------------------------------------------------------------
(* The theorems.                                                           *)

(* What one step does with a source that was told to stay. *)
StepStays ==
  \A s \in Sources :
    watch[s].stay => \/ watch'[s].on /\ watch'[s].stay
                     \/ /\ ~watch'[s].on /\ ~watch'[s].stay
                        /\ s \notin known' \/ cause'[s] \in {"operator", "cleared"}

(* A mixer starts with every watch idle. *)
LEMMA InitSound == Init => Sound
<1> SUFFICES ASSUME Init PROVE Sound
  OBVIOUS
<1>1. Idle \in Watches /\ ~Idle.on /\ ~Idle.stay /\ Idle.up = None
  BY DEF Idle, Watches
<1>2. Config \in [Sources -> Rules \cup {None}]
  BY FailoverAssumption
<1>3. Shape
  <2>1. waited \in [Sources -> Age \cup {None}]
    <3>1. 0 \in Age
      BY FailoverAssumption DEF Age
    <3>2. QED
      BY <3>1 DEF Init
  <2>2. QED
    BY <1>1, <1>2, <2>1 DEF Init, Shape, Silence
<1>4. RulesKnown /\ OneOutage /\ OffHasReason
  BY <1>1 DEF Init, RulesKnown, OneOutage, OffHasReason, Silence
<1>5. QED
  BY <1>3, <1>4 DEF Sound

(* Every step keeps the board sound, and what was told to stay. *)
LEMMA StepSound == Sound /\ [Next]_vars => Sound' /\ StepStays
<1> SUFFICES ASSUME Sound, [Next]_vars PROVE Sound' /\ StepStays
  OBVIOUS
<1>1. CASE Tick
  BY <1>1, TickSound DEF Tick, StepStays
<1>2. CASE StartTake \/ EndTransition
  BY <1>2 DEF StartTake, EndTransition, slots, clocks, observed, Sound, Shape, RulesKnown,
              OneOutage, OffHasReason, StepStays
<1>3. ASSUME NEW s \in Sources, Come(s) \/ Stall(s) \/ Fail(s) \/ Restart(s) \/ Probe(s)
      PROVE  Sound' /\ StepStays
  BY <1>3 DEF Come, Stall, Fail, Restart, Probe, Feeding, Unmoved, clocks, observed, Sound, Shape,
              RulesKnown, OneOutage, OffHasReason, StepStays
<1>4. ASSUME NEW s \in Sources, Rebuild(s) PROVE Sound' /\ StepStays
  BY <1>4 DEF Rebuild, Unmoved, observed, Sound, Shape, RulesKnown,
              OneOutage, OffHasReason, StepStays
<1>5. ASSUME NEW s \in Sources, Add(s) PROVE Sound' /\ StepStays
  <2>1. waited' \in [Sources -> Age \cup {None}]
    BY <1>5 DEF Add, clocks, Sound, Shape
  <2>2. QED
    BY <1>5, <2>1, AdoptSound DEF Add, observed, StepStays
<1>6. ASSUME NEW s \in Sources, Refuse(s) PROVE Sound' /\ StepStays
  <2>1. waited' \in [Sources -> Age \cup {None}]
    <3>1. 0 \in Age
      BY FailoverAssumption DEF Age
    <3>2. QED
      BY <1>6, <3>1 DEF Refuse, Sound, Shape
  <2>2. QED
    BY <1>6, <2>1, AdoptSound DEF Refuse, observed, StepStays
<1>7. ASSUME NEW s \in Sources, Remove(s) PROVE Sound' /\ StepStays
  <2>1. ~watch'[s].stay /\ ~watch'[s].on /\ s \notin known'
    BY <1>7 DEF Remove, Sound, Shape, Idle
  <2>2. QED
    BY <1>7, <2>1, RemoveSound DEF StepStays
<1>8. ASSUME NEW s \in Sources, Return(s) PROVE Sound' /\ StepStays
  BY <1>8, ReturnSound DEF StepStays
<1>9. ASSUME NEW s \in Sources, Stay(s) PROVE Sound' /\ StepStays
  <2>1. /\ watch' = [watch EXCEPT ![s].stay = TRUE] /\ watch[s].on
        /\ UNCHANGED <<waited, known, rule, showing, leaving, cause>>
    BY <1>9 DEF Stay, slots, clocks, observed
  <2>2. watch[s] \in Watches /\ watch \in [Sources -> Watches]
    BY DEF Sound, Shape
  <2>3. /\ watch'[s] \in Watches /\ watch'[s].on = watch[s].on
        /\ watch'[s].stay /\ watch'[s].up = watch[s].up
    BY <2>1, <2>2 DEF Watches
  <2>4. \A x \in Sources \ {s} : watch'[x] = watch[x]
    BY <2>1, <2>2
  <2>5. watch' \in [Sources -> Watches]
    BY <2>1, <2>2 DEF Watches
  <2>6. OneOutage' /\ OffHasReason'
    BY <2>1, <2>3, <2>4 DEF Sound, OneOutage, OffHasReason
  <2>7. QED
    BY <2>1, <2>3, <2>4, <2>5, <2>6 DEF Sound, Shape, RulesKnown, OneOutage, StepStays
<1>10. ASSUME NEW s \in Sources, NEW r \in Settable, SetOnLoss(s, r) PROVE Sound' /\ StepStays
  BY <1>10, SetSound DEF StepStays
<1>11. CASE UNCHANGED vars
  BY <1>11 DEF vars, Sound, Shape, RulesKnown, OneOutage, OffHasReason, StepStays
<1>12. QED
  BY <1>1, <1>2, <1>3, <1>4, <1>5, <1>6, <1>7, <1>8, <1>9, <1>10, <1>11 DEF Next

(* The board is sound in every state. *)
THEOREM BoardSound == Spec => []Sound
<1>1. Init => Sound
  BY InitSound
<1>2. Sound /\ [Next]_vars => Sound'
  BY StepSound
<1>3. QED
  BY <1>1, <1>2, PTL DEF Spec

(* For any sources, rules and times: no flag or clock of a return outlives *)
(* the outage it belongs to, and only a source with a rule is on its       *)
(* backup.                                                                 *)
THEOREM NothingLeftOver == Spec => []OneOutage
<1>1. Sound => OneOutage
  BY DEF Sound
<1>2. QED
  BY <1>1, BoardSound, PTL

(* For any sources, rules and times: however long a transition puts a swap *)
(* off, a backup that is on its way out has its reason written down.       *)
THEOREM ReasonIsThere == Spec => []OffHasReason
<1>1. Sound => OffHasReason
  BY DEF Sound
<1>2. QED
  BY <1>1, BoardSound, PTL

(* For any sources, rules and times: a source told to stay on its backup   *)
(* comes off it only by an operator's hand, and then no longer has to      *)
(* stay.                                                                   *)
THEOREM StaysUntilTold == Spec => StayForOneOutage
<1>1. Sound /\ [Next]_vars => StepStays
  BY StepSound
<1>2. StepStays => [StepStays]_vars
  OBVIOUS
<1>3. Spec => [][StepStays]_vars
  BY <1>1, <1>2, BoardSound, PTL DEF Spec
<1>4. QED
  BY <1>3 DEF StayForOneOutage, StepStays

-----------------------------------------------------------------------------
(* Counting up, and what a chain is made of.                               *)

(* Every set of numbers that is not empty has a least one: of the stretches *)
(* below its members, which are finite, one has no smaller one inside it.  *)
LEMMA Least ==
  ASSUME NEW S \in SUBSET Nat, S # {}
  PROVE  \E k \in S : \A m \in S : k <= m
<1> DEFINE F == FiniteSubsetsOf(Nat)
           T == {0 .. k - 1 : k \in S}
<1>1. \A m \in Nat : 0 .. m - 1 \subseteq Nat /\ IsFiniteSet(0 .. m - 1)
  BY FS_Interval
<1>2. T \subseteq F /\ T # {}
  BY <1>1 DEF FiniteSubsetsOf
<1>3. IsWellFoundedOn(StrictSubsetOrdering(Nat), F)
  BY FS_StrictSubsetOrderingWellFounded
<1> HIDE DEF F
<1>4. PICK x \in T : \A y \in T : <<y, x>> \notin StrictSubsetOrdering(Nat)
  <2> HIDE DEF T
  <2>1. QED
    BY <1>2, <1>3, WFMin
<1>5. PICK k \in S : x = 0 .. k - 1
  OBVIOUS
<1>6. ASSUME NEW m \in S, m < k PROVE FALSE
  <2>1. 0 .. m - 1 \subseteq x /\ m \in x /\ m \notin 0 .. m - 1 /\ x \subseteq Nat
    BY <1>5, <1>6
  <2>2. 0 .. m - 1 \in SUBSET Nat /\ x \in SUBSET Nat /\ 0 .. m - 1 # x
    BY <2>1
  <2>3. <<0 .. m - 1, x>> \in StrictSubsetOrdering(Nat)
    BY <2>1, <2>2 DEF StrictSubsetOrdering
  <2>4. QED
    BY <1>4, <2>3
<1>7. \A m \in S : k <= m
  BY <1>6
<1>8. QED
  BY <1>7

(* A set of numbers with 0 and with the next of each has them all. *)
LEMMA Upwards ==
  ASSUME NEW S, 0 \in S, \A k \in Nat : k \in S => k + 1 \in S
  PROVE  Nat \subseteq S
<1> SUFFICES ASSUME Nat \ S # {} PROVE FALSE
  OBVIOUS
<1>1. PICK k \in Nat \ S : \A m \in Nat \ S : k <= m
  <2>1. Nat \ S \in SUBSET Nat
    OBVIOUS
  <2>2. QED
    BY <2>1, Least
<1>2. k # 0 /\ k - 1 \in Nat
  BY <1>1
<1>3. k - 1 \in S
  BY <1>1, <1>2
<1>4. QED
  BY <1>2, <1>3

(* One more link of a chain, if there is one to add. *)
Linked(rules, s, seen) ==
  LET from == IF seen = <<>> THEN s ELSE seen[Len(seen)]
      b == IF rules[from] = None THEN None ELSE rules[from].backup
  IN IF b # None /\ b # s /\ \A i \in DOMAIN seen : seen[i] # b THEN Append(seen, b) ELSE seen

Links(rules, s, n) ==
  CHOOSE f : f = [m \in 0 .. n |-> IF m = 0 THEN <<>> ELSE Linked(rules, s, f[m - 1])]

LEMMA ChainIsLinks ==
  ASSUME NEW rules, NEW s
  PROVE  Chain(rules, s) = Links(rules, s, Cardinality(Sources))[Cardinality(Sources)]
BY DEF Chain, Links, Linked

(* What links are made of can be listed, however many there are. *)
LEMMA LinksThere ==
  ASSUME NEW rules, NEW s, NEW n \in Nat
  PROVE  Links(rules, s, n) =
           [m \in 0 .. n |-> IF m = 0 THEN <<>> ELSE Linked(rules, s, Links(rules, s, n)[m - 1])]
<1> DEFINE Lists(f, k) == f = [m \in 0 .. k |-> IF m = 0 THEN <<>> ELSE Linked(rules, s, f[m - 1])]
           S == {k \in Nat : \E f : Lists(f, k)}
<1>1. 0 \in S
  <2>1. Lists([m \in 0 .. 0 |-> <<>>], 0)
    OBVIOUS
  <2>2. QED
    BY <2>1
<1>2. ASSUME NEW k \in Nat, k \in S PROVE k + 1 \in S
  <2>1. PICK f : Lists(f, k)
    BY <1>2
  <2> DEFINE g == [m \in 0 .. k + 1 |-> IF m = k + 1 THEN Linked(rules, s, f[k]) ELSE f[m]]
  <2>2. ASSUME NEW m \in 0 .. k + 1
        PROVE  g[m] = IF m = 0 THEN <<>> ELSE Linked(rules, s, g[m - 1])
    <3>1. CASE m = k + 1
      <4>1. m # 0 /\ g[m] = Linked(rules, s, f[k]) /\ g[m - 1] = f[k]
        BY <3>1
      <4>2. QED
        BY <4>1
    <3>2. CASE m # k + 1 /\ m # 0
      <4>1. m \in 0 .. k /\ m - 1 \in 0 .. k
        BY <3>2
      <4>2. g[m] = f[m] /\ g[m - 1] = f[m - 1]
        BY <4>1
      <4>3. f[m] = Linked(rules, s, f[m - 1])
        BY <2>1, <3>2, <4>1
      <4>4. QED
        BY <3>2, <4>2, <4>3
    <3>3. CASE m = 0
      <4>1. f[0] = <<>>
        BY <2>1
      <4>2. QED
        BY <3>3, <4>1
    <3>4. QED
      BY <3>1, <3>2, <3>3
  <2>3. Lists(g, k + 1)
    BY <2>2
  <2> HIDE DEF g, Lists
  <2>4. k + 1 \in Nat /\ \E h : Lists(h, k + 1)
    BY <2>3
  <2>5. QED
    BY <2>4
<1>3. n \in S
  <2> HIDE DEF S
  <2>1. QED
    BY <1>1, <1>2, Upwards
<1>4. \E f : Lists(f, n)
  BY <1>3
<1>5. Links(rules, s, n) = CHOOSE f : Lists(f, n)
  BY DEF Links
<1>6. Lists(Links(rules, s, n), n)
  <2> HIDE DEF Lists
  <2>1. QED
    BY <1>4, <1>5
<1>7. QED
  BY <1>6

(* However the rules run into each other, a chain lists sources, each of   *)
(* them once, and never the source it stands in for.                       *)
LEMMA ChainLists ==
  ASSUME NEW rules \in [Sources -> Rules \cup {None}], NEW s \in Sources
  PROVE  /\ Chain(rules, s) \in Seq(Sources \ {s})
         /\ \A i, j \in DOMAIN Chain(rules, s) : Chain(rules, s)[i] = Chain(rules, s)[j] => i = j
<1> DEFINE n == Cardinality(Sources)
           link == Links(rules, s, n)
           Apart(seen) == \A i, j \in DOMAIN seen : seen[i] = seen[j] => i = j
           Good(seen) == seen \in Seq(Sources \ {s}) /\ Apart(seen)
           S == {k \in Nat : k <= n => Good(link[k])}
<1>1. n \in Nat
  BY FailoverAssumption, FS_CardinalityType
<1>2. ASSUME NEW seen, Good(seen) PROVE Good(Linked(rules, s, seen))
  <2> DEFINE from == IF seen = <<>> THEN s ELSE seen[Len(seen)]
             b == IF rules[from] = None THEN None ELSE rules[from].backup
  <2>1. from \in Sources
    BY <1>2
  <2>2. b \in Sources \cup {None}
    BY <2>1, FailoverAssumption
  <2> HIDE DEF from
  <2>3. CASE b # None /\ b # s /\ \A i \in DOMAIN seen : seen[i] # b
    <3>1. Linked(rules, s, seen) = Append(seen, b)
      BY <2>3 DEF Linked, from
    <3> HIDE DEF b
    <3>2. b \in Sources \ {s}
      BY <2>2, <2>3
    <3>3. seen \in Seq(Sources \ {s}) /\ Len(seen) \in Nat /\ DOMAIN seen = 1 .. Len(seen)
      BY <1>2
    <3>4. Append(seen, b) \in Seq(Sources \ {s})
      BY <3>2, <3>3
    <3>5. /\ DOMAIN Append(seen, b) = 1 .. Len(seen) + 1
          /\ Append(seen, b)[Len(seen) + 1] = b
          /\ \A i \in 1 .. Len(seen) : Append(seen, b)[i] = seen[i]
      BY <3>2, <3>3
    <3>6. Apart(Append(seen, b))
      <4> SUFFICES ASSUME NEW i \in 1 .. Len(seen) + 1, NEW j \in 1 .. Len(seen) + 1,
                          Append(seen, b)[i] = Append(seen, b)[j]
                   PROVE  i = j
        BY <3>5
      <4>1. CASE i \in 1 .. Len(seen) /\ j \in 1 .. Len(seen)
        BY <1>2, <3>3, <3>5, <4>1
      <4>2. CASE i = Len(seen) + 1 /\ j \in 1 .. Len(seen)
        BY <2>3, <3>3, <3>5, <4>2
      <4>3. CASE j = Len(seen) + 1 /\ i \in 1 .. Len(seen)
        BY <2>3, <3>3, <3>5, <4>3
      <4>4. QED
        BY <3>3, <4>1, <4>2, <4>3
    <3>7. QED
      BY <3>1, <3>4, <3>6
  <2>4. CASE ~(b # None /\ b # s /\ \A i \in DOMAIN seen : seen[i] # b)
    <3>1. Linked(rules, s, seen) = seen
      BY <2>4 DEF Linked, from
    <3>2. QED
      BY <1>2, <3>1
  <2>5. QED
    BY <2>3, <2>4
<1>3. \A m \in 0 .. n : link[m] = IF m = 0 THEN <<>> ELSE Linked(rules, s, link[m - 1])
  <2>1. link = [m \in 0 .. n |-> IF m = 0 THEN <<>> ELSE Linked(rules, s, link[m - 1])]
    BY <1>1, LinksThere
  <2> HIDE DEF link, n
  <2>2. QED
    BY <2>1
<1> HIDE DEF link, n
<1>4. 0 \in S
  <2>1. link[0] = <<>>
    BY <1>1, <1>3
  <2>2. Good(<<>>)
    OBVIOUS
  <2> HIDE DEF Good
  <2>3. Good(link[0])
    BY <2>1, <2>2
  <2>4. QED
    BY <2>3
<1>5. ASSUME NEW k \in Nat, k \in S PROVE k + 1 \in S
  <2>1. CASE k + 1 <= n
    <3>1. k + 1 \in 0 .. n /\ k + 1 # 0 /\ k + 1 - 1 = k
      BY <1>1, <2>1
    <3>2. link[k + 1] = Linked(rules, s, link[k])
      BY <1>3, <3>1
    <3> HIDE DEF Good
    <3>3. Good(link[k])
      BY <1>1, <1>5, <2>1
    <3>4. QED
      BY <1>2, <3>2, <3>3
  <2>2. QED
    BY <2>1
<1>6. n \in S
  <2> HIDE DEF S
  <2>1. QED
    BY <1>1, <1>4, <1>5, Upwards
<1>7. Good(link[n])
  BY <1>1, <1>6
<1>8. Chain(rules, s) = link[n]
  BY ChainIsLinks DEF link, n
<1>9. QED
  BY <1>7, <1>8

(* The members of a chain are sources. *)
LEMMA MembersAreSources ==
  ASSUME NEW rules \in [Sources -> Rules \cup {None}], NEW s \in Sources
  PROVE  /\ Chain(rules, s) \in Seq(Sources)
         /\ Members(Chain(rules, s)) \subseteq Sources
<1>1. PICK chain : chain = Chain(rules, s)
  OBVIOUS
<1>2. chain \in Seq(Sources \ {s})
  BY <1>1, ChainLists
<1>3. chain \in Seq(Sources)
  BY <1>2
<1>4. QED
  BY <1>1, <1>3 DEF Members

(* The first live one is a live member, and there is none only when no     *)
(* member is live.                                                         *)
LEMMA FirstLiveIsLive ==
  ASSUME NEW chain \in Seq(Sources)
  PROVE  /\ FirstLive(chain) # None => FirstLive(chain) \in Members(chain) /\ Live(FirstLive(chain))
         /\ FirstLive(chain) = None => \A b \in Members(chain) : ~Live(b)
<1>1. CASE ~\E i \in DOMAIN chain : Live(chain[i])
  BY <1>1 DEF FirstLive, Members
<1>2. CASE \E i \in DOMAIN chain : Live(chain[i])
  <2> DEFINE S == {i \in DOMAIN chain : Live(chain[i])}
             Is(i) == Live(chain[i]) /\ \A j \in 1..(i - 1) : ~Live(chain[j])
  <2>1. S \in SUBSET Nat /\ S # {} /\ DOMAIN chain = 1 .. Len(chain) /\ Len(chain) \in Nat
    BY <1>2
  <2>2. PICK k \in S : \A m \in S : k <= m
    <3> HIDE DEF S
    <3>1. QED
      BY <2>1, Least
  <2>3. Is(k)
    BY <2>1, <2>2
  <2>4. FirstLive(chain) = chain[CHOOSE i \in DOMAIN chain : Is(i)]
    BY <1>2 DEF FirstLive
  <2>5. PICK i \in DOMAIN chain : FirstLive(chain) = chain[i] /\ Is(i)
    <3>1. k \in DOMAIN chain
      OBVIOUS
    <3> HIDE DEF Is
    <3>2. QED
      BY <2>3, <2>4, <3>1
  <2>6. chain[i] \in Sources /\ chain[i] # None
    BY FailoverAssumption
  <2>7. QED
    BY <2>5, <2>6 DEF Members
<1>3. QED
  BY <1>1, <1>2
-----------------------------------------------------------------------------
(* The shape of the whole state.                                           *)

(* TypeOK in parts: what the mixer's slots keep, and what the board draws. *)
SlotsTyped ==
  /\ feed \in [Sources -> Feeds] /\ tried \in [Sources -> BOOLEAN]
  /\ {sighted, faring} \subseteq [Sources -> Age \cup {None}]
  /\ {rebuilding, noted, struck} \subseteq SUBSET Sources
  /\ doubted \in [Sources -> BOOLEAN]
DrawingTyped ==
  /\ showing \in [Sources -> Sources \cup {None}]
  /\ told \in [Sources -> Reasons \cup {None}]
  /\ known \subseteq Sources /\ crossing \in BOOLEAN
Typed == SlotsTyped /\ DrawingTyped

(* What should be drawn is a source of the chain, or nothing in its place. *)
LEMMA TargetIsSource ==
  ASSUME rule' \in [Sources -> Rules \cup {None}], NEW s \in Sources, NEW d
  PROVE  Target(s, d) \in Sources \cup {None}
<1> DEFINE chain == Chain(rule', s)
<1>1. chain \in Seq(Sources) /\ Members(chain) \subseteq Sources
  BY MembersAreSources
<1>2. Target(s, d) = IF rule'[s] = None \/ ~watch'[s].on THEN None
                     ELSE IF showing[s] \in Members(chain) /\ LiveWithin(showing[s], d) THEN showing[s]
                     ELSE FirstLive(chain)
  BY DEF Target
<1> HIDE DEF chain
<1>3. FirstLive(chain) \in Sources \cup {None}
  BY <1>1, FirstLiveIsLive
<1>4. QED
  BY <1>1, <1>2, <1>3

(* A swap, drawn or put off, keeps what is drawn and said in shape. *)
LEMMA SwapTyped ==
  ASSUME DrawingTyped, rule' \in [Sources -> Rules \cup {None}], NEW d,
         NEW why \in [Sources -> Reasons \cup {None}], SwapStandIns(why, d)
  PROVE  /\ showing' \in [Sources -> Sources \cup {None}]
         /\ told' \in [Sources -> Reasons \cup {None}]
         /\ crossing' \in BOOLEAN
<1> DEFINE to == [s \in Sources |-> Target(s, d)]
<1>1. to \in [Sources -> Sources \cup {None}]
  BY TargetIsSource
<1> HIDE DEF to
<1>2. CASE crossing \/ to = showing
  BY <1>2 DEF SwapStandIns, PutOff, Silence, DrawingTyped, to
<1>3. CASE ~(crossing \/ to = showing)
  <2> DEFINE off == {s \in Sources : showing[s] # None /\ showing'[s] = None}
             moved == \E s \in Sources : showing'[s] # showing[s] /\ rule'[s] # None
  <2>1. /\ showing' = to
        /\ told' = [s \in Sources |-> IF s \notin off THEN None
                                      ELSE IF why[s] = None THEN "backup_down" ELSE why[s]]
        /\ crossing' \in {FALSE, moved}
    BY <1>3 DEF SwapStandIns, to
  <2>2. "backup_down" \in Reasons /\ moved \in BOOLEAN
    BY DEF Reasons
  <2> HIDE DEF off, moved
  <2>3. told' \in [Sources -> Reasons \cup {None}]
    BY <2>1, <2>2
  <2>4. QED
    BY <1>1, <2>1, <2>2, <2>3
<1>4. QED
  BY <1>2, <1>3

(* What the supervisor makes of the slots: sources struck, and ages. *)
LEMMA JudgeTyped ==
  ASSUME SlotsTyped, NEW d \in Nat, Judge(d)
  PROVE  struck' \subseteq Sources /\ faring' \in [Sources -> Age \cup {None}]
<1> DEFINE stays == [s \in Sources |-> IF feed[s] \in Slots /\ ~Live(s) THEN None
                                       ELSE IF Live(s) /\ faring[s] = None THEN 0
                                       ELSE Older(faring[s], d)]
           forgiven == {s \in struck : Live(s) /\ stays[s] >= HealthyFor}
<1>1. PICK hit \in SUBSET {s \in Faulty : feed[s] \in Slots} :
        /\ struck' = (struck \ forgiven) \cup hit
        /\ faring' = [s \in Sources |-> IF s \in struck' \ hit THEN stays[s] ELSE None]
  BY DEF Judge
<1>2. Faulty \subseteq Sources /\ 0 \in Age
  BY FailoverAssumption DEF Age
<1>3. \A s \in Sources : Older(faring[s], d) \in Age \cup {None}
  BY OlderAge DEF SlotsTyped
<1>4. \A s \in Sources : stays[s] \in Age \cup {None}
  BY <1>2, <1>3
<1> HIDE DEF stays, forgiven
<1>5. QED
  BY <1>1, <1>2, <1>4 DEF SlotsTyped

(* Every step keeps the state in shape. *)
LEMMA StepTyped == Sound /\ Typed /\ [Next]_vars => Typed'
<1> SUFFICES ASSUME Sound, Typed, [Next]_vars PROVE Typed'
  OBVIOUS
<1>1. Sound' /\ rule' \in [Sources -> Rules \cup {None}]
      /\ leaving \in [Sources -> Reasons \cup {None}]
  BY StepSound DEF Sound, Shape
<1>2. Silence \in [Sources -> Reasons \cup {None}] /\ "cleared" \in Reasons
      /\ "operator" \in Reasons /\ "returned" \in Reasons
  BY DEF Silence, Reasons
<1>3. ASSUME NEW d \in Elapsed, TickAfter(d) PROVE Typed'
  <2> DEFINE why == [s \in Sources |-> IF s \in Leaving THEN "returned" ELSE leaving[s]]
  <2>1. why \in [Sources -> Reasons \cup {None}] /\ SwapStandIns(why, d)
    BY <1>1, <1>2, <1>3 DEF TickAfter
  <2> HIDE DEF why
  <2>2. DrawingTyped'
    BY <1>1, <1>3, <2>1, SwapTyped DEF TickAfter, Typed, DrawingTyped
  <2>3. d \in Nat /\ 0 \in Age
    BY FailoverAssumption DEF Age
  <2>4. \A s \in Sources : Older(sighted[s], d) \in Age \cup {None}
    BY <2>3, OlderAge DEF Typed, SlotsTyped
  <2>5. sighted' \in [Sources -> Age \cup {None}]
    BY <1>3, <2>3, <2>4 DEF TickAfter
  <2>6. /\ UNCHANGED <<feed, rebuilding, noted>>
        /\ tried' \in [Sources -> BOOLEAN] /\ doubted' \in [Sources -> BOOLEAN]
    BY <1>3 DEF TickAfter, Live, Typed, SlotsTyped
  <2>7. struck' \subseteq Sources /\ faring' \in [Sources -> Age \cup {None}]
    BY <1>3, <2>3, JudgeTyped DEF TickAfter, Typed
  <2>8. QED
    BY <2>2, <2>5, <2>6, <2>7 DEF Typed, SlotsTyped
<1>4. CASE StartTake \/ EndTransition
  BY <1>2, <1>4 DEF StartTake, EndTransition, slots, clocks, observed, Quiet, Typed, SlotsTyped, DrawingTyped
<1>5. ASSUME NEW s \in Sources, Come(s) \/ Stall(s) \/ Fail(s) \/ Restart(s) \/ Probe(s)
      PROVE  Typed'
  <2>1. feed' \in [Sources -> Feeds] /\ told' = Silence
    BY <1>5 DEF Come, Stall, Fail, Restart, Probe, Feeding, Become, Quiet, Feeds, Slots,
                Typed, SlotsTyped
  <2>2. UNCHANGED <<clocks, rebuilding, noted, known, showing, crossing, doubted>>
    BY <1>5 DEF Come, Stall, Fail, Restart, Probe, Feeding, Unmoved, observed
  <2>3. QED
    BY <1>2, <2>1, <2>2 DEF clocks, Typed, SlotsTyped, DrawingTyped
<1>5a. ASSUME NEW s \in Sources, Rebuild(s) \/ Add(s) \/ Refuse(s) \/ Remove(s)
       PROVE  Typed'
  <2>1. feed' \in [Sources -> Feeds]
    BY <1>5a DEF Rebuild, Add, Refuse, Remove, Become, Feeds, Slots, Typed, SlotsTyped
  <2>2. told' = Silence /\ crossing' = crossing
    BY <1>5a DEF Rebuild, Add, Refuse, Remove, Become, Quiet, Unmoved
  <2>3. /\ tried' \in [Sources -> BOOLEAN] /\ doubted' \in [Sources -> BOOLEAN]
        /\ sighted' \in [Sources -> Age \cup {None}]
    BY <1>5a DEF Rebuild, Add, Refuse, Remove, Unmoved, observed, clocks, Typed, SlotsTyped
  <2>4. faring' \in [Sources -> Age \cup {None}] /\ struck' \subseteq Sources
    BY <1>5a DEF Rebuild, Add, Refuse, Remove, clocks, Typed, SlotsTyped
  <2>5. rebuilding' \subseteq Sources /\ noted' \subseteq Sources
    BY <1>5a DEF Rebuild, Add, Refuse, Remove, Typed, SlotsTyped
  <2>6. showing' \in [Sources -> Sources \cup {None}] /\ known' \subseteq Sources
    BY <1>5a DEF Rebuild, Add, Adopt, Refuse, Remove, Unmoved, Typed, DrawingTyped
  <2>7. QED
    BY <1>2, <2>1, <2>2, <2>3, <2>4, <2>5, <2>6 DEF Typed, SlotsTyped, DrawingTyped
<1>6. ASSUME NEW s \in Sources, Return(s) PROVE Typed'
  <2>1. [leaving EXCEPT ![s] = "operator"] \in [Sources -> Reasons \cup {None}]
    BY <1>1, <1>2
  <2>2. SwapStandIns([leaving EXCEPT ![s] = "operator"], 0)
    BY <1>6 DEF Return
  <2>3. DrawingTyped'
    BY <1>1, <1>6, <2>1, <2>2, SwapTyped DEF Return, Typed, DrawingTyped
  <2>4. QED
    BY <1>6, <2>3 DEF Return, slots, clocks, Typed, SlotsTyped
<1>7. ASSUME NEW s \in Sources, Stay(s) PROVE Typed'
  BY <1>2, <1>7 DEF Stay, slots, clocks, observed, Quiet, Typed, SlotsTyped, DrawingTyped
<1>8. ASSUME NEW s \in Sources, NEW r \in Settable, SetOnLoss(s, r) PROVE Typed'
  <2>1. PICK why \in [Sources -> Reasons \cup {None}] : SwapStandIns(why, 0)
    <3>1. [leaving EXCEPT ![s] = "cleared"] \in [Sources -> Reasons \cup {None}]
      BY <1>1, <1>2
    <3>2. SwapStandIns([leaving EXCEPT ![s] = "cleared"], 0) \/ SwapStandIns(leaving, 0)
      BY <1>8 DEF SetOnLoss
    <3>3. QED
      BY <1>1, <3>1, <3>2
  <2>2. /\ showing' \in [Sources -> Sources \cup {None}]
        /\ told' \in [Sources -> Reasons \cup {None}]
        /\ crossing' \in BOOLEAN
    BY <1>1, <2>1, SwapTyped DEF Typed
  <2>3. known' \subseteq Sources /\ UNCHANGED <<slots, doubted>>
    BY <1>8 DEF SetOnLoss, slots, clocks, Typed, DrawingTyped
  <2>4. QED
    BY <2>2, <2>3 DEF slots, clocks, Typed, SlotsTyped, DrawingTyped
<1>9. CASE UNCHANGED vars
  BY <1>9 DEF vars, Typed, SlotsTyped, DrawingTyped
<1>10. QED
  BY <1>3, <1>4, <1>5, <1>6, <1>7, <1>8, <1>9, <1>5a DEF Next, Tick

LEMMA InitTyped == Init => Typed
<1> SUFFICES ASSUME Init PROVE Typed
  OBVIOUS
<1>1. known \subseteq Sources /\ crossing \in BOOLEAN /\ noted \subseteq Sources
  BY DEF Init
<1>2. QED
  BY <1>1 DEF Init, Typed, SlotsTyped, DrawingTyped, Silence, Feeds, Slots

(* For any sources, rules and times: the state keeps its shape, and what   *)
(* is drawn in a source's place is always a source there is.               *)
THEOREM BoardTypes == Spec => []TypeOK
<1>1. Sound /\ Typed => TypeOK
  BY DEF Sound, Shape, Typed, SlotsTyped, DrawingTyped, TypeOK
<1>2. QED
  BY <1>1, BoardSound, InitTyped, StepTyped, PTL DEF Spec

(* What one tick draws. *)
TickDraws ==
  Tick /\ ~crossing =>
    \A s \in Sources :
      LET chain == Members(Chain(rule, s)) IN
      watch'[s].on =>
        IF showing'[s] = None THEN \A b \in chain : ~Live(b)
        ELSE /\ showing'[s] \in chain
             /\ Live(showing'[s]) \/ sighted'[showing'[s]] < Grace

LEMMA TickHelps == Sound /\ Typed /\ [Next]_vars => TickDraws
<1> SUFFICES ASSUME Sound, Typed, [Next]_vars, ~crossing, NEW d \in Elapsed, TickAfter(d),
                    NEW s \in Sources, watch'[s].on
             PROVE  LET chain == Members(Chain(rule, s)) IN
                    IF showing'[s] = None THEN \A b \in chain : ~Live(b)
                    ELSE /\ showing'[s] \in chain
                         /\ Live(showing'[s]) \/ sighted'[showing'[s]] < Grace
  BY DEF TickDraws, Tick
<1> DEFINE chain == Chain(rule, s)
<1>1. rule' = rule /\ rule \in [Sources -> Rules \cup {None}] /\ rule'[s] # None
  <2>1. Sound'
    BY StepSound
  <2>2. QED
    BY <2>1 DEF TickAfter, Sound, Shape, OneOutage
<1>2. chain \in Seq(Sources) /\ Members(chain) \subseteq Sources
  BY <1>1, MembersAreSources
<1>3. showing'[s] = Target(s, d)
  <2> DEFINE to == [x \in Sources |-> Target(x, d)]
             why == [x \in Sources |-> IF x \in Leaving THEN "returned" ELSE leaving[x]]
  <2>1. SwapStandIns(why, d)
    BY DEF TickAfter
  <2>2. showing' = to
    <3> HIDE DEF why
    <3>1. CASE to = showing
      BY <2>1, <3>1 DEF SwapStandIns, PutOff
    <3>2. CASE to # showing
      BY <2>1, <3>2 DEF SwapStandIns
    <3>3. QED
      BY <3>1, <3>2
  <2>3. QED
    BY <2>2
<1>4. Chain(rule', s) = chain
  BY <1>1
<1>5. Target(s, d) = IF showing[s] \in Members(chain) /\ LiveWithin(showing[s], d) THEN showing[s]
                     ELSE FirstLive(chain)
  BY <1>1, <1>4 DEF Target
<1> HIDE DEF chain
<1>6. /\ FirstLive(chain) # None => FirstLive(chain) \in Members(chain) /\ Live(FirstLive(chain))
      /\ FirstLive(chain) = None => \A b \in Members(chain) : ~Live(b)
  BY <1>2, FirstLiveIsLive
<1>7. CASE showing[s] \in Members(chain) /\ LiveWithin(showing[s], d)
  <2>1. PICK b : b = showing[s]
    OBVIOUS
  <2>2. showing'[s] = b /\ b \in Members(chain) /\ b \in Sources /\ b # None /\ LiveWithin(b, d)
    BY <1>2, <1>3, <1>5, <1>7, <2>1, FailoverAssumption
  <2>3. CASE ~Live(b)
    <3>1. sighted[b] \in Age /\ sighted[b] + d < Grace
      BY <2>2, <2>3 DEF LiveWithin, Typed, SlotsTyped
    <3>2. sighted'[b] = Older(sighted[b], d)
      BY <2>2, <2>3 DEF TickAfter
    <3>3. d \in Nat /\ Long \in Nat /\ Grace \in Nat /\ None \notin Nat
      BY FailoverAssumption
    <3>4. sighted'[b] < Grace
      BY <3>1, <3>2, <3>3 DEF Older, Age
    <3>5. QED
      BY <2>2, <3>4 DEF chain
  <2>4. QED
    BY <2>2, <2>3 DEF chain
<1>8. CASE ~(showing[s] \in Members(chain) /\ LiveWithin(showing[s], d))
  BY <1>3, <1>5, <1>6, <1>8 DEF chain
<1>9. QED
  BY <1>7, <1>8

(* For any sources, rules and times: a tick that no transition holds back  *)
(* draws a source on its backup as one of its chain that is live, or was   *)
(* within the grace, and leaves it as it is only when none of them is.     *)
THEOREM DrawsWhatHelps == Spec => DrawnWhatHelps
<1>1. Spec => []Typed
  BY BoardSound, InitTyped, StepTyped, PTL DEF Spec
<1>2. TickDraws => [TickDraws]_vars
  OBVIOUS
<1>3. Spec => [][TickDraws]_vars
  BY <1>1, <1>2, TickHelps, BoardSound, PTL DEF Spec
<1>4. QED
  BY <1>3 DEF DrawnWhatHelps, TickDraws

-----------------------------------------------------------------------------
(* Clocks against what was seen.                                           *)

(* While no source is built again or removed, the clock of a return has    *)
(* run no longer than the looks have found the source live, and a source   *)
(* whose clock runs has been seen, so that any other state counts as down. *)
SeenSteady ==
  /\ steady \in [Sources -> Age]
  /\ \A s \in Sources :
       /\ feed[s] \in Slots
       /\ watch[s].up # None => sighted[s] # None /\ watch[s].up <= steady[s]

(* A source that returns by itself in this step was steady. *)
SteadyReturn ==
  \A s \in Sources :
    watch[s].on /\ ~watch'[s].on /\ cause'[s] = "returned" => steady'[s] >= rule[s].back

(* An age that moves on stays on its side of another that moves with it. *)
LEMMA OlderTogether ==
  ASSUME NEW a \in Age, NEW b \in Age, a <= b, NEW d \in Nat
  PROVE  Older(a, d) \in Age /\ Older(b, d) \in Age /\ Older(a, d) <= Older(b, d)
<1>1. Long \in Nat /\ None \notin Nat
  BY FailoverAssumption
<1>2. QED
  BY <1>1 DEF Older, Age

LEMMA StepSteady ==
  ASSUME Replaceable = {}
  PROVE  Sound /\ Typed /\ SeenSteady /\ [Next]_vars => SeenSteady' /\ SteadyReturn
<1> SUFFICES ASSUME Sound, Typed, SeenSteady, [Next]_vars
             PROVE  SeenSteady' /\ SteadyReturn
  OBVIOUS
<1>1. watch \in [Sources -> Watches] /\ Sound' /\ Long \in Nat /\ None \notin Nat /\ 0 \in Age
  BY StepSound, FailoverAssumption DEF Sound, Shape, Age
<1>2. ASSUME NEW d \in Elapsed, TickAfter(d) PROVE SeenSteady' /\ SteadyReturn
  <2>1. d \in Nat
    BY FailoverAssumption
  <2>2. steady' \in [Sources -> Age]
    <3>1. \A s \in Sources : steady[s] \in Age
      BY DEF SeenSteady
    <3>2. \A s \in Sources : Older(steady[s], d) \in Age
      <4> SUFFICES ASSUME NEW s \in Sources PROVE Older(steady[s], d) \in Age
        OBVIOUS
      <4>1. steady[s] \in Age /\ steady[s] <= steady[s]
        BY <1>1, <3>1 DEF Age
      <4>2. QED
        BY <2>1, <4>1, OlderTogether
    <3>3. QED
      BY <1>1, <1>2, <3>2 DEF TickAfter
  <2>3. ASSUME NEW s \in Sources
        PROVE  /\ watch'[s].up # None => sighted'[s] # None /\ watch'[s].up <= steady'[s]
               /\ watch[s].on /\ ~watch'[s].on => steady'[s] >= rule[s].back
    <3> DEFINE w == Aged(d)[s]
               r == rule[s]
               first == Unconnected(s, d)
    <3>1. /\ watch[s] \in Watches /\ watch[s].up \in Age \cup {None} /\ steady[s] \in Age
          /\ sighted[s] \in Age \cup {None}
          /\ watch[s].up # None => sighted[s] # None /\ watch[s].up <= steady[s] /\ watch[s].on
          /\ watch[s].on => rule[s] # None
      BY <1>1 DEF Watches, SeenSteady, Sound, OneOutage, Typed, SlotsTyped
    <3>2. /\ w.on = watch[s].on /\ w.stay = watch[s].stay /\ w.up = Older(watch[s].up, d)
          /\ w = [down |-> Older(watch[s].down, d), up |-> Older(watch[s].up, d),
                  on |-> watch[s].on, stay |-> watch[s].stay]
      BY <3>1 DEF Aged, Watches
    <3>3. Older(steady[s], d) \in Age
      BY <2>1, <3>1, OlderTogether DEF Age
    <3>4. /\ watch[s].up = None => w.up = None
          /\ watch[s].up # None => w.up \in Age /\ w.up <= Older(steady[s], d)
      <4>1. CASE watch[s].up = None
        BY <3>2, <4>1 DEF Older
      <4>2. CASE watch[s].up # None
        <5>1. watch[s].up \in Age
          BY <3>1, <4>2
        <5>2. QED
          BY <2>1, <3>1, <3>2, <4>2, <5>1, OlderTogether
      <4>3. QED
        BY <4>1, <4>2
    <3>5. /\ steady'[s] = IF Live(s) THEN Older(steady[s], d) ELSE 0
          /\ sighted'[s] = IF Live(s) THEN 0 ELSE Older(sighted[s], d)
          /\ watch'[s] = IF r = None THEN w ELSE Looked(w, r, Live(s), Down(s), first)
      BY <1>2 DEF TickAfter
    <3>6. r # None => r \in Rules /\ r.back \in Nat
      BY FailoverAssumption DEF Sound, Shape
    <3> HIDE DEF w, first
    <3>7. CASE Live(s) /\ r # None
      <4>1. watch'[s] = IF Returns(w, r) THEN Disengaged(SeenLive(w)) ELSE SeenLive(w)
        BY <3>5, <3>7 DEF Looked, Unsure
      <4>2. /\ SeenLive(w).up = IF w.on /\ w.up = None THEN 0 ELSE w.up
            /\ SeenLive(w).on = w.on
        <5>1. w = [w EXCEPT !.on = @] /\ DOMAIN w = {"down", "up", "on", "stay"}
          BY <3>2
        <5>2. QED
          BY <5>1 DEF SeenLive
      <4>3. SeenLive(w).up # None => SeenLive(w).up \in Nat /\ SeenLive(w).up <= steady'[s]
        BY <1>1, <3>3, <3>4, <3>5, <3>7, <4>2 DEF Age
      <4>4. sighted'[s] # None
        BY <1>1, <3>5, <3>7
      <4>5. CASE Returns(w, r)
        <5>1. watch'[s].up = None
          BY <4>1, <4>2, <4>5 DEF Disengaged
        <5>2. w.on /\ SeenLive(w).up >= r.back /\ SeenLive(w).up # None
          <6>1. w.on /\ SeenLive(w).up >= r.back
            BY <4>5 DEF Returns
          <6>2. SeenLive(w).up # None
            BY <1>1, <4>2, <6>1
          <6>3. QED
            BY <6>1, <6>2
        <5>3. steady'[s] >= r.back
          BY <2>2, <3>6, <3>7, <4>3, <5>2 DEF Age
        <5>4. QED
          BY <5>1, <5>3
      <4>6. CASE ~Returns(w, r)
        <5>1. watch'[s] = SeenLive(w) /\ watch'[s].on = watch[s].on
          BY <3>2, <4>1, <4>2, <4>6
        <5>2. QED
          BY <4>3, <4>4, <5>1
      <4>7. QED
        BY <4>5, <4>6
    <3>8. CASE ~Live(s) /\ r # None
      <4>1. CASE watch[s].up # None
        <5>1. feed[s] \in {"connecting", "stalled", "failed"} /\ sighted[s] # None
          BY <3>1, <3>8, <4>1 DEF SeenSteady, Live, Slots
        <5>2. Down(s)
          BY <5>1 DEF Down
        <5>3. watch'[s] = SeenDown(w, r, first)
          BY <3>5, <3>8, <5>2 DEF Looked, Unsure
        <5>4. watch'[s].up = None /\ (watch[s].on => watch'[s].on)
          BY <3>2, <5>3 DEF SeenDown
        <5>5. QED
          BY <5>4, <1>1 DEF Sound, Shape, Watches
      <4>2. CASE watch[s].up = None
        <5>1. watch'[s] = w \/ watch'[s] = SeenDown(w, r, first)
          BY <3>5, <3>8 DEF Looked
        <5>2. watch'[s].up = None /\ (watch[s].on => watch'[s].on)
          BY <3>2, <3>4, <4>2, <5>1 DEF SeenDown
        <5>3. QED
          BY <5>2, <1>1 DEF Sound, Shape, Watches
      <4>3. QED
        BY <4>1, <4>2
    <3>9. CASE r = None
      <4>1. watch[s].up = None /\ ~watch[s].on
        BY <3>1, <3>9
      <4>2. watch'[s].up = None
        BY <3>4, <3>5, <3>9, <4>1
      <4>3. QED
        BY <4>1, <4>2
    <3>10. QED
      BY <3>7, <3>8, <3>9
  <2>4. feed' = feed
    BY <1>2 DEF TickAfter
  <2>5. QED
    BY <2>2, <2>3, <2>4 DEF SeenSteady, SteadyReturn
<1>3. CASE StartTake \/ EndTransition
  BY <1>3 DEF StartTake, EndTransition, slots, clocks, observed, SeenSteady, SteadyReturn
<1>4. ASSUME NEW s \in Sources, Come(s) \/ Stall(s) \/ Fail(s) \/ Restart(s)
      PROVE  SeenSteady' /\ SteadyReturn
  <2>1. \A x \in Sources : feed'[x] \in Slots
    BY <1>4 DEF Come, Stall, Fail, Restart, Feeding, Become, Slots, SeenSteady, Typed, SlotsTyped
  <2>2. UNCHANGED <<sighted, watch, steady, cause>>
    BY <1>4 DEF Come, Stall, Fail, Restart, Feeding, Unmoved, clocks, observed
  <2>3. QED
    BY <2>1, <2>2 DEF SeenSteady, SteadyReturn
<1>5. ASSUME NEW s \in Sources, Rebuild(s) \/ Probe(s) \/ Add(s) \/ Refuse(s) \/ Remove(s)
      PROVE  FALSE
  BY <1>5 DEF Rebuild, Probe, Feeding, Add, Refuse, Remove, Become, Slots, SeenSteady
<1>6. ASSUME NEW s \in Sources, watch' = [watch EXCEPT ![s] = Disengaged(@)],
             cause'[s] # "returned", UNCHANGED <<feed, sighted, steady>>
      PROVE  SeenSteady' /\ SteadyReturn
  <2>1. watch'[s].up = None /\ \A x \in Sources \ {s} : watch'[x] = watch[x]
    <3>1. watch'[s] = Disengaged(watch[s]) /\ watch[s] \in Watches
      BY <1>1, <1>6
    <3>2. QED
      BY <1>1, <1>6, <3>1 DEF Disengaged, Watches
  <2>2. QED
    BY <1>6, <2>1 DEF SeenSteady, SteadyReturn
<1>7. ASSUME NEW s \in Sources, Return(s) PROVE SeenSteady' /\ SteadyReturn
  <2>1. cause'[s] # "returned"
    BY <1>7 DEF Return, Sound, Shape
  <2>2. QED
    BY <1>6, <1>7, <2>1 DEF Return, slots, clocks
<1>8. ASSUME NEW s \in Sources, Stay(s) PROVE SeenSteady' /\ SteadyReturn
  <2>1. \A x \in Sources : watch'[x].up = watch[x].up /\ watch'[x].on = watch[x].on
    BY <1>1, <1>8 DEF Stay, Watches
  <2>2. QED
    BY <1>8, <2>1 DEF Stay, slots, clocks, observed, SeenSteady, SteadyReturn
<1>9. ASSUME NEW s \in Sources, NEW r \in Settable, SetOnLoss(s, r)
      PROVE  SeenSteady' /\ SteadyReturn
  <2>1. CASE r = None /\ watch[s].on
    <3>1. cause'[s] # "returned" /\ watch' = [watch EXCEPT ![s] = Disengaged(@)]
      BY <1>9, <2>1 DEF SetOnLoss, Sound, Shape
    <3>2. QED
      BY <1>6, <1>9, <3>1 DEF SetOnLoss, slots, clocks
  <2>2. CASE ~(r = None /\ watch[s].on)
    BY <1>9, <2>2 DEF SetOnLoss, slots, clocks, SeenSteady, SteadyReturn
  <2>3. QED
    BY <2>1, <2>2
<1>10. CASE UNCHANGED vars
  BY <1>10 DEF vars, SeenSteady, SteadyReturn
<1>11. QED
  BY <1>2, <1>3, <1>4, <1>5, <1>7, <1>8, <1>9, <1>10 DEF Next, Tick

(* For any sources, rules and times, while no source is built again or     *)
(* removed: a source comes back by itself only after every look for the    *)
(* whole of its rule's return time has found it live.                      *)
THEOREM ReturnsOnlySteady ==
  ASSUME Replaceable = {}
  PROVE  Spec => ReturnsWhenSteady
<1>1. Init => SeenSteady
  <2> SUFFICES ASSUME Init PROVE SeenSteady
    OBVIOUS
  <2>1. 0 \in Age /\ Idle.up = None
    BY FailoverAssumption DEF Age, Idle
  <2>2. \A s \in Sources : feed[s] \in Slots
    BY DEF Init, Slots
  <2>3. QED
    BY <2>1, <2>2 DEF Init, SeenSteady
<1>2. SteadyReturn => [SteadyReturn]_vars
  OBVIOUS
<1>3. Spec => []Typed
  BY BoardSound, InitTyped, StepTyped, PTL DEF Spec
<1>4. Sound /\ Typed /\ SeenSteady /\ [Next]_vars => SeenSteady' /\ SteadyReturn
  BY StepSteady
<1>5. Spec => [][SteadyReturn]_vars
  BY <1>1, <1>2, <1>3, <1>4, BoardSound, PTL DEF Spec
<1>6. QED
  BY <1>5 DEF ReturnsWhenSteady, SteadyReturn

(* A source whose outage the code dates from a first try, though it has    *)
(* been live since.                                                        *)
FromFirstTry(s) == doubted[s] /\ sighted[s] = None

(* While the operator only takes rules away, no clock that can put a       *)
(* backup on has run longer than no look has found the source live, or     *)
(* than its first try is ago where that is what the code goes by: the      *)
(* clock of a first connection, and the outage's while there is a rule.    *)
SeenGone ==
  /\ gone \in [Sources -> Age]
  /\ \A s \in Sources :
       /\ doubted[s] => tried[s]
       /\ tried[s] => waited[s] # None
       /\ (IF tried[s] THEN ~doubted[s] ELSE sighted[s] = None) /\ waited[s] # None
            => waited[s] <= gone[s]
       /\ rule[s] # None /\ watch[s].down # None =>
            /\ doubted[s] => watch[s].down <= waited[s]
            /\ ~FromFirstTry(s) => watch[s].down <= gone[s]

(* A backup that goes on in this step was waited for. *)
HeldFirst ==
  \A s \in Sources : ~watch[s].on /\ watch'[s].on =>
    IF doubted[s] /\ sighted[s] = None THEN waited'[s] >= rule[s].after
    ELSE gone'[s] >= rule[s].after

(* A step that starts no clock of an outage, and puts no backup on. *)
StartsNothing ==
  \A x \in Sources :
    /\ watch'[x].on => watch[x].on
    /\ rule'[x] # None => \/ watch'[x].down = None
                          \/ rule[x] # None /\ watch'[x].down = watch[x].down

LEMMA HeldStill ==
  ASSUME SeenGone, UNCHANGED <<sighted, waited, tried, gone, doubted>>, StartsNothing
  PROVE  SeenGone' /\ HeldFirst
BY DEF SeenGone, HeldFirst, StartsNothing, FromFirstTry

LEMMA TickHeld ==
  ASSUME Sound, Typed, SeenGone, NEW d \in Elapsed, TickAfter(d)
  PROVE  SeenGone' /\ HeldFirst
<1>1. d \in Nat /\ Long \in Nat /\ None \notin Nat /\ 0 \in Age
  BY FailoverAssumption DEF Age
<1>2. ASSUME NEW s \in Sources
      PROVE  /\ gone'[s] \in Age
             /\ doubted'[s] => tried'[s]
             /\ tried'[s] => waited'[s] # None
             /\ (IF tried'[s] THEN ~doubted'[s] ELSE sighted'[s] = None) /\ waited'[s] # None
                  => waited'[s] <= gone'[s]
             /\ rule[s] # None /\ watch'[s].down # None =>
                  /\ doubted'[s] => watch'[s].down <= waited'[s]
                  /\ ~(doubted'[s] /\ sighted'[s] = None) => watch'[s].down <= gone'[s]
             /\ ~watch[s].on /\ watch'[s].on =>
                  IF doubted[s] /\ sighted[s] = None THEN waited'[s] >= rule[s].after
                  ELSE gone'[s] >= rule[s].after
  <2> DEFINE w == Aged(d)[s]
             r == rule[s]
             first == Unconnected(s, d)
             early == IF tried[s] THEN ~doubted[s] ELSE sighted[s] = None
             past == doubted[s] /\ sighted[s] = None
  <2>1. /\ watch[s] \in Watches /\ watch[s].down \in Age \cup {None} /\ gone[s] \in Age
        /\ waited[s] \in Age \cup {None} /\ sighted[s] \in Age \cup {None}
        /\ doubted[s] \in BOOLEAN /\ tried[s] \in BOOLEAN
        /\ doubted[s] => tried[s]
        /\ tried[s] => waited[s] # None
        /\ early /\ waited[s] # None => waited[s] <= gone[s]
        /\ rule[s] # None /\ watch[s].down # None =>
             /\ doubted[s] => watch[s].down <= waited[s]
             /\ ~past => watch[s].down <= gone[s]
        /\ watch[s].on => rule[s] # None
    BY DEF Watches, SeenGone, FromFirstTry, Sound, Shape, OneOutage, Typed, SlotsTyped
  <2>2. /\ w.on = watch[s].on /\ w.down = Older(watch[s].down, d)
        /\ w = [down |-> Older(watch[s].down, d), up |-> Older(watch[s].up, d),
                on |-> watch[s].on, stay |-> watch[s].stay]
    BY <2>1 DEF Aged, Watches
  <2>3. Older(gone[s], d) \in Age
    <3>1. gone[s] <= gone[s]
      BY <1>1, <2>1 DEF Age
    <3>2. QED
      BY <1>1, <2>1, <3>1, OlderTogether
  <2>4. waited[s] # None => Older(waited[s], d) \in Age
    <3>1. waited[s] # None => waited[s] \in Age /\ waited[s] <= waited[s]
      BY <1>1, <2>1 DEF Age
    <3>2. QED
      BY <1>1, <3>1, OlderTogether
  <2>5. r # None /\ w.down # None =>
          /\ w.down \in Age
          /\ doubted[s] => w.down <= Older(waited[s], d)
          /\ ~past => w.down <= Older(gone[s], d)
    <3> SUFFICES ASSUME r # None, w.down # None
                 PROVE  /\ w.down \in Age
                        /\ doubted[s] => w.down <= Older(waited[s], d)
                        /\ ~past => w.down <= Older(gone[s], d)
      OBVIOUS
    <3>1. watch[s].down # None /\ watch[s].down \in Age
      BY <2>1, <2>2 DEF Older
    <3>2. w.down \in Age
      <4>1. watch[s].down <= watch[s].down
        BY <1>1, <3>1 DEF Age
      <4>2. QED
        BY <1>1, <2>2, <3>1, <4>1, OlderTogether
    <3>3. CASE doubted[s]
      <4>1. waited[s] \in Age /\ watch[s].down <= waited[s]
        BY <2>1, <3>1, <3>3
      <4>2. w.down <= Older(waited[s], d)
        BY <1>1, <2>2, <3>1, <4>1, OlderTogether
      <4>3. ~past => w.down <= Older(gone[s], d)
        <5>1. ~past => watch[s].down <= gone[s]
          BY <2>1, <3>1
        <5>2. QED
          BY <1>1, <2>1, <2>2, <3>1, <5>1, OlderTogether
      <4>4. QED
        BY <3>2, <4>2, <4>3
    <3>4. CASE ~doubted[s]
      <4>1. watch[s].down <= gone[s]
        BY <2>1, <3>1, <3>4
      <4>2. w.down <= Older(gone[s], d)
        BY <1>1, <2>1, <2>2, <3>1, <4>1, OlderTogether
      <4>3. QED
        BY <3>2, <3>4, <4>2
    <3>5. QED
      BY <3>3, <3>4
  <2>6. early /\ waited[s] # None => Older(waited[s], d) <= Older(gone[s], d)
    <3> SUFFICES ASSUME early, waited[s] # None PROVE Older(waited[s], d) <= Older(gone[s], d)
      OBVIOUS
    <3>1. waited[s] \in Age /\ waited[s] <= gone[s]
      BY <2>1
    <3>2. QED
      BY <1>1, <2>1, <3>1, OlderTogether
  <2>7. /\ gone'[s] = IF Live(s) THEN 0 ELSE Older(gone[s], d)
        /\ sighted'[s] = IF Live(s) THEN 0 ELSE Older(sighted[s], d)
        /\ tried'[s] => tried[s]
        /\ ~Live(s) => tried'[s] = tried[s]
        /\ doubted'[s] = (tried'[s] /\ (doubted[s] \/ Live(s)))
        /\ waited[s] # None => waited'[s] = Older(waited[s], d)
        /\ waited[s] = None => waited'[s] = 0 \/ waited'[s] = None
        /\ watch'[s] = IF r = None THEN w ELSE Looked(w, r, Live(s), Down(s), first)
    BY <2>1 DEF TickAfter, Older
  <2>8. /\ gone'[s] \in Age
        /\ doubted'[s] => tried'[s]
        /\ tried'[s] => waited'[s] # None
        /\ (IF tried'[s] THEN ~doubted'[s] ELSE sighted'[s] = None) /\ waited'[s] # None
             => waited'[s] <= gone'[s]
    <3>1. gone'[s] \in Age
      BY <1>1, <2>3, <2>7
    <3>2. tried'[s] => waited'[s] # None
      BY <1>1, <2>1, <2>4, <2>7 DEF Age
    <3>3. ASSUME IF tried'[s] THEN ~doubted'[s] ELSE sighted'[s] = None, waited'[s] # None
          PROVE  waited'[s] <= gone'[s]
      <4>1. ~Live(s)
        <5>1. CASE tried'[s]
          BY <2>7, <3>3, <5>1
        <5>2. CASE ~tried'[s]
          BY <1>1, <2>7, <3>3, <5>2
        <5>3. QED
          BY <5>1, <5>2
      <4>2. early
        <5>1. CASE tried'[s]
          BY <2>1, <2>7, <3>3, <4>1, <5>1
        <5>2. CASE ~tried'[s]
          <6>1. Older(sighted[s], d) = None
            BY <2>7, <3>3, <4>1, <5>2
          <6>2. sighted[s] # None => Older(sighted[s], d) \in Nat
            BY <1>1, <2>1 DEF Older, Age
          <6>3. ~tried[s] /\ sighted[s] = None
            BY <1>1, <2>7, <4>1, <5>2, <6>1, <6>2
          <6>4. QED
            BY <6>3
        <5>3. QED
          BY <5>1, <5>2
      <4>3. CASE waited[s] # None
        BY <2>6, <2>7, <4>1, <4>2, <4>3
      <4>4. CASE waited[s] = None
        BY <1>1, <2>7, <3>1, <3>3, <4>4 DEF Age
      <4>5. QED
        BY <4>3, <4>4
    <3>4. QED
      BY <2>7, <3>1, <3>2, <3>3
  <2>9. r # None => r \in Rules /\ r.after \in Nat
    BY FailoverAssumption DEF Sound, Shape
  <2>10. first # None =>
           /\ sighted[s] = None /\ first = Older(waited[s], d) /\ first \in Age
           /\ ~doubted[s] => first <= Older(gone[s], d)
    <3> SUFFICES ASSUME first # None
                 PROVE  /\ sighted[s] = None /\ first = Older(waited[s], d) /\ first \in Age
                        /\ ~doubted[s] => first <= Older(gone[s], d)
      OBVIOUS
    <3>1. sighted[s] = None /\ first = Older(waited[s], d) /\ waited[s] # None
      BY DEF Unconnected, Older
    <3>2. QED
      BY <2>1, <2>4, <2>6, <3>1
  <2> HIDE DEF w, first, early, past
  <2>11. CASE r = None
    <3>1. ~watch'[s].on
      BY <2>1, <2>2, <2>7, <2>11
    <3>2. QED
      BY <2>8, <2>11, <3>1
  <2>12. CASE r # None /\ Live(s)
    <3>1. watch'[s] = IF Returns(w, r) THEN Disengaged(SeenLive(w)) ELSE SeenLive(w)
      BY <2>7, <2>12 DEF Looked, Unsure
    <3>2. w = [w EXCEPT !.on = @] /\ DOMAIN w = {"down", "up", "on", "stay"}
      BY <2>2
    <3>3. SeenLive(w).down = None /\ SeenLive(w).on = w.on
      BY <3>2 DEF SeenLive
    <3>4. Disengaged(SeenLive(w)).down = None /\ ~Disengaged(SeenLive(w)).on
      BY <3>2 DEF SeenLive, Disengaged
    <3>5. watch'[s].down = None /\ (watch'[s].on => watch[s].on)
      BY <2>2, <3>1, <3>3, <3>4
    <3>6. QED
      BY <2>8, <3>5
  <2>13. CASE r # None /\ ~Live(s)
    <3> DEFINE since == IF w.down # None THEN w.down ELSE IF first = None THEN 0 ELSE first
    <3>1. /\ gone'[s] = Older(gone[s], d) /\ gone'[s] \in Nat /\ r.after \in Nat
          /\ doubted'[s] = doubted[s]
          /\ doubted[s] => waited'[s] = Older(waited[s], d) /\ waited'[s] \in Nat
      BY <1>1, <2>1, <2>3, <2>4, <2>7, <2>9, <2>13 DEF Age
    <3>2. (sighted'[s] = None) = (sighted[s] = None)
      BY <1>1, <2>1, <2>7, <2>13 DEF Older, Age
    <3>3. /\ since \in Nat
          /\ doubted[s] => since <= waited'[s]
          /\ ~past => since <= gone'[s]
      <4>1. CASE w.down # None
        BY <2>5, <2>13, <3>1, <4>1 DEF Age
      <4>2. CASE w.down = None /\ first = None
        BY <1>1, <3>1, <4>2
      <4>3. CASE w.down = None /\ first # None
        <5>1. since = first /\ first \in Nat /\ first = Older(waited[s], d)
          BY <1>1, <2>10, <4>3 DEF Age
        <5>2. doubted[s] => since <= waited'[s]
          BY <3>1, <5>1
        <5>3. ~past => ~doubted[s]
          BY <2>10, <4>3 DEF past
        <5>4. QED
          BY <2>10, <3>1, <4>3, <5>1, <5>2, <5>3
      <4>4. QED
        BY <4>1, <4>2, <4>3
    <3>4. CASE Unsure(Live(s), Down(s), first)
      <4>1. watch'[s] = w
        BY <2>7, <2>13, <3>4 DEF Looked
      <4>2. watch'[s].down # None => watch'[s].down = since
        BY <4>1
      <4> HIDE DEF since
      <4>3. QED
        BY <2>2, <2>8, <2>13, <3>1, <3>2, <3>3, <4>1, <4>2 DEF past
    <3>5. CASE ~Unsure(Live(s), Down(s), first)
      <4>1. watch'[s] = SeenDown(w, r, first)
        BY <2>7, <2>13, <3>5 DEF Looked
      <4>2. DOMAIN w = {"down", "up", "on", "stay"}
        BY <2>2
      <4>3. /\ watch'[s].down = since
            /\ watch'[s].on = (w.on \/ since >= r.after)
        BY <4>1, <4>2 DEF SeenDown
      <4> HIDE DEF since
      <4>4. ~watch[s].on /\ watch'[s].on => since >= r.after
        BY <2>2, <4>3
      <4>5. ~watch[s].on /\ watch'[s].on => IF past THEN waited'[s] >= r.after ELSE gone'[s] >= r.after
        BY <3>1, <3>3, <4>4 DEF past
      <4>6. QED
        BY <2>8, <2>13, <3>1, <3>2, <3>3, <4>3, <4>5 DEF past
    <3>6. QED
      BY <3>4, <3>5
  <2>14. QED
    BY <2>11, <2>12, <2>13
<1>3. rule' = rule /\ gone' = [s \in Sources |-> gone'[s]]
  BY DEF TickAfter
<1>4. QED
  BY <1>2, <1>3 DEF SeenGone, HeldFirst, FromFirstTry

LEMMA StepHeld ==
  ASSUME Settable \subseteq {None}
  PROVE  Sound /\ Typed /\ SeenGone /\ [Next]_vars => SeenGone' /\ HeldFirst
<1> SUFFICES ASSUME Sound, Typed, SeenGone, [Next]_vars
             PROVE  SeenGone' /\ HeldFirst
  OBVIOUS
<1>1. /\ watch \in [Sources -> Watches] /\ rule \in [Sources -> Rules \cup {None}]
      /\ waited \in [Sources -> Age \cup {None}] /\ tried \in [Sources -> BOOLEAN]
      /\ sighted \in [Sources -> Age \cup {None}] /\ doubted \in [Sources -> BOOLEAN]
      /\ Long \in Nat /\ None \notin Nat /\ 0 \in Age
      /\ Idle.down = None /\ ~Idle.on
  BY FailoverAssumption DEF Sound, Shape, Age, Idle, Typed, SlotsTyped
<1>2. CASE Tick
  BY <1>2, TickHeld DEF Tick
<1>3. CASE StartTake \/ EndTransition
  BY <1>3, HeldStill DEF StartTake, EndTransition, slots, clocks, observed, StartsNothing
<1>4. ASSUME NEW s \in Sources, Come(s) \/ Stall(s) \/ Fail(s) \/ Restart(s) \/ Probe(s)
      PROVE  SeenGone' /\ HeldFirst
  BY <1>4, HeldStill DEF Come, Stall, Fail, Restart, Probe, Feeding, Unmoved, clocks, observed,
                         StartsNothing
<1>5. ASSUME NEW s \in Sources, Adopt(s) PROVE StartsNothing
  <2>1. CASE UNCHANGED <<known, rule, watch>>
    BY <2>1 DEF StartsNothing
  <2>2. CASE watch' = [watch EXCEPT ![s] = Idle] /\ rule' = [rule EXCEPT ![s] = Config[s]]
    <3>1. /\ watch'[s] = Idle
          /\ \A x \in Sources \ {s} : watch'[x] = watch[x] /\ rule'[x] = rule[x]
      BY <1>1, <2>2
    <3>2. QED
      BY <1>1, <3>1 DEF StartsNothing
  <2>3. QED
    BY <1>5, <2>1, <2>2 DEF Adopt
<1>6. ASSUME NEW s \in Sources, Rebuild(s) PROVE SeenGone' /\ HeldFirst
  <2>1. /\ UNCHANGED <<watch, rule, gone, tried, doubted>>
        /\ sighted' = [sighted EXCEPT ![s] = None]
        /\ waited' = [waited EXCEPT ![s] = IF tried[s] THEN @ ELSE None]
    BY <1>6 DEF Rebuild, Unmoved, observed
  <2>2. QED
    BY <1>1, <2>1 DEF SeenGone, HeldFirst, FromFirstTry
<1>7. ASSUME NEW s \in Sources, Add(s) PROVE SeenGone' /\ HeldFirst
  BY <1>5, <1>7, HeldStill DEF Add, clocks, observed
<1>8. ASSUME NEW s \in Sources, Refuse(s) PROVE SeenGone' /\ HeldFirst
  <2>1. PICK again \in BOOLEAN :
          /\ UNCHANGED <<sighted, gone, doubted>> /\ Adopt(s)
          /\ tried' = [tried EXCEPT ![s] = @ \/ again]
          /\ waited' = [waited EXCEPT ![s] = IF again /\ ~tried[s] THEN 0 ELSE @]
    BY <1>8 DEF Refuse, observed
  <2>2. \A x \in Sources : gone[x] \in Age /\ gone[x] >= 0 /\ None # 0
    BY <1>1 DEF SeenGone, Age
  <2>3. ASSUME NEW x \in Sources
        PROVE  /\ doubted'[x] => tried'[x] /\ waited'[x] = waited[x]
               /\ tried'[x] => waited'[x] # None
               /\ (IF tried'[x] THEN ~doubted'[x] ELSE sighted'[x] = None) /\ waited'[x] # None
                    => waited'[x] <= gone'[x]
    <3>1. /\ doubted[x] => tried[x]
          /\ tried[x] => waited[x] # None
          /\ (IF tried[x] THEN ~doubted[x] ELSE sighted[x] = None) /\ waited[x] # None
               => waited[x] <= gone[x]
      BY DEF SeenGone
    <3>2. CASE x = s /\ again /\ ~tried[s]
      <4>1. tried'[x] /\ waited'[x] = 0 /\ ~doubted[x] /\ ~doubted'[x] /\ gone'[x] = gone[x]
        BY <1>1, <2>1, <3>1, <3>2
      <4>2. QED
        BY <2>2, <4>1
    <3>3. CASE ~(x = s /\ again /\ ~tried[s])
      <4>1. /\ tried'[x] = tried[x] /\ waited'[x] = waited[x]
            /\ UNCHANGED <<sighted, gone, doubted>>
        BY <1>1, <2>1, <3>3
      <4>2. QED
        BY <3>1, <4>1
    <3>4. QED
      BY <3>2, <3>3
  <2>4. UNCHANGED <<sighted, gone, doubted>> /\ StartsNothing
    BY <1>5, <2>1
  <2>5. ASSUME NEW x \in Sources, rule'[x] # None, watch'[x].down # None
        PROVE  /\ doubted'[x] => watch'[x].down <= waited'[x]
               /\ ~FromFirstTry(x)' => watch'[x].down <= gone'[x]
    BY <2>3, <2>4, <2>5 DEF SeenGone, StartsNothing, FromFirstTry
  <2>6. QED
    BY <2>3, <2>4, <2>5 DEF SeenGone, HeldFirst, StartsNothing
<1>9. ASSUME NEW s \in Sources, Remove(s) PROVE SeenGone' /\ HeldFirst
  <2>1. /\ gone' = [gone EXCEPT ![s] = 0] /\ waited' = [waited EXCEPT ![s] = None]
        /\ sighted' = [sighted EXCEPT ![s] = None] /\ tried' = [tried EXCEPT ![s] = FALSE]
        /\ watch' = [watch EXCEPT ![s] = Idle] /\ rule' = [rule EXCEPT ![s] = None]
        /\ doubted' = [doubted EXCEPT ![s] = FALSE]
    BY <1>9 DEF Remove
  <2>2. QED
    BY <1>1, <2>1 DEF SeenGone, HeldFirst, FromFirstTry
<1>10. ASSUME NEW s \in Sources, watch' = [watch EXCEPT ![s] = Disengaged(@)],
              UNCHANGED <<sighted, waited, tried, gone, doubted>>,
              \A x \in Sources : rule'[x] # None => rule[x] # None
       PROVE  SeenGone' /\ HeldFirst
  <2>1. watch[s] \in Watches /\ watch'[s] = Disengaged(watch[s])
    BY <1>1, <1>10
  <2>2. watch'[s].down = watch[s].down /\ ~watch'[s].on
    BY <2>1 DEF Disengaged, Watches
  <2>3. \A x \in Sources : /\ watch'[x].on => watch[x].on
                           /\ watch'[x].down = watch[x].down
    BY <1>1, <1>10, <2>2
  <2>4. QED
    BY <1>10, <2>3, HeldStill DEF StartsNothing
<1>11. ASSUME NEW s \in Sources, Return(s) PROVE SeenGone' /\ HeldFirst
  BY <1>10, <1>11 DEF Return, slots, clocks
<1>12. ASSUME NEW s \in Sources, Stay(s) PROVE SeenGone' /\ HeldFirst
  <2>1. \A x \in Sources : watch'[x].down = watch[x].down /\ watch'[x].on = watch[x].on
    BY <1>1, <1>12 DEF Stay, Watches
  <2>2. QED
    BY <1>12, <2>1, HeldStill DEF StartsNothing, Stay, slots, clocks, observed
<1>13. ASSUME NEW s \in Sources, NEW r \in Settable, SetOnLoss(s, r)
       PROVE  SeenGone' /\ HeldFirst
  <2>1. r = None /\ rule' = [rule EXCEPT ![s] = r] /\ UNCHANGED <<sighted, waited, tried, gone, doubted>>
    BY <1>13 DEF SetOnLoss, slots, clocks
  <2>2. \A x \in Sources : rule'[x] # None => rule[x] # None
    BY <1>1, <2>1
  <2>3. CASE watch[s].on
    <3>1. watch' = [watch EXCEPT ![s] = Disengaged(@)]
      BY <1>13, <2>1, <2>3 DEF SetOnLoss
    <3>2. QED
      BY <1>10, <2>1, <2>2, <3>1
  <2>4. CASE ~watch[s].on
    <3>1. watch' = watch
      BY <1>13, <2>4 DEF SetOnLoss
    <3>2. QED
      BY <2>1, <2>2, <3>1, HeldStill DEF StartsNothing
  <2>5. QED
    BY <2>3, <2>4
<1>14. CASE UNCHANGED vars
  BY <1>14, HeldStill DEF vars, StartsNothing
<1>15. QED
  BY <1>2, <1>3, <1>4, <1>6, <1>7, <1>8, <1>9, <1>11, <1>12, <1>13, <1>14 DEF Next

(* For any sources, rules and times, while no rule is set or changed on    *)
(* the air (a rule may be taken away): a backup goes on only after no look *)
(* has found the source live for the whole of its rule's hold, through     *)
(* restarts, rebuilds, refusals, removals and strikes; where its slot went *)
(* while it was on probation after a first try, only after the hold from   *)
(* that try.                                                               *)
THEOREM HoldsFirst ==
  ASSUME Settable \subseteq {None}
  PROVE  Spec => HoldsFrame
<1>1. Init => SeenGone
  <2> SUFFICES ASSUME Init PROVE SeenGone
    OBVIOUS
  <2>1. 0 \in Age /\ Idle.down = None
    BY FailoverAssumption DEF Age, Idle
  <2>2. \A s \in Sources : tried[s] => waited[s] # None
    BY FailoverAssumption DEF Init
  <2>3. \A s \in Sources : waited[s] # None => waited[s] <= gone[s]
    BY DEF Init
  <2>4. QED
    BY <2>1, <2>2, <2>3 DEF Init, SeenGone
<1>2. HeldFirst => [HeldFirst]_vars
  OBVIOUS
<1>3. Spec => []Typed
  BY BoardSound, InitTyped, StepTyped, PTL DEF Spec
<1>4. Sound /\ Typed /\ SeenGone /\ [Next]_vars => SeenGone' /\ HeldFirst
  BY StepHeld
<1>5. Spec => [][HeldFirst]_vars
  BY <1>1, <1>2, <1>3, <1>4, BoardSound, PTL DEF Spec
<1>6. QED
  BY <1>5 DEF HoldsFrame, HeldFirst
=============================================================================
