------------------------------ MODULE Failover ------------------------------
(***************************************************************************)
(* The board of backups: which source is drawn in the place of which.      *)
(*                                                                         *)
(* A source with a rule that has no picture for "after" units is drawn as  *)
(* the first live source of its chain of backups, wherever it appears, and *)
(* comes back by itself once it has been live for "back" units, or when    *)
(* the operator says so.  The mixer runs the board on its tick, and on     *)
(* every command that touches a rule; while a transition is on air it      *)
(* draws nothing new and asks again at the next tick.                      *)
(*                                                                         *)
(* A source is a slot, a page that is asked first what it plays, or on the *)
(* list of those that would not start and are tried again.  Its first try  *)
(* is forgotten only once it has been live with no strikes against it, and *)
(* strikes are forgiven after it has stayed live for HealthyFor.           *)
(*                                                                         *)
(* Instants are kept as ages: how long ago the thing happened, counted up  *)
(* to Long, past which no comparison of the code can tell two ages apart.  *)
(* The ages move on in Tick alone.  The texts of alerts and the flags that *)
(* only choose between them (ever_live, never_live) are left out.          *)
(***************************************************************************)
EXTENDS Integers, Sequences, FiniteSets

CONSTANTS
  Sources,      \* ids of sources
  None,         \* no rule, no source, no reason, a clock that is not running
  Rules,        \* rules of a run: [backup, after, back, auto]
  Config,       \* [Sources -> Rules \cup {None}]: on_loss in the config
  Settable,     \* what the operator sets in a run: rules, or None to clear one
  Fallible,     \* sources whose picture may go in a run
  Replaceable,  \* sources whose slot is built again or removed in a run
  Faulty,       \* sources the supervisor counts strikes against in a run
  Grace,        \* BACKUP_GRACE
  Connect,      \* stall.connect_timeout_secs
  HealthyFor,   \* HEALTHY_FOR
  Elapsed,      \* time between one tick and the next
  Long,         \* the oldest age told apart
  MaxTakes      \* transitions the operator starts in a run

ASSUME FailoverAssumption ==
  /\ IsFiniteSet(Sources)
  /\ None \notin Sources /\ None \notin Nat /\ None \notin Rules
  /\ None \notin {"returned", "operator", "cleared", "backup_down"}
  /\ Rules \subseteq [backup: Sources, after: 0..Long, back: 0..Long, auto: BOOLEAN]
  /\ Config \in [Sources -> Rules \cup {None}]
  /\ Settable \subseteq Rules \cup {None}
  /\ {Fallible, Replaceable, Faulty} \subseteq SUBSET Sources
  /\ Elapsed \subseteq Nat \ {0}
  /\ {Grace, Connect, HealthyFor, Long, MaxTakes} \subseteq Nat

VARIABLES
  feed,      \* where each source stands in the mixer
  sighted,   \* age of the slot's last look that found it live (live_at)
  waited,    \* age of its first connection (added_at, or the first failed try)
  tried,     \* it would not start and is being tried again (first_tried)
  rebuilding, \* sources whose slot was taken down to be built again
  noted,     \* sources on the list of those that would not start
  struck,    \* sources with strikes against them
  faring,    \* for how long such a source has stayed live (live_since)
  known,     \* sources the board has an entry for
  rule,      \* the rule of each entry
  watch,     \* its clock and flags
  showing,   \* what is drawn in its place
  leaving,   \* why its backup is coming off
  crossing,  \* a transition is on air, or an effect is being prepared
  takes,     \* transitions started by the operator
  told,      \* what the last step announced: the reasons of source.backup.off
  steady,    \* for how long every look found the source live (observation)
  gone,      \* for how long no look found it live (observation)
  cause,     \* what last took the source off its backup (observation)
  doubted    \* found live since its first try, and on probation (observation)

vars == <<feed, sighted, waited, tried, rebuilding, noted, struck, faring, known, rule,
          watch, showing, leaving, crossing, takes, told, steady, gone, cause, doubted>>
clocks == <<sighted, waited, tried, struck, faring>>
slots == <<feed, clocks, rebuilding, noted>>
observed == <<steady, gone, cause, doubted>>

Slots == {"connecting", "live", "stalled", "failed"}
Feeds == {"out", "probing"} \cup Slots
Reasons == {"returned", "operator", "cleared", "backup_down"}
Age == 0..Long
Watches == [down: Age \cup {None}, up: Age \cup {None}, on: BOOLEAN, stay: BOOLEAN]
Idle == [down |-> None, up |-> None, on |-> FALSE, stay |-> FALSE]
Silence == [s \in Sources |-> None]

OlderForever(age, d) == IF age = None THEN None ELSE age + d   \* mutant: not capped

Older(age, d) == IF age = None THEN None ELSE IF age + d > Long THEN Long ELSE age + d

-----------------------------------------------------------------------------
(* What the board asks about a source.                                     *)

Live(s) == feed[s] = "live"

Down(s) == \/ feed[s] = "out" /\ ~tried[s]
           \/ feed[s] = "stalled"
           \/ feed[s] = "failed" /\ ~(sighted[s] = None /\ tried[s])
           \/ feed[s] = "connecting" /\ sighted[s] # None

(* d units after the ages were last moved on. *)
LiveWithinEver(s, d) == Live(s) \/ sighted[s] # None   \* mutant: quiet for however long

LiveWithin(s, d) == Live(s) \/ (sighted[s] # None /\ sighted[s] + d < Grace)

Unconnected(s, d) == IF sighted[s] # None THEN None ELSE Older(waited[s], d)

(* The backups of s in the order they are tried: following the rules until *)
(* one would repeat.                                                       *)
Chain(rules, s) ==
  LET next(b) == IF rules[b] = None THEN None ELSE rules[b].backup
      fits(b, seen) == b # None /\ b # s /\ \A i \in DOMAIN seen : seen[i] # b
      link[n \in 0..Cardinality(Sources)] ==
        IF n = 0 THEN <<>>
        ELSE LET seen == link[n - 1]
                 b == next(IF seen = <<>> THEN s ELSE seen[Len(seen)])
             IN IF fits(b, seen) THEN Append(seen, b) ELSE seen
  IN link[Cardinality(Sources)]

Members(chain) == {chain[i] : i \in DOMAIN chain}

FirstLive(chain) ==
  IF \E i \in DOMAIN chain : Live(chain[i])
  THEN chain[CHOOSE i \in DOMAIN chain :
               Live(chain[i]) /\ \A j \in 1..(i - 1) : ~Live(chain[j])]
  ELSE None

-----------------------------------------------------------------------------
(* One look at a source with a rule r, its ages already moved on.          *)

Disengaged(w) == [w EXCEPT !.on = FALSE, !.up = None, !.stay = FALSE]

(* Neither live nor down: on its first connection, within the time it has. *)
Unsure(live, down, first) == ~live /\ ~down /\ (first = None \/ first < Connect)

SeenLiveLost(w) ==   \* mutant: the outage's clock is not stopped
  [w EXCEPT !.up = IF w.on /\ w.up = None THEN 0 ELSE w.up]
SeenLiveAnew(w) ==   \* mutant: the return's clock starts again at every look
  [w EXCEPT !.down = None, !.up = IF w.on THEN 0 ELSE None]

SeenLive(w) == [w EXCEPT !.down = None,
                         !.up = IF w.on /\ w.up = None THEN 0 ELSE w.up]

ReturnsAnyway(w, r) == w.on /\ r.auto /\ SeenLive(w).up >= r.back   \* mutant: stay is ignored

Returns(w, r) == /\ w.on /\ r.auto /\ ~w.stay
                 /\ SeenLive(w).up >= r.back

SeenDownStillUp(w, r, first) ==   \* mutant: a drop does not start the return's count again
  LET since == IF w.down # None THEN w.down ELSE IF first = None THEN 0 ELSE first
  IN [w EXCEPT !.down = since, !.on = w.on \/ since >= r.after]

SeenDownAnew(w, r, first) ==   \* mutant: the outage's clock starts again at every look
  LET since == IF first = None THEN 0 ELSE first
  IN [w EXCEPT !.up = None, !.down = since, !.on = w.on \/ since >= r.after]

SeenDown(w, r, first) ==
  LET since == IF w.down # None THEN w.down ELSE IF first = None THEN 0 ELSE first
  IN [w EXCEPT !.up = None, !.down = since, !.on = w.on \/ since >= r.after]

Looked(w, r, live, down, first) ==
  IF Unsure(live, down, first) THEN w
  ELSE IF ~live THEN SeenDown(w, r, first)
  ELSE IF Returns(w, r) THEN Disengaged(SeenLive(w))
  ELSE SeenLive(w)

-----------------------------------------------------------------------------
(* What should be drawn in the place of s by the rules and watches this    *)
(* step leaves: the backup on screen while it is live or only just quiet,  *)
(* or the first live one.                                                  *)
Target(s, d) ==
  LET chain == Chain(rule', s) IN
  IF rule'[s] = None \/ ~watch'[s].on THEN None
  ELSE IF showing[s] \in Members(chain) /\ LiveWithin(showing[s], d) THEN showing[s]
  ELSE FirstLive(chain)

PutOffForgetting(why) ==   \* mutant: the reason goes with the swap that is put off
  UNCHANGED leaving /\ told' = Silence /\ UNCHANGED <<showing, crossing>>

PutOff(why) == leaving' = why /\ told' = Silence /\ UNCHANGED <<showing, crossing>>

(* Every change the board asks for is drawn at once, over a transition     *)
(* when one of them is on air and its rule names one, unless one is still  *)
(* running.  Whether a source is on air is left open.                      *)
SwapStandIns(why, d) ==
  LET to == [s \in Sources |-> Target(s, d)] IN
  IF crossing \/ to = showing
  THEN PutOff(why)
  ELSE /\ showing' = to
       /\ LET off == {s \in Sources : showing[s] # None /\ showing'[s] = None} IN
            /\ told' = [s \in Sources |-> IF s \notin off THEN None
                                          ELSE IF why[s] = None THEN "backup_down" ELSE why[s]]
            /\ leaving' = [s \in Sources |-> IF s \in off THEN None ELSE why[s]]
       /\ crossing' \in {FALSE, \E s \in Sources : showing'[s] # showing[s] /\ rule'[s] # None}

-----------------------------------------------------------------------------
(* A mixer that has just started: a configured source is on its first      *)
(* connection, or its page is asked what it plays, or it would not start,  *)
(* and then waits on a piece being set up or is tried again.  The tick has *)
(* not run yet.                                                            *)
Init ==
  /\ feed \in [Sources -> {"connecting", "probing", "out"}]
  /\ \A s \in Sources \ Replaceable : feed[s] = "connecting"
  /\ noted = {s \in Sources : feed[s] = "out"}
  /\ tried \in [Sources -> BOOLEAN] /\ \A s \in Sources : tried[s] => s \in noted
  /\ waited = [s \in Sources |-> IF tried[s] THEN 0 ELSE None]
  /\ sighted = Silence /\ rebuilding = {} /\ struck = {} /\ faring = Silence
  /\ known = {s \in Sources : Config[s] # None /\ feed[s] # "probing"}
  /\ rule = [s \in Sources |-> IF s \in known THEN Config[s] ELSE None]
  /\ watch = [s \in Sources |-> Idle]
  /\ showing = Silence /\ leaving = Silence
  /\ crossing = FALSE /\ takes = 0
  /\ steady = [s \in Sources |-> 0] /\ gone = [s \in Sources |-> 0]
  /\ doubted = [s \in Sources |-> FALSE]
  /\ told = Silence /\ cause = Silence

(* Every clock of the board d units later. *)
Aged(d) == [s \in Sources |-> [watch[s] EXCEPT !.down = Older(@, d), !.up = Older(@, d)]]

Leaving == {s \in Sources : watch[s].on /\ ~watch'[s].on}

(* The supervisor's part of the tick.  A source with strikes is forgiven   *)
(* once it has stayed live for HealthyFor; one it arms a restart for, or   *)
(* whose plugin says it is failing, is struck.                             *)
Judge(d) ==
  LET stays == [s \in Sources |-> IF feed[s] \in Slots /\ ~Live(s) THEN None
                                  ELSE IF Live(s) /\ faring[s] = None THEN 0
                                  ELSE Older(faring[s], d)]
      forgiven == {s \in struck : Live(s) /\ stays[s] >= HealthyFor}
  IN \E hit \in SUBSET {s \in Faulty : feed[s] \in Slots} :
       /\ struck' = (struck \ forgiven) \cup hit
       /\ faring' = [s \in Sources |-> IF s \in struck' \ hit THEN stays[s] ELSE None]

(* The tick: every rule's clock moves on and what it says is drawn; then   *)
(* the supervisor judges the slots and writes down which are live.  A      *)
(* source that would not start counts as started once a tick finds it live *)
(* and off probation.                                                      *)
TickAfter(d) ==
  /\ watch' = [s \in Sources |->
                 IF rule[s] = None THEN Aged(d)[s]
                 ELSE Looked(Aged(d)[s], rule[s], Live(s), Down(s), Unconnected(s, d))]
  /\ UNCHANGED <<feed, rebuilding, noted, known, rule, takes>>
  /\ SwapStandIns([s \in Sources |-> IF s \in Leaving THEN "returned" ELSE leaving[s]], d)
  /\ Judge(d)
  /\ sighted' = [s \in Sources |-> IF Live(s) THEN 0 ELSE Older(sighted[s], d)]
  /\ waited' = [s \in Sources |->
                  IF feed[s] \in Slots /\ waited[s] = None THEN 0 ELSE Older(waited[s], d)]
  /\ tried' = [s \in Sources |-> tried[s] /\ ~(Live(s) /\ s \notin struck')]
  /\ steady' = [s \in Sources |-> IF Live(s) THEN Older(steady[s], d) ELSE 0]
  /\ gone' = [s \in Sources |-> IF Live(s) THEN 0 ELSE Older(gone[s], d)]
  /\ cause' = [s \in Sources |-> IF s \in Leaving THEN "returned"
                                 ELSE IF watch'[s].on /\ ~watch[s].on THEN None ELSE cause[s]]
  /\ doubted' = [s \in Sources |-> tried'[s] /\ (doubted[s] \/ Live(s))]

Tick == \E d \in Elapsed : TickAfter(d)

-----------------------------------------------------------------------------
(* What happens to a feed and to its slot.                                 *)

Unmoved == UNCHANGED <<known, rule, watch, showing, leaving, crossing, takes, observed>>
Quiet == told' = Silence

Become(s, from, to) ==
  feed[s] \in from /\ feed' = [feed EXCEPT ![s] = to] /\ Quiet

(* A slot's own pipeline: its first picture or the next, no frame for the  *)
(* stall limit, a failure, a restart in place.  The slot stays, and so do  *)
(* its clocks; one that never had a picture does not stall.                *)
Feeding(s, from, to) ==
  Become(s, from, to) /\ UNCHANGED <<clocks, rebuilding, noted>> /\ Unmoved

Come(s) == Feeding(s, {"connecting", "stalled", "failed"}, "live")
Stall(s) == s \in Fallible /\ Feeding(s, {"live"}, "stalled")
Fail(s) == s \in Fallible /\ Feeding(s, Slots \ {"failed"}, "failed")
Restart(s) == s \in Fallible /\ Feeding(s, Slots, "connecting")

(* The slot is taken down to be built again: its clocks go with it, its    *)
(* strikes, its first try and its entry on the board stay.                 *)
Rebuild(s) == /\ s \in Replaceable
              /\ Become(s, Slots, "out")
              /\ rebuilding' = rebuilding \cup {s}
              /\ sighted' = [sighted EXCEPT ![s] = None]
              /\ waited' = [waited EXCEPT ![s] = IF tried[s] THEN @ ELSE None]
              /\ UNCHANGED <<tried, struck, faring, noted>> /\ Unmoved

(* A source is added: by an operator, at the end of a rebuild, or tried    *)
(* again.  A page is asked first what it plays.                            *)
Probe(s) == Feeding(s, {"out"}, "probing")

Adopt(s) == IF s \in known \/ Config[s] = None THEN UNCHANGED <<known, rule, watch>>
            ELSE /\ known' = known \cup {s}
                 /\ rule' = [rule EXCEPT ![s] = Config[s]]
                 /\ watch' = [watch EXCEPT ![s] = Idle]

Add(s) == /\ Become(s, {"out", "probing"}, "connecting")
          /\ Adopt(s)
          /\ rebuilding' = rebuilding \ {s} /\ noted' = noted \ {s}
          /\ UNCHANGED <<clocks, showing, leaving, crossing, takes, observed>>

(* The build fails.  Who asked and waits is told; a source nobody waits    *)
(* for, or that waits on a piece being set up, is noted with its error.    *)
(* Such a one is tried again from now on, unless it waits on that piece or *)
(* a rebuild tries it again by itself.  A pipeline that did not start      *)
(* takes the strikes with it.                                              *)
Refuse(s) ==
  \E asked \in BOOLEAN, waits \in BOOLEAN :
    /\ IF asked THEN feed[s] = "out" ELSE feed[s] = "probing" \/ s \in rebuilding \cup noted
    /\ Become(s, {"out", "probing"}, "out")
    /\ Adopt(s)
    /\ noted' = IF asked /\ ~waits THEN noted ELSE noted \cup {s}
    /\ LET again == ~asked /\ ~waits /\ s \notin rebuilding IN
         /\ tried' = [tried EXCEPT ![s] = @ \/ again]
         /\ waited' = [waited EXCEPT ![s] = IF again /\ ~tried[s] THEN 0 ELSE @]
    /\ \/ UNCHANGED <<struck, faring>>
       \/ struck' = struck \ {s} /\ faring' = [faring EXCEPT ![s] = None]
    /\ UNCHANGED <<sighted, rebuilding, showing, leaving, crossing, takes, observed>>

(* Somebody removes the source, from its slot or off the list; the board   *)
(* forgets it.  A page being asked, or a rebuild, goes on.                 *)
Remove(s) ==
  /\ s \in Replaceable /\ Quiet
  /\ \/ /\ feed[s] \in Slots
        /\ feed' = [feed EXCEPT ![s] = "out"]
        /\ struck' = struck \ {s} /\ faring' = [faring EXCEPT ![s] = None]
     \/ /\ feed[s] \notin Slots /\ s \in noted
        /\ UNCHANGED <<feed, struck, faring>>
  /\ noted' = noted \ {s} /\ tried' = [tried EXCEPT ![s] = FALSE]
  /\ sighted' = [sighted EXCEPT ![s] = None]
  /\ waited' = [waited EXCEPT ![s] = None]
  /\ steady' = [steady EXCEPT ![s] = 0]
  /\ gone' = [gone EXCEPT ![s] = 0]
  /\ doubted' = [doubted EXCEPT ![s] = FALSE]
  /\ known' = known \ {s}
  /\ rule' = [rule EXCEPT ![s] = None]
  /\ watch' = [watch EXCEPT ![s] = Idle]
  /\ showing' = [showing EXCEPT ![s] = None]
  /\ leaving' = [leaving EXCEPT ![s] = None]
  /\ cause' = [cause EXCEPT ![s] = None]
  /\ UNCHANGED <<rebuilding, crossing, takes>>

-----------------------------------------------------------------------------
(* What an operator does.                                                  *)

Named == {s \in Sources : feed[s] # "out" \/ s \in noted}

(* No source stands in, down the chain, for one that stands in for it, and *)
(* every backup is a source there is.                                      *)
Checked(rules) ==
  /\ \A s \in Sources : rules[s] # None => rules[s].backup \in Named \ {s}
  /\ \A s \in Sources :
       LET chain == Chain(rules, s)
           last == IF chain = <<>> THEN s ELSE chain[Len(chain)]
       IN rules[last] = None

SetOnLoss(s, r) ==
  /\ s \in Named
  /\ rule' = [rule EXCEPT ![s] = r]
  /\ r # None => Checked(rule')
  /\ known' = known \cup {s}
  /\ IF r = None /\ watch[s].on
     THEN /\ watch' = [watch EXCEPT ![s] = Disengaged(@)]
          /\ cause' = [cause EXCEPT ![s] = "cleared"]
          /\ SwapStandIns([leaving EXCEPT ![s] = "cleared"], 0)
     ELSE UNCHANGED <<watch, cause>> /\ SwapStandIns(leaving, 0)
  /\ UNCHANGED <<slots, takes, steady, gone, doubted>>

ReturnUnsaid(s) ==   \* mutant: the reason is not written down
  /\ watch[s].on /\ Live(s)
  /\ UNCHANGED <<slots, known, rule, takes, steady, gone, doubted>>
  /\ watch' = [watch EXCEPT ![s] = Disengaged(@)]
  /\ cause' = [cause EXCEPT ![s] = "operator"]
  /\ SwapStandIns(leaving, 0)

(* Back to the source now; refused while it has no picture. *)
Return(s) ==
  /\ watch[s].on /\ Live(s)
  /\ UNCHANGED <<slots, known, rule, takes, steady, gone, doubted>>
  /\ watch' = [watch EXCEPT ![s] = Disengaged(@)]
  /\ cause' = [cause EXCEPT ![s] = "operator"]
  /\ SwapStandIns([leaving EXCEPT ![s] = "operator"], 0)

Stay(s) ==
  /\ watch[s].on
  /\ watch' = [watch EXCEPT ![s].stay = TRUE]
  /\ Quiet
  /\ UNCHANGED <<slots, known, rule, showing, leaving, crossing, takes, observed>>

(* A take of the operator's with a transition; one that runs is replaced.  *)
StartTake ==
  /\ takes < MaxTakes /\ takes' = takes + 1
  /\ crossing' = TRUE /\ Quiet
  /\ UNCHANGED <<slots, known, rule, watch, showing, leaving, observed>>

EndTransition ==
  /\ crossing /\ crossing' = FALSE /\ Quiet
  /\ UNCHANGED <<slots, known, rule, watch, showing, leaving, takes, observed>>

Next ==
  \/ Tick \/ StartTake \/ EndTransition
  \/ \E s \in Sources :
       \/ Come(s) \/ Stall(s) \/ Fail(s) \/ Restart(s)
       \/ Rebuild(s) \/ Probe(s) \/ Add(s) \/ Refuse(s) \/ Remove(s)
       \/ Return(s) \/ Stay(s) \/ \E r \in Settable : SetOnLoss(s, r)

Spec == Init /\ [][Next]_vars

(* The mixer's loop ticks, and a transition comes to its end.              *)
Fairness == WF_vars(Tick) /\ WF_vars(EndTransition)
LiveSpec == Spec /\ Fairness

-----------------------------------------------------------------------------
(* Properties.                                                             *)

(* The state has its shape: ages stay on their scale, watches are records. *)
TypeOK ==
  /\ feed \in [Sources -> Feeds]
  /\ {sighted, waited, faring} \subseteq [Sources -> Age \cup {None}]
  /\ {rebuilding, noted, struck, known} \subseteq SUBSET Sources /\ rule \in [Sources -> Rules \cup {None}]
  /\ watch \in [Sources -> Watches]
  /\ showing \in [Sources -> Sources \cup {None}]
  /\ {leaving, told} \subseteq [Sources -> Reasons \cup {None}]
  /\ crossing \in BOOLEAN /\ {tried, doubted} \subseteq [Sources -> BOOLEAN]

(* Nothing of one outage is left for the next: the operator's "stay" and   *)
(* the clock of the return run only while the backup is on, and only a     *)
(* source that has a rule is on its backup.                                *)
OneOutage ==
  \A s \in Sources : /\ watch[s].stay \/ watch[s].up # None => watch[s].on
                     /\ watch[s].on => s \in known /\ rule[s] # None

(* A backup still drawn for a source that is no longer on it is on its way *)
(* out, and the reason that will be announced is already there: a swap put *)
(* off by a transition never loses it.                                     *)
OffHasReason ==
  \A s \in Sources : showing[s] # None /\ ~watch[s].on => leaving[s] # None

(* After a tick that no transition held back, a source on its backup is    *)
(* drawn as one of its chain that is live or was live within the grace,    *)
(* and as itself only when none of the chain is live.                      *)
DrawnWhatHelps ==
  [][Tick /\ ~crossing =>
       \A s \in Sources :
         LET chain == Members(Chain(rule, s)) IN
         watch'[s].on =>
           IF showing'[s] = None THEN \A b \in chain : ~Live(b)
           ELSE /\ showing'[s] \in chain
                /\ Live(showing'[s]) \/ sighted'[showing'[s]] < Grace]_vars

(* A backup goes on only when no look has found the source live for the    *)
(* whole of the rule's hold, through stalls, restarts, rebuilds, refusals  *)
(* and removals.  There is one exception: a source that would not start,   *)
(* has been live since without being forgiven, and whose slot is gone, has *)
(* the hold counted from its first try, live or not in between.            *)
HoldsFrame ==
  [][\A s \in Sources :
       ~watch[s].on /\ watch'[s].on =>
         IF doubted[s] /\ sighted[s] = None THEN waited'[s] >= rule[s].after
         ELSE gone'[s] >= rule[s].after]_vars

(* The hold without that exception, which the code does not keep.          *)
HoldsAlways ==
  [][\A s \in Sources :
       ~watch[s].on /\ watch'[s].on => gone'[s] >= rule[s].after]_vars

(* A source returns by itself only when every look for the whole of the    *)
(* rule's return time has found it live.                                   *)
ReturnsWhenSteady ==
  [][\A s \in Sources :
       watch[s].on /\ ~watch'[s].on /\ cause'[s] = "returned"
         => steady'[s] >= rule[s].back]_vars

(* Told to stay, a source stays on its backup until an operator returns    *)
(* it, takes the rule away or removes it; the next outage starts afresh.   *)
StayForOneOutage ==
  [][\A s \in Sources :
       watch[s].stay => \/ watch'[s].on /\ watch'[s].stay
                        \/ /\ ~watch'[s].on /\ ~watch'[s].stay
                           /\ s \notin known' \/ cause'[s] \in {"operator", "cleared"}]_vars

(* The reason announced when a backup comes off is what took it off: the   *)
(* last thing that took the source off its backup, or, while the source is *)
(* still on it, that no backup has a picture.                              *)
ReasonIsTrue ==
  [][\A s \in Sources :
       told'[s] # None =>
         told'[s] = IF watch'[s].on THEN "backup_down" ELSE cause'[s]]_vars

HasCover(s) == \E b \in Members(Chain(rule, s)) : Live(b)

(* A source that stays without a picture, with a live source somewhere     *)
(* down its chain, ends up covered, and stays so.                          *)
Covered ==
  \A s \in Sources :
    <>[](rule[s] # None /\ ~Live(s) /\ HasCover(s)) => <>[](showing[s] # None)

(* A source that is live for good, and that nobody said to keep on its     *)
(* backup, ends up drawn as itself.                                        *)
HomeAgain ==
  \A s \in Sources :
    <>[](Live(s) /\ ~watch[s].stay /\ (rule[s] = None \/ rule[s].auto)) => <>[](showing[s] = None)
=============================================================================
