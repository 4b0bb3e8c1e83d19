--------------------------- MODULE StationTickets ---------------------------
(***************************************************************************)
(* One machine, one budget, several processes (godwinmix-govern,           *)
(* station/link, core/render).  A station keeps the book; every show asks  *)
(* it, over a link, for room for each node of its renditions, and tells it *)
(* when a node has stopped.  The station answers in its own time, says     *)
(* what to give up while the machine is over its line, and drops           *)
(* everything of a show whose link closes.  A show whose station does not  *)
(* answer in half a second decides on its own book.                        *)
(*                                                                         *)
(* A show here is one process of one.  The supervisor starts the next of   *)
(* the same name when the process has ended, and does not wait for the     *)
(* station to see its link closed.                                         *)
(*                                                                         *)
(* The kind of a ticket, which says whether the governor may drop it, is   *)
(* fixed when it is asked for, from the requests its node then serves.  A  *)
(* change that only gives a running node other requests leaves its ticket. *)
(*                                                                         *)
(* A ticket is the number it has in a book and whose book that is.  A node *)
(* costs a fixed share of one resource.  Numbers of tickets and of asks    *)
(* grow without end in the code; here one is given out again when nothing  *)
(* mentions it any more, which no step of the code can tell apart.         *)
(***************************************************************************)
EXTENDS Integers, Sequences, FiniteSets, SequencesExt, FiniteSetsExt

CONSTANTS
    Shows,       \* the processes of the station's shows
    Name,        \* the show it is a process of
    First,       \* the process each show starts with
    Nodes,       \* the renditions' nodes
    ShowOf,      \* whose node it is
    Cost,        \* its share of the machine
    RungsOf,     \* the rungs of a ladder it may be asked for at; 0 is the top
    Numbers,     \* bound: ticket numbers in one book at once
    Asks,        \* bound: asks of one show that are not forgotten
    Room,        \* the machine less its reserve
    Brink,       \* the line shedding starts at: half the reserve eaten
    Bursts,      \* what other programs may take
    Impatient,   \* the shows the station may answer too late
    Mortal,      \* the processes that may die
    Telling,     \* bound: the shows whose reporter gets to run
    MaxLoads,    \* bound: readings of one show on their way to the station
    MaxChanges   \* bound: plan changes, bursts, late answers and deaths in one behaviour

NoNode == "no node"
NoAsk == "no ask"

ASSUME StationAssumption ==
    /\ IsFiniteSet(Nodes) /\ IsFiniteSet(Numbers) /\ Numbers \subseteq Nat \ {0}
    /\ NoNode \notin Nodes /\ NoAsk \notin Asks
    /\ ShowOf \in [Nodes -> Shows]
    /\ Cost \in [Nodes -> Nat] /\ RungsOf \in [Nodes -> SUBSET Nat]
    /\ Name = [s \in Shows |-> Name[s]] /\ First \subseteq Shows
    /\ Room \in Nat /\ Brink \in Nat /\ Room <= Brink /\ Bursts \subseteq Nat /\ 0 \in Bursts
    /\ Impatient \subseteq Shows /\ Mortal \subseteq Shows /\ Telling \subseteq Shows
    /\ MaxLoads \in Nat /\ MaxChanges \in Nat

Refused == 0              \* in an answer, where a number would be
Station == "station"      \* whose book a number is in
Own == "own"
Tickets == [no : Numbers, in : {Station, Own}]
NoTicket == [no |-> Refused, in |-> "none"]

VARIABLES
    plan,     \* Renditions::plan, per show
    rungs,    \* Renditions::rungs, by node: the highest rung it serves, 0 for what is no encode
    ticket,   \* Renditions::tickets, by node
    shed,     \* Renditions::shed
    job,      \* what the mixer thread of each show is in the middle of
    box,      \* Link::shed, what the station last said to give up
    counted,  \* Reporter::held
    report,   \* the reporter's thread: where it is, its token, whether it has a reading
    lines,    \* the link, to the station
    replies,  \* the link, to the show
    alive,    \* the show's process
    served,   \* whether a task of the station serves its link
    booked,   \* the station's book, and its tickets: what each number was granted for
    kind,     \* Held::kind: the rung it was asked for at
    loads,    \* Station::loads: whether it counts a share of the machine as this show's
    others,   \* what other programs take
    changes

show == <<plan, rungs, ticket, shed, job, box>>
teller == <<counted, report>>
link == <<lines, replies>>
life == <<alive, served>>
desk == <<booked, kind, loads>>
vars == <<show, teller, link, life, desk, others, changes>>

Names == {Name[s] : s \in Shows}
NodesOf(s) == {n \in Nodes : ShowOf[n] = s}
\* A share is made of units, so what several nodes take is the size of a set.
Taken(ns) == Cardinality(UNION {{n} \X (1 .. Cost[n]) : n \in ns})

-----------------------------------------------------------------------------
(* The books (governor/mod.rs, admit.rs, room.rs).                           *)

BookedNumbers == {k \in Numbers : booked[k] # NoNode}
Promised(ks) == Cardinality(UNION {{k} \X (1 .. Cost[booked[k]]) : k \in ks})
Committed == Promised(BookedNumbers)

\* Tickets a show's process has: of running nodes, and granted to the change under way.
Granted(s) == {n \in NodesOf(s) : job[s].granted[n] # NoTicket}
Has(s) == {ticket[n] : n \in {m \in NodesOf(s) : ticket[m] # NoTicket}}
            \cup {job[s].granted[n] : n \in Granted(s)}

Running == {n \in Nodes : ticket[n] # NoTicket}
Usage == others + Taken(Running)   \* LoadCell, as sampled now

\* A number nothing mentions any more, in the station's book and in a show's.
Mentioned(k) ==
    \/ booked[k] # NoNode
    \/ \E s \in Shows :
         \/ k \in box[s] \/ [no |-> k, in |-> Station] \in Has(s)
         \/ \E i \in DOMAIN lines[s] : lines[s][i].is = "release" /\ lines[s][i].no = k
         \/ \E i \in DOMAIN replies[s] :
              \/ replies[s][i].is = "answer" /\ replies[s][i].no = k
              \/ replies[s][i].is = "shed" /\ k \in replies[s][i].steps
FreshNumberBooked(k) == booked[k] = NoNode   \* mutant: a number given back is given out again
FreshNumber(k) == ~Mentioned(k)
FreshAsk(s, a) ==
    /\ a # job[s].ask
    /\ \A i \in DOMAIN lines[s] : lines[s][i].is = "admit" => lines[s][i].ask # a
    /\ \A i \in DOMAIN replies[s] : replies[s][i].is = "answer" => replies[s][i].ask # a

\* have() and short(): what others take at their peak, and every promise.
FitsUnpromised(n) == others + Taken(Running) + Cost[n] <= Room   \* mutant: only what is measured
Fits(n) == others + Committed + Cost[n] <= Room
\* The show's own governor sees the other shows as other programs.
FitsAlone(n) == Usage + Cost[n] <= Room

\* shed::plan: from the bottom rung up and the dearest first, as few as free
\* what is too much.  A top rung is not dropped.
Sheddable == {k \in BookedNumbers : kind[k] > 0}
Before(k, l) ==
    kind[k] > kind[l] \/ (kind[k] = kind[l] /\ Cost[booked[k]] >= Cost[booked[l]])
ShedPlans ==
    {ks \in SUBSET Sheddable :
        /\ \A k \in ks, l \in Sheddable \ ks : Before(k, l)
        /\ ks # Sheddable => Promised(ks) >= Usage - Room
        /\ \E k \in ks : Promised(ks \ {k}) < Usage - Room /\ \A l \in ks : Before(l, k)}
OverLine == Usage > Brink
-----------------------------------------------------------------------------
(* A show: asking, changing its plan, shedding and bringing back.            *)

NoRungs == [n \in Nodes |-> 0]
Idle == [doing |-> "nothing", next |-> {}, rungs |-> NoRungs, again |-> {}, todo |-> {},
         granted |-> [n \in Nodes |-> NoTicket], ask |-> NoAsk, asked |-> NoNode]

AdmitLine(a, n, r) == [is |-> "admit", ask |-> a, node |-> n, rung |-> r]
ReleaseLine(k) == [is |-> "release", no |-> k]
LoadLine == [is |-> "load"]
AnswerLine(a, k) == [is |-> "answer", ask |-> a, no |-> k]
ShedLine(ks) == [is |-> "shed", steps |-> ks]

\* Dropping tickets: report.released(), then the line; a ticket of the own
\* book goes back to it and nobody hears of it.
Releases(ks) == [i \in DOMAIN SetToSeq(ks) |-> ReleaseLine(SetToSeq(ks)[i])]
Dropped(s, ts) ==
    LET gone == {t.no : t \in {u \in ts : u.in = Station}}
    IN  /\ counted' = [counted EXCEPT ![s] = Max({0, @ - Cardinality(gone)})]
        /\ lines' = [lines EXCEPT ![s] = @ \o Releases(gone)]
KeepTickets == UNCHANGED <<counted, lines>>

\* Renditions::apply, up to the first ask.  Of the plan's nodes some are kept,
\* whatever they serve now, and some changed and must be started again.
Serving(next) ==
    {[n \in Nodes |-> IF n \in next THEN f[n] ELSE 0] :
        f \in {g \in [next -> UNION {RungsOf[n] : n \in next}] : \A n \in next : g[n] \in RungsOf[n]}}
Replan(s) ==
    /\ alive[s] /\ job[s] = Idle /\ changes < MaxChanges
    /\ \E next \in SUBSET NodesOf(s) : \E at \in Serving(next), again \in SUBSET (plan[s] \cap next) :
         /\ next # plan[s] \/ again # {} \/ \E n \in next : at[n] # rungs[n]
         /\ job' = [job EXCEPT ![s] = [@ EXCEPT !.doing = "plan", !.next = next, !.rungs = at,
                        !.again = again, !.todo = (next \ plan[s]) \cup again]]
    /\ changes' = changes + 1
    /\ UNCHANGED <<plan, rungs, ticket, shed, box, teller, link, life, desk, others>>

\* Link::ask, on the mixer thread, which now waits.  The kind asked for is
\* that of the new plan, or of the running one when a node is brought back.
KindOf(s, n) == IF job[s].doing = "plan" THEN job[s].rungs[n] ELSE rungs[n]
Ask(s) ==
    /\ alive[s] /\ job[s].ask = NoAsk
    /\ \E n \in job[s].todo, a \in Asks :
         /\ FreshAsk(s, a)
         /\ job' = [job EXCEPT ![s] = [@ EXCEPT !.ask = a, !.asked = n]]
         /\ lines' = [lines EXCEPT ![s] = Append(@, AdmitLine(a, n, KindOf(s, n)))]
    /\ UNCHANGED <<plan, rungs, ticket, shed, box, teller, replies, life, desk, others, changes>>

\* The mixer thread goes on without an ask; bringing back ends with its last node.
Onward(j) ==
    LET k == [j EXCEPT !.todo = @ \ {j.asked}, !.ask = NoAsk, !.asked = NoNode]
    IN  IF k.doing = "restore" /\ k.todo = {} THEN Idle ELSE k

\* A ticket t in hand for the node asked about: a change goes on with it, a
\* node brought back runs, or its encoder does not start and the ticket goes.
Keep(s, t) ==
    LET n == job[s].asked IN
    IF job[s].doing = "plan"
    THEN /\ job' = [job EXCEPT ![s] = [Onward(@) EXCEPT !.granted[n] = t]]
         /\ UNCHANGED <<ticket, shed>>
    ELSE /\ job' = [job EXCEPT ![s] = Onward(@)]
         /\ ticket' = [ticket EXCEPT ![n] = t]
         /\ shed' = [shed EXCEPT ![s] = @ \ {n}]

\* Refused: a change leaves everything as it was and what it was granted is
\* dropped; a node to bring back stays down and the next one is asked for.
TurnedForgetting(s) ==   \* mutant: what a refused change was granted is not given back
    KeepTickets /\ job' = [job EXCEPT ![s] = IF @.doing = "plan" THEN Idle ELSE Onward(@)]
Turned(s) ==
    IF job[s].doing = "plan"
    THEN /\ Dropped(s, {job[s].granted[m] : m \in Granted(s)})
         /\ job' = [job EXCEPT ![s] = Idle]
    ELSE /\ KeepTickets
         /\ job' = [job EXCEPT ![s] = Onward(@)]

\* Reporter::granted: the first one wakes the thread.
WokenNot(r) == r   \* mutant: nobody is woken
Woken(r) == [r EXCEPT !.token = TRUE]
CountIn(s) ==
    /\ counted' = [counted EXCEPT ![s] = @ + 1]
    /\ report' = [report EXCEPT ![s] = IF counted[s] = 0 THEN Woken(@) ELSE @]

\* read_answers: an answer whose ask nobody waits for any more is dropped.
ReadAnswer(s) ==
    /\ alive[s] /\ replies[s] # <<>> /\ Head(replies[s]).is = "answer"
    /\ replies' = [replies EXCEPT ![s] = Tail(@)]
    /\ LET l == Head(replies[s]) IN
       IF l.ask # job[s].ask THEN UNCHANGED <<ticket, shed, job, counted, report, lines>>
       ELSE IF l.no = Refused
            THEN Turned(s) /\ UNCHANGED <<ticket, shed, report>>
            ELSE /\ Keep(s, [no |-> l.no, in |-> Station])
                 /\ CountIn(s) /\ UNCHANGED lines
    /\ UNCHANGED <<plan, rungs, box, life, desk, others, changes>>

\* restore(): the governor grants, the encoder does not start, the ticket goes.
ResumeFails(s) ==
    /\ alive[s] /\ replies[s] # <<>> /\ Head(replies[s]).is = "answer"
    /\ Head(replies[s]).ask = job[s].ask /\ Head(replies[s]).no # Refused
    /\ job[s].doing = "restore"
    /\ replies' = [replies EXCEPT ![s] = Tail(@)]
    /\ job' = [job EXCEPT ![s] = Onward(@)]
    /\ lines' = [lines EXCEPT ![s] = Append(@, ReleaseLine(Head(replies[s]).no))]
    /\ report' = [report EXCEPT ![s] = IF counted[s] = 0 THEN Woken(@) ELSE @]
    /\ UNCHANGED <<plan, rungs, ticket, shed, box, counted, life, desk, others, changes>>

\* ASK_WAIT is over: the ask is forgotten, and the show's own book decides.
TimeOut(s) ==
    /\ alive[s] /\ s \in Impatient /\ job[s].ask # NoAsk
    /\ changes < MaxChanges /\ changes' = changes + 1
    /\ \/ /\ FitsAlone(job[s].asked)
          /\ \E k \in Numbers :
               /\ [no |-> k, in |-> Own] \notin Has(s)
               /\ Keep(s, [no |-> k, in |-> Own])
          /\ KeepTickets
       \/ /\ ~FitsAlone(job[s].asked)
          /\ Turned(s) /\ UNCHANGED <<ticket, shed>>
    /\ UNCHANGED <<plan, rungs, box, report, replies, life, desk, others>>

\* The rest of Renditions::apply, once every node is admitted: what is gone
\* or changed stops, what is new or changed starts.
StoppedGone(s) == plan[s] \ job[s].next   \* mutant: what changed is started over the old
Stopped(s) == (plan[s] \ job[s].next) \cup job[s].again
Apply(s) ==
    /\ alive[s] /\ job[s].doing = "plan" /\ job[s].todo = {} /\ job[s].ask = NoAsk
    /\ plan' = [plan EXCEPT ![s] = job[s].next]
    /\ rungs' = [n \in Nodes |-> IF ShowOf[n] = s THEN job[s].rungs[n] ELSE rungs[n]]
    /\ ticket' = [n \in Nodes |-> IF n \in Granted(s) THEN job[s].granted[n]
                                  ELSE IF n \in Stopped(s) THEN NoTicket ELSE ticket[n]]
    /\ shed' = [shed EXCEPT ![s] = @ \ Stopped(s)]
    /\ Dropped(s, {ticket[n] : n \in {m \in Stopped(s) : ticket[m] # NoTicket}})
    /\ job' = [job EXCEPT ![s] = Idle]
    /\ UNCHANGED <<box, report, replies, life, desk, others, changes>>

\* Renditions::tick with steps in the box: find() over the tickets by number
\* alone, so of two tickets with one number either is taken.
HoldingOwn(s, k) ==   \* mutant: only tickets of the show's own book are looked through
    {n \in NodesOf(s) : ticket[n].in = Own /\ ticket[n].no = k}
Holding(s, k) == {n \in NodesOf(s) : ticket[n] # NoTicket /\ ticket[n].no = k}
ShedTick(s) ==
    /\ alive[s] /\ job[s] = Idle /\ box[s] # {}
    /\ \E named \in [box[s] -> NodesOf(s) \cup {NoNode}] :
         LET down == {named[k] : k \in box[s]} \ {NoNode} IN
         /\ \A k \in box[s] : IF Holding(s, k) = {} THEN named[k] = NoNode
                                                   ELSE named[k] \in Holding(s, k)
         /\ ticket' = [n \in Nodes |-> IF n \in down THEN NoTicket ELSE ticket[n]]
         /\ shed' = [shed EXCEPT ![s] = @ \cup down]
         /\ Dropped(s, {ticket[n] : n \in down})
    /\ box' = [box EXCEPT ![s] = {}]
    /\ UNCHANGED <<plan, rungs, job, report, replies, life, desk, others, changes>>

\* Renditions::tick with none: what has been down for RESTORE_AFTER is asked for.
RestoreTick(s) ==
    /\ alive[s] /\ job[s] = Idle /\ box[s] = {}
    /\ \E due \in (SUBSET shed[s]) \ {{}} :
         job' = [job EXCEPT ![s] = [@ EXCEPT !.doing = "restore", !.todo = due]]
    /\ UNCHANGED <<plan, rungs, ticket, shed, box, teller, link, life, desk, others, changes>>

\* read_answers: the newest list of steps takes the place of one not acted on.
ReadShed(s) ==
    /\ alive[s] /\ replies[s] # <<>> /\ Head(replies[s]).is = "shed"
    /\ box' = [box EXCEPT ![s] = Head(replies[s]).steps]
    /\ replies' = [replies EXCEPT ![s] = Tail(@)]
    /\ UNCHANGED <<plan, rungs, ticket, shed, job, teller, lines, life, desk, others, changes>>

-----------------------------------------------------------------------------
(* The reporter's thread (report.rs).                                        *)

\* The top of the loop: asleep for good when nothing is held, which forgets
\* the last reading, or for EVERY.
Look(s) ==
    /\ alive[s] /\ s \in Telling /\ report[s].at = "top"
    /\ report' = [report EXCEPT ![s] =
          IF counted[s] = 0 THEN [@ EXCEPT !.at = "parked", !.read = FALSE]
          ELSE [@ EXCEPT !.at = "timed"]]
    /\ UNCHANGED <<show, counted, link, life, desk, others, changes>>
Wake(s) ==
    /\ alive[s] /\ report[s].at = "parked" /\ report[s].token
    /\ report' = [report EXCEPT ![s] = [@ EXCEPT !.at = "top", !.token = FALSE]]
    /\ UNCHANGED <<show, counted, link, life, desk, others, changes>>

\* After EVERY, or sooner with a token: the second reading in a row is sent.
\* A process that runs never measures nothing.
Read(s) ==
    /\ alive[s] /\ report[s].at = "timed"
    /\ report[s].read => Cardinality({i \in DOMAIN lines[s] : lines[s][i].is = "load"}) < MaxLoads
    /\ report' = [report EXCEPT ![s] = [at |-> "top", token |-> FALSE, read |-> TRUE]]
    /\ lines' = [lines EXCEPT ![s] = IF report[s].read THEN Append(@, LoadLine) ELSE @]
    /\ UNCHANGED <<show, counted, replies, life, desk, others, changes>>

-----------------------------------------------------------------------------
(* The station (serve.rs, host.rs), and the world.                           *)

\* serve: one line at a time, its reply written before the next is read.
Admit(s) ==
    LET l == Head(lines[s]) IN
    /\ served[s] /\ lines[s] # <<>> /\ l.is = "admit"
    /\ \/ /\ Fits(l.node)
          /\ \E k \in Numbers :
               /\ FreshNumber(k)
               /\ booked' = [booked EXCEPT ![k] = l.node]
               /\ kind' = [kind EXCEPT ![k] = l.rung]
               /\ replies' = [replies EXCEPT ![s] = Append(@, AnswerLine(l.ask, k))]
       \/ /\ ~Fits(l.node)
          /\ replies' = [replies EXCEPT ![s] = Append(@, AnswerLine(l.ask, Refused))]
          /\ UNCHANGED <<booked, kind>>
    /\ lines' = [lines EXCEPT ![s] = Tail(@)]
    /\ UNCHANGED <<show, teller, life, loads, others, changes>>

BookedForAny(s) == BookedNumbers   \* mutant: one table of tickets for all links
BookedFor(s) == {k \in BookedNumbers : ShowOf[booked[k]] = s}
Release(s) ==
    LET k == Head(lines[s]).no IN
    /\ served[s] /\ lines[s] # <<>> /\ Head(lines[s]).is = "release"
    /\ booked' = IF k \in BookedFor(s) THEN [booked EXCEPT ![k] = NoNode] ELSE booked
    /\ kind' = IF k \in BookedFor(s) THEN [kind EXCEPT ![k] = 0] ELSE kind
    /\ loads' = [loads EXCEPT ![Name[s]] = @ /\ BookedFor(s) \ {k} # {}]
    /\ lines' = [lines EXCEPT ![s] = Tail(@)]
    /\ UNCHANGED <<show, teller, replies, life, others, changes>>
Load(s) ==
    /\ served[s] /\ lines[s] # <<>> /\ Head(lines[s]).is = "load"
    /\ loads' = [loads EXCEPT ![Name[s]] = TRUE]
    /\ lines' = [lines EXCEPT ![s] = Tail(@)]
    /\ UNCHANGED <<show, teller, replies, life, booked, kind, others, changes>>

\* shed_for, every second while a show holds something: the machine's plan
\* cut down to this show.  A second list is not written over an unread one.
Warn(s) ==
    /\ served[s] /\ BookedFor(s) # {} /\ OverLine
    /\ \A i \in DOMAIN replies[s] : replies[s][i].is # "shed"
    /\ \E ks \in ShedPlans :
         /\ ks \cap BookedFor(s) # {}
         /\ replies' = [replies EXCEPT ![s] = Append(@, ShedLine(ks \cap BookedFor(s)))]
    /\ UNCHANGED <<show, teller, lines, life, desk, others, changes>>

Burst ==   \* a burst that ends is not counted
    /\ others' \in Bursts \ {others}
    /\ others' > others => changes < MaxChanges
    /\ changes' = IF others' > others THEN changes + 1 ELSE changes
    /\ UNCHANGED <<show, teller, link, life, desk>>

Asleep == [at |-> "top", token |-> FALSE, read |-> FALSE]
\* A show dies, its link with it; what it had sent may still be read.
Die(s) ==
    /\ alive[s] /\ s \in Mortal /\ changes < MaxChanges /\ changes' = changes + 1
    /\ alive' = [alive EXCEPT ![s] = FALSE]
    /\ plan' = [plan EXCEPT ![s] = {}]
    /\ rungs' = [n \in Nodes |-> IF ShowOf[n] = s THEN 0 ELSE rungs[n]]
    /\ ticket' = [n \in Nodes |-> IF ShowOf[n] = s THEN NoTicket ELSE ticket[n]]
    /\ shed' = [shed EXCEPT ![s] = {}]
    /\ job' = [job EXCEPT ![s] = Idle]
    /\ box' = [box EXCEPT ![s] = {}]
    /\ counted' = [counted EXCEPT ![s] = 0]
    /\ report' = [report EXCEPT ![s] = Asleep]
    /\ UNCHANGED <<link, served, desk, others>>

\* serve ends: the tickets go back, and Host::gone, which forgets the load of
\* the show of that name, be it started again or not.
Gone(s) ==
    /\ served[s] /\ ~alive[s]
    /\ served' = [served EXCEPT ![s] = FALSE]
    /\ booked' = [k \in Numbers |-> IF k \in BookedFor(s) THEN NoNode ELSE booked[k]]
    /\ kind' = [k \in Numbers |-> IF k \in BookedFor(s) THEN 0 ELSE kind[k]]
    /\ loads' = [loads EXCEPT ![Name[s]] = FALSE]
    /\ lines' = [lines EXCEPT ![s] = <<>>] /\ replies' = [replies EXCEPT ![s] = <<>>]
    /\ UNCHANGED <<show, teller, alive, others, changes>>

\* The supervisor starts the show again when its last process has ended.
Start(s) ==
    /\ ~alive[s] /\ ~served[s]
    /\ \A p \in Shows : Name[p] = Name[s] => ~alive[p]
    /\ alive' = [alive EXCEPT ![s] = TRUE] /\ served' = [served EXCEPT ![s] = TRUE]
    /\ UNCHANGED <<show, teller, link, desk, others, changes>>

Init ==
    /\ plan = [s \in Shows |-> {}] /\ rungs = NoRungs /\ ticket = [n \in Nodes |-> NoTicket]
    /\ shed = [s \in Shows |-> {}] /\ job = [s \in Shows |-> Idle]
    /\ box = [s \in Shows |-> {}] /\ counted = [s \in Shows |-> 0]
    /\ report = [s \in Shows |-> Asleep]
    /\ lines = [s \in Shows |-> <<>>] /\ replies = [s \in Shows |-> <<>>]
    /\ alive = [s \in Shows |-> s \in First] /\ served = alive
    /\ booked = [k \in Numbers |-> NoNode] /\ kind = [k \in Numbers |-> 0]
    /\ loads = [i \in Names |-> FALSE]
    /\ others = 0 /\ changes = 0

Mixer(s) == Ask(s) \/ Apply(s) \/ ShedTick(s) \/ RestoreTick(s)
LinkIn(s) == ReadAnswer(s) \/ ReadShed(s)
Reporter(s) == Look(s) \/ Wake(s) \/ Read(s)
Served(s) == Admit(s) \/ Release(s) \/ Load(s) \/ Gone(s)
Next ==
    \/ \E s \in Shows :
         \/ Replan(s) \/ Mixer(s) \/ TimeOut(s) \/ LinkIn(s) \/ ResumeFails(s)
         \/ Reporter(s) \/ Served(s) \/ Warn(s) \/ Die(s) \/ Start(s)
    \/ Burst

\* Each thread and each task runs when it has something to do; the station's
\* watch comes round every second.
Fairness ==
    /\ \A s \in Shows : WF_vars(Mixer(s)) /\ WF_vars(LinkIn(s)) /\ WF_vars(Served(s)) /\ WF_vars(Warn(s))
    /\ \A s \in Telling : WF_vars(Reporter(s))
Spec == Init /\ [][Next]_vars
LiveSpec == Spec /\ Fairness

-----------------------------------------------------------------------------
(* Properties.                                                               *)

JobOf(s) ==
    [doing : {"nothing", "plan", "restore"}, next : SUBSET NodesOf(s), rungs : [Nodes -> Nat], again : SUBSET NodesOf(s),
     todo : SUBSET NodesOf(s), granted : [Nodes -> Tickets \cup {NoTicket}],
     ask : Asks \cup {NoAsk}, asked : NodesOf(s) \cup {NoNode}]

\* Every node with a ticket is in the plan and not shed; a show that is not
\* running has nothing left of the one before; and what the reporter counts is
\* the station's tickets its show has, one that is half way through a change with
\* both (Reporter::held).
TypeOK ==
    /\ \A s \in Shows :
         /\ plan[s] \subseteq NodesOf(s) /\ shed[s] \subseteq plan[s]
         /\ job[s] \in JobOf(s) /\ box[s] \subseteq Numbers
         /\ \A n \in NodesOf(s) : ticket[n] # NoTicket <=> n \in plan[s] \ shed[s]
         /\ ~alive[s] => plan[s] = {} /\ job[s] = Idle
    /\ ticket \in [Nodes -> Tickets \cup {NoTicket}]
    /\ counted = [s \in Shows |-> Cardinality({t \in Has(s) : t.in = Station})]
    /\ booked \in [Numbers -> Nodes \cup {NoNode}] /\ loads \in [Names -> BOOLEAN]
    /\ rungs \in [Nodes -> Nat] /\ kind \in [Numbers -> Nat]
    /\ others \in Bursts /\ changes \in 0..MaxChanges

\* Between two processes that only send each other lines, the station's book
\* has every ticket a running show got from it, under the same node, however
\* changes, refusals, shedding and deaths fall (remote.rs, serve.rs).
HeldIsBooked ==
    \A s \in Shows : alive[s] =>
        \A n \in NodesOf(s) :
            /\ ticket[n] # NoTicket /\ ticket[n].in = Station => booked[ticket[n].no] = n
            /\ n \in Granted(s) /\ job[s].granted[n].in = Station
                 => booked[job[s].granted[n].no] = n

\* What the station keeps for a show it answers in time is held there, or on
\* its way there, or on its way back: nothing is left in the book by a change
\* refused half way, an encoder that did not start or a node shed.
NothingLeftBooked ==
    \A s \in Shows \ Impatient : alive[s] =>
        \A k \in BookedFor(s) :
            \/ [no |-> k, in |-> Station] \in Has(s)
            \/ \E i \in DOMAIN replies[s] : replies[s][i].is = "answer" /\ replies[s][i].no = k
            \/ \E i \in DOMAIN lines[s] : lines[s][i].is = "release" /\ lines[s][i].no = k

\* One budget: what runs on the station's word, in every show together, fits
\* the machine (Decision 3 in remote.rs).
OneBudget ==
    Taken({n \in Running : ticket[n].in = Station /\ alive[ShowOf[n]]}) <= Room

\* What a shed step stops runs on a ticket the station granted for a lower
\* rung, whatever was released, granted again and asked for since it made its
\* plan: a step never stops what was admitted as a top rung (shed.rs).
TopRungKept ==
    [][\A s \in Shows \ Impatient : \A n \in shed'[s] \ shed[s] :
            ticket[n].in = Station /\ kind[ticket[n].no] > 0]_vars

\* govern/shed.rs: "The programme encode and the top rung of a live output are
\* never dropped".  Of the rungs the running plan has, not those tickets were
\* asked for at.
TopRungOfPlanKept ==
    [][\A s \in Shows \ Impatient : \A n \in shed'[s] \ shed[s] : rungs[n] > 0]_vars

\* A show that goes on holding something is counted as the station's own
\* work in the end: its reporter does not sleep through the first ticket.
HolderIsWeighed ==
    \A s \in Telling :
        []<>(loads[Name[s]] \/ counted[s] = 0 \/ ~alive[s])

\* While the machine stays over its line something is given up until it is
\* not, or until nothing is left that the station granted for a lower rung.
\* What a show runs on its own word is in no plan of the station's, and stays.
OverLineEnds ==
    OverLine ~> (~OverLine \/ \A n \in Running : ticket[n].in = Station => kind[ticket[n].no] = 0)

\* serve.rs: "It stops reporting once it holds nothing; its last word must
\* not stand for work it no longer does."
IdleWeighsNothing ==
    \A s \in Shows :
        counted[s] = 0 /\ report[s].at = "parked" /\ ~report[s].token /\ lines[s] = <<>>
           /\ BookedFor(s) = {} => ~loads[Name[s]]
=============================================================================
