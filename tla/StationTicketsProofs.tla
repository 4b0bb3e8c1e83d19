------------------------ MODULE StationTicketsProofs ------------------------
(***************************************************************************)
(* Theorems of StationTickets for any shows, nodes, shares and bounds.     *)
(*                                                                         *)
(* The invariant says of each show where every number of the station's     *)
(* book is that was granted to it: on its way there in an answer, in its   *)
(* hands, or on its way back in a release, in one place only and booked    *)
(* for the node it is held for.  A step is of one show, and what it does   *)
(* to the others is one lemma (Frame).  The steps of a mixer thread that   *)
(* ends an ask or a change come down to what it drops, takes or skips      *)
(* (Idling, Taking, Skipping).                                             *)
(***************************************************************************)
EXTENDS StationTickets, FiniteSetTheorems, TLAPS

-----------------------------------------------------------------------------
(* What is on the link.                                                      *)

Line == [is : {"admit"}, ask : Asks, node : Nodes, rung : Nat]
          \cup [is : {"release"}, no : Numbers] \cup [is : {"load"}]
Reply == [is : {"answer"}, ask : Asks, no : Numbers \cup {Refused}]
           \cup [is : {"shed"}, steps : SUBSET Numbers]

AsksFor(l, a, n) == l.is = "admit" /\ l.ask = a /\ l.node = n
Asked(q, a, n) == \E i \in 1 .. Len(q) : AsksFor(q[i], a, n)
Returned(q, k) == \E i \in 1 .. Len(q) : q[i] = ReleaseLine(k)
Answered(q, a, k) == \E i \in 1 .. Len(q) : q[i] = AnswerLine(a, k)
Warned(q, k) == \E i \in 1 .. Len(q) : q[i].is = "shed" /\ k \in q[i].steps

\* No ask, answer or number is twice on its way.
LinesOnce(q) ==
    \A i, j \in 1 .. Len(q) : i # j /\ q[i].is = q[j].is =>
        /\ q[i].is = "admit" => q[i].ask # q[j].ask
        /\ q[i].is = "release" => q[i].no # q[j].no
RepliesOnce(q) ==
    \A i, j \in 1 .. Len(q) : i # j /\ q[i].is = "answer" /\ q[j].is = "answer" =>
        q[i].ask # q[j].ask /\ (q[i].no # Refused => q[i].no # q[j].no)

St(k) == [no |-> k, in |-> Station]
Coming(s, k) == \E a \in Asks : Answered(replies[s], a, k)
Going(s, k) == Returned(lines[s], k)
Holds(s, k) == \E n \in NodesOf(s) : ticket[n] = St(k) \/ job[s].granted[n] = St(k)

-----------------------------------------------------------------------------
(* The inductive invariant, of one show.                                     *)

Shaped(s) ==
    /\ plan[s] \subseteq NodesOf(s) /\ shed[s] \subseteq plan[s] /\ box[s] \subseteq Numbers
    /\ job[s] \in JobOf(s)
    /\ lines[s] \in Seq(Line) /\ replies[s] \in Seq(Reply)
    /\ \A a \in Asks, n \in Nodes : Asked(lines[s], a, n) => n \in NodesOf(s)

\* What runs is what is planned and not shed.
Runs(s) == \A n \in NodesOf(s) : ticket[n] # NoTicket <=> n \in plan[s] \ shed[s]

\* What the mixer thread is in the middle of.
Works(s) ==
    /\ job[s].doing = "nothing" => job[s] = Idle
    /\ job[s].doing = "plan" =>
         /\ job[s].again \subseteq plan[s] \cap job[s].next
         /\ Granted(s) \cap job[s].todo = {}
         /\ Granted(s) \cup job[s].todo = (job[s].next \ plan[s]) \cup job[s].again
    /\ job[s].doing = "restore" => job[s].todo \subseteq shed[s] /\ Granted(s) = {}
    /\ IF job[s].ask = NoAsk THEN job[s].asked = NoNode ELSE job[s].asked \in job[s].todo

\* A number is in one place, and for the node it is booked for.
Named(s) ==
    /\ \A n \in NodesOf(s), k \in Numbers :
         /\ ticket[n] = St(k) \/ job[s].granted[n] = St(k) => booked[k] = n
         /\ ticket[n] = St(k) => job[s].granted[n] # St(k)
    /\ \A k \in Numbers :
         /\ Coming(s, k) \/ Going(s, k) => booked[k] \in NodesOf(s)
         /\ ~(Coming(s, k) /\ Going(s, k))
         /\ Holds(s, k) => ~Coming(s, k) /\ ~Going(s, k)

\* An ask is on its way to the station or its answer back, and the answer that
\* is waited for is for the node asked about.
Matched(s) ==
    /\ LinesOnce(lines[s]) /\ RepliesOnce(replies[s])
    /\ \A a \in Asks, n \in Nodes, k \in Numbers \cup {Refused} :
         ~(Asked(lines[s], a, n) /\ Answered(replies[s], a, k))
    /\ \A n \in Nodes : Asked(lines[s], job[s].ask, n) => n = job[s].asked
    /\ \A k \in Numbers : Answered(replies[s], job[s].ask, k) => booked[k] = job[s].asked

\* What there is to give up is booked as a lower rung, or no longer.
Spared(s) ==
    \A k \in Numbers : k \in box[s] \/ Warned(replies[s], k) =>
        booked[k] = NoNode \/ kind[k] > 0

\* A show that is answered in time has no other tickets than the station's, is
\* sent nothing it does not wait for, and has everything that is booked for it.
Waits(s) == s \notin Impatient =>
    /\ \A n \in NodesOf(s) : ticket[n].in # Own /\ job[s].granted[n].in # Own
    /\ alive[s] =>
         /\ \A a \in Asks, n \in Nodes : Asked(lines[s], a, n) => a = job[s].ask
         /\ \A a \in Asks, k \in Numbers \cup {Refused} :
              Answered(replies[s], a, k) => a = job[s].ask
         /\ \A k \in Numbers : booked[k] \in NodesOf(s) => Holds(s, k) \/ Coming(s, k) \/ Going(s, k)

Counts(s) == counted[s] = Cardinality({k \in Numbers : Holds(s, k)})

Lives(s) ==
    /\ alive[s] => served[s]
    /\ ~served[s] => /\ lines[s] = <<>> /\ replies[s] = <<>>
                     /\ \A k \in Numbers : booked[k] \notin NodesOf(s)
    /\ ~alive[s] => plan[s] = {} /\ job[s] = Idle /\ box[s] = {}

Show(s) ==
    /\ Shaped(s) /\ Runs(s) /\ Works(s) /\ Named(s) /\ Matched(s)
    /\ Spared(s) /\ Waits(s) /\ Counts(s) /\ Lives(s)

\* Types of what is not of one show, and the one budget.
Desk ==
    /\ plan \in [Shows -> SUBSET Nodes] /\ shed \in [Shows -> SUBSET Nodes]
    /\ job = [s \in Shows |-> job[s]] /\ box \in [Shows -> SUBSET Numbers]
    /\ counted \in [Shows -> Nat] /\ report = [s \in Shows |-> report[s]]
    /\ lines = [s \in Shows |-> lines[s]] /\ replies = [s \in Shows |-> replies[s]]
    /\ alive \in [Shows -> BOOLEAN] /\ served \in [Shows -> BOOLEAN]
    /\ ticket \in [Nodes -> Tickets \cup {NoTicket}]
    /\ booked \in [Numbers -> Nodes \cup {NoNode}] /\ loads \in [Names -> BOOLEAN]
    /\ rungs \in [Nodes -> Nat] /\ kind \in [Numbers -> Nat]
    /\ others \in Bursts /\ changes \in 0 .. MaxChanges
    /\ Committed <= Room

IInv == Desk /\ \A s \in Shows : Show(s)

-----------------------------------------------------------------------------
(* Lines and replies: what is sent is there, what is read was there.         *)

LEMMA Lines ==
  /\ \A a \in Asks, n \in Nodes, g \in Nat : AdmitLine(a, n, g) \in Line
  /\ \A k \in Numbers : ReleaseLine(k) \in Line
  /\ LoadLine \in Line
  /\ \A a \in Asks, k \in Numbers \cup {Refused} : AnswerLine(a, k) \in Reply
  /\ \A ks \in SUBSET Numbers : ShedLine(ks) \in Reply
  BY DEF AdmitLine, ReleaseLine, LoadLine, AnswerLine, ShedLine, Line, Reply

LEMMA LineKinds ==
  /\ \A l \in Line : l.is \in {"admit", "release", "load"}
  /\ \A l \in Line : l.is = "admit" =>
       l.ask \in Asks /\ l.node \in Nodes /\ l.rung \in Nat
  /\ \A l \in Line : l.is = "release" => l.no \in Numbers /\ l = ReleaseLine(l.no)
  /\ \A l \in Line : l.is = "load" => l = LoadLine
  BY DEF ReleaseLine, LoadLine, Line

LEMMA ReplyKinds ==
  /\ \A l \in Reply : l.is \in {"answer", "shed"}
  /\ \A l \in Reply : l.is = "answer" =>
       l.ask \in Asks /\ l.no \in Numbers \cup {Refused} /\ l = AnswerLine(l.ask, l.no)
  /\ \A l \in Reply : l.is = "shed" => l.steps \in SUBSET Numbers
  BY DEF AnswerLine, Reply

LEMMA Different ==
  /\ \A a, n, g, b, m : AsksFor(AdmitLine(a, n, g), b, m) <=> b = a /\ m = n
  /\ \A a, n, g, k : AdmitLine(a, n, g) # ReleaseLine(k)
  /\ \A l, a, n, k : AsksFor(l, a, n) => l # ReleaseLine(k)
  /\ \A a, n, k : ~AsksFor(ReleaseLine(k), a, n)
  /\ \A a, n : ~AsksFor(LoadLine, a, n)
  /\ \A k : LoadLine # ReleaseLine(k)
  /\ \A k, l : ReleaseLine(k) = ReleaseLine(l) => k = l
  /\ \A a, k, b, l : AnswerLine(a, k) = AnswerLine(b, l) => a = b /\ k = l
  /\ \A a, n, g : AdmitLine(a, n, g).is = "admit" /\ AdmitLine(a, n, g).ask = a
  /\ \A k : ReleaseLine(k).is = "release" /\ ReleaseLine(k).no = k
  /\ LoadLine.is = "load"
  /\ \A a, k : AnswerLine(a, k).is = "answer" /\ AnswerLine(a, k).ask = a /\ AnswerLine(a, k).no = k
  /\ \A ks : ShedLine(ks).is = "shed" /\ ShedLine(ks).steps = ks
  BY DEF AdmitLine, ReleaseLine, LoadLine, AnswerLine, ShedLine, AsksFor

\* A line at the end.
LEMMA LineSent ==
  ASSUME NEW q \in Seq(Line), NEW l \in Line
  PROVE  /\ Append(q, l) \in Seq(Line)
         /\ \A a, n : Asked(Append(q, l), a, n) <=> Asked(q, a, n) \/ AsksFor(l, a, n)
         /\ \A k : Returned(Append(q, l), k) <=> Returned(q, k) \/ l = ReleaseLine(k)
  <1>1. /\ Append(q, l) \in Seq(Line) /\ Len(Append(q, l)) = Len(q) + 1 /\ Len(q) \in Nat
        /\ \A i \in 1 .. Len(q) : Append(q, l)[i] = q[i]
        /\ Append(q, l)[Len(q) + 1] = l
    OBVIOUS
  <1>2. \A x : (\E i \in 1 .. Len(Append(q, l)) : Append(q, l)[i] = x)
                 <=> (\E i \in 1 .. Len(q) : q[i] = x) \/ l = x
    BY <1>1
  <1>3. \A a, n : (\E i \in 1 .. Len(Append(q, l)) : AsksFor(Append(q, l)[i], a, n))
                 <=> (\E i \in 1 .. Len(q) : AsksFor(q[i], a, n)) \/ AsksFor(l, a, n)
    BY <1>1
  <1>. QED  BY <1>1, <1>2, <1>3 DEF Asked, Returned

LEMMA LineSentOnce ==
  ASSUME NEW q \in Seq(Line), NEW l \in Line, LinesOnce(q),
         \A a \in Asks, n, m \in Nodes : AsksFor(l, a, n) => ~Asked(q, a, m),
         \A k \in Numbers : l = ReleaseLine(k) => ~Returned(q, k)
  PROVE  LinesOnce(Append(q, l))
  <1>1. /\ Len(Append(q, l)) = Len(q) + 1 /\ Len(q) \in Nat
        /\ \A i \in 1 .. Len(q) : Append(q, l)[i] = q[i] /\ q[i] \in Line
        /\ Append(q, l)[Len(q) + 1] = l
    OBVIOUS
  <1>2. ASSUME NEW i \in 1 .. Len(q), q[i].is = l.is
        PROVE  /\ l.is = "admit" => q[i].ask # l.ask
               /\ l.is = "release" => q[i].no # l.no
    BY <1>1, <1>2, LineKinds DEF Asked, Returned, AsksFor
  <1>. QED  BY <1>1, <1>2 DEF LinesOnce

\* The line at the head.
LEMMA LineRead ==
  ASSUME NEW q \in Seq(Line), q # <<>>
  PROVE  /\ Head(q) \in Line /\ Tail(q) \in Seq(Line)
         /\ \A a, n : Asked(q, a, n) <=> Asked(Tail(q), a, n) \/ AsksFor(Head(q), a, n)
         /\ \A k : Returned(q, k) <=> Returned(Tail(q), k) \/ Head(q) = ReleaseLine(k)
  <1>1. /\ Head(q) \in Line /\ Tail(q) \in Seq(Line) /\ Len(Tail(q)) = Len(q) - 1
        /\ Len(q) \in Nat \ {0} /\ Head(q) = q[1]
        /\ \A i \in 1 .. Len(q) - 1 : Tail(q)[i] = q[i + 1]
    OBVIOUS
  <1>2. ASSUME NEW x
        PROVE  (\E i \in 1 .. Len(q) : q[i] = x)
                 <=> (\E i \in 1 .. Len(Tail(q)) : Tail(q)[i] = x) \/ Head(q) = x
    <2>1. ASSUME NEW i \in 1 .. Len(q), q[i] = x, Head(q) # x
          PROVE  i - 1 \in 1 .. Len(Tail(q)) /\ Tail(q)[i - 1] = x
      BY <1>1, <2>1
    <2>2. ASSUME NEW i \in 1 .. Len(Tail(q)), Tail(q)[i] = x
          PROVE  i + 1 \in 1 .. Len(q) /\ q[i + 1] = x
      BY <1>1, <2>2
    <2>3. Head(q) = x => 1 \in 1 .. Len(q) /\ q[1] = x
      BY <1>1
    <2>. QED  BY <2>1, <2>2, <2>3
  <1>3. ASSUME NEW a, NEW n
        PROVE  (\E i \in 1 .. Len(q) : AsksFor(q[i], a, n))
                 <=> (\E i \in 1 .. Len(Tail(q)) : AsksFor(Tail(q)[i], a, n)) \/ AsksFor(Head(q), a, n)
    <2>1. ASSUME NEW i \in 1 .. Len(q), q[i] # Head(q)
          PROVE  i - 1 \in 1 .. Len(Tail(q)) /\ Tail(q)[i - 1] = q[i]
      BY <1>1, <2>1
    <2>2. ASSUME NEW i \in 1 .. Len(Tail(q))
          PROVE  i + 1 \in 1 .. Len(q) /\ q[i + 1] = Tail(q)[i]
      BY <1>1, <2>2
    <2>3. 1 \in 1 .. Len(q) /\ q[1] = Head(q)
      BY <1>1
    <2>. QED  BY <2>1, <2>2, <2>3, Zenon
  <1>. QED  BY <1>1, <1>2, <1>3 DEF Asked, Returned

LEMMA LineReadOnce ==
  ASSUME NEW q \in Seq(Line), q # <<>>, LinesOnce(q)
  PROVE  /\ LinesOnce(Tail(q))
         /\ \A a, n, m : AsksFor(Head(q), a, n) => ~Asked(Tail(q), a, m)
         /\ \A k : Head(q) = ReleaseLine(k) => ~Returned(Tail(q), k)
  <1>1. /\ Len(Tail(q)) = Len(q) - 1 /\ Len(q) \in Nat \ {0} /\ Head(q) = q[1]
        /\ \A i \in 1 .. Len(q) - 1 : Tail(q)[i] = q[i + 1]
    OBVIOUS
  <1>2. LinesOnce(Tail(q))
    BY <1>1 DEF LinesOnce
  <1>3. \A a, n, m : AsksFor(Head(q), a, n) => ~Asked(Tail(q), a, m)
    BY <1>1 DEF LinesOnce, Asked, AsksFor
  <1>4. \A k : Head(q) = ReleaseLine(k) => ~Returned(Tail(q), k)
    BY <1>1, Different DEF LinesOnce, Returned
  <1>. QED  BY <1>2, <1>3, <1>4

\* A reply at the end.
LEMMA ReplySent ==
  ASSUME NEW q \in Seq(Reply), NEW l \in Reply
  PROVE  /\ Append(q, l) \in Seq(Reply)
         /\ \A a, k : Answered(Append(q, l), a, k) <=> Answered(q, a, k) \/ l = AnswerLine(a, k)
         /\ \A k : Warned(Append(q, l), k) <=> Warned(q, k) \/ (l.is = "shed" /\ k \in l.steps)
  <1>1. /\ Append(q, l) \in Seq(Reply) /\ Len(Append(q, l)) = Len(q) + 1 /\ Len(q) \in Nat
        /\ \A i \in 1 .. Len(q) : Append(q, l)[i] = q[i]
        /\ Append(q, l)[Len(q) + 1] = l
    OBVIOUS
  <1>2. \A x : (\E i \in 1 .. Len(Append(q, l)) : Append(q, l)[i] = x)
                 <=> (\E i \in 1 .. Len(q) : q[i] = x) \/ l = x
    BY <1>1
  <1>3. \A k : Warned(Append(q, l), k) <=> Warned(q, k) \/ (l.is = "shed" /\ k \in l.steps)
    BY <1>1 DEF Warned
  <1>. QED  BY <1>1, <1>2, <1>3 DEF Answered

LEMMA ReplySentOnce ==
  ASSUME NEW q \in Seq(Reply), NEW l \in Reply, RepliesOnce(q),
         \A a \in Asks, k, m \in Numbers \cup {Refused} :
            l = AnswerLine(a, k) => ~Answered(q, a, m),
         \A a, b \in Asks, k \in Numbers : l = AnswerLine(a, k) => ~Answered(q, b, k)
  PROVE  RepliesOnce(Append(q, l))
  <1>1. /\ Len(Append(q, l)) = Len(q) + 1 /\ Len(q) \in Nat
        /\ \A i \in 1 .. Len(q) : Append(q, l)[i] = q[i] /\ q[i] \in Reply
        /\ Append(q, l)[Len(q) + 1] = l
    OBVIOUS
  <1>2. ASSUME NEW i \in 1 .. Len(q), q[i].is = "answer", l.is = "answer"
        PROVE  /\ q[i].ask # l.ask
               /\ l.no # Refused \/ q[i].no # Refused => q[i].no # l.no
    <2>1. /\ q[i] = AnswerLine(q[i].ask, q[i].no) /\ q[i].ask \in Asks
          /\ q[i].no \in Numbers \cup {Refused}
          /\ l = AnswerLine(l.ask, l.no) /\ l.ask \in Asks /\ l.no \in Numbers \cup {Refused}
      BY <1>1, <1>2, ReplyKinds
    <2>2. Answered(q, q[i].ask, q[i].no)
      BY <2>1 DEF Answered
    <2>. QED  BY <2>1, <2>2
  <1>. QED  BY <1>1, <1>2 DEF RepliesOnce

\* The reply at the head.
LEMMA ReplyRead ==
  ASSUME NEW q \in Seq(Reply), q # <<>>
  PROVE  /\ Head(q) \in Reply /\ Tail(q) \in Seq(Reply)
         /\ \A a, k : Answered(q, a, k) <=> Answered(Tail(q), a, k) \/ Head(q) = AnswerLine(a, k)
         /\ \A k : Warned(q, k) <=>
                Warned(Tail(q), k) \/ (Head(q).is = "shed" /\ k \in Head(q).steps)
  <1>1. /\ Head(q) \in Reply /\ Tail(q) \in Seq(Reply) /\ Len(Tail(q)) = Len(q) - 1
        /\ Len(q) \in Nat \ {0} /\ Head(q) = q[1]
        /\ \A i \in 1 .. Len(q) - 1 : Tail(q)[i] = q[i + 1]
    OBVIOUS
  <1>2. ASSUME NEW i \in 1 .. Len(q), i # 1
        PROVE  i - 1 \in 1 .. Len(Tail(q)) /\ Tail(q)[i - 1] = q[i]
    BY <1>1, <1>2
  <1>3. ASSUME NEW i \in 1 .. Len(Tail(q))
        PROVE  i + 1 \in 1 .. Len(q) /\ q[i + 1] = Tail(q)[i]
    BY <1>1, <1>3
  <1>4. 1 \in 1 .. Len(q) /\ q[1] = Head(q)
    BY <1>1
  <1>5. \A a, k : Answered(q, a, k) <=> Answered(Tail(q), a, k) \/ Head(q) = AnswerLine(a, k)
    BY <1>2, <1>3, <1>4, Zenon DEF Answered
  <1>6. \A k : Warned(q, k) <=>
                Warned(Tail(q), k) \/ (Head(q).is = "shed" /\ k \in Head(q).steps)
    BY <1>2, <1>3, <1>4, Zenon DEF Warned
  <1>. QED  BY <1>1, <1>5, <1>6

LEMMA ReplyReadOnce ==
  ASSUME NEW q \in Seq(Reply), q # <<>>, RepliesOnce(q)
  PROVE  /\ RepliesOnce(Tail(q))
         /\ \A a, k, l : Head(q) = AnswerLine(a, k) => ~Answered(Tail(q), a, l)
         /\ \A a, b, k : k # Refused /\ Head(q) = AnswerLine(a, k) => ~Answered(Tail(q), b, k)
  <1>1. /\ Len(Tail(q)) = Len(q) - 1 /\ Len(q) \in Nat \ {0} /\ Head(q) = q[1]
        /\ \A i \in 1 .. Len(q) - 1 : Tail(q)[i] = q[i + 1]
    OBVIOUS
  <1>2. RepliesOnce(Tail(q))
    BY <1>1 DEF RepliesOnce
  <1>3. \A a, k, l : Head(q) = AnswerLine(a, k) => ~Answered(Tail(q), a, l)
    BY <1>1, Different DEF RepliesOnce, Answered
  <1>4. \A a, b, k : k # Refused /\ Head(q) = AnswerLine(a, k) => ~Answered(Tail(q), b, k)
    BY <1>1, Different DEF RepliesOnce, Answered
  <1>. QED  BY <1>2, <1>3, <1>4

\* Tickets dropped together: a line for each.
LEMMA ReleasesSeq ==
  ASSUME NEW K \in SUBSET Numbers
  PROVE  /\ Releases(K) \in Seq(Line)
         /\ \A i \in 1 .. Len(Releases(K)) : \E k \in K : Releases(K)[i] = ReleaseLine(k)
         /\ \A k \in K : \E i \in 1 .. Len(Releases(K)) : Releases(K)[i] = ReleaseLine(k)
         /\ \A i, j \in 1 .. Len(Releases(K)) : i # j => Releases(K)[i] # Releases(K)[j]
  <1>. DEFINE n == Cardinality(K)
              f == SetToSeq(K)
  <1>1. IsFiniteSet(K)
    BY FS_Subset, StationAssumption
  <1>2. n \in Nat /\ ExistsBijection(1 .. n, K)
    BY <1>1, FS_CardinalityType
  <1>3. PICK g : g \in [1 .. n -> K] /\ IsInjective(g)
    BY <1>2 DEF ExistsBijection, Bijection, Injection, Surjection
  <1>4. f \in [1 .. n -> K] /\ IsInjective(f)
    BY <1>3 DEF SetToSeq
  <1>5. f \in Injection(1 .. n, K)
    BY <1>4 DEF Injection
  <1>6. Cardinality(1 .. n) = n
    BY <1>2, FS_Interval
  <1>7. f \in Surjection(1 .. n, K)
    <2>. HIDE DEF f, n
    <2>1. Cardinality(1 .. n) = Cardinality(K) <=> f \in Surjection(1 .. n, K)
      BY <1>1, <1>5, FS_Injection
    <2>. QED  BY <1>6, <2>1 DEF n
  <1>8. \A k \in K : \E i \in 1 .. n : f[i] = k
    BY <1>7 DEF Surjection
  <1>9. \A i, j \in 1 .. n : f[i] = f[j] => i = j
    BY <1>4 DEF IsInjective
  <1>10. DOMAIN f = 1 .. n
    BY <1>4
  <1>11. Releases(K) = [i \in 1 .. n |-> ReleaseLine(f[i])]
    BY <1>10 DEF Releases
  <1>. HIDE DEF f, n
  <1>12. Releases(K) \in [1 .. n -> Line]
    BY <1>4, <1>11, Lines
  <1>13. Releases(K) \in Seq(Line) /\ Len(Releases(K)) = n
    BY <1>2, <1>12
  <1>14. \A i \in 1 .. n : Releases(K)[i] = ReleaseLine(f[i]) /\ f[i] \in K
    BY <1>4, <1>11
  <1>. QED  BY <1>8, <1>9, <1>13, <1>14, Different

LEMMA ReleasesSent ==
  ASSUME NEW q \in Seq(Line), NEW K \in SUBSET Numbers
  PROVE  /\ q \o Releases(K) \in Seq(Line)
         /\ \A a, n : Asked(q \o Releases(K), a, n) <=> Asked(q, a, n)
         /\ \A k \in Numbers : Returned(q \o Releases(K), k) <=> Returned(q, k) \/ k \in K
         /\ LinesOnce(q) /\ (\A k \in K : ~Returned(q, k)) => LinesOnce(q \o Releases(K))
  <1>. DEFINE r == Releases(K)
              c == q \o r
  <1>1. /\ r \in Seq(Line)
        /\ \A i \in 1 .. Len(r) : \E k \in K : r[i] = ReleaseLine(k)
        /\ \A k \in K : \E i \in 1 .. Len(r) : r[i] = ReleaseLine(k)
        /\ \A i, j \in 1 .. Len(r) : i # j => r[i] # r[j]
    BY ReleasesSeq
  <1>. HIDE DEF r
  <1>2. /\ c \in Seq(Line) /\ Len(q) \in Nat /\ Len(r) \in Nat /\ Len(c) = Len(q) + Len(r)
        /\ \A i \in 1 .. Len(q) : c[i] = q[i] /\ q[i] \in Line
        /\ \A i \in Len(q) + 1 .. Len(q) + Len(r) : c[i] = r[i - Len(q)]
    BY <1>1
  <1>3. \A i \in 1 .. Len(c) :
          \/ i \in 1 .. Len(q)
          \/ i - Len(q) \in 1 .. Len(r) /\ c[i] = r[i - Len(q)]
    BY <1>2
  <1>4. \A i \in 1 .. Len(r) : i + Len(q) \in 1 .. Len(c) /\ c[i + Len(q)] = r[i]
    BY <1>2
  <1>. HIDE DEF c
  <1>5. \A i \in 1 .. Len(q) : i \in 1 .. Len(c)
    BY <1>2
  <1>10. ASSUME NEW i \in 1 .. Len(r) PROVE r[i].is = "release"
    BY <1>1, Different
  <1>6. ASSUME NEW a, NEW n PROVE Asked(c, a, n) <=> Asked(q, a, n)
    <2>1. ASSUME NEW i \in 1 .. Len(c), AsksFor(c[i], a, n) PROVE Asked(q, a, n)
      <3>2. c[i].is # "release"
        BY <2>1 DEF AsksFor
      <3>3. i \in 1 .. Len(q)
        BY <1>3, <1>10, <3>2
      <3>. QED  BY <1>2, <2>1, <3>3 DEF Asked
    <2>2. Asked(q, a, n) => Asked(c, a, n)
      BY <1>2, <1>5 DEF Asked
    <2>. QED  BY <2>1, <2>2 DEF Asked
  <1>7. ASSUME NEW k \in Numbers PROVE Returned(c, k) <=> Returned(q, k) \/ k \in K
    <2>1. Returned(c, k) => Returned(q, k) \/ k \in K
      <3>1. SUFFICES ASSUME NEW i \in 1 .. Len(c), c[i] = ReleaseLine(k) PROVE Returned(q, k) \/ k \in K
        BY DEF Returned
      <3>2. CASE i \in 1 .. Len(q)
        BY <1>2, <3>1, <3>2 DEF Returned
      <3>3. CASE i - Len(q) \in 1 .. Len(r) /\ c[i] = r[i - Len(q)]
        <4>1. PICK l \in K : r[i - Len(q)] = ReleaseLine(l)
          BY <1>1, <3>3
        <4>2. ReleaseLine(k) = ReleaseLine(l)
          BY <3>1, <3>3, <4>1
        <4>3. k = l
          BY <4>2, Different
        <4>. QED  BY <4>3
      <3>. QED  BY <1>3, <3>2, <3>3
    <2>2. Returned(q, k) => Returned(c, k)
      BY <1>2, <1>5 DEF Returned
    <2>3. k \in K => Returned(c, k)
      BY <1>1, <1>4 DEF Returned
    <2>. QED  BY <2>1, <2>2, <2>3
  <1>8. ASSUME LinesOnce(q), \A k \in K : ~Returned(q, k)
        PROVE  LinesOnce(c)
    <2>1. ASSUME NEW i \in 1 .. Len(q), NEW j \in 1 .. Len(r)
          PROVE  /\ r[j].is = "release"
                 /\ q[i].is = "release" => q[i].no # r[j].no
      <3>1. PICK k \in K : r[j] = ReleaseLine(k)
        BY <1>1
      <3>2. q[i].is = "release" => q[i] = ReleaseLine(q[i].no) /\ q[i] # ReleaseLine(k)
        BY <1>2, <1>8, LineKinds DEF Returned
      <3>. QED  BY <3>1, <3>2, Different
    <2>2. ASSUME NEW i \in 1 .. Len(r), NEW j \in 1 .. Len(r), i # j
          PROVE  r[i].is = "release" /\ r[j].is = "release" /\ r[i].no # r[j].no
      BY <1>1, <2>2, Different
    <2>. QED
      <3>. SUFFICES ASSUME NEW i \in 1 .. Len(c), NEW j \in 1 .. Len(c), i # j, c[i].is = c[j].is
                    PROVE  /\ c[i].is = "admit" => c[i].ask # c[j].ask
                           /\ c[i].is = "release" => c[i].no # c[j].no
        BY DEF LinesOnce
      <3>1. CASE i \in 1 .. Len(q) /\ j \in 1 .. Len(q)
        BY <1>2, <1>8, <3>1 DEF LinesOnce
      <3>2. CASE i \in 1 .. Len(q) /\ j - Len(q) \in 1 .. Len(r) /\ c[j] = r[j - Len(q)]
        BY <1>2, <2>1, <3>2
      <3>3. CASE i - Len(q) \in 1 .. Len(r) /\ c[i] = r[i - Len(q)] /\ j \in 1 .. Len(q)
        BY <1>2, <2>1, <3>3
      <3>4. CASE /\ i - Len(q) \in 1 .. Len(r) /\ c[i] = r[i - Len(q)]
                 /\ j - Len(q) \in 1 .. Len(r) /\ c[j] = r[j - Len(q)]
        <4>1. i - Len(q) # j - Len(q)
          BY <1>2
        <4>2. r[i - Len(q)].is = "release" /\ r[i - Len(q)].no # r[j - Len(q)].no
          BY <2>2, <3>4, <4>1
        <4>. QED  BY <3>4, <4>2
      <3>. QED  BY <1>3, <3>1, <3>2, <3>3, <3>4
  <1>9. c \in Seq(Line)
    BY <1>2
  <1>. QED  BY <1>6, <1>7, <1>8, <1>9 DEF c, r

-----------------------------------------------------------------------------
(* Tickets and numbers.                                                      *)

LEMMA TicketFacts ==
  /\ \A k : St(k).no = k /\ St(k).in = Station /\ St(k) # NoTicket
  /\ \A k, l : St(k) = St(l) => k = l
  /\ \A k \in Numbers : St(k) \in Tickets
  /\ \A t \in Tickets : /\ t.no \in Numbers /\ t.in \in {Station, Own} /\ t # NoTicket
                        /\ t.in = Station => t = St(t.no)
  /\ NoTicket.in # Station /\ NoTicket.in # Own /\ Station # Own
  /\ Refused \notin Numbers
  BY StationAssumption DEF St, Station, Own, NoTicket, Tickets, Refused

LEMMA IdleFacts ==
  /\ Idle.doing = "nothing" /\ Idle.todo = {} /\ Idle.again = {} /\ Idle.next = {}
  /\ Idle.ask = NoAsk /\ Idle.asked = NoNode
  /\ \A n \in Nodes : Idle.granted[n] = NoTicket
  /\ \A s \in Shows : Idle \in JobOf(s)
  BY DEF Idle, NoRungs, JobOf

LEMMA Finite ==
  /\ \A K \in SUBSET Numbers : IsFiniteSet(K) /\ Cardinality(K) \in Nat
  /\ \A N \in SUBSET Nodes : IsFiniteSet(N) /\ Cardinality(N) \in Nat
  BY FS_Subset, FS_CardinalityType, StationAssumption

LEMMA MaxZero == ASSUME NEW n \in Nat PROVE Max({0, n}) = n
  <1>1. n \in {0, n} /\ \A y \in {0, n} : n >= y
    OBVIOUS
  <1>2. \A x \in {0, n} : (\A y \in {0, n} : x >= y) => x = n
    OBVIOUS
  <1>. QED  BY <1>1, <1>2 DEF Max

\* A number that nothing mentions is in nobody's hands and on no link.
LEMMA Unmentioned ==
  ASSUME NEW s \in Shows, NEW k \in Numbers, ~Mentioned(k), Shaped(s)
  PROVE  /\ booked[k] = NoNode /\ k \notin box[s] /\ ~Holds(s, k)
         /\ ~Returned(lines[s], k) /\ ~Coming(s, k) /\ \A a : ~Answered(replies[s], a, k)
         /\ ~Warned(replies[s], k)
  <1>1. /\ lines[s] \in Seq(Line) /\ replies[s] \in Seq(Reply)
        /\ DOMAIN lines[s] = 1 .. Len(lines[s]) /\ DOMAIN replies[s] = 1 .. Len(replies[s])
    BY DEF Shaped
  <1>2. ~Returned(lines[s], k)
    BY <1>1, Different DEF Mentioned, Returned
  <1>3. \A a : ~Answered(replies[s], a, k)
    BY <1>1, Different DEF Mentioned, Answered
  <1>4. ~Warned(replies[s], k)
    BY <1>1 DEF Mentioned, Warned
  <1>5. ~Holds(s, k)
    BY TicketFacts DEF Mentioned, Has, Granted, Holds, St
  <1>. QED  BY <1>2, <1>3, <1>4, <1>5 DEF Mentioned, Coming

LEMMA NewAsk ==
  ASSUME NEW s \in Shows, NEW a \in Asks, FreshAsk(s, a), Shaped(s)
  PROVE  /\ \A n : ~Asked(lines[s], a, n)
         /\ \A k : ~Answered(replies[s], a, k)
  <1>1. DOMAIN lines[s] = 1 .. Len(lines[s]) /\ DOMAIN replies[s] = 1 .. Len(replies[s])
    BY DEF Shaped
  <1>. QED  BY <1>1, Different DEF FreshAsk, Asked, Answered, AsksFor

\* The station's tickets a show has are the numbers it holds.
LEMMA HasHolds ==
  ASSUME NEW s \in Shows, Desk, Shaped(s), NEW k \in Numbers
  PROVE  St(k) \in Has(s) <=> Holds(s, k)
  BY TicketFacts DEF Has, Granted, Holds, NodesOf

-----------------------------------------------------------------------------
(* Sums of shares.                                                           *)

\* The units of the nodes that the keys K stand for.
Units(b, K) == UNION {{k} \X (1 .. Cost[b[k]]) : k \in K}

LEMMA UnitsFinite ==
  ASSUME NEW b, NEW K, IsFiniteSet(K), \A k \in K : b[k] \in Nodes
  PROVE  IsFiniteSet(Units(b, K)) /\ Cardinality(Units(b, K)) \in Nat
  <1>. DEFINE f == [k \in K |-> {k} \X (1 .. Cost[b[k]])]
              T == {{k} \X (1 .. Cost[b[k]]) : k \in K}
  <1>1. f \in Surjection(K, T)
    BY DEF Surjection
  <1>2. IsFiniteSet(T)
    <2>. HIDE DEF f, T
    <2>. QED  BY <1>1, FS_Surjection
  <1>3. ASSUME NEW k \in K PROVE IsFiniteSet({k} \X (1 .. Cost[b[k]]))
    <2>1. Cost[b[k]] \in Nat
      BY StationAssumption
    <2>2. IsFiniteSet(1 .. Cost[b[k]])
      BY <2>1, FS_Interval
    <2>3. IsFiniteSet({k})
      BY FS_Singleton
    <2>. QED  BY <2>2, <2>3, FS_Product
  <1>4. \A t \in T : IsFiniteSet(t)
    BY <1>3
  <1>5. IsFiniteSet(UNION T)
    <2>. HIDE DEF T
    <2>. QED  BY <1>2, <1>4, FS_UNION
  <1>. QED  BY <1>5, FS_CardinalityType DEF Units

\* Less is promised when less is booked.
LEMMA UnitsShrink ==
  ASSUME NEW b, NEW K, IsFiniteSet(K), \A k \in K : b[k] \in Nodes,
         NEW c, NEW L \in SUBSET K, \A k \in L : c[k] = b[k]
  PROVE  Cardinality(Units(c, L)) <= Cardinality(Units(b, K))
  <1>1. Units(c, L) \subseteq Units(b, K)
    BY DEF Units
  <1>. QED  BY <1>1, UnitsFinite, FS_Subset

\* A number booked for a node promises its share once more.
LEMMA UnitsGrow ==
  ASSUME NEW b, NEW K, IsFiniteSet(K), \A k \in K : b[k] \in Nodes,
         NEW c, NEW x, c[x] \in Nodes, \A k \in K : k # x => c[k] = b[k]
  PROVE  Cardinality(Units(c, K \cup {x})) <= Cardinality(Units(b, K)) + Cost[c[x]]
  <1>. DEFINE m == Cost[c[x]]
              P == {x} \X (1 .. m)
              f == [i \in 1 .. m |-> <<x, i>>]
  <1>1. m \in Nat
    BY StationAssumption
  <1>2. f \in Surjection(1 .. m, P)
    BY DEF Surjection
  <1>. HIDE DEF f, m
  <1>3. IsFiniteSet(1 .. m) /\ Cardinality(1 .. m) = m
    BY <1>1, FS_Interval
  <1>4. IsFiniteSet(P) /\ Cardinality(P) <= m
    <2>. HIDE DEF P
    <2>. QED  BY <1>2, <1>3, FS_Surjection
  <1>5. Cardinality(P) \in Nat
    BY <1>4, FS_CardinalityType
  <1>6. Units(c, K \cup {x}) \subseteq Units(b, K) \cup P
    BY DEF Units, m
  <1>7. IsFiniteSet(Units(b, K)) /\ Cardinality(Units(b, K)) \in Nat
    BY UnitsFinite
  <1>. HIDE DEF P
  <1>8. /\ IsFiniteSet(Units(b, K) \cup P)
        /\ Cardinality(Units(b, K) \cup P)
             = Cardinality(Units(b, K)) + Cardinality(P) - Cardinality(Units(b, K) \cap P)
    BY <1>4, <1>7, FS_Union
  <1>9. Cardinality(Units(b, K) \cap P) \in Nat
    BY <1>7, FS_Intersection, FS_CardinalityType
  <1>10. IsFiniteSet(K \cup {x}) /\ \A k \in K \cup {x} : c[k] \in Nodes
    BY FS_AddElement
  <1>11. Cardinality(Units(c, K \cup {x})) \in Nat
    BY <1>10, UnitsFinite
  <1>12. Cardinality(Units(c, K \cup {x})) <= Cardinality(Units(b, K) \cup P)
    BY <1>6, <1>8, FS_Subset
  <1>. QED  BY <1>1, <1>4, <1>5, <1>7, <1>8, <1>9, <1>11, <1>12 DEF m

\* What is run under different numbers takes no more than what is promised
\* under them.
LEMMA UnitsCarried ==
  ASSUME NEW b, NEW K, IsFiniteSet(K), \A k \in K : b[k] \in Nodes,
         NEW N \in SUBSET Nodes, NEW h \in [N -> K], \A n \in N : b[h[n]] = n
  PROVE  Taken(N) <= Cardinality(Units(b, K))
  <1>. DEFINE V == UNION {{n} \X (1 .. Cost[n]) : n \in N}
              f == [v \in V |-> <<h[v[1]], v[2]>>]
  <1>1. ASSUME NEW v \in V
        PROVE  /\ v[1] \in N /\ v[2] \in 1 .. Cost[v[1]] /\ v = <<v[1], v[2]>>
               /\ <<h[v[1]], v[2]>> \in Units(b, K)
    BY DEF Units
  <1>2. f \in [V -> Units(b, K)]
    BY <1>1
  <1>3. ASSUME NEW v \in V, NEW w \in V, f[v] = f[w]
        PROVE  v = w
    <2>1. h[v[1]] = h[w[1]] /\ v[2] = w[2]
      BY <1>3
    <2>2. v[1] = w[1]
      BY <1>1, <2>1
    <2>. QED  BY <1>1, <2>1, <2>2
  <1>4. f \in Injection(V, Units(b, K))
    BY <1>2, <1>3 DEF Injection, IsInjective
  <1>5. IsFiniteSet(Units(b, K))
    BY UnitsFinite
  <1>. HIDE DEF V, f
  <1>6. Cardinality(V) <= Cardinality(Units(b, K))
    BY <1>4, <1>5, FS_Injection
  <1>. QED  BY <1>6 DEF Taken, V

LEMMA CommittedUnits ==
  /\ Committed = Cardinality(Units(booked, BookedNumbers))
  /\ Committed' = Cardinality(Units(booked', BookedNumbers'))
  BY DEF Committed, Promised, Units

LEMMA BookedUnits ==
  ASSUME Desk
  PROVE  /\ IsFiniteSet(BookedNumbers) /\ \A k \in BookedNumbers : booked[k] \in Nodes
         /\ Committed \in Nat
  BY Finite, UnitsFinite, CommittedUnits DEF Desk, BookedNumbers

\* Numbers that are given up promise nothing any more.
LEMMA LessCommitted ==
  ASSUME Desk, booked' \in [Numbers -> Nodes \cup {NoNode}],
         \A k \in Numbers : booked'[k] = booked[k] \/ booked'[k] = NoNode
  PROVE  Committed' <= Room
  <1>1. BookedNumbers' \in SUBSET BookedNumbers /\ \A k \in BookedNumbers' : booked'[k] = booked[k]
    BY DEF BookedNumbers
  <1>2. Cardinality(Units(booked', BookedNumbers')) <= Cardinality(Units(booked, BookedNumbers))
    BY <1>1, BookedUnits, UnitsShrink
  <1>3. IsFiniteSet(BookedNumbers') /\ \A k \in BookedNumbers' : booked'[k] \in Nodes
    BY Finite DEF BookedNumbers
  <1>4. Cardinality(Units(booked', BookedNumbers')) \in Nat
    BY <1>3, UnitsFinite
  <1>5. Committed <= Room /\ Room \in Nat
    BY StationAssumption DEF Desk
  <1>. QED  BY <1>2, <1>4, <1>5, CommittedUnits, BookedUnits

\* A number booked for a node that fits keeps the promises inside the room.
LEMMA FitsCommitted ==
  ASSUME Desk, NEW x \in Numbers, NEW n \in Nodes, Fits(n), booked' = [booked EXCEPT ![x] = n]
  PROVE  Committed' <= Room
  <1>1. BookedNumbers' = BookedNumbers \cup {x} /\ booked'[x] = n
        /\ \A k \in BookedNumbers : k # x => booked'[k] = booked[k]
    BY StationAssumption DEF BookedNumbers, Desk
  <1>2. Cardinality(Units(booked', BookedNumbers'))
             <= Cardinality(Units(booked, BookedNumbers)) + Cost[n]
    <2>1. booked'[x] \in Nodes
      BY <1>1
    <2>2. Cardinality(Units(booked', BookedNumbers \cup {x}))
             <= Cardinality(Units(booked, BookedNumbers)) + Cost[booked'[x]]
      BY <1>1, <2>1, BookedUnits, UnitsGrow
    <2>. QED  BY <1>1, <2>2
  <1>3. Cost[n] \in Nat /\ others \in Nat /\ Room \in Nat
    BY StationAssumption DEF Desk
  <1>4. IsFiniteSet(BookedNumbers') /\ \A k \in BookedNumbers' : booked'[k] \in Nodes
    BY <1>1, BookedUnits, Finite DEF BookedNumbers
  <1>5. Cardinality(Units(booked', BookedNumbers')) \in Nat
    BY <1>4, UnitsFinite
  <1>6. others + Committed + Cost[n] <= Room
    BY DEF Fits
  <1>. QED  BY <1>2, <1>3, <1>5, <1>6, CommittedUnits, BookedUnits

-----------------------------------------------------------------------------
(* What a step of one show is to the others.                                 *)

\* The same asks and releases are on their way.
SameLines(t) ==
    \/ lines'[t] = lines[t]
    \/ /\ served[t] /\ lines'[t] \in Seq(Line) /\ LinesOnce(lines'[t])
       /\ \A a, n : Asked(lines'[t], a, n) <=> Asked(lines[t], a, n)
       /\ \A k : Returned(lines'[t], k) <=> Returned(lines[t], k)

\* Nothing of show t changes; what is booked anew was mentioned nowhere.
BookAside(t) ==
    \A k \in Numbers :
        \/ booked'[k] = booked[k] /\ kind'[k] = kind[k]
        \/ /\ booked[k] \notin NodesOf(t) /\ booked'[k] \notin NodesOf(t)
           /\ booked'[k] = NoNode \/ ~Mentioned(k)
Aside(t) ==
    /\ plan'[t] = plan[t] /\ shed'[t] = shed[t] /\ job'[t] = job[t] /\ box'[t] = box[t]
    /\ counted'[t] = counted[t] /\ alive'[t] = alive[t] /\ served'[t] = served[t]
    /\ \A n \in NodesOf(t) : ticket'[n] = ticket[n]
    /\ replies'[t] = replies[t] /\ SameLines(t)
    /\ BookAside(t)

LEMMA Frame ==
  ASSUME NEW t \in Shows, Show(t), Aside(t)
  PROVE  Show(t)'
  <1>. USE DEF Show
  <1>1. /\ lines'[t] \in Seq(Line) /\ LinesOnce(lines'[t])
        /\ \A a, n : Asked(lines'[t], a, n) <=> Asked(lines[t], a, n)
        /\ \A k : Returned(lines'[t], k) <=> Returned(lines[t], k)
    BY DEF Aside, SameLines, Shaped, Matched
  <1>2. /\ plan'[t] = plan[t] /\ shed'[t] = shed[t] /\ job'[t] = job[t] /\ box'[t] = box[t]
        /\ counted'[t] = counted[t] /\ alive'[t] = alive[t] /\ served'[t] = served[t]
        /\ replies'[t] = replies[t] /\ \A n \in NodesOf(t) : ticket'[n] = ticket[n]
    BY DEF Aside
  <1>3. /\ Granted(t)' = Granted(t)
        /\ \A k : Holds(t, k)' <=> Holds(t, k)
        /\ \A k : Coming(t, k)' <=> Coming(t, k)
        /\ \A k : Going(t, k)' <=> Going(t, k)
    BY <1>1, <1>2 DEF Granted, Holds, Coming, Going
  <1>4. \A k \in Numbers :
          /\ booked[k] \in NodesOf(t) => booked'[k] = booked[k]
          /\ booked'[k] \in NodesOf(t) => booked'[k] = booked[k]
    BY DEF Aside, BookAside
  <1>5. Shaped(t)'
    BY <1>1, <1>2 DEF Shaped, JobOf, NodesOf
  <1>6. Runs(t)'
    BY <1>2 DEF Runs, NodesOf
  <1>7. Works(t)'
    BY <1>2, <1>3 DEF Works
  <1>8. Named(t)'
    <2>1. ASSUME NEW n \in NodesOf(t), NEW k \in Numbers
          PROVE  /\ ticket'[n] = St(k) \/ job'[t].granted[n] = St(k) => booked'[k] = n
                 /\ ticket'[n] = St(k) => job'[t].granted[n] # St(k)
      BY <1>2, <1>4 DEF Named
    <2>2. ASSUME NEW k \in Numbers
          PROVE  /\ Coming(t, k)' \/ Going(t, k)' => booked'[k] \in NodesOf(t)
                 /\ ~(Coming(t, k)' /\ Going(t, k)')
                 /\ Holds(t, k)' => ~Coming(t, k)' /\ ~Going(t, k)'
      BY <1>3, <1>4 DEF Named
    <2>. QED  BY <2>1, <2>2 DEF Named, NodesOf, St
  <1>9. Matched(t)'
    <2>1. ASSUME NEW k \in Numbers, Answered(replies[t], job[t].ask, k)
          PROVE  booked'[k] = job[t].asked
      <3>1. job[t].ask \in Asks
        BY <2>1, Different, ReplyKinds DEF Shaped, Answered
      <3>2. booked[k] \in NodesOf(t)
        BY <2>1, <3>1 DEF Named, Coming
      <3>. QED  BY <2>1, <3>2, <1>4 DEF Matched
    <2>. QED  BY <1>1, <1>2, <2>1 DEF Matched
  <1>10. Spared(t)'
    <2>1. ASSUME NEW k \in Numbers, k \in box[t] \/ Warned(replies[t], k)
          PROVE  booked'[k] = NoNode \/ kind'[k] > 0
      <3>1. booked[k] = NoNode \/ kind[k] > 0
        BY <2>1 DEF Spared
      <3>2. Mentioned(k)
        BY <2>1, Unmentioned
      <3>. QED  BY <3>1, <3>2 DEF Aside, BookAside
    <2>. QED  BY <1>2, <2>1 DEF Spared
  <1>11. Waits(t)'
    <2>. SUFFICES ASSUME t \notin Impatient PROVE Waits(t)'
      BY DEF Waits
    <2>1. \A n \in NodesOf(t) : ticket'[n].in # Own /\ job'[t].granted[n].in # Own
      BY <1>2 DEF Waits
    <2>2. alive'[t] =>
           /\ \A a \in Asks, n \in Nodes : Asked(lines'[t], a, n) => a = job'[t].ask
           /\ \A a \in Asks, k \in Numbers \cup {Refused} :
                Answered(replies'[t], a, k) => a = job'[t].ask
      BY <1>1, <1>2 DEF Waits
    <2>3. ASSUME alive'[t], NEW k \in Numbers, booked'[k] \in NodesOf(t)
          PROVE  Holds(t, k)' \/ Coming(t, k)' \/ Going(t, k)'
      BY <1>2, <1>3, <1>4, <2>3 DEF Waits
    <2>. QED  BY <2>1, <2>2, <2>3 DEF Waits, NodesOf
  <1>12. Counts(t)'
    BY <1>2, <1>3 DEF Counts
  <1>13. Lives(t)'
    <2>1. ~served[t] => lines'[t] = <<>>
      BY DEF Aside, SameLines, Lives
    <2>. QED  BY <1>2, <1>4, <2>1 DEF Lives, NodesOf
  <1>. QED  BY <1>5, <1>6, <1>7, <1>8, <1>9, <1>10, <1>11, <1>12, <1>13

-----------------------------------------------------------------------------
(* The reporter and the world: nothing that the invariant sees.              *)

LEMMA NoneBooked ==
  ASSUME Desk, UNCHANGED booked
  PROVE  Committed' <= Room /\ booked' \in [Numbers -> Nodes \cup {NoNode}]
  BY LessCommitted DEF Desk

LEMMA Unread ==
  ASSUME IInv, UNCHANGED <<show, counted, link, life, desk>>,
         report' = [s \in Shows |-> report'[s]], others' \in Bursts, changes' \in 0 .. MaxChanges
  PROVE  IInv'
  <1>1. Desk'
    BY NoneBooked DEF IInv, Desk, show, link, life, desk
  <1>2. ASSUME NEW t \in Shows PROVE Aside(t)
    BY DEF Aside, SameLines, BookAside, show, link, life, desk
  <1>. QED  BY <1>1, <1>2, Frame DEF IInv

LEMMA Looks == ASSUME IInv, NEW s \in Shows, Look(s) PROVE IInv'
  BY Unread DEF Look, IInv, Desk
LEMMA Wakes == ASSUME IInv, NEW s \in Shows, Wake(s) PROVE IInv'
  BY Unread DEF Wake, IInv, Desk
LEMMA Bursting == ASSUME IInv, Burst PROVE IInv'
  <1>1. others' \in Bursts /\ changes' \in 0 .. MaxChanges
    BY StationAssumption DEF Burst, IInv, Desk
  <1>2. report' = report /\ report = [s \in Shows |-> report[s]]
    BY DEF Burst, teller, IInv, Desk
  <1>. QED  BY <1>1, <1>2, Unread DEF Burst, teller

LEMMA Reads == ASSUME IInv, NEW s \in Shows, Read(s) PROVE IInv'
  <1>1. Desk'
    BY NoneBooked DEF Read, IInv, Desk, show, life, desk
  <1>2. ASSUME NEW t \in Shows PROVE SameLines(t)
    <2>1. lines'[t] = lines[t] \/ (t = s /\ lines'[s] = Append(lines[s], LoadLine))
      BY DEF Read, IInv, Desk
    <2>. SUFFICES ASSUME t = s, lines'[s] = Append(lines[s], LoadLine) PROVE SameLines(s)
      BY <2>1 DEF SameLines
    <2>2. lines[s] \in Seq(Line) /\ LinesOnce(lines[s]) /\ served[s]
      BY DEF IInv, Show, Shaped, Matched, Lives, Read
    <2>3. /\ \A a, n : ~AsksFor(LoadLine, a, n)
          /\ \A k : LoadLine # ReleaseLine(k)
      BY Different
    <2>4. LinesOnce(Append(lines[s], LoadLine))
      BY <2>2, <2>3, Lines, LineSentOnce
    <2>. QED  BY <2>2, <2>3, <2>4, Lines, LineSent DEF SameLines
  <1>3. ASSUME NEW t \in Shows PROVE Aside(t)
    BY <1>2 DEF Aside, BookAside, Read, show, life, desk
  <1>. QED  BY <1>1, <1>3, Frame DEF IInv

LEMMA Loads == ASSUME IInv, NEW s \in Shows, Load(s) PROVE IInv'
  <1>1. Desk'
    BY NoneBooked DEF Load, IInv, Desk, show, life, teller, Names
  <1>2. ASSUME NEW t \in Shows PROVE SameLines(t)
    <2>1. lines'[t] = lines[t] \/ (t = s /\ lines'[s] = Tail(lines[s]))
      BY DEF Load, IInv, Desk
    <2>. SUFFICES ASSUME t = s, lines'[s] = Tail(lines[s]) PROVE SameLines(s)
      BY <2>1 DEF SameLines
    <2>2. /\ lines[s] \in Seq(Line) /\ LinesOnce(lines[s]) /\ served[s]
          /\ lines[s] # <<>> /\ Head(lines[s]).is = "load"
      BY DEF IInv, Show, Shaped, Matched, Load
    <2>3. /\ \A a, n : ~AsksFor(Head(lines[s]), a, n)
          /\ \A k : Head(lines[s]) # ReleaseLine(k)
      BY <2>2, Different DEF AsksFor
    <2>. QED  BY <2>2, <2>3, LineRead, LineReadOnce DEF SameLines
  <1>3. ASSUME NEW t \in Shows PROVE Aside(t)
    BY <1>2 DEF Aside, BookAside, Load, show, life, teller
  <1>. QED  BY <1>1, <1>3, Frame DEF IInv

-----------------------------------------------------------------------------
(* A show takes up a change, brings back, asks.                              *)

\* Nobody answers an ask that was not made.
LEMMA NothingAsked ==
  ASSUME NEW s \in Shows, Shaped(s)
  PROVE  /\ \A n \in Nodes : ~Asked(lines[s], NoAsk, n)
         /\ \A k : ~Answered(replies[s], NoAsk, k)
  <1>1. /\ \A i \in 1 .. Len(lines[s]) : lines[s][i] \in Line
        /\ \A i \in 1 .. Len(replies[s]) : replies[s][i] \in Reply
    BY DEF Shaped
  <1>2. ASSUME NEW l \in Line, NEW n PROVE ~AsksFor(l, NoAsk, n)
    BY LineKinds, StationAssumption DEF AsksFor
  <1>3. \A k : AnswerLine(NoAsk, k) \notin Reply
    <2>. SUFFICES ASSUME NEW k, AnswerLine(NoAsk, k) \in Reply PROVE FALSE
      OBVIOUS
    <2>1. AnswerLine(NoAsk, k).ask \in Asks
      BY ReplyKinds, Different
    <2>. QED  BY <2>1, Different, StationAssumption
  <1>. QED  BY <1>1, <1>2, <1>3 DEF Asked, Answered

LEMMA Begun ==
  ASSUME IInv, NEW s \in Shows, alive[s], job[s] = Idle, NEW j \in JobOf(s),
         job' = [job EXCEPT ![s] = j], j.granted = Idle.granted, j.ask = NoAsk,
         UNCHANGED <<plan, rungs, ticket, shed, box, teller, link, life, desk, others>>,
         changes' \in 0 .. MaxChanges, Works(s)'
  PROVE  IInv'
  <1>1. Desk'
    BY NoneBooked DEF IInv, Desk, teller, link, life, desk
  <1>2. ASSUME NEW t \in Shows \ {s} PROVE Aside(t)
    BY DEF Aside, SameLines, BookAside, IInv, Desk, teller, link, life, desk
  <1>3. job'[s] = j /\ \A t \in Shows : Show(t)
    BY DEF IInv, Desk
  <1>4. UNCHANGED <<plan, rungs, ticket, shed, box, counted, lines, replies, alive, served, booked, kind>>
    BY DEF teller, link, life, desk
  <1>5. \A n \in Nodes : job'[s].granted[n] = job[s].granted[n]
    BY <1>3
  <1>6. \A k : Holds(s, k)' <=> Holds(s, k)
    BY <1>4, <1>5 DEF Holds, NodesOf
  <1>7. /\ \A k : Coming(s, k)' <=> Coming(s, k)
        /\ \A k : Going(s, k)' <=> Going(s, k)
    BY <1>4 DEF Coming, Going
  <1>8. job[s].ask = NoAsk
    BY IdleFacts
  <1>9. Shaped(s)'
    BY <1>3, <1>4 DEF Show, Shaped, JobOf, NodesOf
  <1>10. Runs(s)'
    BY <1>3, <1>4 DEF Show, Runs, NodesOf
  <1>11. Named(s)'
    BY <1>3, <1>4, <1>5, <1>6, <1>7 DEF Show, Named, NodesOf, St
  <1>12. Matched(s)'
    BY <1>3, <1>4, NothingAsked DEF Show, Matched
  <1>13. Spared(s)'
    BY <1>3, <1>4 DEF Show, Spared
  <1>14. Waits(s)'
    <2>. SUFFICES ASSUME s \notin Impatient PROVE Waits(s)'
      BY DEF Waits
    <2>1. \A n \in NodesOf(s) : ticket'[n].in # Own /\ job'[s].granted[n].in # Own
      BY <1>3, <1>4, <1>5 DEF Show, Waits, NodesOf
    <2>2. /\ \A a \in Asks, n \in Nodes : Asked(lines'[s], a, n) => a = job'[s].ask
          /\ \A a \in Asks, k \in Numbers \cup {Refused} :
               Answered(replies'[s], a, k) => a = job'[s].ask
      BY <1>3, <1>4, <1>8 DEF Show, Waits
    <2>3. \A k \in Numbers : booked'[k] \in NodesOf(s) =>
            Holds(s, k)' \/ Coming(s, k)' \/ Going(s, k)'
      BY <1>3, <1>4, <1>6, <1>7 DEF Show, Waits
    <2>. QED  BY <2>1, <2>2, <2>3 DEF Waits, NodesOf
  <1>15. Counts(s)'
    BY <1>3, <1>4, <1>6 DEF Show, Counts
  <1>16. Lives(s)'
    BY <1>3, <1>4 DEF Show, Lives, NodesOf
  <1>17. Show(s)'
    BY <1>9, <1>10, <1>11, <1>12, <1>13, <1>14, <1>15, <1>16 DEF Show
  <1>. QED  BY <1>1, <1>2, <1>3, <1>17, Frame DEF IInv

LEMMA Replans == ASSUME IInv, NEW s \in Shows, Replan(s) PROVE IInv'
  <1>1. PICK next \in SUBSET NodesOf(s) :
           \E at \in Serving(next), again \in SUBSET (plan[s] \cap next) :
           job' = [job EXCEPT ![s] = [@ EXCEPT !.doing = "plan", !.next = next, !.rungs = at,
                        !.again = again, !.todo = (next \ plan[s]) \cup again]]
    BY DEF Replan
  <1>2. PICK at \in Serving(next), again \in SUBSET (plan[s] \cap next) :
           job' = [job EXCEPT ![s] = [@ EXCEPT !.doing = "plan", !.next = next, !.rungs = at,
                        !.again = again, !.todo = (next \ plan[s]) \cup again]]
    BY <1>1
  <1>10. at \in [Nodes -> Nat]
    <2>1. next \subseteq Nodes /\ \A n \in next : RungsOf[n] \subseteq Nat
      BY StationAssumption DEF NodesOf
    <2>. QED  BY <2>1 DEF Serving
  <1>. DEFINE j == [Idle EXCEPT !.doing = "plan", !.next = next, !.rungs = at,
                        !.again = again, !.todo = (next \ plan[s]) \cup again]
  <1>3. job[s] = Idle /\ alive[s] /\ job' = [job EXCEPT ![s] = j]
    BY <1>2 DEF Replan, IInv, Desk
  <1>4. /\ j.doing = "plan" /\ j.next = next /\ j.again = again
        /\ j.todo = (next \ plan[s]) \cup again /\ j.granted = Idle.granted
        /\ j.ask = NoAsk /\ j.asked = NoNode
    BY DEF Idle
  <1>5. j \in JobOf(s)
    BY <1>10, IdleFacts DEF JobOf
  <1>. HIDE DEF j
  <1>6. job'[s] = j /\ plan' = plan
    BY <1>3 DEF IInv, Desk, Replan
  <1>7. Granted(s)' = {}
    BY <1>4, <1>6, IdleFacts DEF Granted, NodesOf
  <1>8. Works(s)'
    BY <1>4, <1>6, <1>7 DEF Works
  <1>9. changes' \in 0 .. MaxChanges
    BY StationAssumption DEF Replan, IInv, Desk
  <1>. QED  BY <1>3, <1>4, <1>5, <1>8, <1>9, Begun DEF Replan

LEMMA RestoreTicks == ASSUME IInv, NEW s \in Shows, RestoreTick(s) PROVE IInv'
  <1>1. PICK due \in (SUBSET shed[s]) \ {{}} :
           job' = [job EXCEPT ![s] = [@ EXCEPT !.doing = "restore", !.todo = due]]
    BY DEF RestoreTick
  <1>. DEFINE j == [Idle EXCEPT !.doing = "restore", !.todo = due]
  <1>3. job[s] = Idle /\ alive[s] /\ job' = [job EXCEPT ![s] = j]
    BY <1>1 DEF RestoreTick, IInv, Desk
  <1>4. /\ j.doing = "restore" /\ j.todo = due /\ j.granted = Idle.granted
        /\ j.ask = NoAsk /\ j.asked = NoNode
    BY DEF Idle
  <1>5. j \in JobOf(s)
    BY IdleFacts DEF JobOf, IInv, Show, Shaped
  <1>. HIDE DEF j
  <1>6. job'[s] = j /\ shed' = shed
    BY <1>3 DEF IInv, Desk, RestoreTick
  <1>7. Granted(s)' = {}
    BY <1>4, <1>6, IdleFacts DEF Granted, NodesOf
  <1>8. Works(s)'
    BY <1>4, <1>6, <1>7 DEF Works
  <1>9. changes' \in 0 .. MaxChanges
    BY DEF RestoreTick, IInv, Desk
  <1>. QED  BY <1>3, <1>4, <1>5, <1>8, <1>9, Begun DEF RestoreTick

LEMMA Asking == ASSUME IInv, NEW s \in Shows, Ask(s) PROVE IInv'
  <1>1. PICK n \in job[s].todo, a \in Asks :
           /\ FreshAsk(s, a)
           /\ job' = [job EXCEPT ![s] = [@ EXCEPT !.ask = a, !.asked = n]]
           /\ lines' = [lines EXCEPT ![s] = Append(@, AdmitLine(a, n, KindOf(s, n)))]
    BY DEF Ask
  <1>2. alive[s] /\ job[s].ask = NoAsk
        /\ UNCHANGED <<plan, rungs, ticket, shed, box, counted, report, replies, alive, served, booked, kind, loads, others, changes>>
    BY DEF Ask, teller, life, desk
  <1>3. \A t \in Shows : Show(t)
    BY DEF IInv
  <1>. DEFINE g == KindOf(s, n)
  <1>. DEFINE j == [job[s] EXCEPT !.ask = a, !.asked = n]
  <1>4. job[s] \in JobOf(s) /\ n \in NodesOf(s) /\ n \in Nodes
    BY <1>3 DEF Show, Shaped, JobOf, NodesOf
  <1>5. j \in JobOf(s)
    BY <1>4 DEF JobOf
  <1>6. /\ j.ask = a /\ j.asked = n /\ j.doing = job[s].doing /\ j.next = job[s].next
        /\ j.again = job[s].again /\ j.todo = job[s].todo /\ j.granted = job[s].granted
    BY <1>4 DEF JobOf
  <1>7. job' = [job EXCEPT ![s] = j] /\ lines' = [lines EXCEPT ![s] = Append(@, AdmitLine(a, n, g))]
    BY <1>1
  <1>25. g \in Nat
    BY <1>4 DEF KindOf, JobOf, IInv, Desk
  <1>. HIDE DEF j, g
  <1>8. job'[s] = j /\ lines'[s] = Append(lines[s], AdmitLine(a, n, g))
    BY <1>7 DEF IInv, Desk
  <1>9. Desk'
    BY <1>2, <1>7, NoneBooked DEF IInv, Desk
  <1>10. ASSUME NEW t \in Shows \ {s} PROVE Aside(t)
    BY <1>2, <1>7 DEF Aside, SameLines, BookAside, IInv, Desk
  <1>11. /\ lines[s] \in Seq(Line) /\ AdmitLine(a, n, g) \in Line /\ n \in Nodes /\ LinesOnce(lines[s])
         /\ \A m : ~Asked(lines[s], a, m)
         /\ \A k : ~Answered(replies[s], a, k)
    BY <1>1, <1>3, <1>4, <1>25, Lines, NewAsk DEF Show, Shaped, Matched
  <1>12. /\ lines'[s] \in Seq(Line)
         /\ \A b, m : Asked(lines'[s], b, m) <=> Asked(lines[s], b, m) \/ (b = a /\ m = n)
         /\ \A k : Returned(lines'[s], k) <=> Returned(lines[s], k)
    <2>1. /\ \A b, m : AsksFor(AdmitLine(a, n, g), b, m) <=> b = a /\ m = n
          /\ \A k : AdmitLine(a, n, g) # ReleaseLine(k)
      BY Different
    <2>. QED  BY <1>8, <1>11, <2>1, LineSent
  <1>13. LinesOnce(lines'[s])
    <2>1. \A b \in Asks, m1, m2 \in Nodes : AsksFor(AdmitLine(a, n, g), b, m1) => ~Asked(lines[s], b, m2)
      BY <1>11, Different
    <2>2. \A k \in Numbers : AdmitLine(a, n, g) # ReleaseLine(k)
      BY Different
    <2>. QED  BY <1>8, <1>11, <2>1, <2>2, LineSentOnce
  <1>14. /\ \A k : Holds(s, k)' <=> Holds(s, k)
         /\ \A k : Coming(s, k)' <=> Coming(s, k)
         /\ \A k : Going(s, k)' <=> Going(s, k)
    BY <1>2, <1>6, <1>8, <1>12 DEF Holds, NodesOf, Coming, Going
  <1>15. Shaped(s)'
    BY <1>2, <1>3, <1>4, <1>5, <1>8, <1>12 DEF Show, Shaped, JobOf, NodesOf
  <1>16. Runs(s)'
    BY <1>2, <1>3 DEF Show, Runs, NodesOf
  <1>17. Works(s)'
    <2>1. job[s].doing # "nothing"
      BY <1>3, IdleFacts DEF Show, Works
    <2>2. Granted(s)' = Granted(s)
      BY <1>6, <1>8 DEF Granted, NodesOf
    <2>3. a # NoAsk
      BY StationAssumption
    <2>. QED  BY <1>2, <1>3, <1>6, <1>8, <2>1, <2>2, <2>3 DEF Show, Works
  <1>18. Named(s)'
    BY <1>2, <1>3, <1>6, <1>8, <1>14 DEF Show, Named, NodesOf, St
  <1>19. Matched(s)'
    <2>1. replies'[s] = replies[s] /\ job'[s].ask = a /\ job'[s].asked = n /\ Matched(s)
      BY <1>2, <1>3, <1>6, <1>8 DEF Show
    <2>2. \A b \in Asks, m \in Nodes, k \in Numbers \cup {Refused} :
            ~(Asked(lines'[s], b, m) /\ Answered(replies'[s], b, k))
      BY <1>11, <1>12, <2>1 DEF Matched
    <2>3. \A m \in Nodes : Asked(lines'[s], a, m) => m = n
      BY <1>11, <1>12
    <2>4. \A k \in Numbers : ~Answered(replies'[s], a, k)
      BY <1>11, <2>1
    <2>. QED  BY <1>13, <2>1, <2>2, <2>3, <2>4 DEF Matched
  <1>20. Spared(s)'
    BY <1>2, <1>3 DEF Show, Spared
  <1>21. Waits(s)'
    <2>. SUFFICES ASSUME s \notin Impatient PROVE Waits(s)'
      BY DEF Waits
    <2>1. \A m \in NodesOf(s) : ticket'[m].in # Own /\ job'[s].granted[m].in # Own
      BY <1>2, <1>3, <1>6, <1>8 DEF Show, Waits
    <2>2. /\ \A b \in Asks, m \in Nodes : ~Asked(lines[s], b, m)
          /\ \A b \in Asks, k \in Numbers \cup {Refused} : ~Answered(replies[s], b, k)
      <3>1. NoAsk \notin Asks
        BY StationAssumption
      <3>. QED  BY <1>2, <1>3, <3>1 DEF Show, Waits
    <2>3. \A k \in Numbers : booked'[k] \in NodesOf(s) =>
            Holds(s, k)' \/ Coming(s, k)' \/ Going(s, k)'
      BY <1>2, <1>3, <1>14 DEF Show, Waits
    <2>. QED  BY <1>2, <1>6, <1>8, <1>12, <2>1, <2>2, <2>3 DEF Waits, NodesOf
  <1>22. Counts(s)'
    BY <1>2, <1>3, <1>14 DEF Show, Counts
  <1>23. Lives(s)'
    BY <1>2, <1>3 DEF Show, Lives
  <1>24. Show(s)'
    BY <1>15, <1>16, <1>17, <1>18, <1>19, <1>20, <1>21, <1>22, <1>23 DEF Show
  <1>. QED  BY <1>3, <1>9, <1>10, <1>24, Frame DEF IInv

-----------------------------------------------------------------------------
(* What to give up is sent, and read.                                        *)

LEMMA ReadsShed == ASSUME IInv, NEW s \in Shows, ReadShed(s) PROVE IInv'
  <1>1. /\ alive[s] /\ replies[s] # <<>> /\ Head(replies[s]).is = "shed"
        /\ box' = [box EXCEPT ![s] = Head(replies[s]).steps]
        /\ replies' = [replies EXCEPT ![s] = Tail(@)]
        /\ UNCHANGED <<plan, rungs, ticket, shed, job, counted, report, lines, alive, served, booked, kind, loads, others, changes>>
    BY DEF ReadShed, teller, life, desk
  <1>2. \A t \in Shows : Show(t)
    BY DEF IInv
  <1>3. box'[s] = Head(replies[s]).steps /\ replies'[s] = Tail(replies[s])
    BY <1>1 DEF IInv, Desk
  <1>4. replies[s] \in Seq(Reply) /\ RepliesOnce(replies[s])
    BY <1>2 DEF Show, Shaped, Matched
  <1>5. /\ box'[s] \in SUBSET Numbers /\ replies'[s] \in Seq(Reply) /\ RepliesOnce(replies'[s])
        /\ \A k : Warned(replies[s], k) <=> Warned(replies'[s], k) \/ k \in box'[s]
        /\ \A a, k : Answered(replies'[s], a, k) <=> Answered(replies[s], a, k)
    <2>1. \A a, k : Head(replies[s]) # AnswerLine(a, k)
      BY <1>1, Different
    <2>. QED  BY <1>1, <1>3, <1>4, <2>1, ReplyRead, ReplyReadOnce, ReplyKinds
  <1>6. Desk'
    BY <1>1, <1>5, NoneBooked DEF IInv, Desk
  <1>7. ASSUME NEW t \in Shows \ {s} PROVE Aside(t)
    BY <1>1 DEF Aside, SameLines, BookAside, IInv, Desk
  <1>8. /\ \A k : Holds(s, k)' <=> Holds(s, k)
        /\ \A k : Coming(s, k)' <=> Coming(s, k)
        /\ \A k : Going(s, k)' <=> Going(s, k)
    BY <1>1, <1>5 DEF Holds, NodesOf, Coming, Going
  <1>9. Shaped(s)'
    BY <1>1, <1>2, <1>5 DEF Show, Shaped, JobOf, NodesOf
  <1>10. Runs(s)' /\ Works(s)'
    BY <1>1, <1>2 DEF Show, Runs, Works, Granted, NodesOf
  <1>11. Named(s)'
    BY <1>1, <1>2, <1>8 DEF Show, Named, NodesOf, St
  <1>12. Matched(s)'
    BY <1>1, <1>2, <1>5 DEF Show, Matched
  <1>13. Spared(s)'
    BY <1>1, <1>2, <1>5 DEF Show, Spared
  <1>14. Waits(s)'
    BY <1>1, <1>2, <1>5, <1>8 DEF Show, Waits, NodesOf
  <1>15. Counts(s)'
    BY <1>1, <1>2, <1>8 DEF Show, Counts
  <1>16. Lives(s)'
    BY <1>1, <1>2 DEF Show, Lives
  <1>17. Show(s)'
    BY <1>9, <1>10, <1>11, <1>12, <1>13, <1>14, <1>15, <1>16 DEF Show
  <1>. QED  BY <1>2, <1>6, <1>7, <1>17, Frame DEF IInv

LEMMA Warns == ASSUME IInv, NEW s \in Shows, Warn(s) PROVE IInv'
  <1>1. PICK ks \in ShedPlans :
          replies' = [replies EXCEPT ![s] = Append(@, ShedLine(ks \cap BookedFor(s)))]
    BY DEF Warn
  <1>. DEFINE steps == ks \cap BookedFor(s)
  <1>2. /\ served[s] /\ replies' = [replies EXCEPT ![s] = Append(@, ShedLine(steps))]
        /\ UNCHANGED <<plan, rungs, ticket, shed, job, box, counted, report, lines, alive, served, booked, kind, loads, others, changes>>
    BY <1>1 DEF Warn, show, teller, life, desk
  <1>3. steps \in SUBSET Numbers /\ \A k \in steps : kind[k] > 0
    BY DEF ShedPlans, Sheddable, BookedNumbers
  <1>. HIDE DEF steps
  <1>4. \A t \in Shows : Show(t)
    BY DEF IInv
  <1>5. replies'[s] = Append(replies[s], ShedLine(steps))
    BY <1>2 DEF IInv, Desk
  <1>6. replies[s] \in Seq(Reply) /\ RepliesOnce(replies[s]) /\ ShedLine(steps) \in Reply
    BY <1>3, <1>4, Lines DEF Show, Shaped, Matched
  <1>7. /\ replies'[s] \in Seq(Reply) /\ RepliesOnce(replies'[s])
        /\ \A k : Warned(replies'[s], k) <=> Warned(replies[s], k) \/ k \in steps
        /\ \A a, k : Answered(replies'[s], a, k) <=> Answered(replies[s], a, k)
    <2>1. /\ \A a, k : ShedLine(steps) # AnswerLine(a, k)
          /\ ShedLine(steps).is = "shed" /\ ShedLine(steps).steps = steps
      BY Different DEF ShedLine, AnswerLine
    <2>. QED  BY <1>5, <1>6, <2>1, ReplySent, ReplySentOnce
  <1>8. Desk'
    BY <1>2, NoneBooked DEF IInv, Desk
  <1>9. ASSUME NEW t \in Shows \ {s} PROVE Aside(t)
    BY <1>2 DEF Aside, SameLines, BookAside, IInv, Desk
  <1>10. /\ \A k : Holds(s, k)' <=> Holds(s, k)
         /\ \A k : Coming(s, k)' <=> Coming(s, k)
         /\ \A k : Going(s, k)' <=> Going(s, k)
    BY <1>2, <1>7 DEF Holds, NodesOf, Coming, Going
  <1>11. Shaped(s)'
    BY <1>2, <1>4, <1>7 DEF Show, Shaped, JobOf, NodesOf
  <1>12. Runs(s)' /\ Works(s)'
    BY <1>2, <1>4 DEF Show, Runs, Works, Granted, NodesOf
  <1>13. Named(s)'
    BY <1>2, <1>4, <1>10 DEF Show, Named, NodesOf, St
  <1>14. Matched(s)'
    BY <1>2, <1>4, <1>7 DEF Show, Matched
  <1>15. Spared(s)'
    BY <1>2, <1>3, <1>4, <1>7 DEF Show, Spared
  <1>16. Waits(s)'
    BY <1>2, <1>4, <1>7, <1>10 DEF Show, Waits, NodesOf
  <1>17. Counts(s)'
    BY <1>2, <1>4, <1>10 DEF Show, Counts
  <1>18. Lives(s)'
    BY <1>2, <1>4 DEF Show, Lives
  <1>19. Show(s)'
    BY <1>11, <1>12, <1>13, <1>14, <1>15, <1>16, <1>17, <1>18 DEF Show
  <1>. QED  BY <1>4, <1>8, <1>9, <1>19, Frame DEF IInv

-----------------------------------------------------------------------------
(* A show dies, its link closes, it is started again.                        *)

LEMMA Dies == ASSUME IInv, NEW s \in Shows, Die(s) PROVE IInv'
  <1>1. /\ alive[s]
        /\ alive' = [alive EXCEPT ![s] = FALSE] /\ plan' = [plan EXCEPT ![s] = {}]
        /\ rungs' = [n \in Nodes |-> IF ShowOf[n] = s THEN 0 ELSE rungs[n]]
        /\ ticket' = [n \in Nodes |-> IF ShowOf[n] = s THEN NoTicket ELSE ticket[n]]
        /\ shed' = [shed EXCEPT ![s] = {}] /\ job' = [job EXCEPT ![s] = Idle]
        /\ box' = [box EXCEPT ![s] = {}] /\ counted' = [counted EXCEPT ![s] = 0]
        /\ report' = [report EXCEPT ![s] = Asleep]
        /\ UNCHANGED <<lines, replies, served, booked, kind, loads, others>>
    BY DEF Die, link, desk
  <1>2. \A t \in Shows : Show(t)
    BY DEF IInv
  <1>3. /\ ~alive'[s] /\ plan'[s] = {} /\ shed'[s] = {} /\ job'[s] = Idle
        /\ box'[s] = {} /\ counted'[s] = 0 /\ \A n \in NodesOf(s) : ticket'[n] = NoTicket
    BY <1>1 DEF IInv, Desk, NodesOf
  <1>4. Desk'
    <2>1. changes' \in 0 .. MaxChanges
      BY StationAssumption DEF Die, IInv, Desk
    <2>2. ticket' \in [Nodes -> Tickets \cup {NoTicket}] /\ rungs' \in [Nodes -> Nat]
      BY <1>1 DEF IInv, Desk
    <2>. QED  BY <1>1, <2>1, <2>2, NoneBooked DEF IInv, Desk
  <1>5. ASSUME NEW t \in Shows \ {s} PROVE Aside(t)
    BY <1>1 DEF Aside, SameLines, BookAside, IInv, Desk, NodesOf
  <1>6. /\ \A k : ~Holds(s, k)'
        /\ \A k : Coming(s, k)' <=> Coming(s, k)
        /\ \A k : Going(s, k)' <=> Going(s, k)
    BY <1>1, <1>3, IdleFacts, TicketFacts DEF Holds, NodesOf, Coming, Going
  <1>7. Shaped(s)'
    BY <1>1, <1>2, <1>3, IdleFacts DEF Show, Shaped, JobOf, NodesOf
  <1>8. Runs(s)'
    BY <1>3 DEF Runs, NodesOf
  <1>9. Works(s)'
    BY <1>3, IdleFacts DEF Works
  <1>10. Named(s)'
    <2>1. ASSUME NEW n \in NodesOf(s), NEW k \in Numbers
          PROVE  ticket'[n] # St(k) /\ job'[s].granted[n] # St(k)
      BY <1>3, IdleFacts, TicketFacts DEF NodesOf
    <2>2. \A k \in Numbers :
            /\ Coming(s, k)' \/ Going(s, k)' => booked'[k] \in NodesOf(s)
            /\ ~(Coming(s, k)' /\ Going(s, k)')
            /\ ~Holds(s, k)'
      BY <1>1, <1>2, <1>6 DEF Show, Named
    <2>. QED  BY <2>1, <2>2 DEF Named, NodesOf, St
  <1>11. Matched(s)'
    <2>1. job'[s].ask = NoAsk
      BY <1>3, IdleFacts
    <2>. QED  BY <1>1, <1>2, <2>1, NothingAsked DEF Show, Matched
  <1>12. Spared(s)'
    BY <1>1, <1>2, <1>3 DEF Show, Spared
  <1>13. Waits(s)'
    BY <1>3, IdleFacts, TicketFacts DEF Waits, NodesOf
  <1>14. Counts(s)'
    <2>1. {k \in Numbers : Holds(s, k)'} = {}
      BY <1>6
    <2>. QED  BY <1>3, <2>1, FS_EmptySet DEF Counts
  <1>15. Lives(s)'
    BY <1>1, <1>2, <1>3 DEF Show, Lives, NodesOf
  <1>16. Show(s)'
    BY <1>7, <1>8, <1>9, <1>10, <1>11, <1>12, <1>13, <1>14, <1>15 DEF Show
  <1>. QED  BY <1>2, <1>4, <1>5, <1>16, Frame DEF IInv

LEMMA DeadHoldsNothing ==
  ASSUME NEW s \in Shows, Show(s), ~alive[s]
  PROVE  /\ plan[s] = {} /\ shed[s] = {} /\ job[s] = Idle /\ box[s] = {}
         /\ \A n \in NodesOf(s) : ticket[n] = NoTicket /\ job[s].granted[n] = NoTicket
         /\ \A k : ~Holds(s, k)
  <1>1. plan[s] = {} /\ shed[s] = {} /\ job[s] = Idle /\ box[s] = {}
    BY DEF Show, Lives, Shaped
  <1>2. \A n \in NodesOf(s) : ticket[n] = NoTicket /\ job[s].granted[n] = NoTicket
    BY <1>1, IdleFacts DEF Show, Runs, NodesOf
  <1>. QED  BY <1>1, <1>2, TicketFacts DEF Holds

LEMMA EmptyLink ==
  /\ <<>> \in Seq(Line) /\ LinesOnce(<<>>) /\ <<>> \in Seq(Reply) /\ RepliesOnce(<<>>)
  /\ \A a, n : ~Asked(<<>>, a, n)
  /\ \A k : ~Returned(<<>>, k)
  /\ \A a, k : ~Answered(<<>>, a, k)
  /\ \A k : ~Warned(<<>>, k)
  BY DEF LinesOnce, RepliesOnce, Asked, Returned, Answered, Warned

LEMMA Closes == ASSUME IInv, NEW s \in Shows, Gone(s) PROVE IInv'
  <1>1. /\ served[s] /\ ~alive[s]
        /\ served' = [served EXCEPT ![s] = FALSE]
        /\ booked' = [k \in Numbers |-> IF k \in BookedFor(s) THEN NoNode ELSE booked[k]]
        /\ kind' = [k \in Numbers |-> IF k \in BookedFor(s) THEN 0 ELSE kind[k]]
        /\ loads' = [loads EXCEPT ![Name[s]] = FALSE]
        /\ lines' = [lines EXCEPT ![s] = <<>>] /\ replies' = [replies EXCEPT ![s] = <<>>]
        /\ UNCHANGED <<plan, rungs, ticket, shed, job, box, counted, report, alive, others, changes>>
    BY DEF Gone, show, teller
  <1>2. \A t \in Shows : Show(t)
    BY DEF IInv
  <1>3. ~served'[s] /\ lines'[s] = <<>> /\ replies'[s] = <<>>
    BY <1>1 DEF IInv, Desk
  <1>4. \A k \in Numbers :
          /\ booked[k] \in NodesOf(s) => booked'[k] = NoNode
          /\ booked[k] \notin NodesOf(s) => booked'[k] = booked[k] /\ kind'[k] = kind[k]
    BY <1>1, StationAssumption DEF BookedFor, BookedNumbers, NodesOf, IInv, Desk
  <1>5. booked' \in [Numbers -> Nodes \cup {NoNode}] /\ kind' \in [Numbers -> Nat]
    BY <1>1 DEF IInv, Desk
  <1>6. Desk'
    BY <1>1, <1>4, <1>5, LessCommitted DEF IInv, Desk
  <1>7. NoNode \notin Nodes
    BY StationAssumption
  <1>8. ASSUME NEW t \in Shows \ {s} PROVE Aside(t)
    <2>1. NodesOf(s) \cap NodesOf(t) = {}
      BY DEF NodesOf
    <2>. QED  BY <1>1, <1>4, <1>7, <2>1 DEF Aside, SameLines, BookAside, IInv, Desk, NodesOf
  <1>9. /\ \A k : ~Holds(s, k)
        /\ plan[s] = {} /\ shed[s] = {} /\ job[s] = Idle /\ box[s] = {}
        /\ \A n \in NodesOf(s) : ticket[n] = NoTicket /\ job[s].granted[n] = NoTicket
    BY <1>1, <1>2, DeadHoldsNothing
  <1>10. /\ \A k : ~Holds(s, k)'
         /\ \A k : ~Coming(s, k)' /\ ~Going(s, k)'
    BY <1>1, <1>3, <1>9, EmptyLink DEF Holds, NodesOf, Coming, Going
  <1>11. \A k \in Numbers : booked'[k] \notin NodesOf(s)
    BY <1>4, <1>7 DEF NodesOf
  <1>12. Shaped(s)'
    BY <1>1, <1>2, <1>3, EmptyLink DEF Show, Shaped, JobOf, NodesOf
  <1>13. Runs(s)' /\ Works(s)'
    BY <1>1, <1>2 DEF Show, Runs, Works, Granted, NodesOf
  <1>14. Named(s)'
    BY <1>1, <1>9, <1>10, TicketFacts DEF Named, NodesOf, St
  <1>15. Matched(s)'
    BY <1>3, EmptyLink DEF Matched
  <1>16. Spared(s)'
    BY <1>1, <1>3, <1>9, EmptyLink DEF Spared
  <1>17. Waits(s)'
    BY <1>1, <1>9, TicketFacts DEF Waits, NodesOf
  <1>18. Counts(s)'
    BY <1>1, <1>2, <1>9, <1>10 DEF Show, Counts
  <1>19. Lives(s)'
    BY <1>1, <1>3, <1>9, <1>11 DEF Lives, NodesOf
  <1>20. Show(s)'
    BY <1>12, <1>13, <1>14, <1>15, <1>16, <1>17, <1>18, <1>19 DEF Show
  <1>. QED  BY <1>2, <1>6, <1>8, <1>20, Frame DEF IInv

LEMMA Starts == ASSUME IInv, NEW s \in Shows, Start(s) PROVE IInv'
  <1>1. /\ ~alive[s] /\ ~served[s]
        /\ alive' = [alive EXCEPT ![s] = TRUE] /\ served' = [served EXCEPT ![s] = TRUE]
        /\ UNCHANGED <<plan, rungs, ticket, shed, job, box, counted, report, lines, replies, booked, kind, loads, others, changes>>
    BY DEF Start, show, teller, link, desk
  <1>2. \A t \in Shows : Show(t)
    BY DEF IInv
  <1>3. alive'[s] /\ served'[s] /\ lines[s] = <<>> /\ replies[s] = <<>>
        /\ \A k \in Numbers : booked[k] \notin NodesOf(s)
    BY <1>1, <1>2 DEF IInv, Desk, Show, Lives
  <1>4. Desk'
    BY <1>1, NoneBooked DEF IInv, Desk
  <1>5. ASSUME NEW t \in Shows \ {s} PROVE Aside(t)
    BY <1>1 DEF Aside, SameLines, BookAside, IInv, Desk
  <1>6. /\ \A k : Holds(s, k)' <=> Holds(s, k)
        /\ \A k : Coming(s, k)' <=> Coming(s, k)
        /\ \A k : Going(s, k)' <=> Going(s, k)
    BY <1>1 DEF Holds, NodesOf, Coming, Going
  <1>7. Shaped(s)'
    BY <1>1, <1>2 DEF Show, Shaped, JobOf, NodesOf
  <1>8. Runs(s)' /\ Works(s)'
    BY <1>1, <1>2 DEF Show, Runs, Works, Granted, NodesOf
  <1>9. Named(s)'
    BY <1>1, <1>2, <1>6 DEF Show, Named, NodesOf, St
  <1>10. Matched(s)' /\ Spared(s)'
    BY <1>1, <1>2 DEF Show, Matched, Spared
  <1>11. Waits(s)'
    BY <1>1, <1>2, <1>3, EmptyLink DEF Show, Waits, NodesOf
  <1>12. Counts(s)'
    BY <1>1, <1>2, <1>6 DEF Show, Counts
  <1>13. Lives(s)'
    BY <1>3 DEF Lives
  <1>14. Show(s)'
    BY <1>7, <1>8, <1>9, <1>10, <1>11, <1>12, <1>13 DEF Show
  <1>. QED  BY <1>2, <1>4, <1>5, <1>14, Frame DEF IInv

-----------------------------------------------------------------------------
(* The station books, and takes back.                                        *)

LEMMA Releasing == ASSUME IInv, NEW s \in Shows, Release(s) PROVE IInv'
  <1>. DEFINE k == Head(lines[s]).no
  <1>1. \A t \in Shows : Show(t)
    BY DEF IInv
  <1>2. /\ served[s] /\ lines[s] # <<>> /\ Head(lines[s]).is = "release"
        /\ lines[s] \in Seq(Line) /\ LinesOnce(lines[s])
    BY <1>1 DEF Release, Show, Shaped, Matched
  <1>3. Head(lines[s]) \in Line
    BY <1>2, LineRead
  <1>4. k \in Numbers /\ Head(lines[s]) = ReleaseLine(k)
    BY <1>2, <1>3, LineKinds
  <1>5. Going(s, k) /\ booked[k] \in NodesOf(s)
    <2>1. Going(s, k)
      BY <1>2, <1>4, LineRead DEF Going
    <2>. QED  BY <1>1, <1>4, <2>1 DEF Show, Named
  <1>6. k \in BookedFor(s)
    BY <1>4, <1>5, StationAssumption DEF BookedFor, BookedNumbers, NodesOf
  <1>7. /\ booked' = [booked EXCEPT ![k] = NoNode]
        /\ kind' = [kind EXCEPT ![k] = 0]
        /\ lines' = [lines EXCEPT ![s] = Tail(@)] /\ loads' \in [Names -> BOOLEAN]
        /\ UNCHANGED <<plan, rungs, ticket, shed, job, box, counted, report, replies, alive, served, others, changes>>
    BY <1>6 DEF Release, show, teller, life, IInv, Desk, Names
  <1>. HIDE DEF k
  <1>8. /\ booked' \in [Numbers -> Nodes \cup {NoNode}] /\ booked'[k] = NoNode
        /\ kind' \in [Numbers -> Nat]
        /\ \A l \in Numbers : l # k => booked'[l] = booked[l] /\ kind'[l] = kind[l]
        /\ lines'[s] = Tail(lines[s])
    BY <1>4, <1>7 DEF IInv, Desk
  <1>9. /\ lines'[s] \in Seq(Line) /\ LinesOnce(lines'[s])
        /\ \A a, n : Asked(lines'[s], a, n) <=> Asked(lines[s], a, n)
        /\ \A l : Returned(lines'[s], l) <=> Returned(lines[s], l) /\ l # k
    <2>1. \A a, n : ~AsksFor(ReleaseLine(k), a, n)
      BY Different
    <2>2. ~Returned(Tail(lines[s]), k)
      BY <1>2, <1>4, LineReadOnce
    <2>3. \A l : ReleaseLine(k) = ReleaseLine(l) <=> k = l
      BY Different
    <2>. QED  BY <1>2, <1>4, <1>8, <2>1, <2>2, <2>3, LineRead, LineReadOnce
  <1>10. Desk'
    BY <1>7, <1>8, LessCommitted DEF IInv, Desk
  <1>11. NoNode \notin Nodes
    BY StationAssumption
  <1>12. ASSUME NEW t \in Shows \ {s} PROVE Aside(t)
    <2>1. NodesOf(s) \cap NodesOf(t) = {}
      BY DEF NodesOf
    <2>. QED  BY <1>5, <1>7, <1>8, <1>11, <2>1 DEF Aside, SameLines, BookAside, IInv, Desk, NodesOf
  <1>13. ~Holds(s, k) /\ ~Coming(s, k)
    BY <1>1, <1>4, <1>5 DEF Show, Named
  <1>14. /\ \A l : Holds(s, l)' <=> Holds(s, l)
         /\ \A l : Coming(s, l)' <=> Coming(s, l)
         /\ \A l : Going(s, l)' <=> Going(s, l) /\ l # k
    BY <1>7, <1>9 DEF Holds, NodesOf, Coming, Going
  <1>15. Shaped(s)'
    BY <1>1, <1>7, <1>9 DEF Show, Shaped, JobOf, NodesOf
  <1>16. Runs(s)' /\ Works(s)'
    BY <1>1, <1>7 DEF Show, Runs, Works, Granted, NodesOf
  <1>17. Named(s)'
    <2>1. ASSUME NEW n \in NodesOf(s), NEW l \in Numbers
          PROVE  /\ ticket[n] = St(l) \/ job[s].granted[n] = St(l) => booked'[l] = n
                 /\ ticket[n] = St(l) => job[s].granted[n] # St(l)
      <3>1. ticket[n] = St(l) \/ job[s].granted[n] = St(l) => l # k
        BY <1>13 DEF Holds
      <3>. QED  BY <1>1, <1>8, <3>1 DEF Show, Named
    <2>2. ASSUME NEW l \in Numbers
          PROVE  /\ Coming(s, l)' \/ Going(s, l)' => booked'[l] \in NodesOf(s)
                 /\ ~(Coming(s, l)' /\ Going(s, l)')
                 /\ Holds(s, l)' => ~Coming(s, l)' /\ ~Going(s, l)'
      BY <1>1, <1>8, <1>13, <1>14 DEF Show, Named
    <2>. QED  BY <1>7, <2>1, <2>2 DEF Named, NodesOf, St
  <1>18. Matched(s)'
    <2>1. ASSUME NEW l \in Numbers, Answered(replies[s], job[s].ask, l)
          PROVE  booked'[l] = job[s].asked
      <3>1. job[s].ask \in Asks
        BY <1>1, <2>1, NothingAsked DEF Show, Shaped, JobOf
      <3>2. l # k
        BY <1>13, <2>1, <3>1 DEF Coming
      <3>. QED  BY <1>1, <1>8, <2>1, <3>2 DEF Show, Matched
    <2>. QED  BY <1>1, <1>7, <1>9, <2>1 DEF Show, Matched
  <1>19. Spared(s)'
    BY <1>1, <1>7, <1>8 DEF Show, Spared
  <1>20. Waits(s)'
    <2>. SUFFICES ASSUME s \notin Impatient PROVE Waits(s)'
      BY DEF Waits
    <2>1. \A n \in NodesOf(s) : ticket'[n].in # Own /\ job'[s].granted[n].in # Own
      BY <1>1, <1>7 DEF Show, Waits
    <2>2. alive'[s] =>
           /\ \A a \in Asks, n \in Nodes : Asked(lines'[s], a, n) => a = job'[s].ask
           /\ \A a \in Asks, l \in Numbers \cup {Refused} :
                Answered(replies'[s], a, l) => a = job'[s].ask
      BY <1>1, <1>7, <1>9 DEF Show, Waits
    <2>3. ASSUME alive'[s], NEW l \in Numbers, booked'[l] \in NodesOf(s)
          PROVE  Holds(s, l)' \/ Coming(s, l)' \/ Going(s, l)'
      <3>1. l # k
        BY <1>8, <1>11, <2>3 DEF NodesOf
      <3>. QED  BY <1>1, <1>7, <1>8, <1>14, <2>3, <3>1 DEF Show, Waits
    <2>. QED  BY <2>1, <2>2, <2>3 DEF Waits, NodesOf
  <1>21. Counts(s)'
    BY <1>1, <1>7, <1>14 DEF Show, Counts
  <1>22. Lives(s)'
    BY <1>1, <1>2, <1>7 DEF Show, Lives
  <1>23. Show(s)'
    BY <1>15, <1>16, <1>17, <1>18, <1>19, <1>20, <1>21, <1>22 DEF Show
  <1>. QED  BY <1>1, <1>10, <1>12, <1>23, Frame DEF IInv

\* The answer k to the ask at the head of the link, booked when it is a number.
LEMMA Answering ==
  ASSUME IInv, NEW s \in Shows, served[s], lines[s] # <<>>, NEW a \in Asks, NEW n \in Nodes,
         AsksFor(Head(lines[s]), a, n), NEW g \in Nat, NEW k \in Numbers \cup {Refused},
         replies' = [replies EXCEPT ![s] = Append(@, AnswerLine(a, k))],
         lines' = [lines EXCEPT ![s] = Tail(@)],
         IF k = Refused THEN booked' = booked /\ kind' = kind
         ELSE /\ Fits(n) /\ ~Mentioned(k) /\ booked' = [booked EXCEPT ![k] = n]
              /\ kind' = [kind EXCEPT ![k] = g],
         UNCHANGED <<show, teller, life, loads, others, changes>>
  PROVE  IInv'
  <1>1. \A t \in Shows : Show(t)
    BY DEF IInv
  <1>2. UNCHANGED <<plan, rungs, ticket, shed, job, box, counted, report, alive, served, loads, others, changes>>
    BY DEF show, teller, life
  <1>3. /\ lines[s] \in Seq(Line) /\ LinesOnce(lines[s])
        /\ replies[s] \in Seq(Reply) /\ RepliesOnce(replies[s]) /\ AnswerLine(a, k) \in Reply
    BY <1>1, Lines DEF Show, Shaped, Matched
  <1>4. lines'[s] = Tail(lines[s]) /\ replies'[s] = Append(replies[s], AnswerLine(a, k))
    BY DEF IInv, Desk
  <1>5. Refused \notin Numbers /\ NoNode \notin Nodes
    BY TicketFacts, StationAssumption
  <1>6. Asked(lines[s], a, n) /\ n \in NodesOf(s)
    BY <1>1, <1>3, LineRead DEF Show, Shaped
  <1>7. \A m : ~Answered(replies[s], a, m)
    <2>1. \A m \in Numbers \cup {Refused} : ~Answered(replies[s], a, m)
      BY <1>1, <1>6 DEF Show, Matched
    <2>2. \A i \in 1 .. Len(replies[s]) : replies[s][i] \in Reply
      BY <1>3
    <2>3. \A m : AnswerLine(a, m) \in Reply => m \in Numbers \cup {Refused}
      BY ReplyKinds, Different
    <2>. QED  BY <2>1, <2>2, <2>3 DEF Answered
  <1>8. /\ lines'[s] \in Seq(Line) /\ LinesOnce(lines'[s])
        /\ \A b, m : Asked(lines[s], b, m) <=> Asked(lines'[s], b, m) \/ (b = a /\ m = n)
        /\ \A m : ~Asked(lines'[s], a, m)
        /\ \A l : Returned(lines'[s], l) <=> Returned(lines[s], l)
    <2>1. \A b, m : AsksFor(Head(lines[s]), b, m) <=> b = a /\ m = n
      BY DEF AsksFor
    <2>2. \A l : Head(lines[s]) # ReleaseLine(l)
      BY Different
    <2>3. \A m : ~Asked(Tail(lines[s]), a, m)
      BY <1>3, <2>1, LineReadOnce
    <2>. QED  BY <1>3, <1>4, <2>1, <2>2, <2>3, LineRead, LineReadOnce
  <1>9. k \in Numbers =>
          /\ Fits(n) /\ booked' = [booked EXCEPT ![k] = n]
          /\ \A t \in Shows :
               /\ booked[k] = NoNode /\ k \notin box[t] /\ ~Holds(t, k)
               /\ ~Returned(lines[t], k) /\ ~Coming(t, k) /\ \A b : ~Answered(replies[t], b, k)
               /\ ~Warned(replies[t], k)
    BY <1>1, <1>5, Unmentioned DEF Show
  <1>10. /\ replies'[s] \in Seq(Reply)
         /\ \A b, l : Answered(replies'[s], b, l) <=>
                        Answered(replies[s], b, l) \/ (b = a /\ l = k)
         /\ \A l : Warned(replies'[s], l) <=> Warned(replies[s], l)
    <2>1. \A b, l : AnswerLine(a, k) = AnswerLine(b, l) <=> b = a /\ l = k
      BY Different
    <2>2. AnswerLine(a, k).is # "shed"
      BY Different
    <2>. QED  BY <1>3, <1>4, <2>1, <2>2, ReplySent
  <1>11. RepliesOnce(replies'[s])
    <2>1. \A b \in Asks, l, m \in Numbers \cup {Refused} :
            AnswerLine(a, k) = AnswerLine(b, l) => ~Answered(replies[s], b, m)
      BY <1>7, Different
    <2>2. \A b, c \in Asks, l \in Numbers : AnswerLine(a, k) = AnswerLine(b, l) => ~Answered(replies[s], c, l)
      BY <1>9, Different
    <2>. QED  BY <1>3, <1>4, <2>1, <2>2, ReplySentOnce
  <1>12. /\ booked' \in [Numbers -> Nodes \cup {NoNode}]
         /\ \A l \in Numbers : l # k => booked'[l] = booked[l] /\ kind'[l] = kind[l]
         /\ kind' \in [Numbers -> Nat]
         /\ k \in Numbers => booked[k] = NoNode /\ booked'[k] = n
    BY <1>5, <1>9 DEF IInv, Desk
  <1>13. Committed' <= Room
    BY <1>5, <1>9, FitsCommitted, NoneBooked DEF IInv
  <1>14. Desk'
    BY <1>2, <1>12, <1>13 DEF IInv, Desk
  <1>15. ASSUME NEW t \in Shows \ {s} PROVE Aside(t)
    <2>1. NodesOf(s) \cap NodesOf(t) = {}
      BY DEF NodesOf
    <2>2. BookAside(t)
      BY <1>5, <1>6, <1>12, <2>1 DEF BookAside, NodesOf
    <2>. QED  BY <1>2, <2>2 DEF Aside, SameLines, IInv, Desk
  <1>16. /\ \A l : Holds(s, l)' <=> Holds(s, l)
         /\ \A l : Coming(s, l)' <=> Coming(s, l) \/ l = k
         /\ \A l : Going(s, l)' <=> Going(s, l)
    BY <1>2, <1>8, <1>10 DEF Holds, NodesOf, Coming, Going
  <1>17. Shaped(s)'
    BY <1>1, <1>2, <1>8, <1>10 DEF Show, Shaped, JobOf, NodesOf
  <1>18. Runs(s)' /\ Works(s)'
    BY <1>1, <1>2 DEF Show, Runs, Works, Granted, NodesOf
  <1>19. Named(s)'
    <2>1. ASSUME NEW m \in NodesOf(s), NEW l \in Numbers
          PROVE  /\ ticket[m] = St(l) \/ job[s].granted[m] = St(l) => booked'[l] = m
                 /\ ticket[m] = St(l) => job[s].granted[m] # St(l)
      <3>1. ticket[m] = St(l) \/ job[s].granted[m] = St(l) => l # k
        BY <1>9 DEF Holds
      <3>. QED  BY <1>1, <1>12, <3>1 DEF Show, Named
    <2>2. ASSUME NEW l \in Numbers
          PROVE  /\ Coming(s, l)' \/ Going(s, l)' => booked'[l] \in NodesOf(s)
                 /\ ~(Coming(s, l)' /\ Going(s, l)')
                 /\ Holds(s, l)' => ~Coming(s, l)' /\ ~Going(s, l)'
      <3>1. CASE l # k
        BY <1>1, <1>12, <1>16, <3>1 DEF Show, Named
      <3>2. CASE l = k
        BY <1>6, <1>9, <1>12, <1>16, <3>2 DEF Going
      <3>. QED  BY <3>1, <3>2
    <2>. QED  BY <1>2, <2>1, <2>2 DEF Named, NodesOf, St
  <1>20. Matched(s)'
    <2>0. Matched(s) /\ job'[s] = job[s]
      BY <1>1, <1>2 DEF Show
    <2>1. \A b \in Asks, m \in Nodes, l \in Numbers \cup {Refused} :
            ~(Asked(lines'[s], b, m) /\ Answered(replies'[s], b, l))
      BY <1>8, <1>10, <2>0 DEF Matched
    <2>2. \A m \in Nodes : Asked(lines'[s], job[s].ask, m) => m = job[s].asked
      BY <1>8, <2>0 DEF Matched
    <2>3. ASSUME NEW l \in Numbers, Answered(replies'[s], job[s].ask, l)
          PROVE  booked'[l] = job[s].asked
      <3>1. CASE l # k
        BY <1>10, <1>12, <2>0, <2>3, <3>1 DEF Matched
      <3>2. CASE l = k
        <4>1. job[s].ask = a
          BY <1>9, <1>10, <2>3, <3>2
        <4>2. n = job[s].asked
          BY <1>6, <2>0, <4>1 DEF Matched
        <4>. QED  BY <1>12, <3>2, <4>2
      <3>. QED  BY <3>1, <3>2
    <2>. QED  BY <1>8, <1>11, <2>0, <2>1, <2>2, <2>3 DEF Matched
  <1>21. Spared(s)'
    <2>1. \A l \in Numbers : l \in box[s] \/ Warned(replies[s], l) => l # k
      BY <1>9
    <2>. QED  BY <1>1, <1>2, <1>10, <1>12, <2>1 DEF Show, Spared
  <1>22. Waits(s)'
    <2>. SUFFICES ASSUME s \notin Impatient PROVE Waits(s)'
      BY DEF Waits
    <2>1. \A m \in NodesOf(s) : ticket'[m].in # Own /\ job'[s].granted[m].in # Own
      BY <1>1, <1>2 DEF Show, Waits
    <2>2. alive[s] => a = job[s].ask
      BY <1>1, <1>6 DEF Show, Waits
    <2>3. alive'[s] =>
           /\ \A b \in Asks, m \in Nodes : Asked(lines'[s], b, m) => b = job'[s].ask
           /\ \A b \in Asks, l \in Numbers \cup {Refused} :
                Answered(replies'[s], b, l) => b = job'[s].ask
      BY <1>1, <1>2, <1>8, <1>10, <2>2 DEF Show, Waits
    <2>4. ASSUME alive'[s], NEW l \in Numbers, booked'[l] \in NodesOf(s)
          PROVE  Holds(s, l)' \/ Coming(s, l)' \/ Going(s, l)'
      BY <1>1, <1>2, <1>12, <1>16, <2>4 DEF Show, Waits
    <2>. QED  BY <2>1, <2>3, <2>4 DEF Waits, NodesOf
  <1>23. Counts(s)'
    BY <1>1, <1>2, <1>16 DEF Show, Counts
  <1>24. Lives(s)'
    BY <1>1, <1>2 DEF Show, Lives
  <1>25. Show(s)'
    BY <1>17, <1>18, <1>19, <1>20, <1>21, <1>22, <1>23, <1>24 DEF Show
  <1>. QED  BY <1>1, <1>14, <1>15, <1>25, Frame DEF IInv

LEMMA Admits == ASSUME IInv, NEW s \in Shows, Admit(s) PROVE IInv'
  <1>. DEFINE l == Head(lines[s])
  <1>1. served[s] /\ lines[s] # <<>> /\ l.is = "admit" /\ lines[s] \in Seq(Line)
    BY DEF Admit, IInv, Show, Shaped
  <1>2. l \in Line
    BY <1>1, LineRead
  <1>3. l.ask \in Asks /\ l.node \in Nodes /\ l.rung \in Nat
    BY <1>1, <1>2, LineKinds
  <1>4. /\ lines' = [lines EXCEPT ![s] = Tail(@)]
        /\ UNCHANGED <<show, teller, life, loads, others, changes>>
    BY DEF Admit
  <1>5. \/ \E k \in Numbers :
             /\ Fits(l.node) /\ ~Mentioned(k) /\ booked' = [booked EXCEPT ![k] = l.node]
             /\ kind' = [kind EXCEPT ![k] = l.rung]
             /\ replies' = [replies EXCEPT ![s] = Append(@, AnswerLine(l.ask, k))]
        \/ /\ replies' = [replies EXCEPT ![s] = Append(@, AnswerLine(l.ask, Refused))]
           /\ booked' = booked /\ kind' = kind
    BY DEF Admit, FreshNumber
  <1>. HIDE DEF l
  <1>6. AsksFor(Head(lines[s]), l.ask, l.node)
    BY <1>1 DEF l, AsksFor
  <1>7. Refused \notin Numbers
    BY TicketFacts
  <1>8. CASE \E k \in Numbers :
             /\ Fits(l.node) /\ ~Mentioned(k) /\ booked' = [booked EXCEPT ![k] = l.node]
             /\ kind' = [kind EXCEPT ![k] = l.rung]
             /\ replies' = [replies EXCEPT ![s] = Append(@, AnswerLine(l.ask, k))]
    <2>1. PICK k \in Numbers :
             /\ Fits(l.node) /\ ~Mentioned(k) /\ booked' = [booked EXCEPT ![k] = l.node]
             /\ kind' = [kind EXCEPT ![k] = l.rung]
             /\ replies' = [replies EXCEPT ![s] = Append(@, AnswerLine(l.ask, k))]
      BY <1>8
    <2>2. k \in Numbers \cup {Refused} /\ k # Refused
      BY <1>7
    <2>. QED  BY <1>1, <1>3, <1>4, <1>6, <2>1, <2>2, Answering
  <1>9. CASE /\ replies' = [replies EXCEPT ![s] = Append(@, AnswerLine(l.ask, Refused))]
             /\ booked' = booked /\ kind' = kind
    BY <1>1, <1>3, <1>4, <1>6, <1>9, Answering
  <1>. QED  BY <1>5, <1>8, <1>9

-----------------------------------------------------------------------------
(* The mixer thread goes on.                                                 *)

\* What changes is of show s alone, and the station's book is left alone.
Handled(s) ==
    /\ UNCHANGED <<alive, served, booked, kind, loads, others>>
    /\ changes' \in 0 .. MaxChanges /\ report' = [t \in Shows |-> report'[t]]
    /\ ticket' \in [Nodes -> Tickets \cup {NoTicket}] /\ rungs' \in [Nodes -> Nat]
    /\ \A n \in Nodes \ NodesOf(s) : ticket'[n] = ticket[n]
    /\ plan' = [plan EXCEPT ![s] = plan'[s]] /\ shed' = [shed EXCEPT ![s] = shed'[s]]
    /\ job' = [job EXCEPT ![s] = job'[s]] /\ box' = [box EXCEPT ![s] = box'[s]]
    /\ counted' = [counted EXCEPT ![s] = counted'[s]]
    /\ lines' = [lines EXCEPT ![s] = lines'[s]] /\ replies' = [replies EXCEPT ![s] = replies'[s]]

\* Nothing the show was sent or had is lost, and nothing else comes in.
Passed(s) ==
    /\ box'[s] \subseteq box[s] /\ LinesOnce(lines'[s]) /\ RepliesOnce(replies'[s])
    /\ \A a, n : Asked(lines'[s], a, n) => Asked(lines[s], a, n)
    /\ \A a, k : Answered(replies'[s], a, k) => Answered(replies[s], a, k)
    /\ \A k : Warned(replies'[s], k) => Warned(replies[s], k)
    /\ s \notin Impatient =>
         /\ \A n \in NodesOf(s) : ticket'[n].in # Own /\ job'[s].granted[n].in # Own
         /\ \A a \in Asks, n \in Nodes : ~Asked(lines'[s], a, n)
         /\ \A a \in Asks, k \in Numbers \cup {Refused} : ~Answered(replies'[s], a, k)
         /\ \A k \in Numbers : Holds(s, k) \/ Coming(s, k) \/ Going(s, k) =>
              Holds(s, k)' \/ Coming(s, k)' \/ Going(s, k)'

LEMMA Handling ==
  ASSUME IInv, NEW s \in Shows, alive[s], Handled(s), Passed(s), job'[s].ask = NoAsk,
         Shaped(s)', Runs(s)', Works(s)', Named(s)', Counts(s)'
  PROVE  IInv'
  <1>1. \A t \in Shows : Show(t)
    BY DEF IInv
  <1>2. Desk'
    <2>1. plan'[s] \in SUBSET Nodes /\ shed'[s] \in SUBSET Nodes /\ box'[s] \in SUBSET Numbers
      BY DEF Shaped, NodesOf
    <2>2. counted'[s] \in Nat
      <3>1. {k \in Numbers : Holds(s, k)'} \in SUBSET Numbers
        OBVIOUS
      <3>. QED  BY <3>1, Finite DEF Counts
    <2>3. Committed' <= Room /\ booked' \in [Numbers -> Nodes \cup {NoNode}]
      BY NoneBooked DEF IInv, Handled
    <2>4. /\ plan' \in [Shows -> SUBSET Nodes] /\ shed' \in [Shows -> SUBSET Nodes]
          /\ box' \in [Shows -> SUBSET Numbers] /\ counted' \in [Shows -> Nat]
      BY <2>1, <2>2 DEF IInv, Desk, Handled
    <2>5. /\ job' = [t \in Shows |-> job'[t]] /\ lines' = [t \in Shows |-> lines'[t]]
          /\ replies' = [t \in Shows |-> replies'[t]]
      BY DEF IInv, Desk, Handled
    <2>. QED  BY <2>3, <2>4, <2>5 DEF IInv, Desk, Handled
  <1>3. ASSUME NEW t \in Shows \ {s} PROVE Aside(t)
    BY DEF Aside, SameLines, BookAside, IInv, Desk, Handled, NodesOf
  <1>4. alive' = alive /\ served' = served /\ booked' = booked /\ kind' = kind /\ served[s]
    BY <1>1 DEF Handled, Show, Lives
  <1>5. Matched(s)'
    <2>1. /\ \A n \in Nodes : ~Asked(lines'[s], NoAsk, n)
          /\ \A k : ~Answered(replies'[s], NoAsk, k)
      BY <1>1, NothingAsked DEF Show, Passed
    <2>. QED  BY <1>1, <2>1 DEF Show, Matched, Passed
  <1>6. Spared(s)'
    BY <1>1, <1>4 DEF Show, Spared, Passed
  <1>7. Waits(s)'
    <2>. SUFFICES ASSUME s \notin Impatient PROVE Waits(s)'
      BY DEF Waits
    <2>1. \A k \in Numbers : booked'[k] \in NodesOf(s) =>
            Holds(s, k)' \/ Coming(s, k)' \/ Going(s, k)'
      BY <1>1, <1>4 DEF Show, Waits, Passed
    <2>. QED  BY <2>1 DEF Waits, Passed, NodesOf
  <1>8. Lives(s)'
    BY <1>4 DEF Lives
  <1>9. Show(s)'
    BY <1>5, <1>6, <1>7, <1>8 DEF Show
  <1>. QED  BY <1>1, <1>2, <1>3, <1>9, Frame DEF IInv

\* Tickets in hand are dropped: the station's go back, each once.
LEMMA Dropping ==
  ASSUME IInv, NEW s \in Shows, NEW ts \in SUBSET Tickets,
         \A k \in Numbers : St(k) \in ts => Holds(s, k), Dropped(s, ts)
  PROVE  /\ lines' = [lines EXCEPT ![s] = lines'[s]]
         /\ counted' = [counted EXCEPT ![s] = counted'[s]]
         /\ lines'[s] \in Seq(Line) /\ LinesOnce(lines'[s])
         /\ \A a, n : Asked(lines'[s], a, n) <=> Asked(lines[s], a, n)
         /\ \A k \in Numbers : Going(s, k)' <=> Going(s, k) \/ St(k) \in ts
         /\ counted'[s] = Cardinality({k \in Numbers : Holds(s, k) /\ St(k) \notin ts})
  <1>. DEFINE gone == {t.no : t \in {u \in ts : u.in = Station}}
              K == {k \in Numbers : Holds(s, k)}
              L == {k \in Numbers : Holds(s, k) /\ St(k) \notin ts}
  <1>1. /\ counted' = [counted EXCEPT ![s] = Max({0, @ - Cardinality(gone)})]
        /\ lines' = [lines EXCEPT ![s] = @ \o Releases(gone)]
    BY DEF Dropped
  <1>2. gone \in SUBSET Numbers /\ \A k \in Numbers : k \in gone <=> St(k) \in ts
    BY TicketFacts
  <1>3. gone \subseteq K /\ L = K \ gone
    BY <1>2
  <1>4. Show(s) /\ lines[s] \in Seq(Line) /\ LinesOnce(lines[s])
    BY DEF IInv, Show, Shaped, Matched
  <1>. HIDE DEF gone
  <1>5. \A k \in gone : ~Returned(lines[s], k)
    BY <1>2, <1>4 DEF Show, Named, Going
  <1>6. counted[s] = Cardinality(K)
    BY <1>4 DEF Show, Counts
  <1>7. Cardinality(L) = Cardinality(K) - Cardinality(gone) /\ Cardinality(L) \in Nat
    <2>1. IsFiniteSet(K) /\ K \cap gone = gone
      BY <1>3, Finite
    <2>2. Cardinality(K \ gone) = Cardinality(K) - Cardinality(K \cap gone)
      BY <2>1, FS_Difference
    <2>. QED  BY <1>3, <2>1, <2>2, Finite
  <1>8. lines'[s] = lines[s] \o Releases(gone) /\ counted'[s] = Max({0, counted[s] - Cardinality(gone)})
    BY <1>1 DEF IInv, Desk
  <1>9. counted'[s] = Cardinality(L)
    BY <1>6, <1>7, <1>8, MaxZero
  <1>10. /\ lines'[s] \in Seq(Line) /\ LinesOnce(lines'[s])
         /\ \A a, n : Asked(lines'[s], a, n) <=> Asked(lines[s], a, n)
         /\ \A k \in Numbers : Returned(lines'[s], k) <=> Returned(lines[s], k) \/ k \in gone
    BY <1>2, <1>4, <1>5, <1>8, ReleasesSent
  <1>. QED  BY <1>1, <1>2, <1>8, <1>9, <1>10 DEF Going

\* Of the tickets of show s those of ts are dropped, and no others come.
LEMMA FewerNamed ==
  ASSUME IInv, NEW s \in Shows, NEW ts, booked' = booked,
         \A k \in Numbers : St(k) \in ts => Holds(s, k),
         \A k \in Numbers : Coming(s, k)' => Coming(s, k),
         \A k \in Numbers : Going(s, k)' <=> Going(s, k) \/ St(k) \in ts,
         \A k \in Numbers : Holds(s, k)' => St(k) \notin ts,
         \A n \in NodesOf(s), k \in Numbers :
            /\ ticket'[n] = St(k) \/ job'[s].granted[n] = St(k) =>
                 ticket[n] = St(k) \/ job[s].granted[n] = St(k)
            /\ ticket'[n] = St(k) => job'[s].granted[n] # St(k)
  PROVE  Named(s)'
  <1>1. Named(s)
    BY DEF IInv, Show
  <1>2. \A k \in Numbers : Holds(s, k)' => Holds(s, k)
    BY DEF Holds, NodesOf
  <1>3. \A k \in Numbers : Holds(s, k) => booked[k] \in NodesOf(s)
    BY <1>1 DEF Holds, Named
  <1>4. ASSUME NEW k \in Numbers
        PROVE  /\ Coming(s, k)' \/ Going(s, k)' => booked'[k] \in NodesOf(s)
               /\ ~(Coming(s, k)' /\ Going(s, k)')
               /\ Holds(s, k)' => ~Coming(s, k)' /\ ~Going(s, k)'
    BY <1>1, <1>2, <1>3 DEF Named
  <1>5. ASSUME NEW n \in NodesOf(s), NEW k \in Numbers
        PROVE  /\ ticket'[n] = St(k) \/ job'[s].granted[n] = St(k) => booked'[k] = n
               /\ ticket'[n] = St(k) => job'[s].granted[n] # St(k)
    BY <1>1 DEF Named
  <1>. QED  BY <1>4, <1>5 DEF Named, NodesOf, St

\* What the show has read of its link, and what is still on it.
Heard(s) ==
    /\ replies' = [replies EXCEPT ![s] = replies'[s]]
    /\ replies'[s] \in Seq(Reply) /\ RepliesOnce(replies'[s])
    /\ \A a, k : Answered(replies'[s], a, k) => Answered(replies[s], a, k)
    /\ \A k : Warned(replies'[s], k) => Warned(replies[s], k)
    /\ s \notin Impatient =>
         /\ \A a \in Asks, n \in Nodes : ~Asked(lines[s], a, n)
         /\ \A a \in Asks, k \in Numbers \cup {Refused} : ~Answered(replies'[s], a, k)

\* Between asks, the link of a show that is answered in time has none.
LEMMA Quiet ==
  ASSUME IInv, NEW s \in Shows, replies' = replies,
         (alive[s] /\ job[s].ask = NoAsk) \/ s \in Impatient
  PROVE  Heard(s) /\ \A k : Coming(s, k)' <=> Coming(s, k)
  <1>1. Show(s) /\ Desk
    BY DEF IInv
  <1>2. NoAsk \notin Asks
    BY StationAssumption
  <1>3. s \notin Impatient =>
         /\ \A a \in Asks, n \in Nodes : ~Asked(lines[s], a, n)
         /\ \A a \in Asks, k \in Numbers \cup {Refused} : ~Answered(replies[s], a, k)
    BY <1>1, <1>2 DEF Show, Waits
  <1>4. replies[s] \in Seq(Reply) /\ RepliesOnce(replies[s])
    BY <1>1 DEF Show, Shaped, Matched
  <1>. QED  BY <1>1, <1>3, <1>4 DEF Heard, Coming, Desk

\* The job is over, what is dropped goes back and the rest is kept.
LEMMA Idling ==
  ASSUME IInv, NEW s \in Shows, alive[s], NEW ts \in SUBSET Tickets,
         Heard(s), \A k \in Numbers : Coming(s, k)' <=> Coming(s, k), Dropped(s, ts),
         job' = [job EXCEPT ![s] = Idle],
         ticket' \in [Nodes -> Tickets \cup {NoTicket}], rungs' \in [Nodes -> Nat],
         \A n \in Nodes \ NodesOf(s) : ticket'[n] = ticket[n],
         plan' = [plan EXCEPT ![s] = plan'[s]], shed' = [shed EXCEPT ![s] = shed'[s]],
         box' = [box EXCEPT ![s] = box'[s]], box'[s] \subseteq box[s],
         plan'[s] \subseteq NodesOf(s), shed'[s] \subseteq plan'[s], Runs(s)',
         UNCHANGED <<report, alive, served, booked, kind, loads, others>>,
         changes' \in 0 .. MaxChanges,
         \A k \in Numbers : St(k) \in ts => Holds(s, k),
         \A n \in NodesOf(s) : ticket'[n] # NoTicket =>
            ticket'[n] = ticket[n] \/ ticket'[n] = job[s].granted[n],
         \A k \in Numbers : (\E n \in NodesOf(s) : ticket'[n] = St(k)) <=> Holds(s, k) /\ St(k) \notin ts
  PROVE  IInv'
  <1>1. Show(s) /\ Desk
    BY DEF IInv
  <1>2. job'[s] = Idle
    BY <1>1 DEF Desk
  <1>3. /\ lines' = [lines EXCEPT ![s] = lines'[s]]
        /\ counted' = [counted EXCEPT ![s] = counted'[s]]
        /\ lines'[s] \in Seq(Line) /\ LinesOnce(lines'[s])
        /\ \A a, n : Asked(lines'[s], a, n) <=> Asked(lines[s], a, n)
        /\ \A k \in Numbers : Going(s, k)' <=> Going(s, k) \/ St(k) \in ts
        /\ counted'[s] = Cardinality({k \in Numbers : Holds(s, k) /\ St(k) \notin ts})
    BY Dropping
  <1>4. \A n \in NodesOf(s) : job'[s].granted[n] = NoTicket
    BY <1>2, IdleFacts DEF NodesOf
  <1>5. \A k \in Numbers : Holds(s, k)' <=> Holds(s, k) /\ St(k) \notin ts
    BY <1>4, TicketFacts DEF Holds, NodesOf
  <1>8. Shaped(s)'
    BY <1>1, <1>2, <1>3, IdleFacts DEF Show, Shaped, Heard, JobOf, NodesOf
  <1>9. Works(s)'
    BY <1>2, IdleFacts DEF Works
  <1>10. Named(s)'
    <2>1. ASSUME NEW n \in NodesOf(s), NEW k \in Numbers
          PROVE  /\ ticket'[n] = St(k) \/ job'[s].granted[n] = St(k) =>
                      ticket[n] = St(k) \/ job[s].granted[n] = St(k)
                 /\ ticket'[n] = St(k) => job'[s].granted[n] # St(k)
      BY <1>4, TicketFacts
    <2>. QED  BY <1>3, <1>5, <2>1, FewerNamed
  <1>11. Counts(s)'
    <2>1. {k \in Numbers : Holds(s, k)'} = {k \in Numbers : Holds(s, k) /\ St(k) \notin ts}
      BY <1>5
    <2>. QED  BY <1>3, <2>1 DEF Counts
  <1>12. Handled(s)
    BY <1>1, <1>2, <1>3 DEF Handled, Desk, Heard
  <1>13. Passed(s)
    <2>1. ASSUME s \notin Impatient
          PROVE  /\ \A n \in NodesOf(s) : ticket'[n].in # Own /\ job'[s].granted[n].in # Own
                 /\ \A a \in Asks, n \in Nodes : ~Asked(lines'[s], a, n)
                 /\ \A a \in Asks, k \in Numbers \cup {Refused} : ~Answered(replies'[s], a, k)
                 /\ \A k \in Numbers : Holds(s, k) \/ Coming(s, k) \/ Going(s, k) =>
                      Holds(s, k)' \/ Coming(s, k)' \/ Going(s, k)'
      <3>1. \A n \in NodesOf(s) : ticket[n].in # Own /\ job[s].granted[n].in # Own
        BY <1>1, <2>1 DEF Show, Waits
      <3>2. \A n \in NodesOf(s) : ticket'[n].in # Own
        BY <3>1, TicketFacts
      <3>. QED  BY <1>3, <1>4, <1>5, <2>1, <3>2, TicketFacts DEF Heard
    <2>. QED  BY <1>3, <2>1 DEF Passed, Heard
  <1>14. job'[s].ask = NoAsk
    BY <1>2, IdleFacts
  <1>. QED  BY <1>8, <1>9, <1>10, <1>11, <1>12, <1>13, <1>14, Handling

LEMMA Applies == ASSUME IInv, NEW s \in Shows, Apply(s) PROVE IInv'
  <1>. DEFINE ts == {ticket[n] : n \in {m \in Stopped(s) : ticket[m] # NoTicket}}
  <1>1. Show(s) /\ Desk
    BY DEF IInv
  <1>2. /\ alive[s] /\ job[s].doing = "plan" /\ job[s].todo = {} /\ job[s].ask = NoAsk
        /\ plan' = [plan EXCEPT ![s] = job[s].next]
        /\ rungs' = [n \in Nodes |-> IF ShowOf[n] = s THEN job[s].rungs[n] ELSE rungs[n]]
        /\ ticket' = [n \in Nodes |-> IF n \in Granted(s) THEN job[s].granted[n]
                                      ELSE IF n \in Stopped(s) THEN NoTicket ELSE ticket[n]]
        /\ shed' = [shed EXCEPT ![s] = @ \ Stopped(s)]
        /\ Dropped(s, ts) /\ job' = [job EXCEPT ![s] = Idle]
        /\ UNCHANGED <<box, report, replies, alive, served, booked, kind, loads, others, changes>>
    BY DEF Apply, life, desk
  <1>3. plan'[s] = job[s].next /\ shed'[s] = shed[s] \ Stopped(s) /\ job[s] \in JobOf(s)
    BY <1>1, <1>2 DEF Desk, Show, Shaped
  <1>4. /\ Granted(s) = (job[s].next \ plan[s]) \cup job[s].again
        /\ job[s].again \subseteq plan[s] \cap job[s].next
        /\ Stopped(s) = (plan[s] \ job[s].next) \cup job[s].again
        /\ plan[s] \subseteq NodesOf(s) /\ job[s].next \subseteq NodesOf(s) /\ shed[s] \subseteq plan[s]
    BY <1>1, <1>2 DEF Show, Works, Shaped, JobOf, Stopped
  <1>5. NodesOf(s) \subseteq Nodes
    BY DEF NodesOf
  <1>6. ts \in SUBSET Tickets /\ \A k \in Numbers : St(k) \in ts => Holds(s, k)
    BY <1>1, <1>4, <1>5 DEF Desk, Holds
  <1>7. /\ ticket' \in [Nodes -> Tickets \cup {NoTicket}]
        /\ \A n \in Nodes \ NodesOf(s) : ticket'[n] = ticket[n]
    BY <1>1, <1>2, <1>3, <1>4, <1>5 DEF Desk, JobOf
  <1>16. rungs' \in [Nodes -> Nat]
    BY <1>1, <1>2, <1>3 DEF Desk, JobOf
  <1>8. \A n \in NodesOf(s) :
          ticket'[n] = IF n \in Granted(s) THEN job[s].granted[n]
                       ELSE IF n \in Stopped(s) THEN NoTicket ELSE ticket[n]
    BY <1>2, <1>5
  <1>9. /\ \A n \in Granted(s) : job[s].granted[n] # NoTicket
        /\ \A n \in NodesOf(s) \ Granted(s) : job[s].granted[n] = NoTicket
        /\ \A n \in NodesOf(s) : ticket[n] # NoTicket <=> n \in plan[s] \ shed[s]
    BY <1>1 DEF Granted, Show, Runs
  <1>10. Runs(s)'
    <2>1. ASSUME NEW n \in NodesOf(s)
          PROVE  ticket'[n] # NoTicket <=> n \in plan'[s] \ shed'[s]
      BY <1>3, <1>4, <1>8, <1>9
    <2>. QED  BY <2>1 DEF Runs, NodesOf
  <1>11. ASSUME NEW k \in Numbers
         PROVE  (\E n \in NodesOf(s) : ticket'[n] = St(k)) <=> Holds(s, k) /\ St(k) \notin ts
    <2>1. St(k) # NoTicket
      BY TicketFacts
    <2>2. ASSUME NEW n \in NodesOf(s), ticket'[n] = St(k)
          PROVE  Holds(s, k) /\ St(k) \notin ts
      <3>1. Holds(s, k) /\ booked[k] = n
        BY <1>1, <1>8, <2>1, <2>2 DEF Holds, Show, Named
      <3>2. ASSUME St(k) \in ts PROVE FALSE
        <4>1. PICK m \in Stopped(s) : ticket[m] = St(k)
          BY <3>2
        <4>2. m = n
          BY <1>1, <1>4, <3>1, <4>1 DEF Show, Named
        <4>3. job[s].granted[n] = St(k)
          BY <1>8, <2>1, <2>2, <4>1, <4>2
        <4>. QED  BY <1>1, <4>1, <4>2, <4>3 DEF Show, Named
      <3>. QED  BY <3>1, <3>2
    <2>3. ASSUME NEW n \in NodesOf(s), job[s].granted[n] = St(k) PROVE ticket'[n] = St(k)
      BY <1>8, <1>9, <2>1, <2>3
    <2>4. ASSUME NEW n \in NodesOf(s), ticket[n] = St(k), St(k) \notin ts PROVE ticket'[n] = St(k)
      <3>1. n \notin Stopped(s) /\ n \in plan[s]
        BY <1>9, <2>1, <2>4
      <3>2. n \notin Granted(s)
        BY <1>4, <3>1
      <3>. QED  BY <1>8, <2>4, <3>1, <3>2
    <2>. QED  BY <2>2, <2>3, <2>4 DEF Holds
  <1>12. \A n \in NodesOf(s) : ticket'[n] # NoTicket =>
            ticket'[n] = ticket[n] \/ ticket'[n] = job[s].granted[n]
    BY <1>8
  <1>. HIDE DEF ts
  <1>13. plan' = [plan EXCEPT ![s] = plan'[s]] /\ shed' = [shed EXCEPT ![s] = shed'[s]]
         /\ box' = [box EXCEPT ![s] = box'[s]] /\ box'[s] \subseteq box[s]
         /\ plan'[s] \subseteq NodesOf(s) /\ shed'[s] \subseteq plan'[s]
    BY <1>1, <1>2, <1>3, <1>4 DEF Desk
  <1>14. Heard(s) /\ \A k : Coming(s, k)' <=> Coming(s, k)
    BY <1>2, Quiet
  <1>15. changes' \in 0 .. MaxChanges
    BY <1>1, <1>2 DEF Desk
  <1>. QED  BY <1>2, <1>6, <1>7, <1>10, <1>11, <1>12, <1>13, <1>14, <1>15, <1>16, Idling

LEMMA ShedTicks == ASSUME IInv, NEW s \in Shows, ShedTick(s) PROVE IInv'
  <1>1. Show(s) /\ Desk
    BY DEF IInv
  <1>2. PICK named \in [box[s] -> NodesOf(s) \cup {NoNode}] :
         LET down == {named[k] : k \in box[s]} \ {NoNode} IN
         /\ \A k \in box[s] : IF Holding(s, k) = {} THEN named[k] = NoNode
                                                   ELSE named[k] \in Holding(s, k)
         /\ ticket' = [n \in Nodes |-> IF n \in down THEN NoTicket ELSE ticket[n]]
         /\ shed' = [shed EXCEPT ![s] = @ \cup down]
         /\ Dropped(s, {ticket[n] : n \in down})
    BY DEF ShedTick
  <1>. DEFINE down == {named[k] : k \in box[s]} \ {NoNode}
              ts == {ticket[n] : n \in down}
  <1>3. /\ alive[s] /\ job[s] = Idle /\ box' = [box EXCEPT ![s] = {}]
        /\ UNCHANGED <<plan, rungs, job, report, replies, alive, served, booked, kind, loads, others, changes>>
    BY DEF ShedTick, life, desk
  <1>4. /\ ticket' = [n \in Nodes |-> IF n \in down THEN NoTicket ELSE ticket[n]]
        /\ shed' = [shed EXCEPT ![s] = @ \cup down] /\ Dropped(s, ts)
    BY <1>2
  <1>5. down \subseteq NodesOf(s) /\ \A n \in down : ticket[n] # NoTicket
    BY <1>2 DEF Holding
  <1>. HIDE DEF down
  <1>6. shed'[s] = shed[s] \cup down /\ job[s].ask = NoAsk /\ NodesOf(s) \subseteq Nodes
    BY <1>1, <1>3, <1>4, IdleFacts DEF Desk, NodesOf
  <1>7. \A n \in NodesOf(s) : ticket'[n] = IF n \in down THEN NoTicket ELSE ticket[n]
    BY <1>4, <1>6
  <1>8. /\ \A n \in NodesOf(s) : ticket[n] # NoTicket <=> n \in plan[s] \ shed[s]
        /\ \A n \in NodesOf(s) : job[s].granted[n] = NoTicket
        /\ plan[s] \subseteq NodesOf(s) /\ shed[s] \subseteq plan[s]
    BY <1>1, <1>3, <1>6, IdleFacts DEF Show, Runs, Shaped
  <1>9. ts \in SUBSET Tickets /\ \A k \in Numbers : St(k) \in ts => Holds(s, k)
    BY <1>1, <1>5, <1>6 DEF Desk, Holds
  <1>10. /\ ticket' \in [Nodes -> Tickets \cup {NoTicket}]
         /\ \A n \in Nodes \ NodesOf(s) : ticket'[n] = ticket[n]
    BY <1>1, <1>4, <1>5 DEF Desk
  <1>11. Runs(s)'
    <2>1. ASSUME NEW n \in NodesOf(s) PROVE ticket'[n] # NoTicket <=> n \in plan'[s] \ shed'[s]
      BY <1>3, <1>6, <1>7, <1>8
    <2>. QED  BY <2>1 DEF Runs, NodesOf
  <1>12. ASSUME NEW k \in Numbers
         PROVE  (\E n \in NodesOf(s) : ticket'[n] = St(k)) <=> Holds(s, k) /\ St(k) \notin ts
    <2>1. St(k) # NoTicket
      BY TicketFacts
    <2>2. ASSUME NEW n \in NodesOf(s), ticket'[n] = St(k)
          PROVE  Holds(s, k) /\ St(k) \notin ts
      <3>1. n \notin down /\ ticket[n] = St(k)
        BY <1>7, <2>1, <2>2
      <3>2. \A m \in NodesOf(s) : ticket[m] = St(k) => m = n
        BY <1>1, <3>1 DEF Show, Named
      <3>. QED  BY <1>5, <3>1, <3>2 DEF Holds
    <2>3. ASSUME NEW n \in NodesOf(s), ticket[n] = St(k), St(k) \notin ts PROVE ticket'[n] = St(k)
      BY <1>7, <2>3
    <2>. QED  BY <1>8, <2>1, <2>2, <2>3 DEF Holds
  <1>13. \A n \in NodesOf(s) : ticket'[n] # NoTicket =>
            ticket'[n] = ticket[n] \/ ticket'[n] = job[s].granted[n]
    BY <1>7
  <1>14. down \subseteq plan[s]
    BY <1>5, <1>8
  <1>. HIDE DEF ts
  <1>15. /\ plan' = [plan EXCEPT ![s] = plan'[s]] /\ shed' = [shed EXCEPT ![s] = shed'[s]]
         /\ box' = [box EXCEPT ![s] = box'[s]] /\ box'[s] \subseteq box[s]
         /\ plan'[s] \subseteq NodesOf(s) /\ shed'[s] \subseteq plan'[s]
         /\ job' = [job EXCEPT ![s] = Idle]
    BY <1>1, <1>3, <1>4, <1>6, <1>8, <1>14 DEF Desk
  <1>16. Heard(s) /\ \A k : Coming(s, k)' <=> Coming(s, k)
    BY <1>3, <1>6, Quiet
  <1>17. changes' \in 0 .. MaxChanges /\ rungs' \in [Nodes -> Nat]
    BY <1>1, <1>3 DEF Desk
  <1>. QED  BY <1>3, <1>4, <1>9, <1>10, <1>11, <1>12, <1>13, <1>15, <1>16, <1>17, Idling

-----------------------------------------------------------------------------
(* An answer, or none in time.                                               *)

\* The mixer thread without its ask.
LEMMA Onwards ==
  ASSUME IInv, NEW s \in Shows, job[s].ask # NoAsk, NEW j, j = Onward(job[s])
  PROVE  /\ j \in JobOf(s) /\ j.ask = NoAsk /\ j.asked = NoNode
         /\ job[s].asked \in job[s].todo /\ job[s].doing \in {"plan", "restore"}
         /\ \A n \in NodesOf(s) : j.granted[n] = job[s].granted[n]
         /\ job[s].doing = "plan" =>
              /\ j.doing = "plan" /\ j.next = job[s].next /\ j.again = job[s].again
              /\ j.todo = job[s].todo \ {job[s].asked}
         /\ job[s].doing = "restore" =>
              /\ j = Idle \/ (j.doing = "restore" /\ j.todo = job[s].todo \ {job[s].asked})
              /\ \A n \in NodesOf(s) : j.granted[n] = NoTicket
  <1>. DEFINE k == [job[s] EXCEPT !.todo = @ \ {job[s].asked}, !.ask = NoAsk, !.asked = NoNode]
  <1>1. job[s] \in JobOf(s) /\ Works(s)
    BY DEF IInv, Show, Shaped
  <1>2. job[s].doing # "nothing" /\ job[s].asked \in job[s].todo
    BY <1>1, IdleFacts DEF Works
  <1>3. job[s].doing \in {"plan", "restore"}
    BY <1>1, <1>2 DEF JobOf
  <1>4. k \in JobOf(s)
    BY <1>1 DEF JobOf
  <1>5. /\ k.doing = job[s].doing /\ k.next = job[s].next /\ k.again = job[s].again
        /\ k.todo = job[s].todo \ {job[s].asked} /\ k.granted = job[s].granted
        /\ k.ask = NoAsk /\ k.asked = NoNode
    BY <1>1 DEF JobOf
  <1>6. j = IF k.doing = "restore" /\ k.todo = {} THEN Idle ELSE k
    BY DEF Onward
  <1>. HIDE DEF k
  <1>7. job[s].doing = "restore" => \A n \in NodesOf(s) : job[s].granted[n] = NoTicket
    BY <1>1 DEF Works, Granted
  <1>8. NodesOf(s) \subseteq Nodes
    BY DEF NodesOf
  <1>. QED  BY <1>2, <1>3, <1>4, <1>5, <1>6, <1>7, <1>8, IdleFacts

\* A ticket in hand for the node asked about.
LEMMA Keeping ==
  ASSUME IInv, NEW s \in Shows, job[s].ask # NoAsk, NEW t \in Tickets, Keep(s, t), plan' = plan
  PROVE  /\ job' = [job EXCEPT ![s] = job'[s]] /\ shed' = [shed EXCEPT ![s] = shed'[s]]
         /\ ticket' \in [Nodes -> Tickets \cup {NoTicket}]
         /\ \A n \in Nodes \ NodesOf(s) : ticket'[n] = ticket[n]
         /\ job'[s] \in JobOf(s) /\ job'[s].ask = NoAsk /\ shed'[s] \subseteq plan[s]
         /\ Runs(s)' /\ Works(s)' /\ job[s].asked \in NodesOf(s)
         /\ \A n \in NodesOf(s) :
              /\ ticket[n] # NoTicket => ticket'[n] = ticket[n]
              /\ job[s].granted[n] # NoTicket => job'[s].granted[n] = job[s].granted[n]
              /\ \/ ticket'[n] = ticket[n] /\ job'[s].granted[n] = job[s].granted[n]
                 \/ /\ n = job[s].asked
                    /\ \/ ticket'[n] = ticket[n] /\ job'[s].granted[n] = t
                       \/ ticket'[n] = t /\ job'[s].granted[n] = job[s].granted[n]
              /\ n = job[s].asked => ticket'[n] = t \/ job'[s].granted[n] = t
  <1>. DEFINE n == job[s].asked
              j == Onward(job[s])
  <1>1. Show(s) /\ Desk
    BY DEF IInv
  <1>2. /\ j \in JobOf(s) /\ j.ask = NoAsk /\ j.asked = NoNode
        /\ n \in job[s].todo /\ job[s].doing \in {"plan", "restore"}
        /\ \A m \in NodesOf(s) : j.granted[m] = job[s].granted[m]
        /\ job[s].doing = "plan" =>
             /\ j.doing = "plan" /\ j.next = job[s].next /\ j.again = job[s].again
             /\ j.todo = job[s].todo \ {n}
        /\ job[s].doing = "restore" =>
             /\ j = Idle \/ (j.doing = "restore" /\ j.todo = job[s].todo \ {n})
             /\ \A m \in NodesOf(s) : j.granted[m] = NoTicket
    BY Onwards
  <1>. HIDE DEF j
  <1>3. n \in NodesOf(s) /\ NodesOf(s) \subseteq Nodes /\ t # NoTicket
    BY <1>1, <1>2, TicketFacts DEF Show, Shaped, JobOf, NodesOf
  <1>4. CASE job[s].doing = "plan"
    <2>. DEFINE i == [j EXCEPT !.granted[n] = t]
    <2>1. job' = [job EXCEPT ![s] = i] /\ ticket' = ticket /\ shed' = shed
      BY <1>1, <1>4 DEF Keep, j, Desk
    <2>2. i \in JobOf(s) /\ i.ask = NoAsk /\ i.asked = NoNode /\ i.doing = "plan" /\ i.next = job[s].next
          /\ i.again = job[s].again /\ i.todo = job[s].todo \ {n}
      BY <1>2, <1>3, <1>4 DEF JobOf
    <2>3. i.granted[n] = t /\ \A m \in NodesOf(s) \ {n} : i.granted[m] = job[s].granted[m]
      BY <1>2, <1>3 DEF JobOf
    <2>. HIDE DEF i
    <2>4. job'[s] = i /\ ticket' = ticket /\ shed' = shed
      BY <1>1, <2>1 DEF Desk
    <2>5. Granted(s)' = Granted(s) \cup {n} /\ n \notin Granted(s)
      BY <1>1, <1>2, <1>3, <1>4, <2>3, <2>4 DEF Granted, NodesOf, Show, Works
    <2>6. Works(s)'
      <3>1. /\ job[s].again \subseteq plan[s] \cap job[s].next
            /\ Granted(s) \cap job[s].todo = {}
            /\ Granted(s) \cup job[s].todo = (job[s].next \ plan[s]) \cup job[s].again
        BY <1>1, <1>4 DEF Show, Works
      <3>2. Granted(s)' \cap i.todo = {} /\ Granted(s)' \cup i.todo = Granted(s) \cup job[s].todo
        BY <1>2, <2>2, <2>5, <3>1
      <3>. QED  BY <2>2, <2>4, <3>1, <3>2 DEF Works
    <2>7. Runs(s)'
      BY <1>1, <2>4 DEF Show, Runs, NodesOf
    <2>8. job[s].granted[n] = NoTicket
      BY <1>3, <2>5 DEF Granted
    <2>. QED  BY <1>1, <1>3, <2>1, <2>2, <2>3, <2>4, <2>6, <2>7, <2>8 DEF Desk, Show, Shaped
  <1>5. CASE job[s].doing = "restore"
    <2>1. /\ job' = [job EXCEPT ![s] = j] /\ ticket' = [ticket EXCEPT ![n] = t]
          /\ shed' = [shed EXCEPT ![s] = @ \ {n}]
      BY <1>1, <1>5 DEF Keep, j, Desk
    <2>2. job'[s] = j /\ shed'[s] = shed[s] \ {n} /\ ticket'[n] = t
          /\ \A m \in NodesOf(s) \ {n} : ticket'[m] = ticket[m]
      BY <1>1, <1>3, <2>1 DEF Desk
    <2>3. job[s].todo \subseteq shed[s] /\ shed[s] \subseteq plan[s]
      BY <1>1, <1>5 DEF Show, Works, Shaped
    <2>4. ticket[n] = NoTicket
      BY <1>1, <1>2, <1>3, <2>3 DEF Show, Runs
    <2>5. Runs(s)'
      <3>1. ASSUME NEW m \in NodesOf(s) PROVE ticket'[m] # NoTicket <=> m \in plan'[s] \ shed'[s]
        BY <1>1, <1>2, <1>3, <2>2, <2>3 DEF Show, Runs
      <3>. QED  BY <3>1 DEF Runs, NodesOf
    <2>6. Works(s)'
      <3>1. Granted(s)' = {}
        BY <1>2, <1>5, <2>2 DEF Granted, NodesOf
      <3>. QED  BY <1>2, <1>5, <2>2, <2>3, <3>1, IdleFacts DEF Works
    <2>7. ticket' \in [Nodes -> Tickets \cup {NoTicket}]
      BY <1>1, <2>1 DEF Desk
    <2>8. \A m \in Nodes \ NodesOf(s) : ticket'[m] = ticket[m]
      BY <1>1, <1>3, <2>1 DEF Desk
    <2>9. /\ job' = [job EXCEPT ![s] = job'[s]] /\ shed' = [shed EXCEPT ![s] = shed'[s]]
      BY <2>1, <2>2
    <2>. QED  BY <1>2, <1>3, <2>2, <2>3, <2>4, <2>5, <2>6, <2>7, <2>8, <2>9
  <1>. QED  BY <1>2, <1>4, <1>5

LEMMA Taking ==
  ASSUME IInv, NEW s \in Shows, alive[s], job[s].ask # NoAsk, NEW t \in Tickets, Keep(s, t),
         Heard(s), counted' = [counted EXCEPT ![s] = counted'[s]],
         UNCHANGED <<plan, rungs, box, lines, alive, served, booked, kind, loads, others>>,
         changes' \in 0 .. MaxChanges, report' = [r \in Shows |-> report'[r]],
         IF t.in = Own THEN /\ s \in Impatient /\ counted'[s] = counted[s]
                            /\ \A k \in Numbers : Coming(s, k)' <=> Coming(s, k)
         ELSE /\ counted'[s] = counted[s] + 1
              /\ Coming(s, t.no) /\ booked[t.no] = job[s].asked
              /\ \A k \in Numbers : Coming(s, k)' <=> Coming(s, k) /\ k # t.no
  PROVE  IInv'
  <1>. DEFINE n == job[s].asked
  <1>1. Show(s) /\ Desk
    BY DEF IInv
  <1>2. /\ job' = [job EXCEPT ![s] = job'[s]] /\ shed' = [shed EXCEPT ![s] = shed'[s]]
        /\ ticket' \in [Nodes -> Tickets \cup {NoTicket}]
        /\ \A m \in Nodes \ NodesOf(s) : ticket'[m] = ticket[m]
        /\ job'[s] \in JobOf(s) /\ job'[s].ask = NoAsk /\ shed'[s] \subseteq plan[s]
        /\ Runs(s)' /\ Works(s)' /\ n \in NodesOf(s)
    BY Keeping
  <1>3. \A m \in NodesOf(s) :
              /\ ticket[m] # NoTicket => ticket'[m] = ticket[m]
              /\ job[s].granted[m] # NoTicket => job'[s].granted[m] = job[s].granted[m]
              /\ \/ ticket'[m] = ticket[m] /\ job'[s].granted[m] = job[s].granted[m]
                 \/ /\ m = n
                    /\ \/ ticket'[m] = ticket[m] /\ job'[s].granted[m] = t
                       \/ ticket'[m] = t /\ job'[s].granted[m] = job[s].granted[m]
              /\ m = n => ticket'[m] = t \/ job'[s].granted[m] = t
    BY Keeping
  <1>4. /\ t.no \in Numbers /\ t.in \in {Station, Own} /\ t # NoTicket
        /\ t.in = Station => t = St(t.no)
        /\ \A k : St(k) # NoTicket /\ (t = St(k) => t.in = Station /\ k = t.no)
        /\ Station # Own
    BY TicketFacts
  <1>5. ASSUME NEW k \in Numbers
        PROVE  Holds(s, k)' <=> Holds(s, k) \/ t = St(k)
    <2>1. Holds(s, k)' <=> \E m \in NodesOf(s) : ticket'[m] = St(k) \/ job'[s].granted[m] = St(k)
      BY DEF Holds, NodesOf
    <2>2. Holds(s, k) <=> \E m \in NodesOf(s) : ticket[m] = St(k) \/ job[s].granted[m] = St(k)
      BY DEF Holds
    <2>3. ASSUME NEW m \in NodesOf(s), ticket'[m] = St(k) \/ job'[s].granted[m] = St(k)
          PROVE  Holds(s, k) \/ t = St(k)
      BY <1>3, <2>2, <2>3
    <2>4. ASSUME NEW m \in NodesOf(s), ticket[m] = St(k) \/ job[s].granted[m] = St(k)
          PROVE  Holds(s, k)'
      BY <1>3, <1>4, <2>1, <2>4
    <2>5. t = St(k) => Holds(s, k)'
      BY <1>2, <1>3, <2>1
    <2>. QED  BY <2>1, <2>2, <2>3, <2>4, <2>5
  <1>6. \A k : Going(s, k)' <=> Going(s, k)
    BY DEF Going
  <1>7. \A k \in Numbers : t = St(k) => ~Holds(s, k) /\ ~Going(s, k) /\ Coming(s, k) /\ booked[k] = n
    BY <1>1, <1>4 DEF Show, Named
  <1>8. Shaped(s)'
    <2>1. replies'[s] \in Seq(Reply)
      BY DEF Heard
    <2>. QED  BY <1>1, <1>2, <2>1 DEF Show, Shaped, JobOf, NodesOf
  <1>9. Named(s)'
    <2>1. ASSUME NEW m \in NodesOf(s), NEW k \in Numbers
          PROVE  /\ ticket'[m] = St(k) \/ job'[s].granted[m] = St(k) => booked[k] = m
                 /\ ticket'[m] = St(k) => job'[s].granted[m] # St(k)
      <3>1. Holds(s, k) <=> \E i \in NodesOf(s) : ticket[i] = St(k) \/ job[s].granted[i] = St(k)
        BY DEF Holds
      <3>2. /\ ticket[m] = St(k) \/ job[s].granted[m] = St(k) => booked[k] = m
            /\ ticket[m] = St(k) => job[s].granted[m] # St(k)
        BY <1>1 DEF Show, Named
      <3>. QED  BY <1>3, <1>4, <1>7, <3>1, <3>2
    <2>2. ASSUME NEW k \in Numbers
          PROVE  /\ Coming(s, k)' \/ Going(s, k)' => booked[k] \in NodesOf(s)
                 /\ ~(Coming(s, k)' /\ Going(s, k)')
                 /\ Holds(s, k)' => ~Coming(s, k)' /\ ~Going(s, k)'
      <3>1. /\ Coming(s, k) \/ Going(s, k) => booked[k] \in NodesOf(s)
            /\ ~(Coming(s, k) /\ Going(s, k))
            /\ Holds(s, k) => ~Coming(s, k) /\ ~Going(s, k)
        BY <1>1 DEF Show, Named
      <3>2. Coming(s, k)' => Coming(s, k) /\ (t = St(k) => FALSE)
        BY <1>4
      <3>. QED  BY <1>5, <1>6, <1>7, <3>1, <3>2
    <2>. QED  BY <2>1, <2>2 DEF Named, NodesOf, St
  <1>10. Counts(s)'
    <2>. DEFINE K == {k \in Numbers : Holds(s, k)}
                L == {k \in Numbers : Holds(s, k)'}
    <2>1. counted[s] = Cardinality(K)
      BY <1>1 DEF Show, Counts
    <2>2. IsFiniteSet(K)
      BY Finite
    <2>3. CASE t.in = Own
      <3>1. K = L
        BY <1>4, <1>5, <2>3
      <3>. QED  BY <2>1, <2>3, <3>1 DEF Counts
    <2>4. CASE t.in # Own
      <3>1. L = K \cup {t.no} /\ t.no \notin K
        BY <1>4, <1>5, <1>7, <2>4
      <3>2. Cardinality(L) = Cardinality(K) + 1
        <4>. HIDE DEF K, L
        <4>. QED  BY <2>2, <3>1, FS_AddElement
      <3>. QED  BY <2>1, <2>4, <3>2 DEF Counts
    <2>. QED  BY <2>3, <2>4
  <1>11. Handled(s)
    BY <1>1, <1>2 DEF Handled, Desk, Heard
  <1>12. Passed(s)
    <2>1. ASSUME s \notin Impatient
          PROVE  /\ \A m \in NodesOf(s) : ticket'[m].in # Own /\ job'[s].granted[m].in # Own
                 /\ \A k \in Numbers : Holds(s, k) \/ Coming(s, k) \/ Going(s, k) =>
                      Holds(s, k)' \/ Coming(s, k)' \/ Going(s, k)'
      <3>1. \A m \in NodesOf(s) : ticket[m].in # Own /\ job[s].granted[m].in # Own
        BY <1>1, <2>1 DEF Show, Waits
      <3>2. t.in # Own
        BY <2>1
      <3>3. \A m \in NodesOf(s) : ticket'[m].in # Own /\ job'[s].granted[m].in # Own
        BY <1>3, <3>1, <3>2
      <3>4. ASSUME NEW k \in Numbers, Coming(s, k) PROVE Holds(s, k)' \/ Coming(s, k)'
        BY <1>4, <1>5, <3>2, <3>4
      <3>. QED  BY <1>5, <1>6, <3>3, <3>4
    <2>2. box'[s] \subseteq box[s] /\ LinesOnce(lines'[s]) /\ lines'[s] = lines[s]
      BY <1>1 DEF Show, Matched
    <2>. QED  BY <2>1, <2>2 DEF Passed, Heard
  <1>. QED  BY <1>2, <1>8, <1>9, <1>10, <1>11, <1>12, Handling

\* A node to bring back stays down; what it was granted, if it was, goes back.
LEMMA Skipping ==
  ASSUME IInv, NEW s \in Shows, alive[s], job[s].ask # NoAsk, job[s].doing = "restore",
         job' = [job EXCEPT ![s] = Onward(@)], Heard(s),
         UNCHANGED <<plan, rungs, ticket, shed, box, counted, alive, served, booked, kind, loads, others>>,
         changes' \in 0 .. MaxChanges, report' = [r \in Shows |-> report'[r]],
         lines' = [lines EXCEPT ![s] = lines'[s]],
         lines'[s] \in Seq(Line), LinesOnce(lines'[s]),
         \A a, n : Asked(lines'[s], a, n) <=> Asked(lines[s], a, n),
         \A k \in Numbers :
            /\ Coming(s, k)' \/ Going(s, k)' <=> Coming(s, k) \/ Going(s, k)
            /\ ~(Coming(s, k)' /\ Going(s, k)')
  PROVE  IInv'
  <1>1. Show(s) /\ Desk
    BY DEF IInv
  <1>. DEFINE j == Onward(job[s])
  <1>2. job'[s] = j
    BY <1>1 DEF Desk
  <1>3. /\ j \in JobOf(s) /\ j.ask = NoAsk /\ j.asked = NoNode
        /\ \A n \in NodesOf(s) : j.granted[n] = job[s].granted[n] /\ j.granted[n] = NoTicket
        /\ j = Idle \/ (j.doing = "restore" /\ j.todo = job[s].todo \ {job[s].asked})
    BY Onwards
  <1>. HIDE DEF j
  <1>4. \A k : Holds(s, k)' <=> Holds(s, k)
    BY <1>2, <1>3 DEF Holds, NodesOf
  <1>5. Shaped(s)'
    BY <1>1, <1>2, <1>3 DEF Show, Shaped, JobOf, NodesOf, Heard
  <1>6. Runs(s)'
    BY <1>1 DEF Show, Runs, NodesOf
  <1>7. Works(s)'
    <2>1. Granted(s)' = {}
      BY <1>2, <1>3 DEF Granted, NodesOf
    <2>2. job[s].todo \subseteq shed[s]
      BY <1>1 DEF Show, Works
    <2>. QED  BY <1>2, <1>3, <2>1, <2>2, IdleFacts DEF Works
  <1>8. Named(s)'
    <2>1. ASSUME NEW m \in NodesOf(s), NEW k \in Numbers
          PROVE  /\ ticket'[m] = St(k) \/ job'[s].granted[m] = St(k) => booked[k] = m
                 /\ ticket'[m] = St(k) => job'[s].granted[m] # St(k)
      BY <1>1, <1>2, <1>3 DEF Show, Named
    <2>2. ASSUME NEW k \in Numbers
          PROVE  /\ Coming(s, k)' \/ Going(s, k)' => booked[k] \in NodesOf(s)
                 /\ ~(Coming(s, k)' /\ Going(s, k)')
                 /\ Holds(s, k)' => ~Coming(s, k)' /\ ~Going(s, k)'
      BY <1>1, <1>4 DEF Show, Named
    <2>. QED  BY <2>1, <2>2 DEF Named, NodesOf, St
  <1>9. Counts(s)'
    BY <1>1, <1>4 DEF Show, Counts
  <1>10. Handled(s)
    BY <1>1, <1>2 DEF Handled, Desk, Heard
  <1>11. Passed(s)
    <2>1. s \notin Impatient =>
            \A m \in NodesOf(s) : ticket'[m].in # Own /\ job'[s].granted[m].in # Own
      BY <1>1, <1>2, <1>3 DEF Show, Waits
    <2>2. \A k \in Numbers : Holds(s, k) \/ Coming(s, k) \/ Going(s, k) =>
                      Holds(s, k)' \/ Coming(s, k)' \/ Going(s, k)'
      BY <1>4
    <2>. QED  BY <2>1, <2>2 DEF Passed, Heard
  <1>. QED  BY <1>2, <1>3, <1>5, <1>6, <1>7, <1>8, <1>9, <1>10, <1>11, Handling

\* The answer that is waited for is read.
LEMMA Hearing ==
  ASSUME IInv, NEW s \in Shows, alive[s], replies[s] # <<>>, Head(replies[s]).is = "answer",
         Head(replies[s]).ask = job[s].ask, replies' = [replies EXCEPT ![s] = Tail(@)],
         NEW k, k = Head(replies[s]).no
  PROVE  /\ Heard(s) /\ job[s].ask # NoAsk /\ k \in Numbers \cup {Refused}
         /\ k \in Numbers => Coming(s, k) /\ booked[k] = job[s].asked
         /\ \A l \in Numbers : Coming(s, l)' <=> Coming(s, l) /\ l # k
  <1>. DEFINE a == job[s].ask
              q == replies[s]
  <1>1. Show(s) /\ Desk
    BY DEF IInv
  <1>2. q \in Seq(Reply) /\ RepliesOnce(q) /\ replies'[s] = Tail(q)
    BY <1>1 DEF Show, Shaped, Matched, Desk
  <1>3. Head(q) \in Reply
    BY <1>2, ReplyRead
  <1>4. a \in Asks /\ k \in Numbers \cup {Refused} /\ Head(q) = AnswerLine(a, k)
    BY <1>3, ReplyKinds
  <1>5. /\ Tail(q) \in Seq(Reply) /\ RepliesOnce(Tail(q))
        /\ \A b, l : Answered(q, b, l) <=> Answered(Tail(q), b, l) \/ (b = a /\ l = k)
        /\ \A l : Warned(q, l) <=> Warned(Tail(q), l)
        /\ \A l : ~Answered(Tail(q), a, l)
        /\ \A b : k # Refused => ~Answered(Tail(q), b, k)
    <2>1. \A b, l : AnswerLine(a, k) = AnswerLine(b, l) <=> b = a /\ l = k
      BY Different
    <2>2. AnswerLine(a, k).is # "shed"
      BY Different
    <2>. QED  BY <1>2, <1>4, <2>1, <2>2, ReplyRead, ReplyReadOnce
  <1>6. NoAsk \notin Asks /\ Refused \notin Numbers
    BY StationAssumption, TicketFacts
  <1>7. Answered(q, a, k)
    BY <1>5
  <1>8. ASSUME s \notin Impatient
        PROVE  /\ \A b \in Asks, n \in Nodes : ~Asked(lines[s], b, n)
               /\ \A b \in Asks, l \in Numbers \cup {Refused} : ~Answered(Tail(q), b, l)
    <2>1. /\ \A b \in Asks, n \in Nodes : Asked(lines[s], b, n) => b = a
          /\ \A b \in Asks, l \in Numbers \cup {Refused} : Answered(q, b, l) => b = a
      BY <1>1, <1>8 DEF Show, Waits
    <2>2. \A n \in Nodes : ~Asked(lines[s], a, n)
      BY <1>1, <1>4, <1>7 DEF Show, Matched
    <2>. QED  BY <1>5, <2>1, <2>2
  <1>9. Heard(s)
    <2>1. replies' = [replies EXCEPT ![s] = replies'[s]]
      BY <1>2
    <2>. HIDE DEF q
    <2>. QED  BY <1>2, <1>5, <1>8, <2>1 DEF Heard, q
  <1>10. k \in Numbers => Coming(s, k) /\ booked[k] = job[s].asked
    BY <1>1, <1>4, <1>7 DEF Show, Matched, Coming
  <1>11. ASSUME NEW l \in Numbers PROVE Coming(s, l)' <=> Coming(s, l) /\ l # k
    <2>1. Coming(s, l)' <=> \E b \in Asks : Answered(Tail(q), b, l)
      BY <1>2 DEF Coming
    <2>2. Coming(s, l) <=> \E b \in Asks : Answered(q, b, l)
      BY DEF Coming
    <2>. QED  BY <1>5, <1>6, <2>1, <2>2
  <1>. QED  BY <1>4, <1>6, <1>9, <1>10, <1>11

\* Refused: a change is given up and what it was granted goes back, or a node
\* to bring back stays down.
LEMMA Turning ==
  ASSUME IInv, NEW s \in Shows, alive[s], job[s].ask # NoAsk, Turned(s), Heard(s),
         \A k \in Numbers : Coming(s, k)' <=> Coming(s, k),
         UNCHANGED <<plan, rungs, ticket, shed, box, report, alive, served, booked, kind, loads, others>>,
         changes' \in 0 .. MaxChanges
  PROVE  IInv'
  <1>1. Show(s) /\ Desk
    BY DEF IInv
  <1>2. CASE job[s].doing = "plan"
    <2>. DEFINE ts == {job[s].granted[m] : m \in Granted(s)}
    <2>1. Dropped(s, ts) /\ job' = [job EXCEPT ![s] = Idle]
      BY <1>2 DEF Turned
    <2>2. ts \in SUBSET Tickets
      BY <1>1 DEF Granted, NodesOf, Show, Shaped, JobOf
    <2>3. \A k \in Numbers : St(k) \in ts => Holds(s, k)
      BY DEF Granted, Holds
    <2>4. ASSUME NEW k \in Numbers
          PROVE  (\E n \in NodesOf(s) : ticket'[n] = St(k)) <=> Holds(s, k) /\ St(k) \notin ts
      <3>1. St(k) # NoTicket
        BY TicketFacts
      <3>2. ASSUME NEW n \in NodesOf(s), ticket[n] = St(k), St(k) \in ts PROVE FALSE
        <4>1. PICK m \in Granted(s) : job[s].granted[m] = St(k)
          BY <3>2
        <4>2. m \in NodesOf(s)
          BY DEF Granted
        <4>. QED  BY <1>1, <3>2, <4>1, <4>2 DEF Show, Named
      <3>3. ASSUME NEW n \in NodesOf(s), job[s].granted[n] = St(k) PROVE St(k) \in ts
        BY <3>1, <3>3 DEF Granted
      <3>. QED  BY <3>2, <3>3 DEF Holds
    <2>5. Runs(s)'
      BY <1>1 DEF Show, Runs, NodesOf
    <2>6. /\ plan' = [plan EXCEPT ![s] = plan'[s]] /\ shed' = [shed EXCEPT ![s] = shed'[s]]
          /\ box' = [box EXCEPT ![s] = box'[s]] /\ box'[s] \subseteq box[s]
          /\ plan'[s] \subseteq NodesOf(s) /\ shed'[s] \subseteq plan'[s]
          /\ ticket' \in [Nodes -> Tickets \cup {NoTicket}] /\ rungs' \in [Nodes -> Nat]
      BY <1>1 DEF Desk, Show, Shaped
    <2>. HIDE DEF ts
    <2>. QED  BY <2>1, <2>2, <2>3, <2>4, <2>5, <2>6, Idling
  <1>3. CASE job[s].doing # "plan"
    <2>1. /\ UNCHANGED <<counted, lines>> /\ job' = [job EXCEPT ![s] = Onward(@)]
      BY <1>3 DEF Turned, KeepTickets
    <2>2. job[s].doing = "restore"
      BY <1>3, Onwards
    <2>3. lines[s] \in Seq(Line) /\ LinesOnce(lines[s])
      BY <1>1 DEF Show, Shaped, Matched
    <2>4. \A k \in Numbers :
            /\ Coming(s, k)' \/ Going(s, k)' <=> Coming(s, k) \/ Going(s, k)
            /\ ~(Coming(s, k)' /\ Going(s, k)')
      BY <1>1, <2>1 DEF Show, Named, Going
    <2>5. lines' = [lines EXCEPT ![s] = lines'[s]] /\ report' = [r \in Shows |-> report'[r]]
      BY <1>1, <2>1 DEF Desk
    <2>. QED  BY <2>1, <2>2, <2>3, <2>4, <2>5, Skipping
  <1>. QED  BY <1>2, <1>3

LEMMA ReadsAnswer == ASSUME IInv, NEW s \in Shows, ReadAnswer(s) PROVE IInv'
  <1>. DEFINE l == Head(replies[s])
              k == l.no
  <1>1. \A t \in Shows : Show(t)
    BY DEF IInv
  <1>2. /\ alive[s] /\ replies[s] # <<>> /\ l.is = "answer"
        /\ replies' = [replies EXCEPT ![s] = Tail(@)]
        /\ UNCHANGED <<plan, rungs, box, alive, served, booked, kind, loads, others, changes>>
        /\ IF l.ask # job[s].ask THEN UNCHANGED <<ticket, shed, job, counted, report, lines>>
           ELSE IF k = Refused
                THEN Turned(s) /\ UNCHANGED <<ticket, shed, report>>
                ELSE /\ Keep(s, [no |-> k, in |-> Station])
                     /\ CountIn(s) /\ UNCHANGED lines
    BY DEF ReadAnswer, life, desk
  <1>3. replies[s] \in Seq(Reply) /\ RepliesOnce(replies[s]) /\ replies'[s] = Tail(replies[s])
    BY <1>1, <1>2 DEF Show, Shaped, Matched, IInv, Desk
  <1>4. changes' \in 0 .. MaxChanges /\ Desk
    BY <1>2 DEF IInv, Desk
  <1>5. CASE l.ask # job[s].ask
    <2>1. UNCHANGED <<plan, rungs, ticket, shed, job, box, counted, report, lines, alive, served, booked, kind, loads, others, changes>>
      BY <1>2, <1>5
    <2>2. l \in Reply
      BY <1>2, <1>3, ReplyRead
    <2>3. l.ask \in Asks /\ k \in Numbers \cup {Refused} /\ l = AnswerLine(l.ask, k)
      BY <1>2, <2>2, ReplyKinds
    <2>4. Answered(replies[s], l.ask, k)
      BY <1>2, <1>3, <2>3, ReplyRead
    <2>5. s \in Impatient
      BY <1>1, <1>2, <1>5, <2>3, <2>4 DEF Show, Waits
    <2>6. /\ replies'[s] \in Seq(Reply) /\ RepliesOnce(replies'[s])
          /\ \A a, m : Answered(replies'[s], a, m) => Answered(replies[s], a, m)
          /\ \A m : Warned(replies'[s], m) => Warned(replies[s], m)
      BY <1>2, <1>3, ReplyRead, ReplyReadOnce
    <2>7. Desk'
      BY <1>2, <2>1, NoneBooked DEF IInv, Desk
    <2>8. ASSUME NEW t \in Shows \ {s} PROVE Aside(t)
      BY <1>2, <2>1 DEF Aside, SameLines, BookAside, IInv, Desk
    <2>9. /\ \A m : Holds(s, m)' <=> Holds(s, m)
          /\ \A m : Coming(s, m)' => Coming(s, m)
          /\ \A m : Going(s, m)' <=> Going(s, m)
      BY <2>1, <2>6 DEF Holds, NodesOf, Coming, Going
    <2>10. Shaped(s)'
      BY <1>1, <2>1, <2>6 DEF Show, Shaped, JobOf, NodesOf
    <2>11. Runs(s)' /\ Works(s)'
      BY <1>1, <2>1 DEF Show, Runs, Works, Granted, NodesOf
    <2>12. Named(s)'
      BY <1>1, <2>1, <2>9 DEF Show, Named, NodesOf, St
    <2>13. Matched(s)'
      BY <1>1, <2>1, <2>6 DEF Show, Matched
    <2>14. Spared(s)'
      BY <1>1, <2>1, <2>6 DEF Show, Spared
    <2>15. Waits(s)'
      BY <2>5 DEF Waits
    <2>16. Counts(s)'
      BY <1>1, <2>1, <2>9 DEF Show, Counts
    <2>17. Lives(s)'
      BY <1>1, <1>2, <2>1 DEF Show, Lives
    <2>18. Show(s)'
      BY <2>10, <2>11, <2>12, <2>13, <2>14, <2>15, <2>16, <2>17 DEF Show
    <2>. QED  BY <1>1, <2>7, <2>8, <2>18, Frame DEF IInv
  <1>6. CASE l.ask = job[s].ask
    <2>1. /\ Heard(s) /\ job[s].ask # NoAsk /\ k \in Numbers \cup {Refused}
          /\ k \in Numbers => Coming(s, k) /\ booked[k] = job[s].asked
          /\ \A m \in Numbers : Coming(s, m)' <=> Coming(s, m) /\ m # k
      BY <1>2, <1>6, Hearing
    <2>2. Refused \notin Numbers
      BY TicketFacts
    <2>. HIDE DEF l, k
    <2>3. CASE k = Refused
      <3>1. Turned(s) /\ UNCHANGED <<ticket, shed, report>>
        BY <1>2, <1>6, <2>3
      <3>2. \A m \in Numbers : Coming(s, m)' <=> Coming(s, m)
        BY <2>1, <2>2, <2>3
      <3>. QED  BY <1>2, <1>4, <2>1, <3>1, <3>2, Turning
    <2>4. CASE k # Refused
      <3>1. Keep(s, St(k)) /\ CountIn(s) /\ lines' = lines
        BY <1>2, <1>6, <2>4 DEF St
      <3>2. k \in Numbers /\ St(k) \in Tickets /\ St(k).no = k /\ St(k).in # Own
        BY <2>1, <2>4, TicketFacts
      <3>3. /\ counted' = [counted EXCEPT ![s] = counted'[s]] /\ counted'[s] = counted[s] + 1
            /\ report' = [r \in Shows |-> report'[r]]
        BY <1>4, <3>1 DEF CountIn, Desk
      <3>. QED  BY <1>2, <1>4, <2>1, <3>1, <3>2, <3>3, Taking
    <2>. QED  BY <2>3, <2>4
  <1>. QED  BY <1>5, <1>6

LEMMA FailsToResume == ASSUME IInv, NEW s \in Shows, ResumeFails(s) PROVE IInv'
  <1>. DEFINE k == Head(replies[s]).no
  <1>1. Show(s) /\ Desk
    BY DEF IInv
  <1>2. /\ alive[s] /\ replies[s] # <<>> /\ Head(replies[s]).is = "answer"
        /\ Head(replies[s]).ask = job[s].ask /\ k # Refused /\ job[s].doing = "restore"
        /\ replies' = [replies EXCEPT ![s] = Tail(@)]
        /\ job' = [job EXCEPT ![s] = Onward(@)]
        /\ lines' = [lines EXCEPT ![s] = Append(@, ReleaseLine(k))]
        /\ report' = [report EXCEPT ![s] = IF counted[s] = 0 THEN Woken(@) ELSE @]
        /\ UNCHANGED <<plan, rungs, ticket, shed, box, counted, alive, served, booked, kind, loads, others, changes>>
    BY DEF ResumeFails, life, desk
  <1>3. /\ Heard(s) /\ job[s].ask # NoAsk /\ k \in Numbers \cup {Refused}
        /\ k \in Numbers => Coming(s, k) /\ booked[k] = job[s].asked
        /\ \A m \in Numbers : Coming(s, m)' <=> Coming(s, m) /\ m # k
    BY <1>2, Hearing
  <1>. HIDE DEF k
  <1>4. k \in Numbers /\ Coming(s, k) /\ ~Going(s, k)
    BY <1>1, <1>2, <1>3 DEF Show, Named
  <1>5. /\ lines[s] \in Seq(Line) /\ LinesOnce(lines[s]) /\ ReleaseLine(k) \in Line
        /\ lines'[s] = Append(lines[s], ReleaseLine(k))
    BY <1>1, <1>2, <1>4, Lines DEF Show, Shaped, Matched, Desk
  <1>6. /\ lines'[s] \in Seq(Line) /\ LinesOnce(lines'[s])
        /\ \A a, n : Asked(lines'[s], a, n) <=> Asked(lines[s], a, n)
        /\ \A m : Going(s, m)' <=> Going(s, m) \/ m = k
    <2>1. \A a, n : ~AsksFor(ReleaseLine(k), a, n)
      BY Different
    <2>2. \A m : ReleaseLine(k) = ReleaseLine(m) <=> m = k
      BY Different
    <2>3. \A m \in Numbers : ReleaseLine(k) = ReleaseLine(m) => ~Returned(lines[s], m)
      BY <1>4, <2>2 DEF Going
    <2>. QED  BY <1>5, <2>1, <2>2, <2>3, LineSent, LineSentOnce DEF Going
  <1>7. \A m \in Numbers :
            /\ Coming(s, m)' \/ Going(s, m)' <=> Coming(s, m) \/ Going(s, m)
            /\ ~(Coming(s, m)' /\ Going(s, m)')
    BY <1>1, <1>3, <1>4, <1>6 DEF Show, Named
  <1>8. /\ changes' \in 0 .. MaxChanges /\ report' = [r \in Shows |-> report'[r]]
        /\ lines' = [lines EXCEPT ![s] = lines'[s]]
    BY <1>1, <1>2 DEF Desk
  <1>. QED  BY <1>2, <1>3, <1>6, <1>7, <1>8, Skipping

LEMMA TimesOut == ASSUME IInv, NEW s \in Shows, TimeOut(s) PROVE IInv'
  <1>1. Show(s) /\ Desk
    BY DEF IInv
  <1>2. /\ alive[s] /\ s \in Impatient /\ job[s].ask # NoAsk
        /\ UNCHANGED <<plan, rungs, box, report, replies, alive, served, booked, kind, loads, others>>
    BY DEF TimeOut, life, desk
  <1>3. changes' \in 0 .. MaxChanges
    BY <1>1, StationAssumption DEF TimeOut, Desk
  <1>4. Heard(s) /\ \A k : Coming(s, k)' <=> Coming(s, k)
    BY <1>2, Quiet
  <1>5. report' = [r \in Shows |-> report'[r]] /\ counted = [counted EXCEPT ![s] = counted[s]]
    BY <1>1, <1>2 DEF Desk
  <1>6. ASSUME NEW k \in Numbers, Keep(s, [no |-> k, in |-> Own]), KeepTickets
        PROVE  IInv'
    <2>. DEFINE t == [no |-> k, in |-> Own]
    <2>1. t \in Tickets /\ t.in = Own
      BY DEF Tickets
    <2>2. Keep(s, t) /\ lines' = lines /\ counted' = counted
      BY <1>6 DEF KeepTickets
    <2>. HIDE DEF t
    <2>. QED  BY <1>2, <1>3, <1>4, <1>5, <2>1, <2>2, Taking
  <1>7. ASSUME Turned(s), UNCHANGED <<ticket, shed>>
        PROVE  IInv'
    BY <1>2, <1>3, <1>4, <1>7, Turning
  <1>. QED  BY <1>6, <1>7 DEF TimeOut

-----------------------------------------------------------------------------
(* The invariant.                                                            *)

LEMMA InitInv == Init => IInv
  <1>. SUFFICES ASSUME Init PROVE IInv
    OBVIOUS
  <1>1. NoNode \notin Nodes
    BY StationAssumption
  <1>2. ASSUME NEW s \in Shows
        PROVE  /\ plan[s] = {} /\ shed[s] = {} /\ job[s] = Idle /\ box[s] = {} /\ counted[s] = 0
               /\ lines[s] = <<>> /\ replies[s] = <<>> /\ (alive[s] => served[s])
               /\ \A n \in NodesOf(s) : ticket[n] = NoTicket /\ job[s].granted[n] = NoTicket
               /\ \A k : ~Holds(s, k)
               /\ \A k \in Numbers : booked[k] \notin NodesOf(s)
    <2>1. \A n \in NodesOf(s) : ticket[n] = NoTicket /\ job[s].granted[n] = NoTicket
      BY IdleFacts DEF Init, NodesOf
    <2>. QED  BY <1>1, <2>1, TicketFacts DEF Init, NodesOf, Holds
  <1>3. Desk
    <2>1. BookedNumbers = {}
      BY DEF Init, BookedNumbers
    <2>2. Units(booked, {}) = {}
      BY DEF Units
    <2>3. Committed = 0
      BY <2>1, <2>2, CommittedUnits, FS_EmptySet
    <2>. QED  BY <2>3, StationAssumption DEF Desk, Init, NoRungs
  <1>4. ASSUME NEW s \in Shows PROVE Show(s)
    <2>1. /\ \A k : ~Coming(s, k) /\ ~Going(s, k)
          /\ Granted(s) = {}
      BY <1>2, EmptyLink DEF Coming, Going, Granted
    <2>2. Shaped(s)
      BY <1>2, EmptyLink, IdleFacts DEF Shaped
    <2>3. Runs(s) /\ Works(s)
      BY <1>2, IdleFacts DEF Runs, Works
    <2>4. Named(s)
      BY <1>2, <2>1, TicketFacts DEF Named
    <2>5. Matched(s) /\ Spared(s)
      BY <1>2, EmptyLink DEF Matched, Spared
    <2>6. Waits(s)
      BY <1>2, EmptyLink, TicketFacts DEF Waits
    <2>7. Counts(s)
      <3>1. {k \in Numbers : Holds(s, k)} = {}
        BY <1>2
      <3>. QED  BY <1>2, <3>1, FS_EmptySet DEF Counts
    <2>8. Lives(s)
      BY <1>2 DEF Lives
    <2>. QED  BY <2>2, <2>3, <2>4, <2>5, <2>6, <2>7, <2>8 DEF Show
  <1>. QED  BY <1>3, <1>4 DEF IInv

LEMMA NextInv == IInv /\ [Next]_vars => IInv'
  <1>. SUFFICES ASSUME IInv, [Next]_vars PROVE IInv'
    OBVIOUS
  <1>1. CASE UNCHANGED vars
    <2>1. /\ UNCHANGED <<show, counted, link, life, desk>>
          /\ report' = report /\ others' = others /\ changes' = changes
      BY <1>1 DEF vars, teller
    <2>2. report = [s \in Shows |-> report[s]] /\ others \in Bursts /\ changes \in 0 .. MaxChanges
      BY DEF IInv, Desk
    <2>. QED  BY <2>1, <2>2, Unread
  <1>2. CASE Burst
    BY <1>2, Bursting
  <1>3. ASSUME NEW s \in Shows, Replan(s) \/ Mixer(s) \/ TimeOut(s) \/ LinkIn(s) \/ ResumeFails(s)
        PROVE  IInv'
    BY <1>3, Replans, Asking, Applies, ShedTicks, RestoreTicks, TimesOut, ReadsAnswer,
       ReadsShed, FailsToResume DEF Mixer, LinkIn
  <1>4. ASSUME NEW s \in Shows, Reporter(s) \/ Served(s) \/ Warn(s) \/ Die(s) \/ Start(s)
        PROVE  IInv'
    BY <1>4, Looks, Wakes, Reads, Admits, Releasing, Loads, Closes, Warns, Dies, Starts
       DEF Reporter, Served
  <1>. QED  BY <1>1, <1>2, <1>3, <1>4 DEF Next

\* The two books and the link agree on every ticket, in every reachable state.
THEOREM TicketInvariant == Spec => []IInv
  BY InitInv, NextInv, PTL DEF Spec

-----------------------------------------------------------------------------
(* What the invariant says of the properties.                                *)

\* The station's tickets a show has are counted by their numbers.
LEMMA HasCount ==
  ASSUME NEW s \in Shows, Desk, Show(s)
  PROVE  counted[s] = Cardinality({t \in Has(s) : t.in = Station})
  <1>. DEFINE K == {k \in Numbers : Holds(s, k)}
              T == {t \in Has(s) : t.in = Station}
              f == [k \in K |-> St(k)]
  <1>1. \A k \in Numbers : St(k) \in T <=> Holds(s, k)
    BY HasHolds, TicketFacts DEF Show
  <1>2. ASSUME NEW t \in T PROVE t.no \in Numbers /\ t = St(t.no)
    <2>1. Has(s) \subseteq Tickets
      BY DEF Has, Granted, NodesOf, Show, Shaped, JobOf, Desk
    <2>. QED  BY <2>1, TicketFacts
  <1>3. f \in Bijection(K, T)
    <2>1. f \in [K -> T]
      BY <1>1
    <2>2. \A k, l \in K : f[k] = f[l] => k = l
      BY TicketFacts
    <2>3. \A t \in T : \E k \in K : f[k] = t
      BY <1>1, <1>2
    <2>. HIDE DEF T, f
    <2>. QED  BY <2>1, <2>2, <2>3 DEF Bijection, Injection, Surjection, IsInjective
  <1>4. IsFiniteSet(K)
    BY Finite
  <1>5. Cardinality(K) = Cardinality(T)
    <2>. HIDE DEF K, T, f
    <2>. QED  BY <1>3, <1>4, FS_Bijection DEF ExistsBijection
  <1>. QED  BY <1>5 DEF Show, Counts

\* What a show has is of the right kind, runs when it is planned and not shed,
\* and is what its reporter counts: TypeOK, for every value of the constants.
THEOREM TicketTypes == Spec => []TypeOK
  <1>1. IInv => TypeOK
    <2>. SUFFICES ASSUME IInv PROVE TypeOK
      OBVIOUS
    <2>1. ASSUME NEW s \in Shows
          PROVE  /\ plan[s] \subseteq NodesOf(s) /\ shed[s] \subseteq plan[s]
                 /\ job[s] \in JobOf(s) /\ box[s] \subseteq Numbers
                 /\ \A n \in NodesOf(s) : ticket[n] # NoTicket <=> n \in plan[s] \ shed[s]
                 /\ ~alive[s] => plan[s] = {} /\ job[s] = Idle
      BY DEF IInv, Show, Shaped, Runs, Lives
    <2>2. \A s \in Shows : counted[s] = Cardinality({t \in Has(s) : t.in = Station})
      BY HasCount DEF IInv
    <2>3. counted = [s \in Shows |-> Cardinality({t \in Has(s) : t.in = Station})]
      BY <2>2 DEF IInv, Desk
    <2>. QED  BY <2>1, <2>3 DEF TypeOK, IInv, Desk
  <1>. QED  BY <1>1, TicketInvariant, PTL

\* A ticket of the station that a running show has is in the station's book,
\* under the same node.
THEOREM HeldStaysBooked == Spec => []HeldIsBooked
  <1>1. IInv => HeldIsBooked
    <2>. SUFFICES ASSUME IInv, NEW s \in Shows, NEW n \in NodesOf(s)
                  PROVE  /\ ticket[n] # NoTicket /\ ticket[n].in = Station => booked[ticket[n].no] = n
                         /\ n \in Granted(s) /\ job[s].granted[n].in = Station
                              => booked[job[s].granted[n].no] = n
      BY DEF HeldIsBooked
    <2>1. ticket[n] \in Tickets \cup {NoTicket} /\ job[s].granted[n] \in Tickets \cup {NoTicket}
      BY DEF NodesOf, IInv, Desk, Show, Shaped, JobOf
    <2>2. \A k \in Numbers : ticket[n] = St(k) \/ job[s].granted[n] = St(k) => booked[k] = n
      BY DEF IInv, Show, Named
    <2>. QED  BY <2>1, <2>2, TicketFacts
  <1>. QED  BY <1>1, TicketInvariant, PTL

\* What is booked for a running show that is answered in time is in its hands
\* or on the link, one way or the other.
THEOREM NothingStaysBooked == Spec => []NothingLeftBooked
  <1>1. IInv => NothingLeftBooked
    <2>. SUFFICES ASSUME IInv, NEW s \in Shows \ Impatient, alive[s], NEW k \in BookedFor(s)
                  PROVE  \/ [no |-> k, in |-> Station] \in Has(s)
                         \/ \E i \in DOMAIN replies[s] :
                              replies[s][i].is = "answer" /\ replies[s][i].no = k
                         \/ \E i \in DOMAIN lines[s] :
                              lines[s][i].is = "release" /\ lines[s][i].no = k
      BY DEF NothingLeftBooked
    <2>1. k \in Numbers /\ booked[k] \in NodesOf(s)
      BY DEF BookedFor, BookedNumbers, NodesOf, IInv, Desk
    <2>2. Holds(s, k) \/ Coming(s, k) \/ Going(s, k)
      BY <2>1 DEF IInv, Show, Waits
    <2>3. DOMAIN lines[s] = 1 .. Len(lines[s]) /\ DOMAIN replies[s] = 1 .. Len(replies[s])
      BY DEF IInv, Show, Shaped
    <2>4. Holds(s, k) => [no |-> k, in |-> Station] \in Has(s)
      BY <2>1, HasHolds DEF IInv, Show, St
    <2>5. Coming(s, k) => \E i \in DOMAIN replies[s] :
                              replies[s][i].is = "answer" /\ replies[s][i].no = k
      BY <2>3, Different DEF Coming, Answered
    <2>6. Going(s, k) => \E i \in DOMAIN lines[s] :
                              lines[s][i].is = "release" /\ lines[s][i].no = k
      BY <2>3, Different DEF Going, Returned
    <2>. QED  BY <2>2, <2>4, <2>5, <2>6
  <1>. QED  BY <1>1, TicketInvariant, PTL

LEMMA TakenFinite ==
  ASSUME NEW N \in SUBSET Nodes
  PROVE  Taken(N) \in Nat
  <1>. DEFINE b == [n \in N |-> n]
  <1>1. \A n \in N : b[n] = n
    OBVIOUS
  <1>2. Cardinality(Units(b, N)) \in Nat
    BY <1>1, Finite, UnitsFinite
  <1>3. Taken(N) = Cardinality(Units(b, N))
    BY <1>1 DEF Taken, Units
  <1>. QED  BY <1>2, <1>3

\* What runs in every show together on the station's word fits the machine.
THEOREM BudgetKept == Spec => []OneBudget
  <1>1. IInv => OneBudget
    <2>. SUFFICES ASSUME IInv PROVE OneBudget
      OBVIOUS
    <2>. DEFINE N == {n \in Running : ticket[n].in = Station /\ alive[ShowOf[n]]}
                h == [n \in N |-> ticket[n].no]
    <2>1. ASSUME NEW n \in N
          PROVE  n \in Nodes /\ h[n] \in Numbers /\ booked[h[n]] = n /\ h[n] \in BookedNumbers
      <3>1. n \in Nodes /\ ShowOf[n] \in Shows /\ n \in NodesOf(ShowOf[n]) /\ n # NoNode
        BY StationAssumption DEF Running, NodesOf
      <3>2. ticket[n] \in Tickets /\ ticket[n].in = Station
        BY DEF Running, IInv, Desk
      <3>3. ticket[n].no \in Numbers /\ ticket[n] = St(ticket[n].no)
        BY <3>2, TicketFacts
      <3>4. booked[ticket[n].no] = n
        BY <3>1, <3>3 DEF IInv, Show, Named
      <3>. QED  BY <3>1, <3>3, <3>4 DEF BookedNumbers
    <2>2. N \in SUBSET Nodes /\ h \in [N -> BookedNumbers] /\ \A n \in N : booked[h[n]] = n
      BY <2>1
    <2>. HIDE DEF N, h
    <2>3. Taken(N) <= Cardinality(Units(booked, BookedNumbers))
      BY <2>2, BookedUnits, UnitsCarried DEF IInv
    <2>4. Taken(N) \in Nat /\ Committed \in Nat /\ Room \in Nat /\ Committed <= Room
      BY <2>2, TakenFinite, BookedUnits, StationAssumption DEF IInv, Desk
    <2>5. Taken(N) <= Room
      BY <2>3, <2>4, CommittedUnits
    <2>. QED  BY <2>5 DEF OneBudget, N
  <1>. QED  BY <1>1, TicketInvariant, PTL

\* Nothing but a step of shedding takes a node down.
LEMMA OnlyShedding ==
  ASSUME IInv, [Next]_vars, NEW t \in Shows
  PROVE  shed'[t] \subseteq shed[t] \/ ShedTick(t)
  <1>1. shed = [s \in Shows |-> shed[s]]
    BY DEF IInv, Desk
  <1>2. CASE UNCHANGED vars \/ Burst
    BY <1>2 DEF vars, show, Burst
  <1>3. ASSUME NEW s \in Shows, Replan(s) \/ Ask(s) \/ RestoreTick(s) \/ ReadShed(s) \/ ResumeFails(s)
                                  \/ Reporter(s) \/ Served(s) \/ Warn(s) \/ Start(s)
        PROVE  shed' = shed
    BY <1>3 DEF Replan, Ask, RestoreTick, ReadShed, ResumeFails, Reporter, Look, Wake, Read,
                Served, Admit, Release, Load, Gone, Warn, Start, show
  <1>4. ASSUME NEW s \in Shows, Apply(s) \/ Die(s)
        PROVE  shed'[t] \subseteq shed[t]
    BY <1>1, <1>4 DEF Apply, Die
  <1>5. ASSUME NEW s \in Shows, ReadAnswer(s) \/ TimeOut(s)
        PROVE  shed'[t] \subseteq shed[t]
    <2>1. shed' = shed \/ \E n : shed' = [shed EXCEPT ![s] = @ \ {n}]
      BY <1>5, Zenon DEF ReadAnswer, TimeOut, Keep
    <2>. QED  BY <1>1, <2>1
  <1>6. ASSUME NEW s \in Shows, ShedTick(s), s # t
        PROVE  shed'[t] = shed[t]
    BY <1>1, <1>6 DEF ShedTick
  <1>. QED  BY <1>2, <1>3, <1>4, <1>5, <1>6 DEF Next, Mixer, LinkIn

\* In a show that is answered in time, what a shed step stops runs on a ticket
\* the station granted for a lower rung: TopRungKept, for every value of the
\* constants.
THEOREM TopRungsKept == Spec => TopRungKept
  <1>1. ASSUME IInv, [Next]_vars, NEW s \in Shows \ Impatient, NEW n \in shed'[s] \ shed[s]
        PROVE  ticket[n].in = Station /\ kind[ticket[n].no] > 0
    <2>1. ShedTick(s)
      BY <1>1, OnlyShedding
    <2>2. PICK named \in [box[s] -> NodesOf(s) \cup {NoNode}] :
             LET down == {named[k] : k \in box[s]} \ {NoNode} IN
             /\ \A k \in box[s] : IF Holding(s, k) = {} THEN named[k] = NoNode
                                                       ELSE named[k] \in Holding(s, k)
             /\ shed' = [shed EXCEPT ![s] = @ \cup down]
      BY <2>1 DEF ShedTick
    <2>3. shed'[s] = shed[s] \cup ({named[k] : k \in box[s]} \ {NoNode})
      BY <1>1, <2>2 DEF IInv, Desk
    <2>4. PICK k \in box[s] : named[k] = n /\ n # NoNode
      BY <1>1, <2>3
    <2>5. n \in NodesOf(s) /\ ticket[n] # NoTicket /\ ticket[n].no = k /\ n \in Nodes
      BY <2>2, <2>4 DEF Holding, NodesOf
    <2>6. ticket[n] \in Tickets /\ ticket[n].in # Own
      BY <1>1, <2>5 DEF IInv, Desk, Show, Waits
    <2>7. ticket[n] = St(k) /\ k \in Numbers
      BY <2>5, <2>6, TicketFacts DEF Tickets
    <2>8. booked[k] = n /\ (booked[k] = NoNode \/ kind[k] > 0)
      BY <1>1, <2>4, <2>5, <2>7 DEF IInv, Show, Named, Spared
    <2>. QED  BY <2>4, <2>7, <2>8, TicketFacts
  <1>2. IInv /\ [Next]_vars =>
          [\A s \in Shows \ Impatient : \A n \in shed'[s] \ shed[s] :
              ticket[n].in = Station /\ kind[ticket[n].no] > 0]_vars
    BY <1>1
  <1>. QED  BY <1>2, TicketInvariant, PTL DEF Spec, TopRungKept
=============================================================================
