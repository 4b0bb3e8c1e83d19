-------------------------- MODULE FrameFeedProofs --------------------------
(***************************************************************************)
(* The counting properties of the ring, and that the ring implements       *)
(* FrameFeed, for every number of places, leases and slots.                *)
(*                                                                         *)
(* FrameRingProofs knows the numbers and the bytes; what is added here is  *)
(* the books: which bits a lease word has (Booked), how many (Allowed),    *)
(* what the counters count (CountsCoverFrames), and that a reader never    *)
(* has one frame in two slots (HeldApart).                                 *)
(***************************************************************************)
EXTENDS FrameRingProofs, FiniteSetTheorems

HeldSlots(p) == {s \in Slots : held[p][s] # 0}
Trying(p) == IF rpc[p] \in {"verify", "undo"} THEN {want[p].slot} ELSE {}

\* A lease word is the held frames and the slot being tried; a place given
\* out next starts with none.
Booked ==
    \A p \in Places :
        /\ place[p] = "held" => leases[p] = HeldSlots(p) \cup Trying(p)
        /\ place[p] = "free" => leases[p] = {}

\* The count precedes the bit, and only the reader itself sets bits.
Allowed ==
    \A p \in Places : place[p] = "held" =>
        /\ Cardinality(leases[p]) <= LeasesPerReader
        /\ rpc[p] \in {"scan", "lease"} => Cardinality(leases[p]) < LeasesPerReader

\* Every frame a reader holds is another one.
HeldApart ==
    \A p \in Places : \A s, t \in Slots :
        held[p][s] # 0 /\ held[p][s] = held[p][t] => s = t

\* Nothing was counted before the first frame.
CountsStart ==
    \A p \in Places : place[p] = "held" =>
        /\ last[p] = 0 => first[p] = 0 /\ delivered[p] = 0 /\ skipped[p] = 0
        /\ last[p] # 0 => first[p] # 0

Books == Booked /\ Allowed /\ HeldApart /\ CountsStart /\ CountsCoverFrames

LEMMA LeasesFinite ==
    ASSUME TypeOK
    PROVE  \A p \in Places : /\ IsFiniteSet(leases[p])
                             /\ Cardinality(leases[p]) \in Nat
                             /\ \A S \in SUBSET leases[p] :
                                   IsFiniteSet(S) /\ Cardinality(S) <= Cardinality(leases[p])
<1> SUFFICES ASSUME NEW p \in Places
             PROVE  /\ IsFiniteSet(leases[p])
                    /\ Cardinality(leases[p]) \in Nat
                    /\ \A S \in SUBSET leases[p] :
                          IsFiniteSet(S) /\ Cardinality(S) <= Cardinality(leases[p])
  OBVIOUS
<1>1. IsFiniteSet(Slots)
  BY SlotsNat, FS_Interval DEF Slots
<1>2. IsFiniteSet(leases[p])
  BY <1>1, FS_Subset DEF TypeOK
<1> QED
  BY <1>2, FS_Subset, FS_CardinalityType

-----------------------------------------------------------------------------
(* The books are kept by every step.                                         *)

LEMMA InitBooks == Init => Books
<1> SUFFICES ASSUME Init PROVE Books
  OBVIOUS
<1>1. Booked /\ HeldApart /\ CountsStart /\ CountsCoverFrames
  BY DEF Init, Booked, HeldSlots, Trying, HeldApart, CountsStart, CountsCoverFrames
<1>2. Allowed
  BY DEF Init, Allowed
<1> QED
  BY <1>1, <1>2 DEF Books

\* The owner's steps touch no lease word, no counter and no reader.
LEMMA OwnerBooks == ASSUME Books, UNCHANGED <<table, reader>> PROVE Books'
BY DEF Books, Booked, Allowed, HeldApart, CountsStart, CountsCoverFrames, HeldSlots, Trying,
       table, reader, call

\* Steps of a reader that move it on and leave its leases alone.
LEMMA WalkBooks ==
    ASSUME IInv, Books, NEW p \in Places,
           \/ LoadLatest(p) \/ LoadNext(p) \/ ScanSlot(p) \/ EndScan(p) \/ Mistaken(p)
    PROVE  Books'
<1>1. UNCHANGED <<leases, place, held, delivered, skipped, last, first>>
  BY DEF LoadLatest, LoadNext, ScanSlot, EndScan, Mistaken, table
<1>2. HeldApart' /\ CountsStart' /\ CountsCoverFrames'
  BY <1>1 DEF Books, HeldApart, CountsStart, CountsCoverFrames
<1>3. Booked'
  <2>1. \A q \in Places : Trying(q)' = Trying(q)
    BY DEF LoadLatest, LoadNext, ScanSlot, EndScan, Mistaken, Trying, Goto, Top, IInv, TypeOK
  <2> QED
    BY <1>1, <2>1 DEF Books, Booked, HeldSlots
<1>4. Allowed'
  BY <1>1 DEF Books, Allowed, LoadLatest, LoadNext, ScanSlot, EndScan, Mistaken, Goto, IInv, TypeOK
<1> QED
  BY <1>2, <1>3, <1>4 DEF Books

LEMMA CountLeasesBooks == ASSUME IInv, Books, NEW p \in Places, CountLeases(p) PROVE Books'
<1>1. UNCHANGED <<leases, place, held, delivered, skipped, last, first, want>>
  BY DEF CountLeases, table
<1>2. HeldApart' /\ CountsStart' /\ CountsCoverFrames'
  BY <1>1 DEF Books, HeldApart, CountsStart, CountsCoverFrames
<1>3. Booked'
  <2>1. \A q \in Places : Trying(q)' = Trying(q)
    BY <1>1 DEF CountLeases, Trying, Goto, IInv, TypeOK
  <2> QED
    BY <1>1, <2>1 DEF Books, Booked, HeldSlots
<1>4. Allowed'
  <2>1. Cardinality(leases[p]) \in Nat
    BY LeasesFinite DEF IInv
  <2> QED
    BY <1>1, <2>1, RingAssumption DEF Books, Allowed, CountLeases, Goto, IInv, TypeOK
<1> QED
  BY <1>2, <1>3, <1>4 DEF Books

LEMMA SetLeaseBooks == ASSUME IInv, Books, NEW p \in Places, SetLease(p) PROVE Books'
<1>1. UNCHANGED <<place, held, delivered, skipped, last, first, want>>
  BY DEF SetLease
<1>2. HeldApart' /\ CountsStart' /\ CountsCoverFrames'
  BY <1>1 DEF Books, HeldApart, CountsStart, CountsCoverFrames
<1>3. Booked'
  <2>1. leases'[p] = leases[p] \cup {want[p].slot} /\ Trying(p) = {} /\ Trying(p)' = {want[p].slot}
    BY <1>1 DEF SetLease, Goto, Trying, IInv, TypeOK
  <2>2. \A q \in Places : q # p => leases'[q] = leases[q] /\ Trying(q)' = Trying(q)
    BY <1>1 DEF SetLease, Goto, Trying, IInv, TypeOK
  <2>3. place[p] = "held"
    BY DEF SetLease
  <2> QED
    BY <1>1, <2>1, <2>2, <2>3 DEF Books, Booked, HeldSlots
<1>4. Allowed'
  <2>1. Cardinality(leases[p]) < LeasesPerReader /\ Cardinality(leases[p]) \in Nat
    BY LeasesFinite DEF Books, Allowed, SetLease, IInv
  <2>2. Cardinality(leases[p] \cup {want[p].slot}) <= LeasesPerReader
    <3>1. IsFiniteSet(leases[p])
      BY LeasesFinite DEF IInv
    <3>2. Cardinality(leases[p] \cup {want[p].slot}) <= Cardinality(leases[p]) + 1
      BY <2>1, <3>1, FS_AddElement
    <3>3. Cardinality(leases[p] \cup {want[p].slot}) \in Nat
      BY <3>1, FS_AddElement, FS_CardinalityType
    <3> QED
      BY <2>1, <3>2, <3>3, RingAssumption
  <2> QED
    BY <1>1, <2>2 DEF Books, Allowed, SetLease, Goto, IInv, TypeOK
<1> QED
  BY <1>2, <1>3, <1>4 DEF Books

LEMMA TakeFrameBooks == ASSUME IInv, Books, NEW p \in Places, TakeFrame(p) PROVE Books'
<1> DEFINE w == want[p]
<1>1. /\ place[p] = "held" /\ rpc[p] = "verify"
      /\ w.seq > last[p] /\ last[p] \in Nat /\ w.seq \in Nat /\ w.slot \in Slots
      /\ held[p][w.slot] = 0
  BY DEF IInv, TypeOK, Stamp, WantsNewer, Wants, TakeFrame
<1>2. UNCHANGED <<leases, place, want>>
  BY DEF TakeFrame
<1>3. /\ held'[p][w.slot] = w.seq
      /\ \A s \in Slots \ {w.slot} : held'[p][s] = held[p][s]
      /\ \A q \in Places \ {p} : held'[q] = held[q]
  BY <1>1 DEF TakeFrame, IInv, TypeOK
<1>4. Booked'
  <2>1. HeldSlots(p)' = HeldSlots(p) \cup {w.slot}
    BY <1>1, <1>3 DEF HeldSlots
  <2>2. Trying(p) = {w.slot} /\ Trying(p)' = {}
    BY <1>1 DEF TakeFrame, Trying, Goto, IInv, TypeOK
  <2>3. \A q \in Places : q # p => HeldSlots(q)' = HeldSlots(q) /\ Trying(q)' = Trying(q)
    BY <1>2, <1>3 DEF TakeFrame, Trying, HeldSlots, Goto, IInv, TypeOK
  <2> QED
    BY <1>1, <1>2, <2>1, <2>2, <2>3 DEF Books, Booked
<1>5. Allowed'
  BY <1>2 DEF Books, Allowed, TakeFrame, Goto, IInv, TypeOK
<1>6. HeldApart'
  <2>1. \A s \in Slots : held[p][s] \in Nat /\ held[p][s] <= last[p]
    BY DEF IInv, TypeOK, HeldNumbered
  <2> QED
    BY <1>1, <1>3, <2>1 DEF Books, HeldApart
<1>7. CountsStart' /\ CountsCoverFrames'
  <2>1. /\ last'[p] = w.seq
        /\ first'[p] = IF first[p] = 0 THEN w.seq ELSE first[p]
        /\ delivered'[p] = delivered[p] + 1
        /\ skipped'[p] = skipped[p] + Missed(p)
    BY DEF TakeFrame, IInv, TypeOK
  <2>2. \A q \in Places \ {p} : /\ last'[q] = last[q] /\ first'[q] = first[q]
                                 /\ delivered'[q] = delivered[q] /\ skipped'[q] = skipped[q]
    BY DEF TakeFrame, IInv, TypeOK
  <2>3. delivered[p] \in Nat /\ skipped[p] \in Nat /\ first[p] \in Nat
    BY DEF IInv, TypeOK
  <2>4. CASE last[p] = 0
    BY <1>1, <1>2, <2>1, <2>2, <2>3, <2>4 DEF Books, CountsStart, CountsCoverFrames, Missed
  <2>5. CASE last[p] # 0
    BY <1>1, <1>2, <2>1, <2>2, <2>3, <2>5 DEF Books, CountsStart, CountsCoverFrames, Missed
  <2> QED
    BY <2>4, <2>5
<1> QED
  BY <1>4, <1>5, <1>6, <1>7 DEF Books

LEMMA ClearLeaseBooks == ASSUME IInv, Books, NEW p \in Places, ClearLease(p) PROVE Books'
<1>1. UNCHANGED <<place, held, delivered, skipped, last, first, want>>
  BY DEF ClearLease
<1>2. HeldApart' /\ CountsStart' /\ CountsCoverFrames'
  BY <1>1 DEF Books, HeldApart, CountsStart, CountsCoverFrames
<1>3. place[p] = "held" /\ rpc[p] = "undo" /\ held[p][want[p].slot] = 0
  BY DEF ClearLease, IInv, WantsNewer
<1>4. leases'[p] = leases[p] \ {want[p].slot}
  BY DEF ClearLease, IInv, TypeOK
<1>5. Booked'
  <2>1. Trying(p) = {want[p].slot} /\ Trying(p)' = {}
    BY <1>3 DEF ClearLease, Goto, Top, Trying, IInv, TypeOK
  <2>2. \A q \in Places : q # p => leases'[q] = leases[q] /\ Trying(q)' = Trying(q)
    BY <1>1 DEF ClearLease, Goto, Trying, IInv, TypeOK
  <2>3. want[p].slot \notin HeldSlots(p)
    BY <1>3 DEF HeldSlots
  <2> QED
    BY <1>1, <1>3, <1>4, <2>1, <2>2, <2>3 DEF Books, Booked, HeldSlots
<1>6. Allowed'
  <2>1. Cardinality(leases'[p]) <= Cardinality(leases[p]) /\ Cardinality(leases[p]) \in Nat
        /\ Cardinality(leases'[p]) \in Nat
    BY <1>4, LeasesFinite, FS_CardinalityType DEF IInv
  <2> QED
    BY <1>1, <2>1, RingAssumption DEF Books, Allowed, ClearLease, Goto, Top, IInv, TypeOK
<1> QED
  BY <1>2, <1>5, <1>6 DEF Books

LEMMA ReleaseBooks ==
    ASSUME IInv, Books, NEW p \in Places, NEW s \in Slots, Release(p, s)
    PROVE  Books'
<1>1. UNCHANGED <<place, delivered, skipped, last, first, want, rpc>>
  BY DEF Release, call
<1>2. /\ place[p] = "held" /\ held[p][s] # 0
      /\ rpc[p] \in {"verify", "undo"} => want[p].slot # s
  BY DEF Release, IInv, WantsNewer
<1>3. /\ leases'[p] = leases[p] \ {s}
      /\ held'[p][s] = 0
      /\ \A t \in Slots \ {s} : held'[p][t] = held[p][t]
      /\ \A q \in Places \ {p} : held'[q] = held[q] /\ leases'[q] = leases[q]
  BY DEF Release, IInv, TypeOK
<1>4. CountsStart' /\ CountsCoverFrames'
  BY <1>1 DEF Books, CountsStart, CountsCoverFrames
<1>5. HeldApart'
  BY <1>2, <1>3 DEF Books, HeldApart
<1>6. Booked'
  <2>1. HeldSlots(p)' = HeldSlots(p) \ {s} /\ \A q \in Places \ {p} : HeldSlots(q)' = HeldSlots(q)
    BY <1>3 DEF HeldSlots
  <2>2. (HeldSlots(p) \cup Trying(p)) \ {s} = (HeldSlots(p) \ {s}) \cup Trying(p)
    BY <1>2 DEF Trying
  <2>3. \A q \in Places : Trying(q)' = Trying(q)
    BY <1>1 DEF Trying
  <2> QED
    BY <1>1, <1>2, <1>3, <2>1, <2>2, <2>3 DEF Books, Booked
<1>7. Allowed'
  <2>1. Cardinality(leases'[p]) <= Cardinality(leases[p]) /\ Cardinality(leases[p]) \in Nat
        /\ Cardinality(leases'[p]) \in Nat
    BY <1>3, LeasesFinite, FS_CardinalityType DEF IInv
  <2> QED
    BY <1>1, <1>3, <2>1, RingAssumption DEF Books, Allowed
<1> QED
  BY <1>4, <1>5, <1>6, <1>7 DEF Books

LEMMA DieBooks == ASSUME IInv, Books, NEW p \in Places, Die(p) PROVE Books'
<1>1. UNCHANGED <<leases, delivered, skipped, last, first, want, rpc>>
  BY DEF Die, call
<1>2. place'[p] = "gone" /\ \A q \in Places \ {p} : place'[q] = place[q] /\ held'[q] = held[q]
  BY DEF Die, IInv, TypeOK
<1>3. \A s \in Slots : held'[p][s] = 0
  BY DEF Die, IInv, TypeOK
<1>4. HeldApart'
  BY <1>2, <1>3 DEF Books, HeldApart
<1>5. Booked' /\ Allowed' /\ CountsStart' /\ CountsCoverFrames'
  BY <1>1, <1>2 DEF Books, Booked, HeldSlots, Trying, Allowed, CountsStart, CountsCoverFrames
<1> QED
  BY <1>4, <1>5 DEF Books

LEMMA TakeReaderBooks == ASSUME IInv, Books, NEW p \in Places, TakeReader(p) PROVE Books'
<1>1. UNCHANGED <<leases, held, want>>
  BY DEF TakeReader
<1>2. place[p] = "free" /\ place'[p] = "held" /\ rpc'[p] = "idle" /\ last'[p] = 0 /\ first'[p] = 0
      /\ delivered'[p] = 0 /\ skipped'[p] = 0
  BY DEF TakeReader, IInv, TypeOK
<1>3. \A q \in Places \ {p} :
         /\ place'[q] = place[q] /\ rpc'[q] = rpc[q] /\ last'[q] = last[q] /\ first'[q] = first[q]
         /\ delivered'[q] = delivered[q] /\ skipped'[q] = skipped[q]
  BY DEF TakeReader, IInv, TypeOK
<1>4. leases[p] = {} /\ \A s \in Slots : held[p][s] = 0
  BY <1>2 DEF Books, Booked, IInv, HeldNumbered
<1>5. HeldApart'
  BY <1>1 DEF Books, HeldApart
<1>6. Booked'
  <2>1. HeldSlots(p)' = {} /\ Trying(p)' = {}
    BY <1>1, <1>2, <1>4 DEF HeldSlots, Trying
  <2>2. \A q \in Places \ {p} : HeldSlots(q)' = HeldSlots(q) /\ Trying(q)' = Trying(q)
    BY <1>1, <1>3 DEF HeldSlots, Trying
  <2> QED
    BY <1>1, <1>2, <1>3, <1>4, <2>1, <2>2 DEF Books, Booked
<1>7. Allowed'
  <2>1. Cardinality(leases[p]) = 0
    BY <1>4, FS_EmptySet
  <2> QED
    BY <1>1, <1>2, <1>3, <2>1, RingAssumption DEF Books, Allowed
<1>8. CountsStart' /\ CountsCoverFrames'
  BY <1>2, <1>3 DEF Books, CountsStart, CountsCoverFrames
<1> QED
  BY <1>5, <1>6, <1>7, <1>8 DEF Books

LEMMA ResetReaderBooks == ASSUME IInv, Books, NEW p \in Places, ResetReader(p) PROVE Books'
<1>1. UNCHANGED <<held, delivered, skipped, last, first, want, rpc>>
  BY DEF ResetReader, reader, call
<1>2. place'[p] = "free" /\ leases'[p] = {}
      /\ \A q \in Places \ {p} : place'[q] = place[q] /\ leases'[q] = leases[q]
  BY DEF ResetReader, IInv, TypeOK
<1> QED
  BY <1>1, <1>2 DEF Books, Booked, HeldSlots, Trying, Allowed, HeldApart, CountsStart, CountsCoverFrames

LEMMA NextBooks == ASSUME IInv, Books, [Next]_vars PROVE Books'
<1>1. CASE BeginClaim \/ OwnerStep \/ UNCHANGED vars
  <2>1. UNCHANGED <<table, reader>>
    BY <1>1 DEF OwnerStep, BeginClaim, ScanBusy, Choose, Mark, ScanCheck, Restore, StartFill,
       EndFill, StampSlot, PointLatest, GiveUp, vars
  <2> QED
    BY <2>1, OwnerBooks
<1>2. CASE \E p \in Places : ReaderStep(p)
  BY <1>2, WalkBooks, CountLeasesBooks, SetLeaseBooks, TakeFrameBooks, ClearLeaseBooks DEF ReaderStep
<1>3. CASE \E p \in Places : Die(p) \/ TakeReader(p) \/ ResetReader(p) \/ \E s \in Slots : Release(p, s)
  BY <1>3, DieBooks, TakeReaderBooks, ResetReaderBooks, ReleaseBooks
<1> QED
  BY <1>1, <1>2, <1>3 DEF Next

\* The books are right in every behaviour.
THEOREM BooksKept == Spec => []Books
<1>1. Init => Books
  BY InitBooks
<1>2. IInv /\ Books /\ [Next]_vars => Books'
  BY NextBooks
<1> QED
  BY <1>1, <1>2, RingInvariant, PTL DEF Spec

\* No retry leaves a lease bit behind or clears one of a held frame, and no
\* reader ever has more leases than its share: a region sized for the readers
\* it has never runs out of slots because of a lost bit.
THEOREM LeasesStayAccounted == Spec => []LeasesAccounted
<1>1. Books => LeasesAccounted
  BY DEF Books, Booked, Allowed, HeldSlots, Trying, LeasesAccounted
<1> QED
  BY <1>1, BooksKept, PTL

\* The statistics of a reader account for every frame, whatever it skipped, in
\* both orders, and across the readers that had its place before.
THEOREM CountsAlwaysCover == Spec => []CountsCoverFrames
<1>1. Books => CountsCoverFrames
  BY DEF Books
<1> QED
  BY <1>1, BooksKept, PTL

-----------------------------------------------------------------------------
(* Room to write: the leases of the readers attached never fill the region.   *)

\* The lease word of a reader that died is what it was, and within its share
\* until the bus thread clears it.
WithinShare == \A p \in Places : Cardinality(leases[p]) <= LeasesPerReader

\* Nothing but the clearing of its place changes the word of a dead reader.
LEMMA GoneKeepsLeases ==
    ASSUME IInv, [Next]_vars, NEW p \in Places, place'[p] = "gone"
    PROVE  leases'[p] = leases[p]
<1>1. CASE BeginClaim \/ OwnerStep \/ UNCHANGED vars
  <2>1. UNCHANGED table
    BY <1>1 DEF OwnerStep, BeginClaim, ScanBusy, Choose, Mark, ScanCheck, Restore, StartFill,
       EndFill, StampSlot, PointLatest, GiveUp, vars
  <2> QED
    BY <2>1 DEF table
<1>2. CASE \E q \in Places : ReaderStep(q) \/ \E s \in Slots : Release(q, s)
  <2> PICK q \in Places : ReaderStep(q) \/ \E s \in Slots : Release(q, s)
    BY <1>2
  <2>1. place[q] = "held" /\ place' = place
    BY DEF ReaderStep, LoadLatest, LoadNext, CountLeases, ScanSlot, EndScan, SetLease, TakeFrame,
       Mistaken, ClearLease, Release, table
  <2>2. \A r \in Places : r # q => leases'[r] = leases[r]
    BY DEF ReaderStep, LoadLatest, LoadNext, CountLeases, ScanSlot, EndScan, SetLease, TakeFrame,
       Mistaken, ClearLease, Release, table, IInv, TypeOK
  <2> QED
    BY <2>1, <2>2
<1>3. CASE \E q \in Places : Die(q) \/ TakeReader(q)
  BY <1>3 DEF Die, TakeReader
<1>4. CASE \E q \in Places : ResetReader(q)
  BY <1>4 DEF ResetReader, IInv, TypeOK
<1> QED
  BY <1>1, <1>2, <1>3, <1>4 DEF Next

LEMMA NextWithinShare ==
    ASSUME IInv, IInv', Books', WithinShare, [Next]_vars
    PROVE  WithinShare'
<1> SUFFICES ASSUME NEW p \in Places
             PROVE  Cardinality(leases'[p]) <= LeasesPerReader
  BY DEF WithinShare
<1>1. CASE place'[p] = "held"
  BY <1>1 DEF Books, Allowed
<1>2. CASE place'[p] = "free"
  <2>1. leases'[p] = {}
    BY <1>2 DEF Books, Booked
  <2> QED
    BY <2>1, FS_EmptySet, RingAssumption
<1>3. CASE place'[p] = "gone"
  <2>1. leases'[p] = leases[p]
    BY <1>3, GoneKeepsLeases
  <2> QED
    BY <2>1 DEF WithinShare
<1> QED
  BY <1>1, <1>2, <1>3 DEF IInv, TypeOK

\* Finitely many sets of at most n elements have together at most n for each.
LEMMA UnionBounded ==
    ASSUME NEW A, IsFiniteSet(A), NEW n \in Nat, NEW L,
           \A a \in A : IsFiniteSet(L[a]) /\ Cardinality(L[a]) <= n
    PROVE  /\ IsFiniteSet(UNION {L[a] : a \in A})
           /\ Cardinality(UNION {L[a] : a \in A}) <= Cardinality(A) * n
<1> DEFINE U == UNION {L[a] : a \in A}
           Has(x) == CHOOSE a \in A : x \in L[a]
           num == [a \in A |-> CHOOSE f \in [L[a] -> 1 .. n] :
                                  \A x, y \in L[a] : f[x] = f[y] => x = y]
           g == [x \in U |-> <<Has(x), num[Has(x)][x]>>]
<1>1. ASSUME NEW a \in A
      PROVE  /\ num[a] \in [L[a] -> 1 .. n]
             /\ \A x, y \in L[a] : num[a][x] = num[a][y] => x = y
  <2>1. IsFiniteSet(L[a]) /\ Cardinality(L[a]) \in Nat /\ Cardinality(L[a]) <= n
    BY FS_CardinalityType
  <2>2. IsFiniteSet(1 .. Cardinality(L[a])) /\ Cardinality(1 .. Cardinality(L[a])) = Cardinality(L[a])
    BY <2>1, FS_Interval
  <2>3. ExistsBijection(L[a], 1 .. Cardinality(L[a]))
    BY <2>1, <2>2, FS_SameCardinalityBij
  <2>4. PICK f \in Bijection(L[a], 1 .. Cardinality(L[a])) : TRUE
    BY <2>3 DEF ExistsBijection
  <2>5. f \in [L[a] -> 1 .. Cardinality(L[a])] /\ \A x, y \in L[a] : f[x] = f[y] => x = y
    BY <2>4 DEF Bijection, Injection, IsInjective
  <2>6. 1 .. Cardinality(L[a]) \subseteq 1 .. n
    BY <2>1
  <2>7. f \in [L[a] -> 1 .. n]
    BY <2>5, <2>6
  <2> QED
    BY <2>5, <2>7
<1>2. ASSUME NEW x \in U PROVE Has(x) \in A /\ x \in L[Has(x)]
  OBVIOUS
<1> HIDE DEF num, Has
<1>3. g \in [U -> A \X (1 .. n)]
  <2> SUFFICES ASSUME NEW x \in U PROVE <<Has(x), num[Has(x)][x]>> \in A \X (1 .. n)
    OBVIOUS
  <2> QED
    BY <1>1, <1>2
<1>4. ASSUME NEW x \in U, NEW y \in U, g[x] = g[y] PROVE x = y
  <2>1. Has(x) = Has(y) /\ num[Has(x)][x] = num[Has(y)][y]
    BY <1>4
  <2> QED
    BY <2>1, <1>1, <1>2
<1>5. g \in Injection(U, A \X (1 .. n))
  BY <1>3, <1>4 DEF Injection, IsInjective
<1>6. IsFiniteSet(1 .. n) /\ Cardinality(1 .. n) = n
  BY FS_Interval
<1>7. IsFiniteSet(A \X (1 .. n)) /\ Cardinality(A \X (1 .. n)) = Cardinality(A) * n
  BY <1>6, FS_Product
<1> HIDE DEF U, g
<1>8. IsFiniteSet(U) /\ Cardinality(U) <= Cardinality(A \X (1 .. n))
  BY <1>5, <1>7, FS_Injection
<1> QED
  BY <1>7, <1>8 DEF U

\* However many slots the attached readers lease, the newest included, one is left.
LEMMA RoomLeft == ASSUME IInv, Books, WithinShare PROVE RoomToWrite
<1> SUFFICES ASSUME Cardinality(Attached) <= MaxReaders,
                    Clamped * LeasesPerReader + 2 <= MaxSlots,
                    (UNION {leases[p] : p \in Places}) \cup Newest = Slots
             PROVE  FALSE
  BY DEF RoomToWrite
<1> DEFINE U == UNION {leases[p] : p \in Attached}
<1>1. UNION {leases[p] : p \in Places} = U
  BY DEF Attached, Books, Booked
<1>2. IsFiniteSet(Places) /\ Cardinality(Places) = NPlaces
  <2>1. NPlaces - 1 \in Int /\ 0 <= NPlaces - 1 /\ (NPlaces - 1) - 0 + 1 = NPlaces
    BY RingAssumption
  <2>2. IsFiniteSet(0 .. NPlaces - 1) /\ Cardinality(0 .. NPlaces - 1) = (NPlaces - 1) - 0 + 1
    BY <2>1, FS_Interval
  <2> QED
    BY <2>1, <2>2 DEF Places
<1>3. IsFiniteSet(Attached) /\ Cardinality(Attached) \in Nat /\ Cardinality(Attached) <= NPlaces
  BY <1>2, FS_Subset, FS_CardinalityType DEF Attached
<1>4. \A p \in Attached : IsFiniteSet(leases[p]) /\ Cardinality(leases[p]) <= LeasesPerReader
  BY LeasesFinite DEF Attached, WithinShare, IInv
<1>5. IsFiniteSet(U) /\ Cardinality(U) <= Cardinality(Attached) * LeasesPerReader
  BY <1>3, <1>4, UnionBounded, RingAssumption
<1>6. Clamped \in Nat /\ Cardinality(Attached) <= Clamped
  BY <1>3, RingAssumption DEF Clamped
<1>7. Cardinality(Attached) * LeasesPerReader <= Clamped * LeasesPerReader
  BY <1>3, <1>6, RingAssumption
<1>8. NSlots = Clamped * LeasesPerReader + 2
  BY <1>6, RingAssumption DEF NSlots
<1>9. Cardinality(Slots) = NSlots
  BY SlotsNat, FS_Interval DEF Slots
<1>10. IsFiniteSet(Newest) /\ Cardinality(Newest) \in {0, 1}
  BY FS_Singleton, FS_EmptySet DEF Newest
<1> HIDE DEF U
<1>11. Cardinality(U \cup Newest) <= Cardinality(U) + 1
  <2>1. Cardinality(U \cup Newest) = Cardinality(U) + Cardinality(Newest) - Cardinality(U \cap Newest)
    BY <1>5, <1>10, FS_Union
  <2>2. IsFiniteSet(U \cap Newest)
    BY <1>5, FS_Intersection
  <2>3. Cardinality(U \cap Newest) \in Nat /\ Cardinality(U) \in Nat
    BY <1>5, <2>2, FS_CardinalityType
  <2> QED
    BY <2>1, <2>3, <1>10
<1>12. U \cup Newest = Slots
  BY <1>1
<1>13. Cardinality(U) \in Nat
  BY <1>5, FS_CardinalityType
<1>14. /\ Cardinality(Attached) * LeasesPerReader \in Nat
       /\ Clamped * LeasesPerReader \in Nat
  BY <1>3, <1>6, RingAssumption
<1>15. Cardinality(U \cup Newest) = Clamped * LeasesPerReader + 2
  BY <1>8, <1>9, <1>12
<1>16. Cardinality(U) <= Clamped * LeasesPerReader
  BY <1>5, <1>7, <1>13, <1>14
<1> QED
  BY <1>11, <1>13, <1>14, <1>15, <1>16

\* While no more readers are attached than the region was sized for, those
\* that died included, the owner has a slot that is neither leased nor the newest:
\* Ring::create's slots are enough, for any number of readers and leases.
THEOREM RoomStays == Spec => []RoomToWrite
<1>1. Init => WithinShare
  <2> SUFFICES ASSUME Init, NEW p \in Places PROVE Cardinality(leases[p]) <= LeasesPerReader
    BY DEF WithinShare
  <2>1. leases[p] = {}
    BY DEF Init
  <2> QED
    BY <2>1, FS_EmptySet, RingAssumption
<1>2. IInv /\ IInv' /\ Books' /\ WithinShare /\ [Next]_vars => WithinShare'
  BY NextWithinShare
<1>3. IInv /\ Books /\ WithinShare => RoomToWrite
  BY RoomLeft
<1> QED
  BY <1>1, <1>2, <1>3, RingInvariant, BooksKept, PTL DEF Spec

-----------------------------------------------------------------------------
(* The ring implements the feed.                                             *)

HeldFrames(p) == {held[p][s] : s \in HeldSlots(p)}

\* What the mapping shows is what the numbers say: this is where the argument
\* of FrameRingProofs, that bytes stay put under a lease, is used.
LEMMA SightIsHeld ==
    ASSUME IInv
    PROVE  NewestBytes = latest.seq /\ \A p \in Places : InSight(p) = HeldFrames(p)
<1>1. NewestBytes = latest.seq
  BY DEF IInv, TypeOK, Stamp, NumberedBytes, NewestBytes, WRITING
<1>2. \A p \in Places, s \in Slots : held[p][s] # 0 => data[s] = held[p][s]
  BY DEF IInv, TypeOK, HeldNumbered, NumberedBytes, WRITING
<1> QED
  BY <1>1, <1>2 DEF InSight, HeldFrames, HeldSlots

\* The same after a step that keeps the invariant.
LEMMA SightIsHeldNext ==
    ASSUME IInv'
    PROVE  NewestBytes' = latest'.seq /\ \A p \in Places : InSight(p)' = HeldFrames(p)'
<1>1. NewestBytes' = latest'.seq
  BY DEF IInv, TypeOK, Stamp, NumberedBytes, NewestBytes, WRITING
<1>2. \A p \in Places, s \in Slots : held'[p][s] # 0 => data'[s] = held'[p][s]
  BY DEF IInv, TypeOK, HeldNumbered, NumberedBytes, WRITING
<1> QED
  BY <1>1, <1>2 DEF InSight, HeldFrames, HeldSlots

\* There are no more frames in sight than leases beside the one being tried.
LEMMA SightSmall ==
    ASSUME IInv, Books, NEW p \in Places, place[p] = "held", rpc[p] = "verify"
    PROVE  Cardinality(HeldFrames(p)) < LeasesPerReader
<1> DEFINE H == HeldSlots(p)
           f == [s \in H |-> held[p][s]]
<1>1. leases[p] = H \cup {want[p].slot} /\ want[p].slot \notin H
  BY DEF Books, Booked, Trying, IInv, WantsNewer, HeldSlots
<1>2. IsFiniteSet(H) /\ Cardinality(H) \in Nat
  <2>1. H \in SUBSET leases[p]
    BY <1>1
  <2> QED
    BY <2>1, LeasesFinite, FS_CardinalityType DEF IInv
<1>3. Cardinality(leases[p]) = Cardinality(H) + 1
  BY <1>1, <1>2, FS_AddElement
<1>4. f \in Surjection(H, HeldFrames(p))
  BY DEF Surjection, HeldFrames
<1>5. Cardinality(HeldFrames(p)) <= Cardinality(H) /\ IsFiniteSet(HeldFrames(p))
  BY <1>2, <1>4, FS_Surjection
<1>6. Cardinality(HeldFrames(p)) \in Nat
  BY <1>5, FS_CardinalityType
<1>7. Cardinality(leases[p]) <= LeasesPerReader
  BY DEF Books, Allowed
<1> QED
  BY <1>2, <1>3, <1>5, <1>6, <1>7, RingAssumption

LEMMA FeedInitial == Init => Feed!FeedInit
<1> SUFFICES ASSUME Init PROVE Feed!FeedInit
  OBVIOUS
<1>1. NewestBytes = 0 /\ {p \in Places : place[p] = "held"} = {}
  BY DEF Init, NewestBytes, NoFrame
<1>2. \A p \in Places : InSight(p) = {}
  BY DEF Init, InSight
<1> QED
  BY <1>1, <1>2 DEF Init, Feed!FeedInit

\* Steps that show nothing new to anybody.
LEMMA FeedStutters ==
    ASSUME IInv, IInv', UNCHANGED <<frames, latest, place, last, held>>
    PROVE  UNCHANGED Feed!feed
<1>1. NewestBytes' = NewestBytes
  BY SightIsHeld, SightIsHeldNext
<1>2. \A p \in Places : InSight(p)' = InSight(p)
  <2>1. \A p \in Places : InSight(p)' = HeldFrames(p)'
    BY SightIsHeld, SightIsHeldNext
  <2> QED
    BY <2>1, SightIsHeld, SightIsHeldNext DEF HeldFrames, HeldSlots
<1> QED
  BY <1>1, <1>2 DEF Feed!feed

LEMMA StampIsMake == ASSUME IInv, IInv', StampSlot PROVE Feed!Make
<1>1. UNCHANGED <<latest, place, last, held>> /\ frames' = frames + 1
  BY DEF StampSlot, table, reader
<1>2. NewestBytes' = NewestBytes
  BY <1>1, SightIsHeld, SightIsHeldNext
<1>3. \A p \in Places : InSight(p)' = InSight(p)
  <2>1. \A p \in Places : InSight(p)' = HeldFrames(p)'
    BY SightIsHeld, SightIsHeldNext
  <2> QED
    BY <1>1, <2>1, SightIsHeld, SightIsHeldNext DEF HeldFrames, HeldSlots
<1> QED
  BY <1>1, <1>2, <1>3 DEF Feed!Make

LEMMA PointIsOffer == ASSUME IInv, IInv', PointLatest PROVE Feed!Offer
<1>1. UNCHANGED <<frames, place, last, held>> /\ latest'.seq = frames /\ latest.seq < frames
  BY DEF PointLatest, table, reader, IInv, NumberedBytes
<1>2. NewestBytes' = frames /\ NewestBytes < frames
  BY <1>1, SightIsHeld, SightIsHeldNext
<1>3. \A p \in Places : InSight(p)' = InSight(p)
  <2>1. \A p \in Places : InSight(p)' = HeldFrames(p)'
    BY SightIsHeld, SightIsHeldNext
  <2> QED
    BY <1>1, <2>1, SightIsHeld, SightIsHeldNext DEF HeldFrames, HeldSlots
<1> QED
  BY <1>1, <1>2, <1>3 DEF Feed!Offer

LEMMA TakeIsTake ==
    ASSUME IInv, IInv', Books, NEW p \in Places, TakeFrame(p)
    PROVE  \E n \in 1 .. frames : Feed!Take(p, n)
<1> DEFINE w == want[p]
<1>1. /\ place[p] = "held" /\ rpc[p] = "verify"
      /\ w.seq > last[p] /\ last[p] \in Nat /\ w.seq \in Nat /\ w.slot \in Slots
      /\ held[p][w.slot] = 0
  BY DEF IInv, TypeOK, Stamp, WantsNewer, Wants, TakeFrame
<1>2. w.seq \in 1 .. frames
  BY <1>1 DEF TakeFrame, Verified, IInv, TypeOK, NumberedBytes, WRITING
<1>3. UNCHANGED <<frames, latest, place>> /\ last' = [last EXCEPT ![p] = w.seq]
  BY DEF TakeFrame, region, owner
<1>4. held' = [held EXCEPT ![p][w.slot] = w.seq]
  BY DEF TakeFrame
<1>5. NewestBytes' = NewestBytes
  BY <1>3, SightIsHeld, SightIsHeldNext
<1>6. InSight(p)' = InSight(p) \cup {w.seq}
  <2>1. InSight(p)' = HeldFrames(p)'
    BY SightIsHeld, SightIsHeldNext
  <2>2. /\ held'[p][w.slot] = w.seq
        /\ \A s \in Slots \ {w.slot} : held'[p][s] = held[p][s]
    BY <1>1, <1>4 DEF IInv, TypeOK
  <2>3. HeldFrames(p)' = HeldFrames(p) \cup {w.seq}
    BY <1>1, <2>2 DEF HeldFrames, HeldSlots
  <2> QED
    BY <2>1, <2>3, SightIsHeld, SightIsHeldNext
<1>7. \A q \in Places \ {p} : InSight(q)' = InSight(q)
  <2>1. \A q \in Places : InSight(q)' = HeldFrames(q)'
    BY SightIsHeld, SightIsHeldNext
  <2>2. \A q \in Places \ {p} : held'[q] = held[q]
    BY <1>4 DEF IInv, TypeOK
  <2> QED
    BY <2>1, <2>2, SightIsHeld, SightIsHeldNext DEF HeldFrames, HeldSlots
<1>8. Cardinality(InSight(p)) < LeasesPerReader
  BY <1>1, SightSmall, SightIsHeld, SightIsHeldNext
<1>9. [q \in Places |-> InSight(q)]' = [[q \in Places |-> InSight(q)] EXCEPT ![p] = @ \cup {w.seq}]
  BY <1>6, <1>7
<1>10. Feed!Take(p, w.seq)
  <2>1. p \in {q \in Places : place[q] = "held"} /\ [q \in Places |-> InSight(q)][p] = InSight(p)
    BY <1>1
  <2>2. last[p] < w.seq /\ w.seq <= frames
    BY <1>1, <1>2 DEF IInv, TypeOK
  <2> QED
    BY <1>3, <1>5, <1>8, <1>9, <2>1, <2>2 DEF Feed!Take, Feed!Cardinality, Cardinality
<1> QED
  BY <1>2, <1>10

LEMMA ReleaseIsDrop ==
    ASSUME IInv, IInv', Books, NEW p \in Places, NEW s \in Slots, Release(p, s)
    PROVE  \E n \in InSight(p) : Feed!Drop(p, n)
<1> DEFINE n == held[p][s]
<1>1. UNCHANGED <<frames, latest, place, last>> /\ n # 0
  BY DEF Release, region, owner
<1>2. /\ held'[p][s] = 0
      /\ \A t \in Slots \ {s} : held'[p][t] = held[p][t]
      /\ \A q \in Places \ {p} : held'[q] = held[q]
  BY DEF Release, IInv, TypeOK
<1>3. NewestBytes' = NewestBytes
  BY <1>1, SightIsHeld, SightIsHeldNext
<1>4. \A q \in Places : InSight(q)' = HeldFrames(q)' /\ InSight(q) = HeldFrames(q)
  BY SightIsHeld, SightIsHeldNext
<1>5. HeldFrames(p)' = HeldFrames(p) \ {n} /\ n \in HeldFrames(p)
  BY <1>1, <1>2 DEF HeldFrames, HeldSlots, Books, HeldApart
<1>6. \A q \in Places \ {p} : HeldFrames(q)' = HeldFrames(q)
  BY <1>2 DEF HeldFrames, HeldSlots
<1>7. [q \in Places |-> InSight(q)]' = [[q \in Places |-> InSight(q)] EXCEPT ![p] = @ \ {n}]
  BY <1>4, <1>5, <1>6
<1> QED
  BY <1>1, <1>3, <1>4, <1>5, <1>7 DEF Feed!Drop

LEMMA DieIsLeave == ASSUME IInv, IInv', NEW p \in Places, Die(p) PROVE Feed!Leave(p)
<1>1. UNCHANGED <<frames, latest, last>> /\ place[p] = "held" /\ place' = [place EXCEPT ![p] = "gone"]
  BY DEF Die, region, owner
<1>2. /\ \A s \in Slots : held'[p][s] = 0
      /\ \A q \in Places \ {p} : held'[q] = held[q]
  BY DEF Die, IInv, TypeOK
<1>3. NewestBytes' = NewestBytes
  BY <1>1, SightIsHeld, SightIsHeldNext
<1>4. \A q \in Places : InSight(q)' = HeldFrames(q)' /\ InSight(q) = HeldFrames(q)
  BY SightIsHeld, SightIsHeldNext
<1>5. HeldFrames(p)' = {} /\ \A q \in Places \ {p} : HeldFrames(q)' = HeldFrames(q)
  BY <1>2 DEF HeldFrames, HeldSlots
<1>6. [q \in Places |-> InSight(q)]' = [[q \in Places |-> InSight(q)] EXCEPT ![p] = {}]
  BY <1>4, <1>5
<1>7. {q \in Places : place'[q] = "held"} = {q \in Places : place[q] = "held"} \ {p}
  BY <1>1 DEF IInv, TypeOK
<1> QED
  BY <1>1, <1>3, <1>6, <1>7 DEF Feed!Leave

LEMMA TakeReaderIsJoin == ASSUME IInv, IInv', NEW p \in Places, TakeReader(p) PROVE Feed!Join(p)
<1>1. /\ UNCHANGED <<frames, latest, held>> /\ last' = [last EXCEPT ![p] = 0]
      /\ place[p] = "free" /\ place' = [place EXCEPT ![p] = "held"]
  BY DEF TakeReader, region, owner
<1>2. NewestBytes' = NewestBytes
  BY <1>1, SightIsHeld, SightIsHeldNext
<1>3. \A q \in Places : InSight(q)' = InSight(q)
  <2>1. \A q \in Places : InSight(q)' = HeldFrames(q)'
    BY SightIsHeld, SightIsHeldNext
  <2> QED
    BY <1>1, <2>1, SightIsHeld, SightIsHeldNext DEF HeldFrames, HeldSlots
<1>4. {q \in Places : place'[q] = "held"} = {q \in Places : place[q] = "held"} \cup {p}
  BY <1>1 DEF IInv, TypeOK
<1> QED
  BY <1>1, <1>2, <1>3, <1>4 DEF Feed!Join

LEMMA ResetStutters == ASSUME IInv, IInv', NEW p \in Places, ResetReader(p) PROVE UNCHANGED Feed!feed
<1>1. UNCHANGED <<frames, latest, last, held>> /\ place[p] = "gone" /\ place' = [place EXCEPT ![p] = "free"]
  BY DEF ResetReader, region, owner, reader
<1>2. NewestBytes' = NewestBytes
  BY <1>1, SightIsHeld, SightIsHeldNext
<1>3. \A q \in Places : InSight(q)' = InSight(q)
  <2>1. \A q \in Places : InSight(q)' = HeldFrames(q)'
    BY SightIsHeld, SightIsHeldNext
  <2> QED
    BY <1>1, <2>1, SightIsHeld, SightIsHeldNext DEF HeldFrames, HeldSlots
<1>4. {q \in Places : place'[q] = "held"} = {q \in Places : place[q] = "held"}
  BY <1>1 DEF IInv, TypeOK
<1> QED
  BY <1>1, <1>2, <1>3, <1>4 DEF Feed!feed

LEMMA StepIsFeed == ASSUME IInv, Books, [Next]_vars PROVE [Feed!FeedNext]_(Feed!feed)
<1>1. IInv'
  BY NextInv
<1>2. CASE BeginClaim \/ OwnerStep \/ UNCHANGED vars
  <2>1. CASE StampSlot
    BY <1>1, <2>1, StampIsMake DEF Feed!FeedNext
  <2>2. CASE PointLatest
    BY <1>1, <2>2, PointIsOffer DEF Feed!FeedNext
  <2>3. CASE ~StampSlot /\ ~PointLatest
    <3>1. UNCHANGED <<frames, latest, place, last, held>>
      BY <1>2, <2>3 DEF OwnerStep, BeginClaim, ScanBusy, Choose, Mark, ScanCheck, Restore, StartFill,
         EndFill, GiveUp, vars, region, table, owner, reader
    <3> QED
      BY <1>1, <3>1, FeedStutters
  <2> QED
    BY <2>1, <2>2, <2>3
<1>3. CASE \E p \in Places : ReaderStep(p)
  <2> PICK p \in Places : ReaderStep(p)
    BY <1>3
  <2>1. CASE TakeFrame(p)
    BY <1>1, <2>1, TakeIsTake DEF Feed!FeedNext
  <2>2. CASE ~TakeFrame(p)
    <3>1. UNCHANGED <<frames, latest, place, last, held>>
      BY <2>2 DEF ReaderStep, LoadLatest, LoadNext, CountLeases, ScanSlot, EndScan, SetLease, Mistaken,
         ClearLease, region, table, owner
    <3> QED
      BY <1>1, <3>1, FeedStutters
  <2> QED
    BY <2>1, <2>2
<1>4. CASE \E p \in Places : Die(p) \/ TakeReader(p) \/ ResetReader(p) \/ \E s \in Slots : Release(p, s)
  BY <1>1, <1>4, DieIsLeave, TakeReaderIsJoin, ResetStutters, ReleaseIsDrop DEF Feed!FeedNext
<1> QED
  BY <1>2, <1>3, <1>4 DEF Next

\* The refinement: to its users the ring is FrameFeed.  What a reader sees is
\* changed by its own taking and dropping only, never by the owner or by
\* another reader; frames are made one by one, and no reader has more than its
\* share of them.
THEOREM RingImplementsFeed == Spec => ImplementsFeed
<1>1. Init => Feed!FeedInit
  BY FeedInitial
<1>2. IInv /\ Books /\ [Next]_vars => [Feed!FeedNext]_(Feed!feed)
  BY StepIsFeed
<1> QED
  BY <1>1, <1>2, RingInvariant, BooksKept, PTL DEF Spec, ImplementsFeed, Feed!FeedSpec
=============================================================================
