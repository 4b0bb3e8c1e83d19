-------------------------- MODULE FrameRingProofs --------------------------
(***************************************************************************)
(* Proofs about the ring for every number of places, leases and slots.     *)
(*                                                                         *)
(* The argument of ring/mod.rs, "one of them comes second and sees the     *)
(* other", becomes Backoff below: while the owner checks the leases, no    *)
(* place it has already read without finding the slot can come to hold it, *)
(* for a reader verifies the slot's number and finds WRITING.              *)
(***************************************************************************)
EXTENDS FrameRing, TLAPS

-----------------------------------------------------------------------------
(* The inductive invariant.                                                  *)

Claiming == opc \in {"check", "fill", "stamp"}

\* The slot being claimed is the only one marked, and it is not the newest.
OneMarked ==
    /\ \A s \in Slots : seq[s] = WRITING => s = cand /\ Claiming
    /\ Claiming => seq[cand] = WRITING
    /\ Claiming \/ opc = "point" => (latest.seq # 0 => latest.slot # cand)
    /\ opc \in {"pick", "check"} => (latest.seq # 0 => latest.slot \notin todo)

\* A number in a slot's header names the bytes in the slot.
NumberedBytes ==
    /\ \A s \in Slots : seq[s] # WRITING => data[s] = seq[s] /\ seq[s] <= frames
    /\ opc = "check" => data[cand] = old /\ old <= frames
    /\ opc = "stamp" => data[cand] = frames + 1
    /\ opc = "point" => seq[cand] = frames /\ latest.seq < frames
    /\ latest.seq <= frames
    /\ latest.seq # 0 => seq[latest.slot] = latest.seq

\* A held frame is leased, and its slot still has its number unless the owner
\* is at this moment trying the slot, in which case it will put it back.
HeldNumbered ==
    \A p \in Places, s \in Slots : held[p][s] # 0 =>
        /\ place[p] = "held"
        /\ s \in leases[p]
        /\ held[p][s] <= last[p]
        /\ seq[s] = held[p][s] \/ (opc = "check" /\ s = cand /\ old = held[p][s])

\* The owner cannot pass a reader that holds the slot, nor a reader take a
\* slot the owner has passed it for.
Backoff ==
    /\ opc = "check" /\ cand \notin mask =>
          \A p \in Places : p < at => held[p][cand] = 0
    /\ opc \in {"fill", "stamp"} => \A p \in Places : held[p][cand] = 0

\* The frame a slot holds, or will hold, is f's or a later one.
NoOlder(f) ==
    /\ f.seq <= frames
    /\ \/ opc \in {"fill", "stamp"} /\ f.slot = cand
       \/ opc = "check" /\ f.slot = cand /\ f.seq <= old
       \/ seq[f.slot] # WRITING /\ f.seq <= seq[f.slot]

Wants(p) == rpc[p] \in {"lease", "verify", "undo"} \/ (rpc[p] = "count" /\ latestOnly[p])

\* What a reader is after is newer than all it has seen, so the slot it tries
\* is never one whose frame it already holds.
WantsNewer ==
    \A p \in Places : place[p] = "held" =>
        /\ Wants(p) => want[p].seq > last[p] /\ NoOlder(want[p])
        /\ rpc[p] = "scan" /\ best[p].seq # 0 => best[p].seq > last[p] /\ NoOlder(best[p])
        /\ rpc[p] \in {"verify", "undo"} =>
              want[p].slot \in leases[p] /\ held[p][want[p].slot] = 0

IInv ==
    /\ TypeOK
    /\ OneMarked
    /\ NumberedBytes
    /\ HeldNumbered
    /\ Backoff
    /\ WantsNewer

-----------------------------------------------------------------------------
(* Initial state and one lemma per action.                                   *)

LEMMA SlotsNat == NSlots \in Nat /\ NSlots >= 1
<1>1. Clamped \in Nat
  BY RingAssumption DEF Clamped
<1>2. Clamped * LeasesPerReader \in Nat
  BY <1>1, RingAssumption
<1> QED
  BY <1>1, <1>2, RingAssumption DEF NSlots

LEMMA InitInv == Init => IInv
BY SlotsNat, RingAssumption
   DEF Init, IInv, TypeOK, OneMarked, NumberedBytes, HeldNumbered, Backoff, WantsNewer, Wants,
       NoOlder, Claiming, WRITING, TORN, NoFrame, Stamp, Slots, Places

LEMMA BeginClaimInv == ASSUME IInv, BeginClaim PROVE IInv'
<1>1. TypeOK'
  BY RingAssumption DEF IInv, BeginClaim, TypeOK, Stamp, region, table, reader, call
<1>2. OneMarked'
  BY DEF IInv, BeginClaim, OneMarked, TypeOK, Claiming, Stamp, region, table, reader, call
<1>3. NumberedBytes'
  BY
     DEF IInv, BeginClaim, NumberedBytes, TypeOK, OneMarked, Claiming, Stamp, region, table,
         reader, call
<1>4. HeldNumbered'
  BY DEF IInv, BeginClaim, HeldNumbered, TypeOK, region, table, reader, call
<1>5. Backoff'
  BY DEF IInv, BeginClaim, Backoff, TypeOK, HeldNumbered, region, table, reader, call
<1>6. WantsNewer'
  BY DEF IInv, BeginClaim, WantsNewer, TypeOK, Wants, NoOlder, region, table, reader, call
<1> QED
  BY <1>1, <1>2, <1>3, <1>4, <1>5, <1>6 DEF IInv

LEMMA ScanBusyInv == ASSUME IInv, ScanBusy PROVE IInv'
<1>1. TypeOK'
  <2>1. at \in Places
    BY RingAssumption DEF IInv, TypeOK, ScanBusy, ScanPlace, Places
  <2> QED
    BY <2>1, RingAssumption
       DEF IInv, TypeOK, ScanBusy, ScanPlace, region, table, reader, call
<1>2. OneMarked'
  BY
     DEF IInv, ScanBusy, OneMarked, TypeOK, Claiming, Stamp, ScanPlace, region, table,
         reader, call
<1>3. NumberedBytes'
  BY
     DEF IInv, ScanBusy, NumberedBytes, TypeOK, OneMarked, Claiming, Stamp, ScanPlace,
         region, table, reader, call
<1>4. HeldNumbered'
  BY DEF IInv, ScanBusy, HeldNumbered, TypeOK, ScanPlace, region, table, reader, call
<1>5. Backoff'
  BY
     DEF IInv, ScanBusy, Backoff, TypeOK, HeldNumbered, ScanPlace, region, table, reader,
         call
<1>6. WantsNewer'
  BY
     DEF IInv, ScanBusy, WantsNewer, TypeOK, Wants, NoOlder, ScanPlace, region, table,
         reader, call
<1> QED
  BY <1>1, <1>2, <1>3, <1>4, <1>5, <1>6 DEF IInv

LEMMA ChooseInv == ASSUME IInv, Choose PROVE IInv'
<1>1. TypeOK'
  BY RingAssumption DEF IInv, Choose, TypeOK, Stamp, region, table, reader, call
<1>2. OneMarked'
  BY
     DEF IInv, Choose, OneMarked, TypeOK, Claiming, Stamp, Newest, region, table, reader,
         call
<1>3. NumberedBytes'
  BY
     DEF IInv, Choose, NumberedBytes, TypeOK, OneMarked, Claiming, Stamp, region, table,
         reader, call
<1>4. HeldNumbered'
  BY DEF IInv, Choose, HeldNumbered, TypeOK, region, table, reader, call
<1>5. Backoff'
  BY DEF IInv, Choose, Backoff, TypeOK, HeldNumbered, region, table, reader, call
<1>6. WantsNewer'
  BY DEF IInv, Choose, WantsNewer, TypeOK, Wants, NoOlder, region, table, reader, call
<1> QED
  BY <1>1, <1>2, <1>3, <1>4, <1>5, <1>6 DEF IInv

LEMMA MarkInv == ASSUME IInv, NEW s \in Slots, Mark(s) PROVE IInv'
<1>1. TypeOK'
  BY RingAssumption
     DEF IInv, Mark, TypeOK, Stamp, OneMarked, Claiming, WRITING, region, table, reader,
         call
<1>2. OneMarked'
  BY
     DEF IInv, Mark, OneMarked, TypeOK, Claiming, Stamp, WRITING, region, table, reader,
         call
<1>3. NumberedBytes'
  BY
     DEF IInv, Mark, NumberedBytes, TypeOK, OneMarked, Claiming, Stamp, WRITING, region,
         table, reader, call
<1>4. HeldNumbered'
  BY
     DEF IInv, Mark, HeldNumbered, TypeOK, OneMarked, Claiming, WRITING, NumberedBytes,
         Backoff, region, table, reader, call
<1>5. Backoff'
  BY
     DEF IInv, Mark, Backoff, TypeOK, HeldNumbered, OneMarked, Claiming, Places, region,
         table, reader, call
<1>6. WantsNewer'
  BY
     DEF IInv, Mark, WantsNewer, TypeOK, Wants, NoOlder, OneMarked, Claiming, WRITING,
         region, table, reader, call
<1> QED
  BY <1>1, <1>2, <1>3, <1>4, <1>5, <1>6 DEF IInv

LEMMA ScanCheckInv == ASSUME IInv, ScanCheck PROVE IInv'
<1>1. TypeOK'
  <2>1. at \in Places
    BY RingAssumption DEF IInv, TypeOK, ScanCheck, ScanPlace, Places
  <2> QED
    BY <2>1, RingAssumption
       DEF IInv, TypeOK, ScanCheck, ScanPlace, region, table, reader, call
<1>2. OneMarked'
  BY
     DEF IInv, ScanCheck, OneMarked, TypeOK, Claiming, Stamp, ScanPlace, region, table,
         reader, call
<1>3. NumberedBytes'
  BY
     DEF IInv, ScanCheck, NumberedBytes, TypeOK, OneMarked, Claiming, Stamp, ScanPlace,
         region, table, reader, call
<1>4. HeldNumbered'
  BY DEF IInv, ScanCheck, HeldNumbered, TypeOK, ScanPlace, region, table, reader, call
<1>5. Backoff'
  BY
     DEF IInv, ScanCheck, Backoff, TypeOK, HeldNumbered, ScanPlace, Places, region, table,
         reader, call
<1>6. WantsNewer'
  BY
     DEF IInv, ScanCheck, WantsNewer, TypeOK, Wants, NoOlder, ScanPlace, region, table,
         reader, call
<1> QED
  BY <1>1, <1>2, <1>3, <1>4, <1>5, <1>6 DEF IInv

LEMMA RestoreInv == ASSUME IInv, Restore PROVE IInv'
<1>1. TypeOK'
  BY RingAssumption DEF IInv, Restore, TypeOK, Stamp, region, table, reader, call
<1>2. OneMarked'
  BY
     DEF IInv, Restore, OneMarked, TypeOK, Claiming, Stamp, WRITING, region, table, reader,
         call
<1>3. NumberedBytes'
  BY
     DEF IInv, Restore, NumberedBytes, TypeOK, OneMarked, Claiming, Stamp, WRITING, region,
         table, reader, call
<1>4. HeldNumbered'
  BY
     DEF IInv, Restore, HeldNumbered, TypeOK, OneMarked, Claiming, WRITING, NumberedBytes,
         Backoff, region, table, reader, call
<1>5. Backoff'
  BY
     DEF IInv, Restore, Backoff, TypeOK, HeldNumbered, OneMarked, Claiming, region, table,
         reader, call
<1>6. WantsNewer'
  BY
     DEF IInv, Restore, WantsNewer, TypeOK, Wants, NoOlder, OneMarked, Claiming, WRITING,
         region, table, reader, call
<1> QED
  BY <1>1, <1>2, <1>3, <1>4, <1>5, <1>6 DEF IInv

LEMMA StartFillInv == ASSUME IInv, StartFill PROVE IInv'
<1>1. TypeOK'
  BY RingAssumption DEF IInv, StartFill, TypeOK, Stamp, region, table, reader, call
<1>2. OneMarked'
  BY
     DEF IInv, StartFill, OneMarked, TypeOK, Claiming, Stamp, WRITING, region, table,
         reader, call
<1>3. NumberedBytes'
  BY
     DEF IInv, StartFill, NumberedBytes, TypeOK, OneMarked, Claiming, Stamp, WRITING,
         region, table, reader, call
<1>4. HeldNumbered'
  <2>1. \A p \in Places : held[p][cand] = 0
    BY DEF IInv, TypeOK, StartFill, Backoff, Places
  <2> QED
    BY <2>1 DEF IInv, StartFill, HeldNumbered, table, reader, call
<1>5. Backoff'
  BY DEF IInv, StartFill, Backoff, TypeOK, HeldNumbered, Places, region, table, reader, call
<1>6. WantsNewer'
  BY
     DEF IInv, StartFill, WantsNewer, TypeOK, Wants, NoOlder, OneMarked, Claiming, WRITING,
         region, table, reader, call
<1> QED
  BY <1>1, <1>2, <1>3, <1>4, <1>5, <1>6 DEF IInv

LEMMA EndFillInv == ASSUME IInv, EndFill PROVE IInv'
<1>1. TypeOK'
  BY RingAssumption DEF IInv, EndFill, TypeOK, Stamp, region, table, reader, call
<1>2. OneMarked'
  BY
     DEF IInv, EndFill, OneMarked, TypeOK, Claiming, Stamp, WRITING, region, table, reader,
         call
<1>3. NumberedBytes'
  BY
     DEF IInv, EndFill, NumberedBytes, TypeOK, OneMarked, Claiming, Stamp, WRITING, region,
         table, reader, call
<1>4. HeldNumbered'
  BY
     DEF IInv, EndFill, HeldNumbered, TypeOK, OneMarked, Claiming, WRITING, NumberedBytes,
         Backoff, region, table, reader, call
<1>5. Backoff'
  BY
     DEF IInv, EndFill, Backoff, TypeOK, HeldNumbered, OneMarked, Claiming, region, table,
         reader, call
<1>6. WantsNewer'
  BY
     DEF IInv, EndFill, WantsNewer, TypeOK, Wants, NoOlder, OneMarked, Claiming, WRITING,
         region, table, reader, call
<1> QED
  BY <1>1, <1>2, <1>3, <1>4, <1>5, <1>6 DEF IInv

LEMMA StampSlotInv == ASSUME IInv, StampSlot PROVE IInv'
<1>1. TypeOK'
  BY RingAssumption DEF IInv, StampSlot, TypeOK, Stamp, region, table, reader, call
<1>2. OneMarked'
  BY
     DEF IInv, StampSlot, OneMarked, TypeOK, Claiming, Stamp, WRITING, region, table,
         reader, call
<1>3. NumberedBytes'
  BY
     DEF IInv, StampSlot, NumberedBytes, TypeOK, OneMarked, Claiming, Stamp, WRITING,
         region, table, reader, call
<1>4. HeldNumbered'
  BY
     DEF IInv, StampSlot, HeldNumbered, TypeOK, OneMarked, Claiming, WRITING, NumberedBytes,
         Backoff, region, table, reader, call
<1>5. Backoff'
  BY
     DEF IInv, StampSlot, Backoff, TypeOK, HeldNumbered, OneMarked, Claiming, region, table,
         reader, call
<1>6. WantsNewer'
  <2>1. ASSUME NEW f \in Stamp, NoOlder(f) PROVE NoOlder(f)'
    BY <2>1 DEF IInv, TypeOK, Stamp, StampSlot, NoOlder, OneMarked, Claiming, WRITING
  <2> QED
    BY <2>1 DEF IInv, TypeOK, StampSlot, WantsNewer, Wants, table, reader, call
<1> QED
  BY <1>1, <1>2, <1>3, <1>4, <1>5, <1>6 DEF IInv

LEMMA PointLatestInv == ASSUME IInv, PointLatest PROVE IInv'
<1>1. TypeOK'
  BY RingAssumption DEF IInv, PointLatest, TypeOK, Stamp, region, table, reader, call
<1>2. OneMarked'
  BY DEF IInv, PointLatest, OneMarked, TypeOK, Claiming, Stamp, region, table, reader, call
<1>3. NumberedBytes'
  BY
     DEF IInv, PointLatest, NumberedBytes, TypeOK, OneMarked, Claiming, Stamp, WRITING,
         region, table, reader, call
<1>4. HeldNumbered'
  BY DEF IInv, PointLatest, HeldNumbered, TypeOK, region, table, reader, call
<1>5. Backoff'
  BY DEF IInv, PointLatest, Backoff, TypeOK, HeldNumbered, region, table, reader, call
<1>6. WantsNewer'
  BY DEF IInv, PointLatest, WantsNewer, TypeOK, Wants, NoOlder, region, table, reader, call
<1> QED
  BY <1>1, <1>2, <1>3, <1>4, <1>5, <1>6 DEF IInv

LEMMA GiveUpInv == ASSUME IInv, GiveUp PROVE IInv'
<1>1. TypeOK'
  BY RingAssumption DEF IInv, GiveUp, TypeOK, Stamp, region, table, reader, call
<1>2. OneMarked'
  BY DEF IInv, GiveUp, OneMarked, TypeOK, Claiming, Stamp, region, table, reader, call
<1>3. NumberedBytes'
  BY
     DEF IInv, GiveUp, NumberedBytes, TypeOK, OneMarked, Claiming, Stamp, region, table,
         reader, call
<1>4. HeldNumbered'
  BY DEF IInv, GiveUp, HeldNumbered, TypeOK, region, table, reader, call
<1>5. Backoff'
  BY DEF IInv, GiveUp, Backoff, TypeOK, HeldNumbered, region, table, reader, call
<1>6. WantsNewer'
  BY DEF IInv, GiveUp, WantsNewer, TypeOK, Wants, NoOlder, region, table, reader, call
<1> QED
  BY <1>1, <1>2, <1>3, <1>4, <1>5, <1>6 DEF IInv

LEMMA LoadLatestInv == ASSUME IInv, NEW p \in Places, LoadLatest(p) PROVE IInv'
<1>1. TypeOK'
  <2>1. want' \in [Places -> Stamp] /\ latestOnly' \in [Places -> BOOLEAN]
    BY DEF IInv, TypeOK, LoadLatest
  <2>2. rpc' \in [Places -> {"idle", "jump", "count", "scan", "lease", "verify", "undo"}]
    BY DEF IInv, TypeOK, LoadLatest, Goto
  <2> QED
    BY <2>1, <2>2 DEF IInv, TypeOK, LoadLatest, region, table, owner
<1>2. OneMarked'
  BY
     DEF IInv, LoadLatest, OneMarked, TypeOK, Claiming, Stamp, region, table, owner, call,
         reader, Goto
<1>3. NumberedBytes'
  BY
     DEF IInv, LoadLatest, NumberedBytes, TypeOK, OneMarked, Claiming, Stamp, region, table,
         owner, call, reader, Goto
<1>4. HeldNumbered'
  BY DEF IInv, LoadLatest, HeldNumbered, TypeOK, region, table, owner, call, reader, Goto
<1>5. Backoff'
  BY
     DEF IInv, LoadLatest, Backoff, TypeOK, HeldNumbered, region, table, owner, call,
         reader, Goto
<1>6. WantsNewer'
  <2>1. ASSUME NEW f \in Stamp PROVE NoOlder(f)' <=> NoOlder(f)
    BY DEF LoadLatest, NoOlder, region, owner
  <2>2. CASE latest.seq = 0 \/ latest.seq <= last[p]
    BY <2>1, <2>2 DEF IInv, TypeOK, LoadLatest, Goto, WantsNewer, Wants, table
  <2>3. CASE ~(latest.seq = 0 \/ latest.seq <= last[p])
    <3>1. latest \in Stamp /\ latest.seq > last[p] /\ NoOlder(latest)
      BY <2>3 DEF IInv, TypeOK, Stamp, NoOlder, NumberedBytes, WRITING
    <3>2. rpc'[p] = "count" /\ want'[p] = latest
      BY <2>3 DEF IInv, TypeOK, LoadLatest, Goto
    <3>3. \A q \in Places : q # p =>
            rpc'[q] = rpc[q] /\ want'[q] = want[q] /\ latestOnly'[q] = latestOnly[q]
      BY <2>3 DEF IInv, TypeOK, LoadLatest, Goto
    <3> QED
      BY <2>1, <3>1, <3>2, <3>3 DEF IInv, TypeOK, LoadLatest, WantsNewer, Wants, table
  <2> QED
    BY <2>2, <2>3
<1> QED
  BY <1>1, <1>2, <1>3, <1>4, <1>5, <1>6 DEF IInv

LEMMA LoadNextInv == ASSUME IInv, NEW p \in Places, LoadNext(p) PROVE IInv'
<1>1. TypeOK'
  BY RingAssumption
     DEF IInv, LoadNext, TypeOK, Stamp, Top, region, table, owner, call, reader, Goto
<1>2. OneMarked'
  BY
     DEF IInv, LoadNext, OneMarked, TypeOK, Claiming, Stamp, region, table, owner, call,
         reader, Goto
<1>3. NumberedBytes'
  BY
     DEF IInv, LoadNext, NumberedBytes, TypeOK, OneMarked, Claiming, Stamp, region, table,
         owner, call, reader, Goto
<1>4. HeldNumbered'
  BY DEF IInv, LoadNext, HeldNumbered, TypeOK, region, table, owner, call, reader, Goto
<1>5. Backoff'
  BY
     DEF IInv, LoadNext, Backoff, TypeOK, HeldNumbered, region, table, owner, call, reader,
         Goto
<1>6. WantsNewer'
  BY
     DEF IInv, LoadNext, WantsNewer, TypeOK, Wants, NoOlder, Top, region, table, owner,
         call, reader, Goto
<1> QED
  BY <1>1, <1>2, <1>3, <1>4, <1>5, <1>6 DEF IInv

LEMMA CountLeasesInv == ASSUME IInv, NEW p \in Places, CountLeases(p) PROVE IInv'
<1>1. TypeOK'
  <2>1. NoFrame \in Stamp /\ 0 \in 0 .. NSlots
    BY SlotsNat DEF NoFrame, Stamp, Slots
  <2> QED
    BY <2>1 DEF IInv, TypeOK, CountLeases, Goto, region, table, owner
<1>2. OneMarked'
  BY
     DEF IInv, CountLeases, OneMarked, TypeOK, Claiming, Stamp, region, table, owner, call,
         reader, Goto
<1>3. NumberedBytes'
  BY
     DEF IInv, CountLeases, NumberedBytes, TypeOK, OneMarked, Claiming, Stamp, region,
         table, owner, call, reader, Goto
<1>4. HeldNumbered'
  BY DEF IInv, CountLeases, HeldNumbered, TypeOK, region, table, owner, call, reader, Goto
<1>5. Backoff'
  BY
     DEF IInv, CountLeases, Backoff, TypeOK, HeldNumbered, region, table, owner, call,
         reader, Goto
<1>6. WantsNewer'
  BY DEF IInv, CountLeases, TypeOK, Wants, NoOlder, NoFrame, Goto, WantsNewer, region, table, owner
<1> QED
  BY <1>1, <1>2, <1>3, <1>4, <1>5, <1>6 DEF IInv

LEMMA ScanSlotInv == ASSUME IInv, NEW p \in Places, ScanSlot(p) PROVE IInv'
<1>1. TypeOK'
  <2>1. ask[p] \in Slots /\ ask[p] + 1 \in 0 .. NSlots
    BY SlotsNat DEF IInv, TypeOK, ScanSlot, Slots
  <2>2. seq[ask[p]] # WRITING => [seq |-> seq[ask[p]], slot |-> ask[p]] \in Stamp
    BY <2>1 DEF IInv, TypeOK, Stamp
  <2> QED
    BY <2>1, <2>2 DEF IInv, TypeOK, ScanSlot, Goto, region, table, owner
<1>2. OneMarked'
  BY
     DEF IInv, ScanSlot, OneMarked, TypeOK, Claiming, Stamp, region, table, owner, call,
         reader, Goto
<1>3. NumberedBytes'
  BY
     DEF IInv, ScanSlot, NumberedBytes, TypeOK, OneMarked, Claiming, Stamp, region, table,
         owner, call, reader, Goto
<1>4. HeldNumbered'
  BY DEF IInv, ScanSlot, HeldNumbered, TypeOK, region, table, owner, call, reader, Goto
<1>5. Backoff'
  BY
     DEF IInv, ScanSlot, Backoff, TypeOK, HeldNumbered, region, table, owner, call, reader,
         Goto
<1>6. WantsNewer'
  <2>1. ask[p] \in Slots
    BY SlotsNat DEF IInv, TypeOK, ScanSlot, Slots
  <2>2. ASSUME NEW f \in Stamp PROVE NoOlder(f)' <=> NoOlder(f)
    BY DEF ScanSlot, NoOlder, region, owner
  <2>3. best'[p] = best[p] \/ (best'[p].seq > last[p] /\ NoOlder(best'[p]))
    BY <2>1 DEF IInv, TypeOK, ScanSlot, NoOlder, NumberedBytes, WRITING
  <2>4. best' \in [Places -> Stamp]
    BY <1>1 DEF TypeOK
  <2> QED
    BY <2>1, <2>2, <2>3, <2>4
       DEF IInv, TypeOK, ScanSlot, WantsNewer, Wants, region, table, owner
<1> QED
  BY <1>1, <1>2, <1>3, <1>4, <1>5, <1>6 DEF IInv

LEMMA EndScanInv == ASSUME IInv, NEW p \in Places, EndScan(p) PROVE IInv'
<1>1. TypeOK'
  BY RingAssumption
     DEF IInv, EndScan, TypeOK, Stamp, region, table, owner, call, reader, Goto
<1>2. OneMarked'
  BY
     DEF IInv, EndScan, OneMarked, TypeOK, Claiming, Stamp, region, table, owner, call,
         reader, Goto
<1>3. NumberedBytes'
  BY
     DEF IInv, EndScan, NumberedBytes, TypeOK, OneMarked, Claiming, Stamp, region, table,
         owner, call, reader, Goto
<1>4. HeldNumbered'
  BY DEF IInv, EndScan, HeldNumbered, TypeOK, region, table, owner, call, reader, Goto
<1>5. Backoff'
  BY
     DEF IInv, EndScan, Backoff, TypeOK, HeldNumbered, region, table, owner, call, reader,
         Goto
<1>6. WantsNewer'
  BY
     DEF IInv, EndScan, WantsNewer, TypeOK, Wants, NoOlder, region, table, owner, call,
         reader, Goto
<1> QED
  BY <1>1, <1>2, <1>3, <1>4, <1>5, <1>6 DEF IInv

LEMMA SetLeaseInv == ASSUME IInv, NEW p \in Places, SetLease(p) PROVE IInv'
<1>1. TypeOK'
  BY RingAssumption
     DEF IInv, SetLease, TypeOK, Stamp, region, table, owner, call, reader, Goto
<1>2. OneMarked'
  BY
     DEF IInv, SetLease, OneMarked, TypeOK, Claiming, Stamp, region, table, owner, call,
         reader, Goto
<1>3. NumberedBytes'
  BY
     DEF IInv, SetLease, NumberedBytes, TypeOK, OneMarked, Claiming, Stamp, region, table,
         owner, call, reader, Goto
<1>4. HeldNumbered'
  BY DEF IInv, SetLease, HeldNumbered, TypeOK, region, table, owner, call, reader, Goto
<1>5. Backoff'
  BY
     DEF IInv, SetLease, Backoff, TypeOK, HeldNumbered, region, table, owner, call, reader,
         Goto
<1>6. WantsNewer'
  <2>1. ASSUME held[p][want[p].slot] # 0 PROVE FALSE
    <3> DEFINE f == want[p]
    <3>1. f \in Stamp /\ f.slot \in Slots /\ f.seq \in Nat
      BY DEF IInv, TypeOK, Stamp
    <3>2. f.seq > last[p] /\ NoOlder(f)
      BY DEF IInv, SetLease, WantsNewer, Wants
    <3>3. held[p][f.slot] <= last[p] /\ held[p][f.slot] \in Nat /\ last[p] \in Nat
      BY <2>1, <3>1 DEF IInv, TypeOK, HeldNumbered
    <3>4. ~(opc \in {"fill", "stamp"} /\ f.slot = cand)
      BY <2>1, <3>1 DEF IInv, TypeOK, Backoff
    <3>5. \/ seq[f.slot] = held[p][f.slot]
          \/ opc = "check" /\ f.slot = cand /\ old = held[p][f.slot]
      BY <2>1, <3>1 DEF IInv, HeldNumbered
    <3>6. opc = "check" /\ f.slot = cand => seq[f.slot] = WRITING
      BY DEF IInv, OneMarked, Claiming
    <3> QED
      BY <3>1, <3>2, <3>3, <3>4, <3>5, <3>6 DEF NoOlder, WRITING
  <2>2. ASSUME NEW f \in Stamp PROVE NoOlder(f)' <=> NoOlder(f)
    BY DEF SetLease, NoOlder, region, owner
  <2> QED
    BY <2>1, <2>2 DEF IInv, TypeOK, SetLease, WantsNewer, Wants, Goto, region, table, owner
<1> QED
  BY <1>1, <1>2, <1>3, <1>4, <1>5, <1>6 DEF IInv

LEMMA TakeFrameInv == ASSUME IInv, NEW p \in Places, TakeFrame(p) PROVE IInv'
<1>1. TypeOK'
  BY RingAssumption
     DEF IInv, TakeFrame, TypeOK, Stamp, Missed, Verified, WantsNewer, Wants, NoOlder,
         Claiming, OneMarked, WRITING, region, table, owner, call, reader, Goto
<1>2. OneMarked'
  BY
     DEF IInv, TakeFrame, OneMarked, TypeOK, Claiming, Stamp, region, table, owner, call,
         reader, Goto
<1>3. NumberedBytes'
  BY
     DEF IInv, TakeFrame, NumberedBytes, TypeOK, OneMarked, Claiming, Stamp, region, table,
         owner, call, reader, Goto
<1>4. HeldNumbered'
  BY
     DEF IInv, TakeFrame, HeldNumbered, TypeOK, Missed, Verified, WantsNewer, Wants,
         NoOlder, Claiming, OneMarked, WRITING, region, table, owner, call, reader, Goto
<1>5. Backoff'
  BY
     DEF IInv, TakeFrame, Backoff, TypeOK, HeldNumbered, Missed, Verified, WantsNewer,
         Wants, NoOlder, Claiming, OneMarked, WRITING, region, table, owner, call, reader, Goto
<1>6. WantsNewer'
  BY
     DEF IInv, TakeFrame, WantsNewer, TypeOK, Wants, NoOlder, Missed, Verified, Claiming,
         OneMarked, WRITING, region, table, owner, call, reader, Goto
<1> QED
  BY <1>1, <1>2, <1>3, <1>4, <1>5, <1>6 DEF IInv

LEMMA MistakenInv == ASSUME IInv, NEW p \in Places, Mistaken(p) PROVE IInv'
<1>1. TypeOK'
  BY RingAssumption
     DEF IInv, Mistaken, TypeOK, Stamp, region, table, owner, call, reader, Goto
<1>2. OneMarked'
  BY
     DEF IInv, Mistaken, OneMarked, TypeOK, Claiming, Stamp, region, table, owner, call,
         reader, Goto
<1>3. NumberedBytes'
  BY
     DEF IInv, Mistaken, NumberedBytes, TypeOK, OneMarked, Claiming, Stamp, region, table,
         owner, call, reader, Goto
<1>4. HeldNumbered'
  BY DEF IInv, Mistaken, HeldNumbered, TypeOK, region, table, owner, call, reader, Goto
<1>5. Backoff'
  BY
     DEF IInv, Mistaken, Backoff, TypeOK, HeldNumbered, region, table, owner, call, reader,
         Goto
<1>6. WantsNewer'
  BY
     DEF IInv, Mistaken, WantsNewer, TypeOK, Wants, NoOlder, region, table, owner, call,
         reader, Goto
<1> QED
  BY <1>1, <1>2, <1>3, <1>4, <1>5, <1>6 DEF IInv

LEMMA ClearLeaseInv == ASSUME IInv, NEW p \in Places, ClearLease(p) PROVE IInv'
<1>1. TypeOK'
  BY RingAssumption
     DEF IInv, ClearLease, TypeOK, Stamp, Top, region, table, owner, call, reader, Goto
<1>2. OneMarked'
  BY
     DEF IInv, ClearLease, OneMarked, TypeOK, Claiming, Stamp, region, table, owner, call,
         reader, Goto
<1>3. NumberedBytes'
  BY
     DEF IInv, ClearLease, NumberedBytes, TypeOK, OneMarked, Claiming, Stamp, region, table,
         owner, call, reader, Goto
<1>4. HeldNumbered'
  BY
     DEF IInv, ClearLease, HeldNumbered, TypeOK, WantsNewer, region, table, owner, call,
         reader, Goto
<1>5. Backoff'
  BY
     DEF IInv, ClearLease, Backoff, TypeOK, HeldNumbered, region, table, owner, call,
         reader, Goto
<1>6. WantsNewer'
  BY
     DEF IInv, ClearLease, WantsNewer, TypeOK, Wants, NoOlder, Top, region, table, owner,
         call, reader, Goto
<1> QED
  BY <1>1, <1>2, <1>3, <1>4, <1>5, <1>6 DEF IInv

LEMMA ReleaseInv == ASSUME IInv, NEW p \in Places, NEW s \in Slots, Release(p, s) PROVE IInv'
<1>1. TypeOK'
  BY RingAssumption
     DEF IInv, Release, TypeOK, Stamp, region, table, owner, call, reader, Goto
<1>2. OneMarked'
  BY
     DEF IInv, Release, OneMarked, TypeOK, Claiming, Stamp, region, table, owner, call,
         reader, Goto
<1>3. NumberedBytes'
  BY
     DEF IInv, Release, NumberedBytes, TypeOK, OneMarked, Claiming, Stamp, region, table,
         owner, call, reader, Goto
<1>4. HeldNumbered'
  BY
     DEF IInv, Release, HeldNumbered, TypeOK, WantsNewer, region, table, owner, call,
         reader, Goto
<1>5. Backoff'
  BY
     DEF IInv, Release, Backoff, TypeOK, HeldNumbered, region, table, owner, call, reader,
         Goto
<1>6. WantsNewer'
  BY
     DEF IInv, Release, WantsNewer, TypeOK, Wants, NoOlder, region, table, owner, call,
         reader, Goto
<1> QED
  BY <1>1, <1>2, <1>3, <1>4, <1>5, <1>6 DEF IInv

LEMMA DieInv == ASSUME IInv, NEW p \in Places, Die(p) PROVE IInv'
<1>1. TypeOK'
  BY RingAssumption DEF IInv, Die, TypeOK, Stamp, region, table, owner, call, reader, Goto
<1>2. OneMarked'
  BY
     DEF IInv, Die, OneMarked, TypeOK, Claiming, Stamp, region, table, owner, call, reader,
         Goto
<1>3. NumberedBytes'
  BY
     DEF IInv, Die, NumberedBytes, TypeOK, OneMarked, Claiming, Stamp, region, table, owner,
         call, reader, Goto
<1>4. HeldNumbered'
  BY DEF IInv, Die, HeldNumbered, TypeOK, region, table, owner, call, reader, Goto
<1>5. Backoff'
  BY DEF IInv, Die, Backoff, TypeOK, HeldNumbered, region, table, owner, call, reader, Goto
<1>6. WantsNewer'
  BY
     DEF IInv, Die, WantsNewer, TypeOK, Wants, NoOlder, region, table, owner, call, reader,
         Goto
<1> QED
  BY <1>1, <1>2, <1>3, <1>4, <1>5, <1>6 DEF IInv

LEMMA TakeReaderInv == ASSUME IInv, NEW p \in Places, TakeReader(p) PROVE IInv'
<1>1. TypeOK'
  BY RingAssumption
     DEF IInv, TakeReader, TypeOK, Stamp, region, table, owner, call, reader, Goto
<1>2. OneMarked'
  BY
     DEF IInv, TakeReader, OneMarked, TypeOK, Claiming, Stamp, region, table, owner, call,
         reader, Goto
<1>3. NumberedBytes'
  BY
     DEF IInv, TakeReader, NumberedBytes, TypeOK, OneMarked, Claiming, Stamp, region, table,
         owner, call, reader, Goto
<1>4. HeldNumbered'
  BY DEF IInv, TakeReader, HeldNumbered, TypeOK, region, table, owner, call, reader, Goto
<1>5. Backoff'
  BY
     DEF IInv, TakeReader, Backoff, TypeOK, HeldNumbered, region, table, owner, call,
         reader, Goto
<1>6. WantsNewer'
  BY
     DEF IInv, TakeReader, WantsNewer, TypeOK, Wants, NoOlder, region, table, owner, call,
         reader, Goto
<1> QED
  BY <1>1, <1>2, <1>3, <1>4, <1>5, <1>6 DEF IInv

LEMMA ResetReaderInv == ASSUME IInv, NEW p \in Places, ResetReader(p) PROVE IInv'
<1>1. TypeOK'
  BY RingAssumption
     DEF IInv, ResetReader, TypeOK, Stamp, region, table, owner, call, reader, Goto
<1>2. OneMarked'
  BY
     DEF IInv, ResetReader, OneMarked, TypeOK, Claiming, Stamp, region, table, owner, call,
         reader, Goto
<1>3. NumberedBytes'
  BY
     DEF IInv, ResetReader, NumberedBytes, TypeOK, OneMarked, Claiming, Stamp, region,
         table, owner, call, reader, Goto
<1>4. HeldNumbered'
  BY DEF IInv, ResetReader, HeldNumbered, TypeOK, region, table, owner, call, reader, Goto
<1>5. Backoff'
  BY
     DEF IInv, ResetReader, Backoff, TypeOK, HeldNumbered, region, table, owner, call,
         reader, Goto
<1>6. WantsNewer'
  BY
     DEF IInv, ResetReader, WantsNewer, TypeOK, Wants, NoOlder, region, table, owner, call,
         reader, Goto
<1> QED
  BY <1>1, <1>2, <1>3, <1>4, <1>5, <1>6 DEF IInv

LEMMA StutterInv == ASSUME IInv, UNCHANGED vars PROVE IInv'
BY DEF IInv, TypeOK, OneMarked, NumberedBytes, HeldNumbered, Backoff, WantsNewer, Wants, NoOlder,
       Claiming, vars, region, table, owner, reader, call

LEMMA NextInv == ASSUME IInv, [Next]_vars PROVE IInv'
<1>1. CASE BeginClaim \/ OwnerStep
  BY <1>1, BeginClaimInv, ScanBusyInv, ChooseInv, MarkInv, ScanCheckInv, RestoreInv, StartFillInv,
     EndFillInv, StampSlotInv, PointLatestInv, GiveUpInv DEF OwnerStep
<1>2. CASE \E p \in Places : ReaderStep(p)
  BY <1>2, LoadLatestInv, LoadNextInv, CountLeasesInv, ScanSlotInv, EndScanInv, SetLeaseInv,
     TakeFrameInv, MistakenInv, ClearLeaseInv DEF ReaderStep
<1>3. CASE \E p \in Places : Die(p) \/ TakeReader(p) \/ ResetReader(p) \/ \E s \in Slots : Release(p, s)
  BY <1>3, DieInv, TakeReaderInv, ResetReaderInv, ReleaseInv
<1>4. CASE UNCHANGED vars
  BY <1>4, StutterInv
<1> QED
  BY <1>1, <1>2, <1>3, <1>4 DEF Next

-----------------------------------------------------------------------------
(* The theorems.                                                             *)

\* The inductive invariant holds in every behaviour of the ring.
THEOREM RingInvariant == Spec => []IInv
<1>1. Init => IInv
  BY InitInv
<1>2. IInv /\ [Next]_vars => IInv'
  BY NextInv
<1> QED
  BY <1>1, <1>2, PTL DEF Spec

\* Every variable keeps its type: no count goes below zero, no slot number is
\* out of range, however many readers and slots there are.
THEOREM RingTypes == Spec => []TypeOK
<1>1. IInv => TypeOK
  BY DEF IInv
<1> QED
  BY <1>1, RingInvariant, PTL

\* No reader's frame is ever overwritten, or torn, while it holds it: claim()
\* and lease_latest()/lease_next() never both take a slot.
THEOREM HeldFramesStayIntact == Spec => []HeldFrameIntact
<1>1. IInv => HeldFrameIntact
  <2> SUFFICES ASSUME IInv, NEW p \in Places, NEW s \in Slots, held[p][s] # 0
               PROVE  s \in leases[p] /\ data[s] = held[p][s]
    BY DEF HeldFrameIntact
  <2>1. s \in leases[p] /\ (seq[s] = held[p][s] \/ (opc = "check" /\ s = cand /\ old = held[p][s]))
    BY DEF IInv, HeldNumbered
  <2>2. held[p][s] # WRITING
    BY DEF IInv, TypeOK, WRITING
  <2> QED
    BY <2>1, <2>2 DEF IInv, NumberedBytes
<1> QED
  BY <1>1, RingInvariant, PTL

\* Once a frame was published there is always a whole newest one to read.
THEOREM NewestStaysReadable == Spec => []NewestReadable
<1>1. IInv => NewestReadable
  BY DEF IInv, TypeOK, Stamp, NewestReadable, NumberedBytes, WRITING
<1> QED
  BY <1>1, RingInvariant, PTL

\* Readers and the region only move forward, step by step of every process.
THEOREM FramesOnlyMoveForward == Spec => FramesMoveForward
<1> DEFINE Forward ==
      /\ latest'.seq >= latest.seq
      /\ \A p \in Places : held'[p] # held[p] /\ place'[p] = "held" =>
            \A s \in Slots : held'[p][s] \in {0, held[p][s]} \/ held'[p][s] > last[p]
<1>1. ASSUME IInv, [Next]_vars PROVE Forward \/ UNCHANGED vars
  <2>1. CASE BeginClaim \/ OwnerStep
    BY <1>1, <2>1 DEF OwnerStep, BeginClaim, ScanBusy, Choose, Mark, ScanCheck, Restore, StartFill,
       EndFill, StampSlot, PointLatest, GiveUp, IInv, TypeOK, Stamp, NumberedBytes, region, reader
  <2>2. CASE \E p \in Places : ReaderStep(p)
    <3> PICK p \in Places : ReaderStep(p)
      BY <2>2
    <3>1. CASE TakeFrame(p)
      BY <1>1, <3>1 DEF TakeFrame, IInv, TypeOK, Stamp, WantsNewer, Wants, region
    <3>2. CASE ~TakeFrame(p)
      BY <1>1, <3>2 DEF ReaderStep, LoadLatest, LoadNext, CountLeases, ScanSlot, EndScan,
         SetLease, Mistaken, ClearLease, IInv, TypeOK, Stamp, region, reader
    <3> QED
      BY <3>1, <3>2
  <2>3. CASE \E p \in Places : Die(p) \/ TakeReader(p) \/ ResetReader(p) \/ \E s \in Slots : Release(p, s)
    BY <1>1, <2>3 DEF Die, TakeReader, ResetReader, Release, IInv, TypeOK, Stamp, region, reader
  <2> QED
    BY <1>1, <2>1, <2>2, <2>3 DEF Next
<1>2. IInv /\ [Next]_vars => [Forward]_vars
  BY <1>1
<1> QED
  BY <1>2, RingInvariant, PTL DEF Spec, FramesMoveForward
=============================================================================
