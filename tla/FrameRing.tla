----------------------------- MODULE FrameRing -----------------------------
(***************************************************************************)
(* The ring of slots in the shared memory of a frame bus                   *)
(* (crates/godwinmix-framebus/src/ring).  One owner claims a slot, fills   *)
(* it, and publishes it; each reader leases a slot in place.  Nobody takes *)
(* a lock: the two sides meet only in the atomics of the region's header,  *)
(* so every action below is one load, one store or one read-modify-write   *)
(* of them, and the actions of the owner and of the readers interleave.    *)
(* The atomics the argument rests on are SeqCst, and the rest are          *)
(* published by a Release store that the other side loads with Acquire, so *)
(* an interleaving of single accesses is what the code can do.             *)
(***************************************************************************)
EXTENDS Integers, FiniteSets

CONSTANTS
    NPlaces,          \* places in the header, MAX_READERS in the code
    MaxReaders,       \* PublisherOptions::max_readers, sizes the region
    LeasesPerReader,  \* PublisherOptions::leases_per_reader
    MaxSlots,         \* MAX_SLOTS, the bits of one reader's lease word
    InOrder,          \* TRUE when the region carries sound
    CatchUp,          \* CATCH_UP, chunks of sound a reader may lag behind
    MaxFrames         \* bound: frames offered to the owner in one behaviour

ASSUME RingAssumption ==
    /\ NPlaces \in Nat \ {0}
    /\ MaxReaders \in Nat
    /\ LeasesPerReader \in Nat \ {0}
    /\ MaxSlots \in Nat \ {0}
    /\ InOrder \in BOOLEAN
    /\ CatchUp \in Nat
    /\ MaxFrames \in Nat

Places == 0 .. NPlaces - 1

Clamped == IF MaxReaders < 1 THEN 1 ELSE IF MaxReaders > NPlaces THEN NPlaces ELSE MaxReaders

\* A mutant for RoomToWrite: a region with no slot to spare.
NSlotsTight == IF Clamped * LeasesPerReader + 1 > MaxSlots THEN MaxSlots
                                                           ELSE Clamped * LeasesPerReader + 1

\* Ring::create: a slot for every frame that may be held, the newest, and one more.
NSlots == IF Clamped * LeasesPerReader + 2 > MaxSlots THEN MaxSlots
                                                      ELSE Clamped * LeasesPerReader + 2

Slots == 0 .. NSlots - 1

WRITING == -1         \* Slot::seq while the owner writes into the slot
TORN    == -1         \* the bytes of a slot that is half written

NoFrame == [seq |-> 0, slot |-> 0]
Stamp   == [seq : Nat, slot : Slots]

VARIABLES
    seq,        \* Slot::seq of every slot
    data,       \* the frame whose bytes are in the slot, or TORN
    latest,     \* Header::latest, unpacked
    leases,     \* Reader::leases of every place
    place,      \* "free", "held", or "gone": its process died and the owner has not noticed
    delivered, skipped,   \* Reader::delivered and Reader::skipped
    dropped,    \* Header::dropped
    frames,     \* Publisher::seq, the frames published so far
    opc, at, mask, todo, cand, old,   \* where the owner's thread is in claim and publish
    rpc, want, latestOnly, ask, best, \* where each reader is in lease_latest or lease_next
    last,       \* Live::last of each reader
    held,       \* held[p][s]: the number of the frame in slot s that p holds, 0 for none
    first       \* history: the first frame the reader in p ever took

region == <<seq, data, latest>>
table  == <<leases, place, delivered, skipped>>
owner  == <<frames, dropped, opc, at, mask, todo, cand, old>>
call   == <<rpc, want, latestOnly, ask, best>>
reader == <<call, last, held, first>>
vars   == <<region, table, owner, reader>>

Init ==
    /\ seq = [s \in Slots |-> 0]
    /\ data = [s \in Slots |-> 0]
    /\ latest = NoFrame
    /\ leases = [p \in Places |-> {}]
    /\ place = [p \in Places |-> "free"]
    /\ delivered = [p \in Places |-> 0]
    /\ skipped = [p \in Places |-> 0]
    /\ dropped = 0 /\ frames = 0
    /\ opc = "idle" /\ at = 0 /\ mask = {} /\ todo = {} /\ cand = 0 /\ old = 0
    /\ rpc = [p \in Places |-> "idle"]
    /\ want = [p \in Places |-> NoFrame]
    /\ latestOnly = [p \in Places |-> ~InOrder]
    /\ ask = [p \in Places |-> 0]
    /\ best = [p \in Places |-> NoFrame]
    /\ last = [p \in Places |-> 0]
    /\ held = [p \in Places |-> [s \in Slots |-> 0]]
    /\ first = [p \in Places |-> 0]

-----------------------------------------------------------------------------
(* The owner's thread: Publisher::write, Ring::claim, Ring::publish.         *)

\* The slot of the newest frame; the owner is the only writer of latest.
Newest == IF latest.seq = 0 THEN {} ELSE {latest.slot}

\* One place of the fold in leased().
ScanPlace ==
    /\ at < NPlaces
    /\ mask' = mask \cup leases[at]
    /\ at' = at + 1

BeginClaim ==
    /\ opc = "idle" /\ frames + dropped < MaxFrames
    /\ opc' = "busy" /\ at' = 0 /\ mask' = {}
    /\ UNCHANGED <<region, table, frames, dropped, todo, cand, old, reader>>

ScanBusy ==
    /\ opc = "busy" /\ ScanPlace
    /\ UNCHANGED <<region, table, frames, dropped, opc, todo, cand, old, reader>>

\* busy is complete: what is left to try is every slot it does not name.
Choose ==
    /\ opc = "busy" /\ at = NPlaces
    /\ opc' = "pick" /\ todo' = Slots \ (mask \cup Newest)
    /\ UNCHANGED <<region, table, frames, dropped, at, mask, cand, old, reader>>

\* The order claim() tries slots in: lowest number for pictures, oldest for sound.
Before(s, t) == IF InOrder /\ seq[s] # seq[t] THEN seq[s] < seq[t] ELSE s <= t

Mark(s) ==
    /\ opc = "pick" /\ s \in todo /\ \A t \in todo : Before(s, t)
    /\ old' = seq[s]
    /\ seq' = [seq EXCEPT ![s] = WRITING]
    /\ cand' = s /\ opc' = "check" /\ at' = 0 /\ mask' = {}
    /\ UNCHANGED <<data, latest, table, frames, dropped, todo, reader>>

ScanCheck ==
    /\ opc = "check" /\ ScanPlace
    /\ UNCHANGED <<region, table, frames, dropped, opc, todo, cand, old, reader>>

\* A mutant for OwnerNeverWaits: try the same slot again until it is let go.
RestoreAndWait ==
    /\ opc = "check" /\ at = NPlaces /\ cand \in mask
    /\ seq' = [seq EXCEPT ![cand] = old]
    /\ opc' = "pick"
    /\ UNCHANGED <<data, latest, table, frames, dropped, at, mask, todo, cand, old, reader>>

\* A reader leased the slot after all: put its number back and try the next.
Restore ==
    /\ opc = "check" /\ at = NPlaces /\ cand \in mask
    /\ seq' = [seq EXCEPT ![cand] = old]
    /\ todo' = todo \ {cand} /\ opc' = "pick"
    /\ UNCHANGED <<data, latest, table, frames, dropped, at, mask, cand, old, reader>>

\* A mutant for HeldFrameIntact: the leases are not read again after the mark.
StartFillUnchecked ==
    /\ opc = "check" /\ at = NPlaces
    /\ data' = [data EXCEPT ![cand] = TORN] /\ opc' = "fill"
    /\ UNCHANGED <<seq, latest, table, frames, dropped, at, mask, todo, cand, old, reader>>

\* The slot is claimed; fill() starts writing its bytes.
StartFill ==
    /\ opc = "check" /\ at = NPlaces /\ cand \notin mask
    /\ data' = [data EXCEPT ![cand] = TORN] /\ opc' = "fill"
    /\ UNCHANGED <<seq, latest, table, frames, dropped, at, mask, todo, cand, old, reader>>

EndFill ==
    /\ opc = "fill"
    /\ data' = [data EXCEPT ![cand] = frames + 1] /\ opc' = "stamp"
    /\ UNCHANGED <<seq, latest, table, frames, dropped, at, mask, todo, cand, old, reader>>

\* publish(): first the slot's number,
StampSlot ==
    /\ opc = "stamp"
    /\ frames' = frames + 1
    /\ seq' = [seq EXCEPT ![cand] = frames + 1] /\ opc' = "point"
    /\ UNCHANGED <<data, latest, table, dropped, at, mask, todo, cand, old, reader>>

\* then the header's.
PointLatest ==
    /\ opc = "point"
    /\ latest' = [seq |-> frames, slot |-> cand] /\ opc' = "idle"
    /\ UNCHANGED <<seq, data, table, frames, dropped, at, mask, todo, cand, old, reader>>

GiveUp ==
    /\ opc = "pick" /\ todo = {}
    /\ dropped' = dropped + 1 /\ opc' = "idle"
    /\ UNCHANGED <<region, table, frames, at, mask, todo, cand, old, reader>>

OwnerStep ==
    \/ ScanBusy \/ Choose \/ (\E s \in Slots : Mark(s)) \/ ScanCheck \/ Restore
    \/ StartFill \/ EndFill \/ StampSlot \/ PointLatest \/ GiveUp

-----------------------------------------------------------------------------
(* A reader's process: Ring::lease_latest and Ring::lease_next.              *)

Goto(p, l) == rpc' = [rpc EXCEPT ![p] = l]

\* The top of lease_latest's loop.
Top == IF InOrder THEN "jump" ELSE "idle"

LoadLatest(p) ==
    /\ place[p] = "held" /\ rpc[p] = Top
    /\ IF latest.seq = 0 \/ latest.seq <= last[p]
         THEN /\ Goto(p, "idle")
              /\ UNCHANGED <<want, latestOnly>>
         ELSE /\ Goto(p, "count")
              /\ want' = [want EXCEPT ![p] = latest]
              /\ latestOnly' = [latestOnly EXCEPT ![p] = TRUE]
    /\ UNCHANGED <<region, table, owner, ask, best, last, held, first>>

\* The top of lease_next: the first read, and a reader far behind, jump to the newest.
LoadNext(p) ==
    /\ InOrder /\ place[p] = "held" /\ rpc[p] = "idle"
    /\ IF last[p] = 0 \/ latest.seq - last[p] > CatchUp
         THEN Goto(p, "jump") /\ UNCHANGED latestOnly
         ELSE /\ latest.seq > last[p]
              /\ Goto(p, "count")
              /\ latestOnly' = [latestOnly EXCEPT ![p] = FALSE]
    /\ UNCHANGED <<region, table, owner, want, ask, best, last, held, first>>

\* Lease::Full sends the caller back to ask again.
CountLeases(p) ==
    /\ place[p] = "held" /\ rpc[p] = "count"
    /\ Goto(p, IF Cardinality(leases[p]) >= LeasesPerReader THEN "idle"
               ELSE IF latestOnly[p] THEN "lease" ELSE "scan")
    /\ ask' = [ask EXCEPT ![p] = 0]
    /\ best' = [best EXCEPT ![p] = NoFrame]
    /\ UNCHANGED <<region, table, owner, want, latestOnly, last, held, first>>

\* One slot of oldest_after(): keep it when it is the oldest not yet read.
ScanSlot(p) ==
    /\ place[p] = "held" /\ rpc[p] = "scan" /\ ask[p] < NSlots
    /\ ask' = [ask EXCEPT ![p] = @ + 1]
    /\ best' = IF /\ seq[ask[p]] # WRITING /\ seq[ask[p]] > last[p]
                  /\ best[p].seq = 0 \/ seq[ask[p]] < best[p].seq
                 THEN [best EXCEPT ![p] = [seq |-> seq[ask[p]], slot |-> ask[p]]]
                 ELSE best
    /\ UNCHANGED <<region, table, owner, rpc, want, latestOnly, last, held, first>>

EndScan(p) ==
    /\ place[p] = "held" /\ rpc[p] = "scan" /\ ask[p] = NSlots
    /\ want' = [want EXCEPT ![p] = best[p]]
    /\ Goto(p, IF best[p].seq = 0 THEN "idle" ELSE "lease")
    /\ UNCHANGED <<region, table, owner, latestOnly, ask, best, last, held, first>>

SetLease(p) ==
    /\ place[p] = "held" /\ rpc[p] = "lease"
    /\ leases' = [leases EXCEPT ![p] = @ \cup {want[p].slot}]
    /\ Goto(p, "verify")
    /\ UNCHANGED <<region, place, delivered, skipped, owner, want, latestOnly, ask, best,
                   last, held, first>>

\* A mutant for ImplementsFeed: the slot is taken whatever it holds by now.
VerifiedBlindly(p) == want[p].seq > 0

\* The slot still holds the frame: it is leased.
Verified(p) == seq[want[p].slot] = want[p].seq

\* A mutant for TypeOK: off by one.
MissedLess(p) == IF last[p] = 0 THEN 0 ELSE want[p].seq - last[p] - 2

Missed(p) == IF last[p] = 0 THEN 0 ELSE want[p].seq - last[p] - 1

TakeFrame(p) ==
    /\ place[p] = "held" /\ rpc[p] = "verify" /\ Verified(p)
    /\ held' = [held EXCEPT ![p][want[p].slot] = want[p].seq]
    /\ last' = [last EXCEPT ![p] = want[p].seq]
    /\ first' = [first EXCEPT ![p] = IF @ = 0 THEN want[p].seq ELSE @]
    /\ delivered' = [delivered EXCEPT ![p] = @ + 1]
    /\ skipped' = [skipped EXCEPT ![p] = @ + Missed(p)]
    /\ Goto(p, "idle")
    /\ UNCHANGED <<region, leases, place, owner, want, latestOnly, ask, best>>

\* The owner got there first: back off, and go round the loop again.
Mistaken(p) ==
    /\ place[p] = "held" /\ rpc[p] = "verify" /\ ~Verified(p)
    /\ Goto(p, "undo")
    /\ UNCHANGED <<region, table, owner, want, latestOnly, ask, best, last, held, first>>

\* A mutant for LeasesAccounted and ReaderReachesNewest: the retry keeps its bit.
KeepLease(p) ==
    /\ place[p] = "held" /\ rpc[p] = "undo"
    /\ Goto(p, IF latestOnly[p] THEN Top ELSE "count")
    /\ UNCHANGED <<region, table, owner, want, latestOnly, ask, best, last, held, first>>

ClearLease(p) ==
    /\ place[p] = "held" /\ rpc[p] = "undo"
    /\ leases' = [leases EXCEPT ![p] = @ \ {want[p].slot}]
    /\ Goto(p, IF latestOnly[p] THEN Top ELSE "count")
    /\ UNCHANGED <<region, place, delivered, skipped, owner, want, latestOnly, ask, best,
                   last, held, first>>

\* A Frame is dropped, on any thread, at any moment of its reader's next call.
Release(p, s) ==
    /\ place[p] = "held" /\ held[p][s] # 0
    /\ leases' = [leases EXCEPT ![p] = @ \ {s}]
    /\ held' = [held EXCEPT ![p][s] = 0]
    /\ UNCHANGED <<region, place, delivered, skipped, owner, call, last, first>>

\* The reader's process ends, killed or not: the lease word stays as it was.
Die(p) ==
    /\ place[p] = "held"
    /\ place' = [place EXCEPT ![p] = "gone"]
    /\ held' = [held EXCEPT ![p] = [s \in Slots |-> 0]]
    /\ UNCHANGED <<region, leases, delivered, skipped, owner, call, last, first>>

ReaderStep(p) ==
    \/ LoadLatest(p) \/ LoadNext(p) \/ CountLeases(p) \/ ScanSlot(p) \/ EndScan(p)
    \/ SetLease(p) \/ TakeFrame(p) \/ Mistaken(p) \/ ClearLease(p)

-----------------------------------------------------------------------------
(* The bus thread's part: give out a place, and clear one whose socket closed. *)

TakeReader(p) ==
    /\ place[p] = "free" /\ \A q \in Places : q < p => place[q] # "free"
    /\ place' = [place EXCEPT ![p] = "held"]
    /\ delivered' = [delivered EXCEPT ![p] = 0]
    /\ skipped' = [skipped EXCEPT ![p] = 0]
    /\ last' = [last EXCEPT ![p] = 0]
    /\ first' = [first EXCEPT ![p] = 0]
    /\ rpc' = [rpc EXCEPT ![p] = "idle"]
    /\ UNCHANGED <<region, leases, owner, want, latestOnly, ask, best, held>>

ResetReader(p) ==
    /\ place[p] = "gone"
    /\ leases' = [leases EXCEPT ![p] = {}]
    /\ place' = [place EXCEPT ![p] = "free"]
    /\ UNCHANGED <<region, delivered, skipped, owner, reader>>

Next ==
    \/ BeginClaim
    \/ OwnerStep
    \/ \E p \in Places :
          \/ ReaderStep(p)
          \/ \E s \in Slots : Release(p, s)
          \/ Die(p) \/ TakeReader(p) \/ ResetReader(p)

Spec == Init /\ [][Next]_vars

\* The owner's thread runs; a reader keeps asking, and drops the frames it holds.
FairSpec ==
    /\ Spec
    /\ WF_vars(OwnerStep)
    /\ \A p \in Places : WF_vars(ReaderStep(p))
    /\ \A p \in Places, s \in Slots : WF_vars(Release(p, s))

-----------------------------------------------------------------------------
(* What the ring promises.                                                   *)

TypeOK ==
    /\ seq \in [Slots -> Nat \cup {WRITING}]
    /\ data \in [Slots -> Nat \cup {TORN}]
    /\ latest \in Stamp
    /\ leases \in [Places -> SUBSET Slots]
    /\ place \in [Places -> {"free", "held", "gone"}]
    /\ delivered \in [Places -> Nat] /\ skipped \in [Places -> Nat]
    /\ dropped \in Nat /\ frames \in Nat
    /\ opc \in {"idle", "busy", "pick", "check", "fill", "stamp", "point"}
    /\ at \in 0 .. NPlaces /\ mask \in SUBSET Slots /\ todo \in SUBSET Slots
    /\ cand \in Slots /\ old \in Nat
    /\ rpc \in [Places -> {"idle", "jump", "count", "scan", "lease", "verify", "undo"}]
    /\ want \in [Places -> Stamp] /\ best \in [Places -> Stamp]
    /\ latestOnly \in [Places -> BOOLEAN] /\ ask \in [Places -> 0 .. NSlots]
    /\ last \in [Places -> Nat] /\ first \in [Places -> Nat]
    /\ held \in [Places -> [Slots -> Nat]]

\* A frame a reader holds keeps its bytes and its slot until the reader drops
\* it, however often the owner claims, retries and publishes in between:
\* "a leased slot is never written" (ring/tests.rs).
HeldFrameIntact ==
    \A p \in Places, s \in Slots :
        held[p][s] # 0 => s \in leases[p] /\ data[s] = held[p][s]

\* Whoever asks finds a whole newest frame: the slot latest names is never the
\* one being written, even between the two stores of publish.
NewestReadable ==
    latest.seq # 0 => seq[latest.slot] = latest.seq /\ data[latest.slot] = latest.seq

\* The lease word of a reader is exactly the frames it holds and the slot it is
\* trying: a retry leaves no bit behind, and never clears one of a held frame.
LeasesAccounted ==
    \A p \in Places : place[p] = "held" =>
        /\ leases[p] = {s \in Slots : held[p][s] # 0}
                          \cup (IF rpc[p] \in {"verify", "undo"} THEN {want[p].slot} ELSE {})
        /\ Cardinality(leases[p]) <= LeasesPerReader

Attached == {p \in Places : place[p] # "free"}

\* n_slots leaves the owner a slot that is neither leased nor the newest while
\* no more than max_readers are attached, those that died included.
RoomToWrite ==
    (Cardinality(Attached) <= MaxReaders /\ Clamped * LeasesPerReader + 2 <= MaxSlots)
        => (UNION {leases[p] : p \in Places}) \cup Newest # Slots

\* A reader's counters cover every frame from the first it took to the last.
CountsCoverFrames ==
    \A p \in Places : (place[p] = "held" /\ last[p] # 0) =>
        delivered[p] + skipped[p] = last[p] - first[p] + 1

\* Subscriber::next hands out "never an older one", and the newest frame of the
\* region only moves forward.
FramesMoveForward ==
    [][ /\ latest'.seq >= latest.seq
        /\ \A p \in Places : held'[p] # held[p] /\ place'[p] = "held" =>
              \A s \in Slots : held'[p][s] \in {0, held[p][s]} \/ held'[p][s] > last[p] ]_vars

\* The owner never waits on a reader: whatever the readers do, or stop doing,
\* each write comes to an end.
OwnerNeverWaits == opc # "idle" ~> opc = "idle"

\* A reader that keeps asking and dropping its frames reaches the newest frame
\* again and again; no lost lease bit leaves it Full for ever.
ReaderReachesNewest ==
    \A p \in Places : []<>(place[p] # "held" \/ last[p] >= latest.seq)

-----------------------------------------------------------------------------
(* The ring implements FrameFeed, the promise to its users.                  *)

\* What a reader sees is what is in the slots now, not what was there when it
\* leased them; the newest frame is the bytes where `latest` points.
InSight(p) == {data[s] : s \in {t \in Slots : held[p][t] # 0}}
NewestBytes == IF latest.seq = 0 THEN 0 ELSE data[latest.slot]

Feed == INSTANCE FrameFeed WITH
    Readers <- Places, PerReader <- LeasesPerReader,
    made <- frames, newest <- NewestBytes, reading <- {p \in Places : place[p] = "held"},
    seen <- last, sight <- [p \in Places |-> InSight(p)]

\* Every access of the owner and of the readers is a step of the feed or none:
\* what Publisher::write and Subscriber::next show, whatever happens inside.
ImplementsFeed == Feed!FeedSpec

-----------------------------------------------------------------------------
(* What the documents say, and the code does not do.                         *)

\* The documents: "One more is refused with a sentence saying so"
\* (docs/reference/frame-bus.md, max_readers).  take_reader never refuses it.
ReadersWithinMax == Cardinality(Attached) <= Clamped

\* The comment on PublisherStats::dropped: "Zero unless readers hold far more
\* frames than they are allowed".  LeasesAccounted says none ever does.
NothingDroppedWithinAllowance == NPlaces <= Clamped => dropped = 0
=============================================================================
