------------------------------ MODULE FrameBus ------------------------------
(***************************************************************************)
(* The bus around the ring (publisher/service.rs, publisher/conn.rs,       *)
(* subscriber/wire.rs): the owner's thread may replace the region, the     *)
(* bus thread hands regions and reader places to whoever connects and      *)
(* clears the place of a reader whose socket closed, and readers connect,  *)
(* hold frames and die.  FrameRing is what happens inside one region; here *)
(* a lease word is empty or not, and a frame is the region and the place   *)
(* it was leased through.                                                  *)
(*                                                                         *)
(* One turn of Shared::run polls once, and then acts on that answer while  *)
(* the publisher and the readers go on: readers that closed, the wake      *)
(* socket, the listener, in this order.                                    *)
(***************************************************************************)
EXTENDS Integers, Sequences, FiniteSets

CONSTANTS
    Clients,      \* subscribers, in any process
    NPlaces,      \* MAX_READERS
    SlowReaders,  \* TRUE if a live reader may leave its socket unread for a second
    MaxRegions,   \* bound: regions one publisher makes
    MaxStarts     \* bound: subscribers started in one behaviour

ASSUME BusAssumption ==
    /\ NPlaces \in Nat \ {0} /\ MaxRegions \in Nat \ {0} /\ MaxStarts \in Nat
    /\ SlowReaders \in BOOLEAN

Regions == 1 .. MaxRegions
Places  == 0 .. NPlaces - 1
Seats   == Regions \X Places      \* a reader's place in a region
NoSeat  == <<0, 0>>

VARIABLES
    own, ppc,                \* Publisher::ring, and where set_layout is
    ring, newRegion, wake,   \* Shared::ring, Shared::new_region, the wake socket
    live, leases,            \* the seats marked as held, and those with a lease set
    conn, reader,            \* each client's connection at the owner, and Conn::reader
    starts, alive, inbox, seat, held, \* each client: its process, unread region records, Live::ring
                             \* with Live::reader, and the frames it holds
    spc, ready, readyWake, readyListener, target, todo   \* where Shared::run is

publisher == <<own, ppc>>
shared    == <<ring, newRegion, wake>>
header    == <<live, leases>>
clients   == <<starts, alive, inbox, seat, held>>
service   == <<spc, ready, readyWake, readyListener, target, todo>>
vars      == <<publisher, shared, header, conn, reader, clients, service>>

Init ==
    /\ own = 1 /\ ppc = "idle"
    /\ ring = 1 /\ newRegion = FALSE /\ wake = FALSE
    /\ live = {} /\ leases = {}
    /\ conn = [c \in Clients |-> "none"] /\ reader = [c \in Clients |-> 0]
    /\ starts = 0 /\ alive = [c \in Clients |-> FALSE] /\ inbox = [c \in Clients |-> <<>>]
    /\ seat = [c \in Clients |-> NoSeat] /\ held = [c \in Clients |-> {}]
    /\ spc = "poll" /\ ready = {} /\ readyWake = FALSE /\ readyListener = FALSE
    /\ target = 1 /\ todo = {}

-----------------------------------------------------------------------------
(* Publisher::set_layout and Shared::replace, on the owner's thread.         *)

NewLayout ==
    /\ ppc = "idle" /\ own < MaxRegions
    /\ own' = own + 1 /\ ppc' = "store"
    /\ UNCHANGED <<shared, header, conn, reader, clients, service>>

StoreRing ==
    /\ ppc = "store" /\ ring' = own /\ ppc' = "flag"
    /\ UNCHANGED <<own, newRegion, wake, header, conn, reader, clients, service>>

FlagRegion ==
    /\ ppc = "flag" /\ newRegion' = TRUE /\ ppc' = "wake"
    /\ UNCHANGED <<own, ring, wake, header, conn, reader, clients, service>>

Wake ==
    /\ ppc = "wake" /\ wake' = TRUE /\ ppc' = "idle"
    /\ UNCHANGED <<own, ring, newRegion, header, conn, reader, clients, service>>

Replace == StoreRing \/ FlagRegion \/ Wake

-----------------------------------------------------------------------------
(* Subscribers.                                                              *)

\* Subscriber::connect
Connect(c) ==
    /\ ~alive[c] /\ conn[c] = "none" /\ starts < MaxStarts
    /\ starts' = starts + 1
    /\ alive' = [alive EXCEPT ![c] = TRUE]
    /\ conn' = [conn EXCEPT ![c] = "queued"]
    /\ UNCHANGED <<publisher, shared, header, reader, inbox, seat, held, service>>

\* Subscriber::next finds the connection closed and dials again: the region is
\* forgotten, the frames held are not.
Redial(c) ==
    /\ alive[c] /\ conn[c] = "none" /\ inbox[c] = <<>>
    /\ conn' = [conn EXCEPT ![c] = "queued"]
    /\ seat' = [seat EXCEPT ![c] = NoSeat]
    /\ UNCHANGED <<publisher, shared, header, reader, starts, alive, inbox, held, service>>

\* pump(): take the next region record off the socket.
Pump(c) ==
    /\ alive[c] /\ inbox[c] # <<>>
    /\ seat' = [seat EXCEPT ![c] = Head(inbox[c])]
    /\ inbox' = [inbox EXCEPT ![c] = Tail(@)]
    /\ UNCHANGED <<publisher, shared, header, conn, reader, starts, alive, held, service>>

\* A frame through the seat; a seat with a lease set is Full.
Take(c) ==
    /\ alive[c] /\ seat[c] # NoSeat /\ seat[c] \notin leases
    /\ leases' = leases \cup {seat[c]}
    /\ held' = [held EXCEPT ![c] = @ \cup {seat[c]}]
    /\ UNCHANGED <<publisher, shared, live, conn, reader, starts, alive, inbox, seat, service>>

Release(c, f) ==
    /\ f \in held[c]
    /\ leases' = leases \ {f}
    /\ held' = [held EXCEPT ![c] = @ \ {f}]
    /\ UNCHANGED <<publisher, shared, live, conn, reader, starts, alive, inbox, seat, service>>

\* The process is killed; its socket closes and its lease words stay.
Die(c) ==
    /\ alive[c]
    /\ alive' = [alive EXCEPT ![c] = FALSE]
    /\ held' = [held EXCEPT ![c] = {}]
    /\ seat' = [seat EXCEPT ![c] = NoSeat]
    /\ inbox' = [inbox EXCEPT ![c] = <<>>]
    /\ UNCHANGED <<publisher, shared, header, conn, reader, starts, service>>

-----------------------------------------------------------------------------
(* Shared::run, the bus thread.                                              *)

Open   == {c \in Clients : conn[c] = "open"}
Queued == {c \in Clients : conn[c] = "queued"}

\* A mutant for HeldFramesLeased: whatever a reader sent is taken for its end.
PollAnything ==
    /\ spc = "poll"
    /\ ready' = Open
    /\ readyWake' = wake /\ readyListener' = (Queued # {})
    /\ spc' = "readers"
    /\ UNCHANGED <<publisher, shared, header, conn, reader, clients, target, todo>>

\* poll() answers at the latest after 500 ms.
Poll ==
    /\ spc = "poll"
    /\ ready' = {c \in Open : ~alive[c]}
    /\ readyWake' = wake /\ readyListener' = (Queued # {})
    /\ spc' = "readers"
    /\ UNCHANGED <<publisher, shared, header, conn, reader, clients, target, todo>>

\* A mutant for LeasesFreed: half of reset_reader.
ResetPlaceOnly(f) == live' = live \ {f} /\ UNCHANGED leases

\* Ring::reset_reader
Reset(f) == live' = live \ {f} /\ leases' = leases \ {f}

\* A mutant for OldFramesLeased: the place is cleared in every region there was.
DropReaderEverywhere(c) ==
    /\ spc = "readers" /\ c \in ready
    /\ LET S == Regions \X {reader[c]} IN live' = live \ S /\ leases' = leases \ S
    /\ conn' = [conn EXCEPT ![c] = "none"]
    /\ ready' = ready \ {c}
    /\ UNCHANGED <<publisher, shared, reader, clients, spc, readyWake, readyListener, target, todo>>

\* drop_reader: the place the reader had, in the region there is now.
DropReader(c) ==
    /\ spc = "readers" /\ c \in ready
    /\ Reset(<<ring, reader[c]>>)
    /\ conn' = [conn EXCEPT ![c] = "none"]
    /\ ready' = ready \ {c}
    /\ UNCHANGED <<publisher, shared, reader, clients, spc, readyWake, readyListener, target, todo>>

\* A mutant for RegionReachesReaders: the wake socket is drained even when poll
\* did not report it.
ReadersDoneDrain ==
    /\ spc = "readers" /\ ready = {}
    /\ spc' = IF readyWake THEN "swap" ELSE "accept"
    /\ wake' = FALSE
    /\ UNCHANGED <<publisher, ring, newRegion, header, conn, reader, clients, ready,
                   readyWake, readyListener, target, todo>>

ReadersDone ==
    /\ spc = "readers" /\ ready = {}
    /\ spc' = IF readyWake THEN "swap" ELSE "accept"
    /\ wake' = IF readyWake THEN FALSE ELSE wake
    /\ UNCHANGED <<publisher, ring, newRegion, header, conn, reader, clients, ready,
                   readyWake, readyListener, target, todo>>

\* The rest of the wake: take the flag, and with it the region to send.
SwapFlag ==
    /\ spc = "swap"
    /\ newRegion' = FALSE
    /\ IF newRegion THEN spc' = "send" /\ target' = ring /\ todo' = Open
                    ELSE spc' = "accept" /\ UNCHANGED <<target, todo>>
    /\ UNCHANGED <<publisher, ring, wake, header, conn, reader, clients, ready, readyWake,
                   readyListener>>

\* Mutants for SeatsApart and TypeOK: a place is free when nothing is leased
\* through it; one place more is tried than there are.
FreeUnleased(g) == {i \in Places : <<g, i>> \notin leases}
FreeOneMore(g)  == {i \in 0 .. NPlaces : <<g, i>> \notin live}

\* Ring::take_reader
Free(g) == {i \in Places : <<g, i>> \notin live}
First(S) == CHOOSE i \in S : \A j \in S : i <= j

\* send_region_to_all: a place in the new region for one connection.  The
\* record goes out, or the connection goes: its process is dead, or it does not
\* read its socket and the send times out.
SendRegion(c) ==
    /\ spc = "send" /\ c \in todo
    /\ todo' = todo \ {c}
    /\ IF Free(target) = {}
         THEN /\ conn' = [conn EXCEPT ![c] = "none"]
              /\ UNCHANGED <<live, reader, inbox>>
         ELSE LET i == First(Free(target)) IN
              /\ live' = live \cup {<<target, i>>}
              /\ reader' = [reader EXCEPT ![c] = i]
              /\ \/ /\ alive[c]
                    /\ inbox' = [inbox EXCEPT ![c] = Append(@, <<target, i>>)]
                    /\ UNCHANGED conn
                 \/ /\ ~alive[c] \/ SlowReaders
                    /\ conn' = [conn EXCEPT ![c] = "none"]
                    /\ UNCHANGED inbox
    /\ UNCHANGED <<publisher, shared, leases, starts, alive, seat, held, spc, ready, readyWake,
                   readyListener, target>>

SendDone ==
    /\ spc = "send" /\ todo = {} /\ spc' = "accept"
    /\ UNCHANGED <<publisher, shared, header, conn, reader, clients, ready, readyWake,
                   readyListener, target, todo>>

\* admit: refused when no place is free; given back when the socket is gone.
Admit(c) ==
    /\ spc = "accept" /\ readyListener /\ c \in Queued
    /\ IF Free(ring) # {} /\ alive[c]
         THEN LET i == First(Free(ring)) IN
              /\ live' = live \cup {<<ring, i>>}
              /\ reader' = [reader EXCEPT ![c] = i]
              /\ inbox' = [inbox EXCEPT ![c] = Append(@, <<ring, i>>)]
              /\ conn' = [conn EXCEPT ![c] = "open"]
              /\ UNCHANGED leases
         ELSE /\ conn' = [conn EXCEPT ![c] = "none"]
              /\ IF Free(ring) # {} THEN Reset(<<ring, First(Free(ring))>>) ELSE UNCHANGED header
              /\ UNCHANGED <<reader, inbox>>
    /\ UNCHANGED <<publisher, shared, starts, alive, seat, held, service>>

AcceptDone ==
    /\ spc = "accept" /\ (readyListener => Queued = {})
    /\ spc' = "poll"
    /\ UNCHANGED <<publisher, shared, header, conn, reader, clients, ready, readyWake,
                   readyListener, target, todo>>

Serve ==
    \/ Poll \/ ReadersDone \/ SwapFlag \/ SendDone \/ AcceptDone
    \/ \E c \in Clients : DropReader(c) \/ SendRegion(c) \/ Admit(c)

Next ==
    \/ NewLayout \/ Replace \/ Serve
    \/ \E c \in Clients :
          Connect(c) \/ Redial(c) \/ Pump(c) \/ Take(c) \/ Die(c) \/ (\E f \in Seats : Release(c, f))

Spec == Init /\ [][Next]_vars

\* The owner's thread finishes replace(), the bus thread runs, and a subscriber
\* that is alive calls next().  A reader that was refused sleeps before it dials
\* again (50 ms in next()), so the accept loop empties the queue in the end.
FairSpec ==
    /\ Spec /\ WF_vars(Replace) /\ WF_vars(Serve) /\ SF_vars(AcceptDone)
    /\ \A c \in Clients : WF_vars(Redial(c)) /\ WF_vars(Pump(c))

-----------------------------------------------------------------------------
TypeOK ==
    /\ own \in Regions /\ ppc \in {"idle", "store", "flag", "wake"}
    /\ ring \in Regions /\ newRegion \in BOOLEAN /\ wake \in BOOLEAN
    /\ live \in SUBSET Seats /\ leases \in SUBSET Seats
    /\ conn \in [Clients -> {"none", "queued", "open"}]
    /\ reader \in [Clients -> Places]
    /\ alive \in [Clients -> BOOLEAN] /\ starts \in 0 .. MaxStarts
    /\ inbox \in [Clients -> Seq(Seats)]
    /\ seat \in [Clients -> Seats \cup {NoSeat}]
    /\ held \in [Clients -> SUBSET Seats]
    /\ spc \in {"poll", "readers", "swap", "send", "accept"}
    /\ ready \in SUBSET Clients /\ todo \in SUBSET Clients /\ target \in Regions
    /\ readyWake \in BOOLEAN /\ readyListener \in BOOLEAN

\* A frame a live reader holds is leased until it drops it, whatever the bus
\* thread does meanwhile for other readers: "the owner would give this reader's
\* place, and so its leases, to someone else" only once its socket closed
\* (subscriber/frame.rs).
HeldFramesLeased == \A c \in Clients : held[c] \subseteq leases

\* Two connected readers never share a seat.
SeatsApart ==
    \A c, d \in Clients : c # d /\ seat[c] # NoSeat => seat[c] # seat[d]

\* Frames of a region that was replaced stay leased until they are dropped,
\* though the bus thread knows readers by their place in the region there is now.
OldFramesLeased ==
    \A c \in Clients : \A f \in held[c] : f[1] < ring => f \in leases

Settled ==
    /\ spc = "poll" /\ ppc = "idle" /\ ~newRegion /\ ~wake
    /\ \A c \in Open : alive[c]

\* "A reader killed mid read leaves nothing locked" (lib.rs): once the bus
\* thread has caught up, a lease in the region belongs to a reader that lives.
NothingLocked ==
    Settled => \A f \in leases : f[1] = ring => \E c \in Clients : f \in held[c]

\* Every reader alive is handed the newest region in the end, where there are
\* places enough: no wake is lost between the flag and the poll.
RegionReachesReaders ==
    \A c \in Clients : []<>(~alive[c] \/ seat[c][1] = own)

\* A dead reader's leases are cleared in the end.
LeasesFreed ==
    \A f \in Seats :
        []<>(f \notin leases \/ \E c \in Clients : f \in held[c])
=============================================================================
