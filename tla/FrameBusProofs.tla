--------------------------- MODULE FrameBusProofs ---------------------------
(***************************************************************************)
(* Theorems of FrameBus for any clients, places and bounds: its types, and *)
(* what its places are worth: all of it until the region is replaced, and  *)
(* for the frames of the first region ever after.                          *)
(***************************************************************************)
EXTENDS FrameBus, TLAPS, WellFoundedInduction

-----------------------------------------------------------------------------
(* The inductive invariant, while the bus has its first region.            *)

\* Nothing has been replaced, so the bus thread sends no region; at most the
\* publisher has made the next one and not stored it yet.
Unchanged ==
    /\ ring = 1 /\ ppc \in {"idle", "store"} /\ ~newRegion /\ ~wake
    /\ spc \in {"poll", "readers", "accept"} /\ ~readyWake

Mine(c) == <<1, reader[c]>>

\* A connection has the place it was admitted with, and that place only.
Attached(c) ==
    /\ conn[c] = "open" => Mine(c) \in live
    /\ \A i \in 1 .. Len(inbox[c]) : inbox[c][i] = Mine(c)
    /\ seat[c] \in {NoSeat, Mine(c)}
    /\ held[c] \subseteq {Mine(c)} \cap leases

\* A client has something of the bus only while it lives and is connected;
\* the connections the bus thread is about to drop are of dead clients.
Detached(c) ==
    /\ conn[c] # "open" \/ ~alive[c] => inbox[c] = <<>> /\ seat[c] = NoSeat /\ held[c] = {}
    /\ c \in ready => conn[c] = "open" /\ ~alive[c]

PlacesApart ==
    \A c, d \in Clients :
        c # d /\ conn[c] = "open" /\ conn[d] = "open" => reader[c] # reader[d]

\* A lease belongs to the connection with its place: its client holds the
\* frame, or has died and is going to be dropped.
Owned ==
    \A f \in leases : \E c \in Clients :
        conn[c] = "open" /\ f = Mine(c) /\ (f \in held[c] \/ ~alive[c])

OneRegion ==
    Unchanged /\ PlacesApart /\ \A c \in Clients : Attached(c) /\ Detached(c)

-----------------------------------------------------------------------------
(* The first free place is a free place.                                   *)

LEMMA FirstIn == ASSUME NEW S \in SUBSET Nat, S # {} PROVE First(S) \in S
<1> DEFINE R == {ss \in Nat \X Nat : ss[1] < ss[2]}
<1>1. IsWellFoundedOn(R, Nat)
  BY NatLessThanWellFounded, Zenon DEF OpToRel
<1>2. PICK i \in S : \A j \in S : <<j, i>> \notin R
  BY <1>1, WFMin, Zenon
<1>3. ASSUME NEW j \in S PROVE i <= j
  <2>1. i \in Nat /\ j \in Nat
    OBVIOUS
  <2>2. <<j, i>> \in Nat \X Nat /\ ~(<<j, i>>[1] < <<j, i>>[2])
    BY <1>2, <2>1
  <2>3. QED
    BY <2>1, <2>2
<1>4. QED
  BY <1>3 DEF First

LEMMA FreePlace ==
  ASSUME NEW g \in Regions, Free(g) # {}
  PROVE  First(Free(g)) \in Places /\ <<g, First(Free(g))>> \in Seats \ live
<1>1. Free(g) \in SUBSET Nat
  BY BusAssumption DEF Free, Places
<1>2. First(Free(g)) \in Free(g)
  BY <1>1, FirstIn
<1>3. QED
  BY <1>2 DEF Free, Seats

LEMMA NewLayoutTypes == ASSUME TypeOK, NewLayout PROVE TypeOK'
BY BusAssumption, FreePlace DEF NewLayout, Reset, Open, Queued, TypeOK, publisher, shared, header, clients, service, Regions, Seats

LEMMA StoreRingTypes == ASSUME TypeOK, StoreRing PROVE TypeOK'
BY BusAssumption, FreePlace DEF StoreRing, Reset, Open, Queued, TypeOK, publisher, shared, header, clients, service, Regions, Seats

LEMMA FlagRegionTypes == ASSUME TypeOK, FlagRegion PROVE TypeOK'
BY BusAssumption, FreePlace DEF FlagRegion, Reset, Open, Queued, TypeOK, publisher, shared, header, clients, service, Regions, Seats

LEMMA WakeTypes == ASSUME TypeOK, Wake PROVE TypeOK'
BY BusAssumption, FreePlace DEF Wake, Reset, Open, Queued, TypeOK, publisher, shared, header, clients, service, Regions, Seats

LEMMA ConnectTypes == ASSUME TypeOK, NEW c \in Clients, Connect(c) PROVE TypeOK'
BY BusAssumption, FreePlace DEF Connect, Reset, Open, Queued, TypeOK, publisher, shared, header, clients, service, Regions, Seats

LEMMA RedialTypes == ASSUME TypeOK, NEW c \in Clients, Redial(c) PROVE TypeOK'
BY BusAssumption, FreePlace DEF Redial, Reset, Open, Queued, TypeOK, publisher, shared, header, clients, service, Regions, Seats

LEMMA PumpTypes == ASSUME TypeOK, NEW c \in Clients, Pump(c) PROVE TypeOK'
BY BusAssumption, FreePlace DEF Pump, Reset, Open, Queued, TypeOK, publisher, shared, header, clients, service, Regions, Seats

LEMMA TakeTypes == ASSUME TypeOK, NEW c \in Clients, Take(c) PROVE TypeOK'
BY BusAssumption, FreePlace DEF Take, Reset, Open, Queued, TypeOK, publisher, shared, header, clients, service, Regions, Seats

LEMMA ReleaseTypes == ASSUME TypeOK, NEW c \in Clients, NEW f \in Seats, Release(c, f) PROVE TypeOK'
BY BusAssumption, FreePlace DEF Release, Reset, Open, Queued, TypeOK, publisher, shared, header, clients, service, Regions, Seats

LEMMA DieTypes == ASSUME TypeOK, NEW c \in Clients, Die(c) PROVE TypeOK'
BY BusAssumption, FreePlace DEF Die, Reset, Open, Queued, TypeOK, publisher, shared, header, clients, service, Regions, Seats

LEMMA PollTypes == ASSUME TypeOK, Poll PROVE TypeOK'
BY BusAssumption, FreePlace DEF Poll, Reset, Open, Queued, TypeOK, publisher, shared, header, clients, service, Regions, Seats

LEMMA DropReaderTypes == ASSUME TypeOK, NEW c \in Clients, DropReader(c) PROVE TypeOK'
BY BusAssumption, FreePlace DEF DropReader, Reset, Open, Queued, TypeOK, publisher, shared, header, clients, service, Regions, Seats

LEMMA ReadersDoneTypes == ASSUME TypeOK, ReadersDone PROVE TypeOK'
BY BusAssumption, FreePlace DEF ReadersDone, Reset, Open, Queued, TypeOK, publisher, shared, header, clients, service, Regions, Seats

LEMMA SwapFlagTypes == ASSUME TypeOK, SwapFlag PROVE TypeOK'
BY BusAssumption, FreePlace DEF SwapFlag, Reset, Open, Queued, TypeOK, publisher, shared, header, clients, service, Regions, Seats

LEMMA SendRegionTypes == ASSUME TypeOK, NEW c \in Clients, SendRegion(c) PROVE TypeOK'
<1>1. target \in Regions
  BY DEF TypeOK
<1>2. CASE Free(target) = {}
  BY <1>2 DEF SendRegion, TypeOK, publisher, shared
<1>3. CASE Free(target) # {}
  <2> DEFINE i == First(Free(target))
  <2>1. i \in Places /\ <<target, i>> \in Seats
    BY <1>1, <1>3, FreePlace
  <2>2. /\ live' = live \cup {<<target, i>>} /\ reader' = [reader EXCEPT ![c] = i]
        /\ inbox' \in {inbox, [inbox EXCEPT ![c] = Append(@, <<target, i>>)]}
        /\ conn' \in {conn, [conn EXCEPT ![c] = "none"]}
    BY <1>3 DEF SendRegion
  <2> HIDE DEF i
  <2>3. inbox' \in [Clients -> Seq(Seats)]
    <3>1. inbox \in [Clients -> Seq(Seats)]
      BY DEF TypeOK
    <3>2. [inbox EXCEPT ![c] = Append(@, <<target, i>>)] \in [Clients -> Seq(Seats)]
      BY <2>1, <3>1
    <3>3. QED
      BY <2>2, <3>1, <3>2
  <2>4. QED
    BY <2>1, <2>2, <2>3 DEF SendRegion, TypeOK, publisher, shared
<1> QED BY <1>2, <1>3

LEMMA SendDoneTypes == ASSUME TypeOK, SendDone PROVE TypeOK'
BY BusAssumption, FreePlace DEF SendDone, Reset, Open, Queued, TypeOK, publisher, shared, header, clients, service, Regions, Seats

LEMMA AdmitTypes == ASSUME TypeOK, NEW c \in Clients, Admit(c) PROVE TypeOK'
<1>1. ring \in Regions
  BY DEF TypeOK
<1>2. CASE Free(ring) # {} /\ alive[c]
  <2> DEFINE i == First(Free(ring))
  <2>1. i \in Places /\ <<ring, i>> \in Seats
    BY <1>1, <1>2, FreePlace
  <2>2. /\ live' = live \cup {<<ring, i>>} /\ reader' = [reader EXCEPT ![c] = i]
        /\ inbox' = [inbox EXCEPT ![c] = Append(@, <<ring, i>>)]
        /\ conn' = [conn EXCEPT ![c] = "open"] /\ UNCHANGED leases
    BY <1>2 DEF Admit
  <2> HIDE DEF i
  <2>3. inbox' \in [Clients -> Seq(Seats)]
    BY <2>1, <2>2 DEF TypeOK
  <2>4. QED
    BY <2>1, <2>2, <2>3 DEF Admit, TypeOK, publisher, shared, service
<1>3. CASE ~(Free(ring) # {} /\ alive[c])
  <2>1. /\ conn' = [conn EXCEPT ![c] = "none"] /\ UNCHANGED <<reader, inbox>>
        /\ live' \subseteq live /\ leases' \subseteq leases
    BY <1>3 DEF Admit, Reset, header
  <2>2. QED
    BY <2>1 DEF Admit, TypeOK, publisher, shared, service
<1> QED BY <1>2, <1>3

LEMMA AcceptDoneTypes == ASSUME TypeOK, AcceptDone PROVE TypeOK'
BY BusAssumption, FreePlace DEF AcceptDone, Reset, Open, Queued, TypeOK, publisher, shared, header, clients, service, Regions, Seats

-----------------------------------------------------------------------------
(* One region.                                                             *)

LEMMA ConnectOne == ASSUME TypeOK, OneRegion, NEW c \in Clients, Connect(c) PROVE OneRegion'
<1>1. Unchanged' /\ PlacesApart'
  BY DEF Connect, Reset, Open, TypeOK, OneRegion, Unchanged, PlacesApart, publisher, shared, header, clients, service
<1>2. ASSUME NEW k \in Clients PROVE Attached(k)' /\ Detached(k)'
  BY DEF Connect, Reset, Open, TypeOK, OneRegion, Attached, Detached, Mine, PlacesApart, publisher, shared, header, clients, service
<1> QED BY <1>1, <1>2 DEF OneRegion

LEMMA RedialOne == ASSUME TypeOK, OneRegion, NEW c \in Clients, Redial(c) PROVE OneRegion'
<1>1. Unchanged' /\ PlacesApart'
  BY DEF Redial, Reset, Open, TypeOK, OneRegion, Unchanged, PlacesApart, publisher, shared, header, clients, service
<1>2. ASSUME NEW k \in Clients PROVE Attached(k)' /\ Detached(k)'
  BY DEF Redial, Reset, Open, TypeOK, OneRegion, Attached, Detached, Mine, PlacesApart, publisher, shared, header, clients, service
<1> QED BY <1>1, <1>2 DEF OneRegion

LEMMA PumpOne == ASSUME TypeOK, OneRegion, NEW c \in Clients, Pump(c) PROVE OneRegion'
<1>1. Unchanged' /\ PlacesApart'
  BY DEF Pump, OneRegion, Unchanged, PlacesApart, publisher, shared, service
<1>2. /\ inbox[c] \in Seq(Seats) /\ inbox[c] # <<>> /\ conn[c] = "open" /\ alive[c]
      /\ \A i \in 1 .. Len(inbox[c]) : inbox[c][i] = Mine(c)
  BY DEF Pump, TypeOK, OneRegion, Attached, Detached
<1>3. /\ Head(inbox[c]) = Mine(c) /\ Tail(inbox[c]) \in Seq(Seats)
      /\ \A i \in 1 .. Len(Tail(inbox[c])) : Tail(inbox[c])[i] = Mine(c)
  BY <1>2
<1>4. /\ seat'[c] = Mine(c) /\ inbox'[c] = Tail(inbox[c])
      /\ \A k \in Clients \ {c} : seat'[k] = seat[k] /\ inbox'[k] = inbox[k]
      /\ UNCHANGED <<header, conn, reader, alive, held, ready>>
  BY <1>3 DEF Pump, TypeOK, service
<1>5. ASSUME NEW k \in Clients PROVE Attached(k)' /\ Detached(k)'
  <2>1. CASE k = c
    <3>1. Attached(c)'
      BY <1>2, <1>3, <1>4 DEF OneRegion, Attached, Mine, header
    <3>2. Detached(c)'
      BY <1>2, <1>4 DEF OneRegion, Detached
    <3>3. QED
      BY <2>1, <3>1, <3>2
  <2>2. CASE k # c
    BY <1>4, <2>2 DEF OneRegion, Attached, Detached, Mine, header
  <2>3. QED
    BY <2>1, <2>2
<1> QED BY <1>1, <1>5 DEF OneRegion

LEMMA TakeOne == ASSUME TypeOK, OneRegion, NEW c \in Clients, Take(c) PROVE OneRegion'
<1>1. Unchanged' /\ PlacesApart'
  BY DEF Take, Reset, Open, TypeOK, OneRegion, Unchanged, PlacesApart, publisher, shared, header, clients, service
<1>2. ASSUME NEW k \in Clients PROVE Attached(k)' /\ Detached(k)'
  BY DEF Take, Reset, Open, TypeOK, OneRegion, Attached, Detached, Mine, PlacesApart, publisher, shared, header, clients, service
<1> QED BY <1>1, <1>2 DEF OneRegion

LEMMA ReleaseOne == ASSUME TypeOK, OneRegion, NEW c \in Clients, NEW f \in Seats, Release(c, f) PROVE OneRegion'
<1>1. Unchanged' /\ PlacesApart'
  BY DEF Release, OneRegion, Unchanged, PlacesApart, publisher, shared, service
<1>2. f = Mine(c) /\ conn[c] = "open" /\ alive[c]
  BY DEF Release, OneRegion, Attached, Detached
<1>3. /\ leases' = leases \ {f} /\ held'[c] = held[c] \ {f}
      /\ \A k \in Clients \ {c} : held'[k] = held[k]
      /\ UNCHANGED <<live, conn, reader, alive, inbox, seat, ready>>
  BY DEF Release, TypeOK, service
<1>4. ASSUME NEW k \in Clients PROVE Attached(k)' /\ Detached(k)'
  <2>1. CASE k = c
    BY <1>2, <1>3, <2>1 DEF OneRegion, Attached, Detached, Mine
  <2>2. CASE k # c
    <3>1. Mine(k) \in held[k] => f # Mine(k)
      BY <1>2, <2>2 DEF OneRegion, Detached, PlacesApart, Mine
    <3>2. held'[k] \subseteq {Mine(k)} \cap leases'
      BY <1>3, <2>2, <3>1 DEF OneRegion, Attached
    <3>3. QED
      BY <1>3, <2>2, <3>2 DEF OneRegion, Attached, Detached, Mine
  <2>3. QED
    BY <2>1, <2>2
<1> QED BY <1>1, <1>4 DEF OneRegion

LEMMA DieOne == ASSUME TypeOK, OneRegion, NEW c \in Clients, Die(c) PROVE OneRegion'
<1>1. Unchanged' /\ PlacesApart'
  BY DEF Die, Reset, Open, TypeOK, OneRegion, Unchanged, PlacesApart, publisher, shared, header, clients, service
<1>2. ASSUME NEW k \in Clients PROVE Attached(k)' /\ Detached(k)'
  BY DEF Die, Reset, Open, TypeOK, OneRegion, Attached, Detached, Mine, PlacesApart, publisher, shared, header, clients, service
<1> QED BY <1>1, <1>2 DEF OneRegion

LEMMA PollOne == ASSUME TypeOK, OneRegion, Poll PROVE OneRegion'
<1>1. Unchanged' /\ PlacesApart'
  BY DEF Poll, Reset, Open, TypeOK, OneRegion, Unchanged, PlacesApart, publisher, shared, header, clients, service
<1>2. ASSUME NEW k \in Clients PROVE Attached(k)' /\ Detached(k)'
  BY DEF Poll, Reset, Open, TypeOK, OneRegion, Attached, Detached, Mine, PlacesApart, publisher, shared, header, clients, service
<1> QED BY <1>1, <1>2 DEF OneRegion

LEMMA DropReaderOne == ASSUME TypeOK, OneRegion, NEW c \in Clients, DropReader(c) PROVE OneRegion'
<1>1. Unchanged' /\ PlacesApart'
  BY DEF DropReader, Reset, Open, TypeOK, OneRegion, Unchanged, PlacesApart, publisher, shared, header, clients, service
<1>2. ASSUME NEW k \in Clients PROVE Attached(k)' /\ Detached(k)'
  BY DEF DropReader, Reset, Open, TypeOK, OneRegion, Attached, Detached, Mine, PlacesApart, publisher, shared, header, clients, service
<1> QED BY <1>1, <1>2 DEF OneRegion

LEMMA ReadersDoneOne == ASSUME TypeOK, OneRegion, ReadersDone PROVE OneRegion'
<1>1. Unchanged' /\ PlacesApart'
  BY DEF ReadersDone, Reset, Open, TypeOK, OneRegion, Unchanged, PlacesApart, publisher, shared, header, clients, service
<1>2. ASSUME NEW k \in Clients PROVE Attached(k)' /\ Detached(k)'
  BY DEF ReadersDone, Reset, Open, TypeOK, OneRegion, Attached, Detached, Mine, PlacesApart, publisher, shared, header, clients, service
<1> QED BY <1>1, <1>2 DEF OneRegion

LEMMA AdmitOne == ASSUME TypeOK, OneRegion, NEW c \in Clients, Admit(c) PROVE OneRegion'
<1>1. /\ ring = 1 /\ ring \in Regions /\ conn[c] = "queued"
      /\ inbox[c] = <<>> /\ seat[c] = NoSeat /\ held[c] = {} /\ c \notin ready
      /\ UNCHANGED <<shared, ready, readyWake, spc, ppc, alive, seat, held>>
  BY DEF Admit, Queued, TypeOK, OneRegion, Unchanged, Detached, publisher, service
<1>2. Unchanged'
  BY <1>1 DEF OneRegion, Unchanged, shared
<1>3. CASE Free(ring) # {} /\ alive[c]
  <2> DEFINE i == First(Free(ring))
  <2>1. <<1, i>> \notin live /\ i \in Places
    BY <1>1, <1>3, FreePlace
  <2>2. /\ live' = live \cup {<<1, i>>} /\ leases' = leases
        /\ reader'[c] = i /\ conn'[c] = "open" /\ inbox'[c] = Append(<<>>, <<1, i>>)
        /\ \A k \in Clients \ {c} : reader'[k] = reader[k] /\ conn'[k] = conn[k] /\ inbox'[k] = inbox[k]
    BY <1>1, <1>3 DEF Admit, TypeOK
  <2> HIDE DEF i
  <2>3. Append(<<>>, <<1, i>>) = << <<1, i>> >>
    OBVIOUS
  <2>4. PlacesApart'
    BY <2>1, <2>2 DEF OneRegion, PlacesApart, Attached, Mine
  <2>5. ASSUME NEW k \in Clients PROVE Attached(k)' /\ Detached(k)'
    <3>1. CASE k = c
      BY <1>1, <1>3, <2>2, <2>3, <3>1 DEF Attached, Detached, Mine
    <3>2. CASE k # c
      BY <1>1, <2>2, <3>2 DEF OneRegion, Attached, Detached, Mine
    <3>3. QED
      BY <3>1, <3>2
  <2>6. QED
    BY <1>2, <2>4, <2>5 DEF OneRegion
<1>4. CASE ~(Free(ring) # {} /\ alive[c])
  <2>1. /\ conn'[c] = "none" /\ reader' = reader /\ inbox' = inbox
        /\ \A k \in Clients \ {c} : conn'[k] = conn[k]
    BY <1>4 DEF Admit, TypeOK
  <2>2. \A k \in Clients : conn[k] = "open" =>
          /\ Mine(k) \in live'
          /\ Mine(k) \in leases => Mine(k) \in leases'
    <3>1. CASE Free(ring) = {}
      BY <1>4, <3>1 DEF Admit, header, OneRegion, Attached
    <3>2. CASE Free(ring) # {}
      <4>1. <<1, First(Free(ring))>> \notin live
        BY <1>1, <3>2, FreePlace
      <4>2. /\ live' = live \ {<<1, First(Free(ring))>>}
            /\ leases' = leases \ {<<1, First(Free(ring))>>}
        BY <1>1, <1>4, <3>2 DEF Admit, Reset
      <4>3. QED
        BY <4>1, <4>2 DEF OneRegion, Attached
    <3>3. QED
      BY <3>1, <3>2
  <2>3. PlacesApart'
    BY <2>1 DEF OneRegion, PlacesApart
  <2>4. ASSUME NEW k \in Clients PROVE Attached(k)' /\ Detached(k)'
    <3>1. CASE k = c
      BY <1>1, <2>1, <3>1 DEF OneRegion, Attached, Detached, Mine
    <3>2. CASE k # c
      BY <1>1, <2>1, <2>2, <3>2 DEF OneRegion, Attached, Detached, Mine
    <3>3. QED
      BY <3>1, <3>2
  <2>5. QED
    BY <1>2, <2>3, <2>4 DEF OneRegion
<1> QED BY <1>3, <1>4

LEMMA AcceptDoneOne == ASSUME TypeOK, OneRegion, AcceptDone PROVE OneRegion'
<1>1. Unchanged' /\ PlacesApart'
  BY DEF AcceptDone, Reset, Open, TypeOK, OneRegion, Unchanged, PlacesApart, publisher, shared, header, clients, service
<1>2. ASSUME NEW k \in Clients PROVE Attached(k)' /\ Detached(k)'
  BY DEF AcceptDone, Reset, Open, TypeOK, OneRegion, Attached, Detached, Mine, PlacesApart, publisher, shared, header, clients, service
<1> QED BY <1>1, <1>2 DEF OneRegion

-----------------------------------------------------------------------------
(* The types.                                                              *)

LEMMA StepTypes == TypeOK /\ [Next]_vars => TypeOK'
<1>1. TypeOK /\ UNCHANGED vars => TypeOK'
  BY DEF TypeOK, vars, publisher, shared, header, clients, service
<1>2. QED
  BY <1>1, NewLayoutTypes, StoreRingTypes, FlagRegionTypes, WakeTypes, ConnectTypes,
     RedialTypes, PumpTypes, TakeTypes, ReleaseTypes, DieTypes, PollTypes, DropReaderTypes,
     ReadersDoneTypes, SwapFlagTypes, SendRegionTypes, SendDoneTypes, AdmitTypes,
     AcceptDoneTypes
  DEF Next, Replace, Serve

\* The bus never gives out a place or a region there is not, and nobody's
\* connection, leases or frames are out of shape, whoever comes and goes.
THEOREM BusTypes == Spec => []TypeOK
<1>1. Init => TypeOK
  <2> SUFFICES ASSUME Init PROVE TypeOK
    OBVIOUS
  <2>1. 1 \in Regions /\ 0 \in Places
    BY BusAssumption DEF Regions, Places
  <2>2. inbox \in [Clients -> Seq(Seats)]
    BY DEF Init
  <2>3. /\ conn \in [Clients -> {"none", "queued", "open"}] /\ reader \in [Clients -> Places]
        /\ alive \in [Clients -> BOOLEAN] /\ seat \in [Clients -> Seats \cup {NoSeat}]
        /\ held \in [Clients -> SUBSET Seats]
    BY <2>1 DEF Init
  <2>4. /\ own \in Regions /\ ppc = "idle" /\ ring \in Regions /\ newRegion = FALSE /\ wake = FALSE
        /\ live = {} /\ leases = {} /\ starts \in 0 .. MaxStarts /\ spc = "poll"
        /\ ready = {} /\ todo = {} /\ target \in Regions
        /\ readyWake = FALSE /\ readyListener = FALSE
    BY <2>1, BusAssumption DEF Init
  <2>5. QED
    BY <2>2, <2>3, <2>4, Zenon DEF TypeOK
<1> QED BY <1>1, StepTypes, PTL DEF Spec

-----------------------------------------------------------------------------
(* Nobody locks a slot of the first region.                                *)

LEMMA TakeOwned == ASSUME TypeOK, OneRegion, Owned, NEW c \in Clients, Take(c) PROVE Owned'
<1>1. /\ conn[c] = "open" /\ seat[c] = Mine(c)
      /\ leases' = leases \cup {seat[c]} /\ held'[c] = held[c] \cup {seat[c]}
      /\ \A k \in Clients \ {c} : held'[k] = held[k]
      /\ UNCHANGED <<conn, reader, alive>>
  BY DEF Take, TypeOK, OneRegion, Attached, Detached
<1>2. ASSUME NEW f \in leases' PROVE \E k \in Clients :
          conn'[k] = "open" /\ f = Mine(k)' /\ (f \in held'[k] \/ ~alive'[k])
  <2>1. CASE f = seat[c]
    BY <1>1, <2>1 DEF Mine
  <2>2. CASE f # seat[c]
    <3>1. PICK k \in Clients : conn[k] = "open" /\ f = Mine(k) /\ (f \in held[k] \/ ~alive[k])
      BY <1>1, <2>2 DEF Owned
    <3>2. f \in held[k] => f \in held'[k]
      BY <1>1
    <3>3. QED
      BY <1>1, <3>1, <3>2 DEF Mine
  <2>3. QED
    BY <2>1, <2>2
<1> QED BY <1>2 DEF Owned

LEMMA ReleaseOwned ==
  ASSUME TypeOK, OneRegion, Owned, NEW c \in Clients, NEW f \in Seats, Release(c, f)
  PROVE  Owned'
<1>1. /\ leases' = leases \ {f} /\ held'[c] = held[c] \ {f}
      /\ \A k \in Clients \ {c} : held'[k] = held[k]
      /\ UNCHANGED <<conn, reader, alive>>
  BY DEF Release, TypeOK
<1>2. ASSUME NEW g \in leases' PROVE \E k \in Clients :
          conn'[k] = "open" /\ g = Mine(k)' /\ (g \in held'[k] \/ ~alive'[k])
  <2>1. PICK k \in Clients : conn[k] = "open" /\ g = Mine(k) /\ (g \in held[k] \/ ~alive[k])
    BY <1>1 DEF Owned
  <2>2. g # f /\ (g \in held[k] => g \in held'[k])
    BY <1>1
  <2>3. QED
    BY <1>1, <2>1, <2>2 DEF Mine
<1> QED BY <1>2 DEF Owned

\* Steps that set and clear no lease: who had one has it still, or has died.
LEMMA WalkOwned ==
  ASSUME TypeOK, Owned, UNCHANGED <<leases, reader>>,
         \A k \in Clients : /\ conn[k] = "open" => conn'[k] = "open"
                            /\ held'[k] = held[k] \/ ~alive'[k]
                            /\ ~alive[k] => ~alive'[k] \/ conn[k] # "open"
  PROVE  Owned'
<1>1. ASSUME NEW f \in leases PROVE \E k \in Clients :
          conn'[k] = "open" /\ f = Mine(k)' /\ (f \in held'[k] \/ ~alive'[k])
  <2>1. PICK k \in Clients : conn[k] = "open" /\ f = Mine(k) /\ (f \in held[k] \/ ~alive[k])
    BY DEF Owned
  <2>2. QED
    BY <2>1 DEF Mine
<1> QED BY <1>1 DEF Owned

LEMMA DropReaderOwned ==
  ASSUME TypeOK, OneRegion, Owned, NEW c \in Clients, DropReader(c)
  PROVE  Owned'
<1>1. /\ leases' = leases \ {Mine(c)}
      /\ \A k \in Clients \ {c} : conn'[k] = conn[k]
      /\ UNCHANGED <<reader, alive, held>>
  BY DEF DropReader, Reset, TypeOK, OneRegion, Unchanged, Mine, clients
<1>2. ASSUME NEW f \in leases' PROVE \E k \in Clients :
          conn'[k] = "open" /\ f = Mine(k)' /\ (f \in held'[k] \/ ~alive'[k])
  <2>1. PICK k \in Clients : conn[k] = "open" /\ f = Mine(k) /\ (f \in held[k] \/ ~alive[k])
    BY <1>1 DEF Owned
  <2>2. k # c
    BY <1>1, <2>1
  <2>3. QED
    BY <1>1, <2>1, <2>2 DEF Mine
<1> QED BY <1>2 DEF Owned

LEMMA AdmitOwned == ASSUME TypeOK, OneRegion, Owned, NEW c \in Clients, Admit(c) PROVE Owned'
<1>1. conn[c] = "queued" /\ UNCHANGED <<alive, held>>
  BY DEF Admit, Queued
<1>2. /\ leases' \subseteq leases
      /\ \A k \in Clients \ {c} : conn'[k] = conn[k] /\ reader'[k] = reader[k]
  <2>1. CASE Free(ring) # {} /\ alive[c]
    BY <2>1 DEF Admit, TypeOK
  <2>2. CASE ~(Free(ring) # {} /\ alive[c])
    BY <2>2 DEF Admit, Reset, TypeOK, header
  <2>3. QED
    BY <2>1, <2>2
<1>3. ASSUME NEW f \in leases' PROVE \E k \in Clients :
          conn'[k] = "open" /\ f = Mine(k)' /\ (f \in held'[k] \/ ~alive'[k])
  <2>1. PICK k \in Clients : conn[k] = "open" /\ f = Mine(k) /\ (f \in held[k] \/ ~alive[k])
    BY <1>2 DEF Owned
  <2>2. k # c
    BY <1>1, <2>1
  <2>3. QED
    BY <1>1, <1>2, <2>1, <2>2 DEF Mine
<1> QED BY <1>3 DEF Owned

-----------------------------------------------------------------------------
(* The bus is told of a region only after Shared::ring has it.             *)

Told ==
    /\ ppc # "idle" => own > 1
    /\ ppc \in {"flag", "wake"} => ring > 1
    /\ newRegion => ring > 1
    /\ spc = "send" => target > 1

LEMMA StepTold == ASSUME TypeOK, Told, [Next]_vars PROVE Told' /\ (ring > 1 => ring' > 1)
<1>1. CASE NewLayout
  BY <1>1 DEF NewLayout, Told, TypeOK, Regions, shared, service
<1>2. CASE Replace
  BY <1>2 DEF Replace, StoreRing, FlagRegion, Wake, Told, TypeOK, Regions, service
<1>3. CASE Serve
  <2>1. CASE Poll \/ ReadersDone \/ SendDone \/ AcceptDone
    <3>1. UNCHANGED <<own, ppc, ring, newRegion>> /\ spc' # "send"
      BY <2>1 DEF Poll, ReadersDone, SendDone, AcceptDone, publisher, shared
    <3>2. QED
      BY <3>1 DEF Told
  <2>2. CASE SwapFlag
    BY <2>2 DEF SwapFlag, Told, publisher
  <2>3. ASSUME NEW c \in Clients, DropReader(c) \/ SendRegion(c) \/ Admit(c)
        PROVE  Told' /\ (ring > 1 => ring' > 1)
    <3>1. UNCHANGED <<own, ppc, ring, newRegion, spc, target>>
      BY <2>3 DEF DropReader, SendRegion, Admit, publisher, shared, service
    <3>2. QED
      BY <3>1 DEF Told
  <2>4. QED
    BY <1>3, <2>1, <2>2, <2>3 DEF Serve
<1>4. CASE \E c \in Clients :
             Connect(c) \/ Redial(c) \/ Pump(c) \/ Take(c) \/ Die(c) \/ (\E f \in Seats : Release(c, f))
  BY <1>4 DEF Connect, Redial, Pump, Take, Die, Release, Told, publisher, shared, service
<1>5. CASE UNCHANGED vars
  BY <1>5 DEF vars, Told, publisher, shared, service
<1> QED BY <1>1, <1>2, <1>3, <1>4, <1>5 DEF Next

-----------------------------------------------------------------------------
(* Until the region is replaced.                                           *)

LEMMA StepOne ==
  ASSUME TypeOK, Told, OneRegion, Owned, [Next]_vars, ring' = 1
  PROVE  OneRegion' /\ Owned'
<1>1. CASE NewLayout
  <2>1. UNCHANGED <<ring, newRegion, wake, live, leases, conn, reader, alive, inbox, seat, held,
                    spc, ready, readyWake>> /\ ppc' = "store"
    BY <1>1 DEF NewLayout, shared, header, clients, service
  <2>2. QED
    BY <2>1 DEF OneRegion, Unchanged, PlacesApart, Attached, Detached, Mine, Owned
<1>2. CASE UNCHANGED vars
  BY <1>2 DEF OneRegion, Unchanged, PlacesApart, Attached, Detached, Mine, Owned, vars, publisher,
     shared, header, clients, service
<1>3. ~Replace /\ ~SwapFlag /\ ~SendDone /\ \A c \in Clients : ~SendRegion(c)
  BY DEF OneRegion, Unchanged, Told, TypeOK, Regions, Replace, StoreRing, FlagRegion, Wake,
     SwapFlag, SendDone, SendRegion
<1>4. CASE Poll \/ ReadersDone \/ AcceptDone
  <2>1. UNCHANGED <<leases, reader, conn, held, alive>>
    BY <1>4 DEF Poll, ReadersDone, AcceptDone, header, clients
  <2>2. QED
    BY <1>4, <2>1, WalkOwned, PollOne, ReadersDoneOne, AcceptDoneOne
<1>5. ASSUME NEW c \in Clients, Connect(c) \/ Redial(c) \/ Pump(c) \/ Die(c)
      PROVE  OneRegion' /\ Owned'
  <2>1. /\ UNCHANGED <<leases, reader>>
        /\ \A k \in Clients : /\ conn[k] = "open" => conn'[k] = "open"
                              /\ held'[k] = held[k] \/ ~alive'[k]
                              /\ ~alive[k] => ~alive'[k] \/ conn[k] # "open"
    BY <1>5 DEF Connect, Redial, Pump, Die, TypeOK, header
  <2>2. QED
    BY <1>5, <2>1, WalkOwned, ConnectOne, RedialOne, PumpOne, DieOne
<1>6. ASSUME NEW c \in Clients,
             Take(c) \/ DropReader(c) \/ Admit(c) \/ \E f \in Seats : Release(c, f)
      PROVE  OneRegion' /\ Owned'
  BY <1>6, TakeOne, TakeOwned, DropReaderOne, DropReaderOwned, AdmitOne, AdmitOwned, ReleaseOne,
     ReleaseOwned
<1> QED BY <1>1, <1>2, <1>3, <1>4, <1>5, <1>6 DEF Next, Serve

-----------------------------------------------------------------------------
(* After it: what was handed out of the first region stays with whom it    *)
(* was handed to.                                                          *)

Has(c) == {seat[c]} \cup held[c] \cup {inbox[c][i] : i \in 1 .. Len(inbox[c])}

FirstLeased == \A c \in Clients : \A f \in held[c] : f[1] = 1 => f \in leases
FirstApart ==
    \A c, d \in Clients : \A f \in Seats :
        c # d /\ f[1] = 1 /\ f \in Has(c) => f \notin Has(d)

LEMMA OneParts == ASSUME TypeOK, OneRegion PROVE FirstLeased /\ FirstApart
<1>1. FirstLeased
  BY DEF OneRegion, Attached, FirstLeased
<1>2. ASSUME NEW c \in Clients, NEW f \in Seats, f[1] = 1, f \in Has(c)
      PROVE  conn[c] = "open" /\ f = Mine(c)
  <2>1. f # NoSeat
    BY <1>2 DEF NoSeat
  <2>2. \/ f = seat[c] \/ f \in held[c] \/ \E i \in 1 .. Len(inbox[c]) : f = inbox[c][i]
    BY <1>2 DEF Has
  <2>3. f = Mine(c)
    BY <2>1, <2>2 DEF OneRegion, Attached
  <2>4. conn[c] # "open" => Len(inbox[c]) = 0 /\ seat[c] = NoSeat /\ held[c] = {}
    BY DEF OneRegion, Detached
  <2>5. QED
    BY <2>1, <2>2, <2>3, <2>4
<1>3. FirstApart
  <2> SUFFICES ASSUME NEW c \in Clients, NEW d \in Clients, NEW f \in Seats,
                      c # d, f[1] = 1, f \in Has(c), f \in Has(d)
               PROVE  FALSE
    BY DEF FirstApart
  <2>1. conn[c] = "open" /\ conn[d] = "open" /\ f = Mine(c) /\ f = Mine(d)
    BY <1>2
  <2>2. reader[c] # reader[d]
    BY <2>1 DEF OneRegion, PlacesApart
  <2>3. QED
    BY <2>1, <2>2 DEF Mine
<1> QED BY <1>1, <1>3

\* No place of the first region is handed out any more.
LEMMA HandsNoFirst ==
  ASSUME TypeOK, Told, ring > 1, [Next]_vars, NEW c \in Clients, NEW f \in Seats,
         f[1] = 1, f \in Has(c)'
  PROVE  f \in Has(c)
<1>0. f # NoSeat /\ inbox[c] \in Seq(Seats) /\ seat[c] \in Seats \cup {NoSeat}
  BY DEF TypeOK, NoSeat
<1>1. f \in {seat'[c]} \cup held'[c] \cup {inbox'[c][i] : i \in 1 .. Len(inbox'[c])}
  BY DEF Has
<1>2. CASE UNCHANGED <<seat, held, inbox>>
  BY <1>1, <1>2 DEF Has
<1>3. CASE NewLayout \/ Replace
  BY <1>2, <1>3 DEF NewLayout, Replace, StoreRing, FlagRegion, Wake, clients
<1>4. ASSUME NEW d \in Clients, Connect(d) PROVE f \in Has(c)
  BY <1>2, <1>4 DEF Connect
<1>5. ASSUME NEW d \in Clients, Redial(d) PROVE f \in Has(c)
  <2>1. UNCHANGED <<held, inbox>> /\ seat'[c] \in {seat[c], NoSeat}
    BY <1>5 DEF Redial, TypeOK
  <2>2. QED
    BY <1>0, <1>1, <2>1 DEF Has
<1>6. ASSUME NEW d \in Clients, Pump(d) PROVE f \in Has(c)
  <2>1. CASE c = d
    <3>1. held' = held /\ seat'[c] = Head(inbox[c]) /\ inbox'[c] = Tail(inbox[c]) /\ inbox[c] # <<>>
      BY <1>6, <2>1 DEF Pump, TypeOK
    <3>2. Head(inbox[c]) = inbox[c][1] /\ 1 \in 1 .. Len(inbox[c])
      BY <1>0, <3>1
    <3>3. \A i \in 1 .. Len(Tail(inbox[c])) :
             i + 1 \in 1 .. Len(inbox[c]) /\ Tail(inbox[c])[i] = inbox[c][i + 1]
      BY <1>0, <3>1
    <3>4. QED
      BY <1>1, <3>1, <3>2, <3>3 DEF Has
  <2>2. CASE c # d
    <3>1. held' = held /\ seat'[c] = seat[c] /\ inbox'[c] = inbox[c]
      BY <1>6, <2>2 DEF Pump, TypeOK
    <3>2. QED
      BY <1>1, <3>1 DEF Has
  <2>3. QED
    BY <2>1, <2>2
<1>7. ASSUME NEW d \in Clients, Take(d) PROVE f \in Has(c)
  <2>1. UNCHANGED <<seat, inbox>> /\ held'[c] \subseteq held[c] \cup {seat[c]}
    BY <1>7 DEF Take, TypeOK
  <2>2. QED
    BY <1>1, <2>1 DEF Has
<1>8. ASSUME NEW d \in Clients, NEW g \in Seats, Release(d, g) PROVE f \in Has(c)
  <2>1. UNCHANGED <<seat, inbox>> /\ held'[c] \subseteq held[c]
    BY <1>8 DEF Release, TypeOK
  <2>2. QED
    BY <1>1, <2>1 DEF Has
<1>9. ASSUME NEW d \in Clients, Die(d) PROVE f \in Has(c)
  <2>1. CASE c = d
    <3>1. held'[c] = {} /\ seat'[c] = NoSeat /\ inbox'[c] = <<>>
      BY <1>9, <2>1 DEF Die, TypeOK
    <3>2. QED
      BY <1>0, <1>1, <3>1
  <2>2. CASE c # d
    <3>1. held'[c] = held[c] /\ seat'[c] = seat[c] /\ inbox'[c] = inbox[c]
      BY <1>9, <2>2 DEF Die, TypeOK
    <3>2. QED
      BY <1>1, <3>1 DEF Has
  <2>3. QED
    BY <2>1, <2>2
<1>10. CASE Poll \/ ReadersDone \/ SwapFlag \/ SendDone \/ AcceptDone
  BY <1>2, <1>10 DEF Poll, ReadersDone, SwapFlag, SendDone, AcceptDone, clients
<1>11. ASSUME NEW d \in Clients, DropReader(d) PROVE f \in Has(c)
  BY <1>2, <1>11 DEF DropReader, clients
<1>12. ASSUME NEW r \in Regions, r > 1, NEW i, UNCHANGED <<seat, held>>,
              inbox'[c] \in {inbox[c], Append(inbox[c], <<r, i>>)}
       PROVE  f \in Has(c)
  <2>1. CASE inbox'[c] = inbox[c]
    BY <1>1, <1>12, <2>1 DEF Has
  <2>2. CASE inbox'[c] = Append(inbox[c], <<r, i>>)
    <3>1. f # <<r, i>>
      BY <1>12 DEF Regions
    <3>2. \A j \in 1 .. Len(inbox'[c]) :
             inbox'[c][j] = <<r, i>> \/ (j \in 1 .. Len(inbox[c]) /\ inbox'[c][j] = inbox[c][j])
      BY <1>0, <2>2
    <3>3. QED
      BY <1>1, <1>12, <3>1, <3>2 DEF Has
  <2>3. QED
    BY <1>12, <2>1, <2>2
<1>13. ASSUME NEW d \in Clients, SendRegion(d) PROVE f \in Has(c)
  <2>1. target > 1 /\ target \in Regions
    BY <1>13 DEF SendRegion, Told, TypeOK
  <2>2. UNCHANGED <<seat, held>>
    BY <1>13 DEF SendRegion
  <2>3. inbox'[c] \in {inbox[c], Append(inbox[c], <<target, First(Free(target))>>)}
    BY <1>13 DEF SendRegion, TypeOK
  <2>4. QED
    BY <1>12, <2>1, <2>2, <2>3
<1>14. ASSUME NEW d \in Clients, Admit(d) PROVE f \in Has(c)
  <2>1. ring \in Regions
    BY DEF TypeOK
  <2>2. UNCHANGED <<seat, held>>
    BY <1>14 DEF Admit
  <2>3. inbox'[c] \in {inbox[c], Append(inbox[c], <<ring, First(Free(ring))>>)}
    BY <1>14 DEF Admit, TypeOK
  <2>4. QED
    BY <1>12, <2>1, <2>2, <2>3
<1>15. CASE UNCHANGED vars
  BY <1>2, <1>15 DEF vars, clients
<1> QED
  BY <1>3, <1>4, <1>5, <1>6, <1>7, <1>8, <1>9, <1>10, <1>11, <1>13, <1>14, <1>15 DEF Next, Serve

\* A lease of the first region is cleared by its reader alone.
LEMMA KeepsFirst ==
  ASSUME TypeOK, ring > 1, FirstLeased, FirstApart, [Next]_vars,
         NEW c \in Clients, NEW f \in held'[c], f[1] = 1
  PROVE  f \in leases'
<1>1. CASE UNCHANGED <<held, leases>>
  BY <1>1 DEF FirstLeased
<1>2. ASSUME NEW d \in Clients, Take(d) PROVE f \in leases'
  <2>1. leases' = leases \cup {seat[d]} /\ (f \in held[c] \/ f = seat[d])
    BY <1>2 DEF Take, TypeOK
  <2>2. QED
    BY <2>1 DEF FirstLeased
<1>3. ASSUME NEW d \in Clients, NEW g \in Seats, Release(d, g) PROVE f \in leases'
  <2>1. leases' = leases \ {g} /\ g \in held[d] /\ f \in held[c] /\ f \in Seats /\ (c = d => f # g)
    BY <1>3 DEF Release, TypeOK
  <2>2. f # g
    BY <2>1 DEF FirstApart, Has
  <2>3. QED
    BY <2>1, <2>2 DEF FirstLeased
<1>4. ASSUME NEW d \in Clients, Die(d) PROVE f \in leases'
  <2>1. leases' = leases /\ f \in held[c]
    BY <1>4 DEF Die, TypeOK, header
  <2>2. QED
    BY <2>1 DEF FirstLeased
<1>5. ASSUME NEW i, held' = held, leases \ {<<ring, i>>} \subseteq leases' PROVE f \in leases'
  <2>1. f # <<ring, i>>
    OBVIOUS
  <2>2. QED
    BY <1>5, <2>1 DEF FirstLeased
<1>6. ASSUME NEW d \in Clients, DropReader(d) PROVE f \in leases'
  <2>1. held' = held /\ leases' = leases \ {<<ring, reader[d]>>}
    BY <1>6 DEF DropReader, Reset, clients
  <2>2. QED
    BY <1>5, <2>1
<1>7. ASSUME NEW d \in Clients, Admit(d) PROVE f \in leases'
  <2>1. held' = held /\ leases \ {<<ring, First(Free(ring))>>} \subseteq leases'
    BY <1>7 DEF Admit, Reset, header
  <2>2. QED
    BY <1>5, <2>1
<1>8. CASE \/ NewLayout \/ Replace \/ Poll \/ ReadersDone \/ SwapFlag \/ SendDone \/ AcceptDone
           \/ \E d \in Clients : Connect(d) \/ Redial(d) \/ Pump(d) \/ SendRegion(d)
           \/ UNCHANGED vars
  <2>1. UNCHANGED <<held, leases>>
    BY <1>8 DEF NewLayout, Replace, StoreRing, FlagRegion, Wake, Poll, ReadersDone, SwapFlag,
       SendDone, AcceptDone, Connect, Redial, Pump, SendRegion, header, clients, vars
  <2>2. QED
    BY <1>1, <2>1
<1> QED BY <1>2, <1>3, <1>4, <1>6, <1>7, <1>8 DEF Next, Serve

-----------------------------------------------------------------------------
(* The theorems.                                                           *)

Kept == Told /\ (ring = 1 => OneRegion /\ Owned) /\ FirstLeased /\ FirstApart

LEMMA StepKept == TypeOK /\ TypeOK' /\ Kept /\ [Next]_vars => Kept'
<1> SUFFICES ASSUME TypeOK, TypeOK', Kept, [Next]_vars PROVE Kept'
  OBVIOUS
<1>1. Told' /\ (ring > 1 => ring' > 1)
  BY StepTold DEF Kept
<1>2. ring \in Nat /\ ring >= 1 /\ ring' \in Nat /\ ring' >= 1
  BY DEF TypeOK, Regions
<1>3. ring' = 1 => ring = 1
  BY <1>1, <1>2
<1>4. ring' = 1 => OneRegion' /\ Owned'
  BY <1>3, StepOne DEF Kept
<1>5. CASE ring' = 1
  <2>1. OneRegion' => FirstLeased' /\ FirstApart'
    BY OneParts, PTL
  <2>2. QED
    BY <1>1, <1>4, <1>5, <2>1 DEF Kept
<1>6. CASE ring' # 1 /\ ring = 1
  <2>1. StoreRing
    BY <1>6 DEF Next, Replace, StoreRing, FlagRegion, Wake, NewLayout, Serve, Poll, ReadersDone,
       SwapFlag, SendDone, AcceptDone, DropReader, SendRegion, Admit, Connect, Redial, Pump, Take,
       Die, Release, vars, shared
  <2>2. UNCHANGED <<leases, seat, held, inbox>>
    BY <2>1 DEF StoreRing, header, clients
  <2>3. FirstLeased' /\ FirstApart'
    BY <2>2 DEF Kept, FirstLeased, FirstApart, Has
  <2>4. QED
    BY <1>1, <1>6, <2>3 DEF Kept
<1>7. CASE ring > 1
  <2>1. FirstLeased'
    BY <1>7, KeepsFirst DEF Kept, FirstLeased
  <2>2. FirstApart'
    <3> SUFFICES ASSUME NEW c \in Clients, NEW d \in Clients, NEW f \in Seats,
                        c # d, f[1] = 1, f \in Has(c)', f \in Has(d)'
                 PROVE  FALSE
      BY DEF FirstApart
    <3>1. f \in Has(c) /\ f \in Has(d)
      BY <1>7, HandsNoFirst DEF Kept
    <3>2. QED
      BY <3>1 DEF Kept, FirstApart
  <2>3. QED
    BY <1>1, <1>2, <1>7, <2>1, <2>2 DEF Kept
<1> QED BY <1>2, <1>5, <1>6, <1>7

LEMMA KeptAlways == Spec => []Kept
<1>1. Init => Kept
  <2> SUFFICES ASSUME Init PROVE Kept
    OBVIOUS
  <2>1. OneRegion
    BY BusAssumption DEF Init, OneRegion, Unchanged, PlacesApart, Attached, Detached
  <2>2. Owned /\ Told
    BY DEF Init, Owned, Told
  <2>3. FirstLeased
    BY DEF Init, FirstLeased
  <2>4. FirstApart
    <3>1. ASSUME NEW c \in Clients, NEW f \in Seats, f[1] = 1 PROVE f \notin Has(c)
      <4>1. seat[c] = NoSeat /\ held[c] = {} /\ Len(inbox[c]) = 0
        BY DEF Init
      <4>2. f # NoSeat
        BY <3>1 DEF NoSeat
      <4>3. QED
        BY <4>1, <4>2 DEF Has
    <3>2. QED
      BY <3>1 DEF FirstApart
  <2>5. QED
    BY <2>1, <2>2, <2>3, <2>4 DEF Kept
<1> QED BY <1>1, StepKept, BusTypes, PTL DEF Spec

\* Until the region is replaced, a frame a live reader holds is leased until
\* it drops it, however many readers die, are refused or come back
\* (service.rs:132-145).
THEOREM HeldStaysLeased == Spec => [](ring = 1 => HeldFramesLeased)
<1>1. OneRegion => HeldFramesLeased
  BY DEF OneRegion, Attached, HeldFramesLeased
<1>2. Kept => (ring = 1 => HeldFramesLeased)
  BY <1>1 DEF Kept
<1> QED BY <1>2, KeptAlways, PTL

\* The frames of the first region stay leased until their readers drop them,
\* for ever: no place the bus thread clears after the format change, and none
\* it gives out, is one of theirs (service.rs:132-145).
THEOREM FirstFramesLeased == Spec => []FirstLeased
<1>1. Kept => FirstLeased
  BY DEF Kept
<1> QED BY <1>1, KeptAlways, PTL

\* Frames held across the first format change stay leased: every frame there
\* is of an older region then is one of the first.
THEOREM OldStaysLeased == Spec => [](ring <= 2 => OldFramesLeased)
<1>1. TypeOK /\ FirstLeased => (ring <= 2 => OldFramesLeased)
  BY DEF TypeOK, FirstLeased, OldFramesLeased, Seats, Regions
<1> QED BY <1>1, BusTypes, FirstFramesLeased, PTL

\* Until the region is replaced, a reader killed in the middle of a read leaves
\* nothing locked: once the bus thread has caught up, whoever has a lease lives
\* and holds the frame (lib.rs:17-19, service.rs:132-145).
THEOREM NothingStaysLocked == Spec => [](ring = 1 => NothingLocked)
<1>1. OneRegion /\ Owned => NothingLocked
  BY DEF OneRegion, Owned, NothingLocked, Settled, Open
<1>2. Kept => (ring = 1 => NothingLocked)
  BY <1>1 DEF Kept
<1> QED BY <1>2, KeptAlways, PTL

\* Until the region is replaced, no two readers ever have one place.
THEOREM SeatsStayApart == Spec => [](ring = 1 => SeatsApart)
<1>1. OneRegion => SeatsApart
  <2> SUFFICES ASSUME OneRegion, NEW c \in Clients, NEW d \in Clients, c # d, seat[c] # NoSeat
               PROVE  seat[c] # seat[d]
    BY DEF SeatsApart
  <2>1. conn[c] = "open" /\ seat[c] = Mine(c)
    BY DEF OneRegion, Attached, Detached
  <2>2. CASE conn[d] = "open"
    <3>1. reader[c] # reader[d] /\ seat[d] \in {NoSeat, <<1, reader[d]>>}
      BY <2>1, <2>2 DEF OneRegion, Attached, PlacesApart, Mine
    <3>2. seat[c] = <<1, reader[c]>> /\ seat[c] # NoSeat
      BY <2>1 DEF Mine
    <3>3. QED
      BY <3>1, <3>2
  <2>3. CASE conn[d] # "open"
    BY <2>1, <2>3 DEF OneRegion, Detached
  <2>4. QED
    BY <2>2, <2>3
<1>2. Kept => (ring = 1 => SeatsApart)
  BY <1>1 DEF Kept
<1> QED BY <1>2, KeptAlways, PTL
=============================================================================
