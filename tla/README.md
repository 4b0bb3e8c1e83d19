# GodwinMix, specified

TLA+ specifications of the parts of GodwinMix whose correctness depends on the
order in which several actors take their steps: the frame bus in shared memory,
the scene document several people edit at once, drafts and takes of its scenes,
the board of backups that stand in for lost sources, and the room a station
gives its shows. TLC checks them on small instances; TLAPS proves every
safety property that holds, but one, for every value of the constants, some of them under
a hypothesis section 4 names.

Paths below are relative to the repository; `core` is `crates/godwinmix-core/src`
and `framebus` is `crates/godwinmix-framebus/src`.

## 1. The system

GodwinMix is a live video mixer. A core process runs one GStreamer pipeline for
the programme and one for each source and output; a single mixer task executes
every command and a tick each half second. People, agents and pages drive it
over JSON-RPC, REST and WebSocket; plugins and browser renderers are processes
of their own; a station runs several shows on one machine, one core process a
show, and hands out what the machine has.

| Component | State it keeps | Operations | What is hard | What makes it correct |
|---|---|---|---|---|
| Frame ring (`framebus/ring`) | header of atomics: slot numbers, `latest`, lease words; the frames | claim, publish, lease_latest, lease_next, release, take_reader, reset_reader | no lock between owner and readers; readers die | a held frame is never overwritten; no lease is lost or left behind; nobody waits; users see whole frames, each newer than the last |
| Frame bus (`framebus/publisher`, `subscriber`) | current region, connections and their places, a wake flag | replace the region, admit, send regions, drop a reader; connect, pump, redial | region changes racing admissions and deaths; sockets not read | a place belongs to one live reader; a dead reader's leases are cleared and nobody else's; every live reader ends in the new region |
| Scene document (`core/scene/server`) | document, one undo and redo stack, mark and transaction per client, sequence number | edits, undo, redo, mark, begin, commit, abort, save, publish | several editors; patches sent after the unlock; forgotten histories; restart | nobody's undo takes back another's work; mirrors and file follow the document; an abort puts back what nobody touched since |
| Drafts and takes (`core/scene/server/{drafts,stale,shown,after_take}.rs`, `control/methods/{program,scenes}`) | drafts, what is armed, what Preview shows and for whom, the take lock | edit and push, begin, change, apply and discard a draft, take, cut, arm, show, close | one call takes several locks and awaits the mixer | takes are followed in the order they went to air; a stale draft is refused; Preview is let go by whoever left; an edit does not take |
| Failover (`core/failover`, `core/mixer/failover`) | a rule, a watch (clocks and flags), what is drawn and why it comes off, per source | tick, set, clear, return, stay; adopt, forget | slots rebuilt between ticks; swaps put off by transitions; several outages | covered when lost, home when steady, stays when told; announced reasons are true |
| Governor and shedding (`godwinmix-govern`, `core/render`) | ticket book, budget, what is shed | admit, drop, plan what to give up, bring back | a plan acted on after the book changed | one budget for every process; what was admitted as a top rung is never shed; the machine comes back under its line |
| Station link (`godwinmix/src/station/link`) | tickets of each show, a socket each way | ask, answer, report, shed, close | answers later than the wait for them; a reporter that sleeps | the station's book and the shows' tickets agree |
| Mixer: takes, transitions, slots (`core/mixer.rs`, `mixer/slots.rs`) | programme scene, slots, transition generation | take, cross, settle, apply visibility | a late callback of an old transition | as one queue in SceneTakes and Failover; its pads are not modelled |
| Supervision of sources and outputs (`mixer/supervise.rs`, `mixer/backoff.rs`, `mixer/generation.rs`) | patience, armed restarts, generations, stopping pipelines | arm, retry, rebuild, abandon | retries racing removals | strikes, probation and what it does to Failover's slots |
| Plugin supervisor and host (`core/plugin`, `godwinmix-host`) | process states, budgets | handshake, restart, stop | processes that die in any state | not modelled |
| Shared source owner (`core/plugin/host/shared/owner.rs`) | a flock and a frame bus name | own, follow, take over | owners that die; two candidates | not modelled; the flock decides |
| Station: shows (`station/supervise.rs`, `switch.rs`) | one process per show | start, stop, switch | restarts | deaths and restarts in StationTickets |
| Nodes (`core/node`) | leases on tasks | claim, renew, expire | lost renewals | not modelled |
| Control plane (`godwinmix/src/control`) | sessions, idempotency keys | methods | a retried call | the calls of SceneTakes; routing and JSON are not modelled |
| Hooks, tasks, snapshots, runtime state | queues, one file | enqueue, retry, save | retries | not modelled |
| Outputs, encoders, HLS, WHEP, replay, preview | GStreamer's | | | not modelled: media |
| Rendition planner (`godwinmix-render`) | none | plan | | pure |
| Wire types, clients, SDKs, pages, desktop, browser sources, media plugins | | | | not modelled, except the page's mirror of the document |

How they interact: methods of the control plane change the scene document under
its lock, broadcast its patches, and send the mixer commands whose answers they
await; pages mirror the document (`ui/kits/protocol/mirror.js`). The mixer's
tick runs the board of backups, which asks the sources' slots whether they are
live, and draws through the same transitions as a take. Source processes and
shared sources put frames on frame buses, whose owner is one thread of the
publisher and whose readers are other processes. Shows ask the station for room
through the link, and the station asks its governor.

## 2. Modules

### FrameRing: one access to shared memory at a time

Every action of `FrameRing.tla` is one load, one store or one read-modify-write
of the region's header. The owner walks `opc` through
pick, check, fill, stamp, point (`ring/owner.rs`, `claim` and `publish`): it
marks a slot WRITING, reads each place's lease, and backs off or fills. A reader
walks `rpc` through its own loop (`ring/reader.rs`): load `latest` or scan the
slots, count, set the lease bit, load the slot's number again, keep it or clear
it. `Die` may strike a reader anywhere, after which the bus thread clears its
place (`ResetReader`) and may give it to the next (`TakeReader`). The protocol's
atomics are SeqCst or published with Release and loaded with Acquire, so an
interleaving of single accesses is the code's memory model. A frame is a number
and a slot's bytes are the number of the frame in them, 0 while half written.

`Missed` counts what `skipped` counts. `stats` other than the counters a
property reads and the copying of pixels are left out.

### FrameFeed: what a bus promises

`FrameFeed.tla` has no ring, slots or leases: frames are made, become the newest
and are offered; a reader takes one it has not had, sees it whole until it drops
it, and has no more than its share in sight. `FrameRing` implements it:
`ImplementsFeed` instantiates FrameFeed with `sight` mapped to the *bytes* in the
slots a reader holds, so that an owner writing under a reader is a step FrameFeed
does not have. Making is the last byte of a frame going in, offering is the store
of `latest`, taking and dropping are the check after the lease and the release.

### FrameBus: regions, places and sockets

`FrameBus.tla` puts readers and a bus thread around regions, and reduces the
ring to "a lease word is set or not". One turn of `Shared::run` is `Poll` (the
answer of `poll`), then for each connection that closed `DropReader`, then
`SwapFlag` and `SendRegion` to each reader, then `Admit`; the publisher thread
(`StoreRing`, `FlagRegion`, `Wake` of `Shared::replace`) and the clients
(`Connect`, `Pump`, `Take`, `Release`, `Redial`, `Die`) go on between any two of
these. Closed sockets, a full socket and messages in flight are explicit.

### SceneServer: one document, several people

`SceneServer.tla` keeps the document as a function from records (a scene or an
item) to the number of the edit that gave each its state, so any two states are
distinguishable and 0 is "not there". Every operation is one action, as it is
one section under the server's lock; what the code does after the unlock
(`Publish`, then `Send`) is another, so patches may leave in another order.
Patches, inverses, the merging of a mark's inverses, conflict checks, `force`,
trimmed stacks, forgotten histories and the file are translated one to one.
`Forcing` are the clients that undo and redo with force; the others never do. The
collection the file starts with, `InitRecords`, is a closed tree, as the code
loads no item without the scene it hangs off.
`Receive` is the page's mirror. `Restart` reads the file back. Observation
variables (`born`, `author`, `beneath`, `opened`, `since`) record who wrote what,
and what the document was when a transaction began and which records others have
touched in it (`Witness`); nothing reads them but the properties.

### SceneTakes: calls that take more than one lock

`SceneTakes.tla` is about the calls SceneServer has as one step each: an edit
and the push of the scene if it is on air (`Edit`, `AskStatus`, `Look`, `Push` of
`reapply_if_on_air`), the apply of a draft in its three lock sections
(`EditApply`, `Check`, `Replace`, `Retain`), a take of a scene with the apply of
its waiting drafts (`TakeScene`, `ApplyNext`, `Place`, `Turn`, `Before`,
`Request`, `Follow`), a cut, arming, the after take setting, a draft shown in
Preview, and the end of a connection (`HangUp`, `Present`, `ClientLeft`). A
connection makes one call at a time, as `ws.rs` reads its socket, and `call`
says where it is and what it carries. The mixer's command channel has one
reader, so a command takes effect where it is sent; its answer is a later step
or never comes in time. A layout is a number no other edit has made. `lately`
and `led` observe; nothing reads them but properties.

Left out: scheduled takes, source takes with a transition, renames, the Preview
compositor that draws what is armed, `armed.rs`, which restores it at a restart,
a draft's owner and name, and REST calls, which have no seat.

### StationTickets: one machine, one budget

`StationTickets.tla` has the station's book and every show's own state: the
mixer thread with the change it is in the middle of (`Replan`, `Ask`,
`ReadAnswer`, `Apply`, `ShedTick`, `RestoreTick`), the reporter's thread (`Look`,
`Wake`, `Read`), the two directions of the link as sequences, and the station's
task for the link (`Admit`, `Release`, `Load`, `Warn`, `Gone`). `TimeOut` is
`ASK_WAIT` running out: the show decides on its own book and the late answer
finds nobody. A show is a process with a name: `Die` ends one at any point and
`Start` starts the next of its name, as the supervisor does when the process has
ended (`station/supervise.rs`), so the station may close the old link
(`Gone`, which forgets the load under that name) after the new process has told
its own. `Burst` is what other programs take. The rung a node is asked for is
taken from the plan when its ticket is asked for (`KindOf`) and kept in the book
(`kind`); a later plan that keeps the node and gives it other requests to serve
changes `rungs` and not the ticket, as `diff` compares work and inputs only
(`godwinmix-render/src/diff.rs:53-55`). A ticket is a number and whose book it is in, since `find` in
`render/shed.rs` looks for the number alone. Numbers and asks are given out again
when nothing mentions them any more; a node costs a fixed share of one resource,
and a sum of costs is the size of the set of its units (`Taken`, `Promised`).

Left out: presets, devices, calibration, the sampling itself, hello and health
lines. `Ticket::lower` has no caller outside its tests.

### Failover: the board of backups

`Failover.tla` has one entry per source: rule, watch, showing, leaving. Instants
are ages that `Tick` moves on and caps at `Long`. `TickAfter` is the mixer's
whole `failover` (ages, `Watch::step` for each source, `swap_stand_ins`) and the
supervisor's note of which slots are live. `SetOnLoss`, `Return` and `Stay` are
the commands, each with the swap it ends in. `StartTake` and `EndTransition` are
the transitions that put a swap off; which source is on air is left open, so a
swap may or may not start one.

A source is `feed`: out of the mixer, a page asked what it plays (`Probe`), or a
slot that connects, is live, has stalled or has failed (`Come`, `Stall`, `Fail`,
`Restart`). `Rebuild` takes a slot down to be built again, `Add` and `Refuse` are
how that and any other build ends, and `Remove` takes the source off. `noted` is
the list of what would not start. A source on it may be tried again, and the time
of its first try (`tried`, `waited`) stands for when it was added. A rebuild that
fails does not begin one (`mixer.rs:3459-3464`), and one is forgotten only when a
tick finds the source live and without strikes (`mixer.rs:4885-4897`): `Judge` is
the part of the tick that strikes a source and forgives it after `HealthyFor`
(`mixer/patience.rs`). When a strike falls is left open.

`steady`, `gone`, `cause`, `told` and `doubted` observe. Left out: alert texts and
`never_live`; an operator's second add of a source while its rebuild waits; a
thread that cannot be spawned to stop a pipeline.


## 3. Runs

Every MC module instantiates its module with model values; bounds are constants
with names and stand in guards.

| Run | Shows | Bounds and why they are enough |
|---|---|---|
| ring_pictures | `HeldFrameIntact`, `LeasesAccounted`, `RoomToWrite`, `ImplementsFeed`: no torn or overwritten frame, no lease lost or left behind, always a slot to write, and the ring implements FrameFeed | two places, one more reader than the region is sized for; four frames in three slots, so every slot is refilled under a reader |
| ring_sound | `OwnerNeverWaits`, `ReaderReachesNewest`: the owner finishes every write; a reader that keeps asking reaches the newest chunk | one reader, two leases, six chunks in four slots with CATCH_UP 2, so it falls behind and jumps |
| bus_places | `HeldFramesLeased`, `SeatsApart`, `LeasesFreed`: places are apart, no live lease is cleared, a dead reader's are cleared in the end | three clients, two places (one is refused), one region, five starts: death and return of each |
| bus_regions | `OldFramesLeased`, `RegionReachesReaders`: old frames stay leased, live readers reach the new region | two regions, six places, three starts, sockets left unread |
| scene_people | `MirrorFollows`, `UndoTakesOwnBack`: nobody's undo takes back another's work; a page's mirror follows | two people, one of whom undoes with force, three edits and any undos, two patches unsent at once, a stack of two so it is trimmed |
| scene_alone | `HistoryRewinds`, `FileHoldsCommitted`: the stacks lead back; the file holds what is committed | one person with marks, a transaction and a restart |
| scene_batches | `BatchKept`, `AbortPutsBack`: an open transaction is never forgotten; an abort that nothing blocks puts back every record changed, added or removed that nobody else touched since it began, and any abort leaves alone what somebody else changed last | two people with transactions in a tree of records, so somebody's record can hang off what an abort would take away; one history kept, so forgetting always threatens |
| scene_takes | `FollowsProgramme`, `HoldEnds`, `RefusesStale`: takes are followed in the order they went to air, Preview is let go by whoever left, a stale draft is refused | two scenes (interchangeable, so symmetric), a laptop with a page and a popup, a phone with an app, one draft, one further layout, two takes, one connection opened again: a second take arrives while the first is between any two of its locks, and a hold can be taken over and lost. The after take mode starts as "same" and may become "swap" |
| scene_edit_takes | `EditNeverTakes` is violated: section 5 | as scene_takes |
| failover_feeds | `DrawnWhatHelps`, `HoldsFrame`: what is drawn helps; the hold is kept, or counted from the first try where the code goes by it | a source and its backup that stall, fail and restart; the source at first started, probed or refused, then built again, struck, forgiven, refused, removed; no rule is set. Waits of two ticks, the smallest that can be cut short, and forgiveness after two, so a rebuild falls before and after it |
| failover_operator | `OffHasReason`, `ReturnsWhenSteady`, `StayForOneOutage`, `ReasonIsTrue`, `Covered`, `HomeAgain`: a put off swap keeps its reason; returns only when steady; stays when told; true reasons; covered in the end, home in the end | one source that drops, an operator with two rules and clearing, one take |
| station_budget | `HeldIsBooked`, `NothingLeftBooked`, `OneBudget`, `TopRungKept`, `HolderIsWeighed`, `OverLineEnds`: the books agree, the machine is not promised twice, no ticket granted for a top rung is shed, a machine over its line comes back under it | two shows; the hall is answered late, dies and is started again, its next process telling its load while the old link may still be open; four nodes of cost 1, one of them a lower rung that may become a top one, on a machine with room for two, so every third is refused; a burst of other programs that takes one; three ticket numbers, so one is given out again while a shed list still has it; three changes |

Each module's `TypeOK` is checked in one of its runs. All runs are checked for
deadlock but those of SceneServer, SceneTakes and StationTickets: with edits,
calls or changes spent and everything delivered, the bounds leave nothing to do.

In the cfgs of the passing runs some behaviours are kept out where the code is
known not to keep the property (section 5), so that it is checked on the rest:
sources that are not built again and backups that do not stall in
failover_operator, no rule set again in failover_feeds, no transaction in
scene_people, no marks with a second person in scene_alone and scene_people, one
region in bus_places, one person who never forces in scene_people.
`NothingLeftBooked` and `TopRungKept` are about the shows that are answered in time;
`TopRungKept` about the rung a ticket was granted for, not the one its node serves by
then; and `HoldsFrame` names the case in which the code counts from the first try.

Every property has a mutant in its module: a definition with the bug a slip of
the hand would put in the code (`ForgottenAny`, `PushUndoUntrimmed`), which is
used by no action. Put in place of the definition it stands before, it makes TLC
find the property violated in the same run; PROJECT.json lists the pairs.

### Fairness

* FrameRing: each thread that has a next access takes it; a reader lets go of
  its frames. Readers are not obliged to start, or to go on after they die.
* FrameBus: the publisher's `replace` and the bus thread's loop go on, and a
  live subscriber goes on pumping and redialling, as `Subscriber::next` loops.
  A reader that was refused sleeps 50 ms before it dials again, so the accept
  loop, which takes connections until there is none, ends (strong fairness of
  `AcceptDone`). Nobody is obliged to take a frame.
* Failover: the mixer's loop ticks (`TICK`, 500 ms), and a transition ends (at
  most ten seconds, `MAX_TRANSITION_MS`). Nothing is assumed of feeds or
  operators; the properties say "a source that stays without a picture".
* StationTickets: a show's mixer thread and the thread that reads its link, the
  station's task for a link and its watch, which comes round once a second, and
  the reporter of the shows in `Telling`, all go on when they have something to
  do. Changes, late answers, encoders that fail to start, bursts and deaths are
  not fair. Fairness is of each thread with all its steps, so a show that is
  answered in time is one whose answers always come before `ASK_WAIT`.
* SceneServer and SceneTakes have safety properties only.

## 4. Proofs

Proved for every value of the constants; each module needs only the assumptions
its component names (`RingAssumption` and so on: the constants are of their
kind).

`FrameRingProofs`: `HeldFramesStayIntact`, `NewestStaysReadable`,
`FramesOnlyMoveForward`, `RingTypes`. The inductive invariant is `IInv`:

* `TypeOK`;
* `OneMarked`: the one slot marked WRITING is the candidate, never the newest;
* `NumberedBytes`: a slot's number names its bytes;
* `HeldNumbered`: a held frame is leased and its slot still has its number, but
  for the moment the owner tries it;
* `Backoff`: the owner cannot pass a reader that holds the slot, nor a reader
  take one the owner has passed it for. This is the comment of `ring/mod.rs`
  ("one of them comes second and sees the other") as an invariant, and the
  reason `HeldFrameIntact` alone is not inductive;
* `WantsNewer`: what a reader is after is newer than all it has had.

`FrameFeedProofs` adds the books of the ring: `LeasesStayAccounted`,
`CountsAlwaysCover` and `RingImplementsFeed`, the refinement. On top of `IInv`
it needs `Books`: a lease word is the held frames and the slot being tried
(`Booked`), a reader that is about to set a bit has one to spare (`Allowed`), no
reader has one frame twice (`HeldApart`), and what its counters count
(`CountsStart`, `CountsCoverFrames`). A step of the ring is then a step of
FrameFeed or none: the store of `latest` offers, the check after the lease
takes, and the owner's writes change nobody's sight because what they write
nobody holds. `RoomStays` is the pigeonhole: while no more readers are attached
than the region is sized for, dead ones included, each with its share
(`WithinShare`), the slots they all have leased and the newest are fewer than
the ring has.

`FrameBusProofs`: `BusTypes` for any clients, places and regions.
`HeldStaysLeased`, `SeatsStayApart` and `NothingStaysLocked` are about the time
until the first format change (`ring = 1`), after which the code does not keep
them (section 5). `FirstFramesLeased` has no such limit: a frame of the first
region is leased as long as it is held, through every change; so
`OldStaysLeased` holds while there have been at most two regions. The invariant
is `Kept`: the bus thread hears of a region only after it is stored (`Told`);
while `ring = 1`, `OneRegion` and `Owned`; and `FirstLeased` with `FirstApart`,
which says that what is left of the first region, in messages, seats and frames,
is one client's per place. `OneRegion` says two admitted connections have two
places (`PlacesApart`), a connection has the place it was admitted with and no
other (`Attached`), and a client has something of the bus only while it lives
and is admitted (`Detached`).

`SceneServerProofs`: `BatchesKept`. Every operation is a case of one step,
`Remembers(c, x, h)`, which forgets `x` and writes `h`; whoever is forgotten is
idle, and only a commit and an abort write a history that is closed.

`SceneDocumentProofs` proves the rest of SceneServer. What a merge of two
patches and an inverse compute is stated once (`IsDiff`, `IsMerge`) and used by
all:

* `SceneTypes`, from `Shape`: patches name records that were born and edits that
  were made. The two stacks are bounded by `UndoDepth` together (`Fits`), since
  an undo moves a step from one to the other; each bound alone is not inductive.
* `AbortsPutBack`, from `BatchesApart`, no record is in two parts of a batch, and
  `Tracked`: of a record nobody else has touched since a transaction began, its
  batch is the difference between then and now. An abort that nothing blocks
  rebuilds (`UnblockedRebuilds`), so it goes through; that and the property are
  what `AbortTakesBack` proves of a step.
* `FileHolds`, for one client (`Alone`), since another client's command saves a
  half done transaction (section 5). `FileApart`: the batch leads from the file
  to the document.
* `MirrorStays`, from `Filmed`: there is a film, a function from sequence
  numbers to documents, whose frames are one patch apart, the patches being
  those published. The mirror is a frame of it. Without transactions (`Batching
  = {}`) and with the first patch seen, as section 5 shows it false otherwise,
  and without a restart, which counts the numbers from the start again.
* `UndoStaysOwn`, from `OwnSteps`: whatever a step on a stack that still fits
  would take away, its client made. Without marks, and with transactions only by
  clients the property leaves out (`Batching \subseteq Forcing`), as a merged
  step may lie around somebody else's change (section 5).
* `HistoryIsRewound`, for one client: each stack has a film (`Leads`), documents
  one step apart of which the last is the one its top step applies to; the undo
  stack's begins with the document the core opened, while no step can have been
  trimmed. Marks, transactions and restarts are all in it. The property's own
  `Replay` is read off the film; as the prover has no induction over a data
  argument, counting up is done by the well-founded order of finite subsets.

`SceneTakesProofs`: `TypesAlwaysOK`, `ProgrammeFollowed`, `HoldsEnd`,
`StaleRefused`. The inductive invariant `Shape` says what each call carries at
each of its steps (`Typed`, `Carries`), that one take has the lock (`OneTurn`),
that a connection has its seat until it closes (`Seated`) and what an apply has
seen (`Looked`). `Following` is the order of takes, while the mode is "same" and
takes by name lead: what is armed is what is on air, but between the request of
the one take that has the turn and its follow, and that take knows what was on
air before it.

`FailoverProofs`: `NothingLeftOver`, `ReasonIsThere`, `StaysUntilTold`, from the
inductive invariant `Sound`: the shape of the board, every rule is of a source
the board knows, and the first two. The lemmas on `Disengaged`, `SeenLive`,
`SeenDown` and `Looked` say what one look does to a watch; `SwapKeepsReasons`
what a swap, drawn or put off, does to the reasons. On top of `Sound`:

* `BoardTypes` and `DrawsWhatHelps`, from `Typed`. A walk along the rules lists
  the sources it has met (`Links`, `ChainLists`), none twice, so it ends in a
  set of sources that is finite.
* `ReturnsOnlySteady`, where no slot is built again or removed (`Replaceable =
  {}`), from `SeenSteady`: the count of a return is no longer than the source
  has been live.
* `HoldsFirst`, where a rule is cleared but not set again (`Settable \subseteq
  {None}`), from `SeenGone`: the clock of an outage is no older than the outage,
  or than the first try where the code goes by that (`FromFirstTry`). It holds
  through restarts, rebuilds, refusals, removals, strikes and probation.
  Section 5 shows both false without their hypothesis.

`StationTicketsProofs`: `TicketTypes`, `HeldStaysBooked`, `NothingStaysBooked`,
`BudgetKept`, `TopRungsKept`, for any shows, nodes, costs and budgets. The
inductive invariant `IInv` is `Desk`, the station's book, and `Show(s)` for
every show: a number that is booked for a show is in one place at most
(`Named`), and in exactly one if the show is answered in time (`Waits`): in an
answer that is coming (`Coming`), with a node or the change being made
(`Holds`), or in a line that gives it back (`Going`), and an ask is on its way
or answered, once (`Matched`). Where a step is one show's, a frame lemma carries
the invariant of the others over. `Spared` is what keeps a ticket granted for a
top rung: a number in a warning that is coming or in a shed list is booked for a
lower rung or for nothing, as a number is not given out again while anything mentions it.
`BudgetKept` sums costs as sizes of sets, to which booking a number adds one
disjoint part.

`NewestReadable`, `FramesMoveForward`, `CountsCoverFrames`, `OneOutage`,
`FirstLeased` and, while `ring = 1`, `NothingLocked` are proved and in no run.

Only model-checked: liveness (`OwnerNeverWaits`, `ReaderReachesNewest`,
`LeasesFreed`, `RegionReachesReaders`, `Covered`, `HomeAgain`,
`HolderIsWeighed`, `OverLineEnds`), which is beyond the prover; and
`ReasonIsTrue`, which is false where two sources fail (section 5), so that a
theorem would be about boards of one source that fails.

## 5. Where the code and its documentation part

One run is expected to be violated: scene_edit_takes. `reapply_if_on_air`
(`scenes/edit.rs:450`) asks what is on air, waits, and sends a take of the
edited scene. A cut in between is undone, where the comment at line 440 says an
edit is "a no op off air, and a property write on air".

The modules show more, without a run kept for each. The constants that differ
from the named cfg and the property TLC then finds violated:

| What the code does | Cfg and changes | Property |
|---|---|---|
| a place number is cleared in a region it was not given out in (`publisher/service.rs:141`, `subscriber/frame.rs:35`) | BusPlaces, `SPECIFICATION Spec`, `Clients = {"c1", "c2"}`, `NPlaces = 4`, `SlowReaders = FALSE`, `MaxRegions = 2`, `MaxStarts = 4` | `HeldFramesLeased` |
| a reader admitted between `replace` and the wake gets two places, and a lease of the first is never cleared (`publisher/service.rs:125`, `lib.rs:17-19`) | the same | `NothingLocked` |
| more readers than `max_readers` are attached (`ring/owner.rs:71`, `docs/reference/frame-bus.md:107`) | RingPictures | `ReadersWithinMax` |
| a reader within its allowance makes the owner drop a chunk (`ring/owner.rs:36`, `publisher/stats.rs:21`) | RingSound, `LeasesPerReader = 1` | `NothingDroppedWithinAllowance` |
| an abort takes back somebody else's change made between two of its own (`scene/server/transaction.rs:67`, against 5-7) | SceneBatches, `ClientsKept = 2`, `Batching = {phone}`, `MaxEdits = 4` | `AbortTakesOwnBack` |
| an abort that would put back a group and what it held fails, where somebody else has removed the scene they were in: a group that has nowhere to go counts as returning (`scene/server/conflict.rs:101-104`, against 131-132 and `transaction.rs:5-7`) | SceneBatches, `Parent <- Chain`, `InitRecords = {scene, logo, clock}` | `AbortGoesThrough` |
| a commit publishes states the document has left (`scene/server/transaction.rs:41`); an abort that does not rebuild fails with the transaction closed and its changes unpublished (58-59, 71) | ScenePeople, `Batching = {phone}` | `MirrorFollows` |
| the undo of a drag takes back somebody else's change made during it (`clients.rs:64`, `docs/explanation/undo-with-several-people.md:35-38`) | ScenePeople, `Marks = {"drag"}` | `UndoTakesOwnBack` |
| an undo that is not forced takes back somebody else's change, if its client has forced an undo of that change and redone it (`scene/server/undo.rs:32-69`, against `scene/server/conflict.rs:1-16`) | ScenePeople, `MaxEdits = 2`, `MaxSeq = 6` | `EveryUndoTakesOwnBack` |
| a mirror with no patch yet takes the second of two first and drops the other as a duplicate (`scene/server/mod.rs:397`, `docs/reference/designer-kits.md:89-91`) | ScenePeople, `FirstPatchSeen = FALSE`, `Parent <- Loose` | `MirrorFollows` |
| a rebuild of a source does not break its return's count (`failover/watch.rs:64`, `docs/reference/sources.md:280-281`) | FailoverOperator, `Replaceable = {main}` | `ReturnsWhenSteady` |
| a reason left behind is announced for a later outage (`failover/state.rs:76` and `67-68`) | FailoverOperator, `Fallible = {main, wide}` | `ReasonIsTrue` |
| the clock of an outage in which the rule was cleared skips the hold of a later one (`failover.rs:84`, `failover/watch.rs:21`) | FailoverFeeds, `Settable <- Again` | `HoldsFrame` |
| a source that would not start, came up, is not forgiven yet and is built again has its outage dated from its first try, so its backup goes on at once, though it had a picture a tick ago (`mixer.rs:4885-4897`, `mixer/failover.rs:79-81`, `failover/watch.rs:81-83`, against `docs/reference/sources.md:257-259`) | FailoverFeeds | `HoldsAlways` |
| a lower rung that another output later asks for as its top keeps the ticket of a lower rung and is shed (`render/admit.rs:33-39`, `godwinmix-render/src/diff.rs:21-22` and 53-55, against `godwinmix-govern/src/shed.rs:4-6` and `render/admit.rs:12`) | StationBudget | `TopRungOfPlanKept` |
| an idle show goes on weighing in the station's plan (`link/report.rs:58`, `link/serve.rs:115-116`) | StationBudget | `IdleWeighsNothing` |

Met while translating, and in no property:

* The file keeps half of a transaction when another client's command saves the
  document in the middle of it (`transaction.rs:42`).
* A show that stops waiting for the station's answer starts the work on its own
  word and drops the late ticket, which stays in the station's book
  (`remote.rs:78-79`); a node found again by number alone may then be another
  show's or a top rung (`render/shed.rs:60`, against `govern/shed.rs:4-6`). Work
  admitted on a show's own word is in no plan of the station.
* The station tells a host's sum after the lock (`host.rs:59-67`), and
  `RESTORE_AFTER` counts from the shed, not from when there is room.
* A source removed while its page is asked what it plays, or while its rebuild
  waits, comes back when the answer or the rebuild does (`mixer.rs:4501`).
* An add of a source that fails leaves its rule on the board (`mixer.rs:2287-2291`).
* A take reads a scene's placements before it waits for the lock and the mixer,
  so air may show an older layout than the document, which no push follows
  (`program.rs:313`, `edit.rs:67-72`).
* An edit between `edit_apply`'s check and its replace is overwritten
  (`drafts.rs:97-103`, against 8-11), and what is done to the draft meanwhile is lost.
* Arming, between a take and its follow, the scene that was on air is taken away
  again by the follow (`after_take.rs:27-29`).
* A client that connects again between `present` and `client_left` loses its hold
  on Preview (`ws.rs:375`).

## 6. Plan

Done: FrameRing and what it promises (FrameFeed), FrameBus, SceneServer,
SceneTakes, StationTickets, Failover. What would come next, in order:

1. The page's refresh call by call, on SceneServer's `Send`.
2. `PluginHost`: handshake, restart with backoff, budget, stop.
3. `Leases`: a node's claim on a task, its renewal and expiry; the idempotency
   cache of the control plane, a retry against a call still running.
4. `SharedSource`: the owner of a shared source under its flock, with FrameBus as
   the bus its readers dial.
5. Proofs: `FileHoldsCommitted` and `HistoryRewinds` with a second person who opens
   no transaction; `HeldFramesLeased` past the first format change for readers
   that were admitted after it; `ReasonIsTrue`.

## 7. Not modelled, and why

* Media pipelines, encoders and their elements, HLS, WHEP, replay, preview and
  multiview: their state is GStreamer's, whose callbacks the repository does not
  specify. The slots and transitions of the mixer are pads and clocks of the same;
  what several callers see of the mixer is the order of its commands, which
  SceneTakes and Failover have.
* Codecs, layouts, geometry, flattening and OBS import: pure functions over
  floats and bytes, which property tests fit better. The rendition planner is pure
  as well and small enough to be a module with a reference definition.
* Serialisation, generated clients, SDKs, user interfaces apart from the mirror,
  name and URI parsing: no order of steps to get wrong.
* The supervision of sources, the plugin host, the shared owner's flock, nodes'
  leases, hooks and idempotency keys are protocols; the plan has them.
* `Stop` of a publisher and a new owner's taking over of a name: the flock and the
  file system decide.

These modules are about the few thousand lines where several actors meet. Most
of the repository is the code listed here, so they cover a small share of its
lines.

The atomics' ordering is taken as an interleaving of single accesses, which is
what SeqCst, Release and Acquire give the protocol of the ring. Time in Failover
is discrete, a unit a tick; StationTickets has no clocks, only orders.
