----------------------------- MODULE FrameFeed -----------------------------
(***************************************************************************)
(* What the users of a frame bus are promised, with no ring in sight       *)
(* (Publisher::write and Subscriber::next, framebus/src/lib.rs): frames    *)
(* are made one after the other and offered when they are whole; a reader  *)
(* takes a frame it has not had, sees that frame and no other bytes until  *)
(* it drops it, and holds no more than its share.  FrameRing implements    *)
(* this module, with `sight` mapped to the bytes in the slots a reader     *)
(* holds.                                                                  *)
(***************************************************************************)
EXTENDS Integers, FiniteSets

CONSTANTS Readers, PerReader

VARIABLES
    made,      \* the frames made so far
    newest,    \* the bytes whoever asks for the newest frame would find
    reading,   \* the readers attached
    seen,      \* the last frame each reader took
    sight      \* the bytes each reader has before its eyes: a set of frames

feed == <<made, newest, reading, seen, sight>>

FeedInit ==
    /\ made = 0 /\ newest = 0
    /\ reading = {}
    /\ seen = [r \in Readers |-> 0]
    /\ sight = [r \in Readers |-> {}]

\* A frame is whole; whoever reads in order may have it from now on,
Make ==
    /\ made' = made + 1
    /\ UNCHANGED <<newest, reading, seen, sight>>

\* and whoever wants the newest from here.
Offer ==
    /\ newest < made
    /\ newest' = made
    /\ UNCHANGED <<made, reading, seen, sight>>

Join(r) ==
    /\ r \notin reading
    /\ reading' = reading \cup {r}
    /\ seen' = [seen EXCEPT ![r] = 0]
    /\ UNCHANGED <<made, newest, sight>>

Leave(r) ==
    /\ r \in reading
    /\ reading' = reading \ {r}
    /\ sight' = [sight EXCEPT ![r] = {}]
    /\ UNCHANGED <<made, newest, seen>>

Take(r, n) ==
    /\ r \in reading
    /\ seen[r] < n /\ n <= made
    /\ Cardinality(sight[r]) < PerReader
    /\ seen' = [seen EXCEPT ![r] = n]
    /\ sight' = [sight EXCEPT ![r] = @ \cup {n}]
    /\ UNCHANGED <<made, newest, reading>>

Drop(r, n) ==
    /\ n \in sight[r]
    /\ sight' = [sight EXCEPT ![r] = @ \ {n}]
    /\ UNCHANGED <<made, newest, reading, seen>>

FeedNext ==
    \/ Make \/ Offer
    \/ \E r \in Readers :
          \/ Join(r) \/ Leave(r)
          \/ \E n \in 1 .. made : Take(r, n)
          \/ \E n \in sight[r] : Drop(r, n)

FeedSpec == FeedInit /\ [][FeedNext]_feed
=============================================================================
