---------------------------- MODULE RegistryInv ----------------------------
(***************************************************************************)
(* The inductive invariant of the registry.                                *)
(***************************************************************************)
EXTENDS Registry

Sweeping == task.at \in {"sweeping", "flushing", "dropping"}
Writing  == task.at \in {"saving", "flushing"}

\* A request that has its room has one, and only sockets join.
HasRoom ==
    \A q \in Requests : /\ at[q] \in {"got", "joined"} => got[q] # None
                        /\ at[q] = "joined" => q \in Sockets

\* Unless rooms expire, none is dropped, and every request has the registry's.
Registered ==
    ~Expires => /\ ~Sweeping
                /\ \A r \in Requests : ~room[r].idle
                /\ \A q \in Requests : at[q] \in {"got", "joined"} => got[q] = slot

\* What the goroutine has in hand is the registry's room, and what it writes is
\* something between what is stored and what the room has by now.
InHand ==
    /\ Sweeping \/ Writing => slot # None /\ task.room = slot
    /\ Writing => stored \subseteq task.text /\ task.text \subseteq room[slot].text
    /\ ~Writing => task.text = {}

\* A request that has read the store while there is no room has read the
\* latest text.
ReadLatest == \A q \in Requests : at[q] = "loaded" /\ slot = None => read[q] = stored

\* No request is reading the store when a room can be dropped.
NotReading ==
    Sweeping \/ (slot # None /\ room[slot].idle) =>
        \A q \in Requests : at[q] \notin {"loading", "loaded"}

\* The process only stops when it may.
StopsOnly == ~Stops => process \in {"up", "crashed"}

\* CleanIsStored, where no write can fail.
CleanUnlessFailing == ~StoreFails /\ ~Stops => CleanIsStored

IInv ==
    /\ TypeOK /\ HasRoom /\ Registered /\ InHand /\ RestoredWhole /\ ReadLatest
    /\ NotReading /\ StopsOnly /\ CleanUnlessFailing
=============================================================================
