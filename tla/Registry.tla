------------------------------ MODULE Registry ------------------------------
(***************************************************************************)
(* The registry of rooms (internal/room/registry.go) for one document: the *)
(* requests that ask for its room (internal/server/server.go), the         *)
(* goroutine that writes rooms to the store and drops the idle ones, the   *)
(* store, and the process around them (cmd/pmd/main.go), which may be      *)
(* stopped, may crash, and may be started again.                           *)
(*                                                                         *)
(* A text is the set of the edits that went into it, and an edit is named  *)
(* by the request of the user who made it.  A room is named by the request *)
(* that created it.  Documents do not share anything but the registry's    *)
(* lock, so one stands for all.                                            *)
(*                                                                         *)
(* Get works in three steps, because it reads the store without the lock,  *)
(* and so does the goroutine, which does the same when it writes.          *)
(***************************************************************************)
EXTENDS Integers, FiniteSets

CONSTANTS Sockets,     \* requests for the socket of the document
          Readers,     \* requests for its text
          None,        \* no room
          StoreFails,  \* whether the store can fail
          Expires,     \* whether a room can be idle past Config.Expiry
          Stops,       \* whether the process can be told to stop
          Overruns,    \* whether http.Server.Shutdown can run out of its time
          MaxCrashes   \* how often it crashes (bound)

Requests == Sockets \cup Readers

ASSUME RegistryAssumption ==
    /\ Sockets \cap Readers = {}
    /\ None \notin Requests
    /\ StoreFails \in BOOLEAN
    /\ Expires \in BOOLEAN
    /\ Stops \in BOOLEAN
    /\ Overruns \in BOOLEAN
    /\ MaxCrashes \in Nat

VARIABLES
    process,  \* "up", "stopping" (the context is cancelled), "stopped", "crashed"
    crashes,  \* how often it has crashed
    stored,   \* the document's row, {} also when there is none
    slot,     \* g.rooms[id]: a room, or None
    room,     \* the rooms there have been
    at,       \* where each request is
    read,     \* what its Get has read from the store
    got,      \* the room its Get returned
    task      \* what the registry's goroutine is doing

vars == <<process, crashes, stored, slot, room, at, read, got, task>>

requestVars == <<at, read, got>>
processVars == <<process, crashes>>

Alive == process \in {"up", "stopping"}

NewRoom(text) == [text |-> text, dirty |-> FALSE, users |-> {}, idle |-> FALSE]

\* The goroutine between two ticks, and with room r in hand.
Waiting == [at |-> "waiting", room |-> None, text |-> {}]
Task(step, r, text) == [at |-> step, room |-> r, text |-> text]

Init ==
    /\ process = "up"
    /\ crashes = 0
    /\ stored = {}
    /\ slot = None
    /\ room = [r \in Requests |-> NewRoom({})]
    /\ at = [q \in Requests |-> "new"]
    /\ read = [q \in Requests |-> {}]
    /\ got = [q \in Requests |-> None]
    /\ task = Waiting

---------------------------------------------------------------------------
(* The requests.                                                           *)

Goto(q, place) == at' = [at EXCEPT ![q] = place]

\* Get, first section: the room is there, or has to be read.
Lookup(q) ==
    /\ process = "up"
    /\ at[q] = "new"
    /\ IF slot # None THEN /\ got' = [got EXCEPT ![q] = slot]
                           /\ Goto(q, "got")
                      ELSE /\ Goto(q, "loading")
                           /\ UNCHANGED got
    /\ UNCHANGED <<processVars, stored, slot, room, read, task>>

\* Get, outside the lock: Store.Load.
Load(q) ==
    /\ at[q] = "loading"
    /\ read' = [read EXCEPT ![q] = stored]
    /\ Goto(q, "loaded")
    /\ UNCHANGED <<processVars, stored, slot, room, got, task>>

\* Load fails, or its context is cancelled, and the request fails with it; or the
\* socket is not accepted.
GiveUp(q) ==
    /\ \/ at[q] = "loading" /\ (StoreFails \/ process = "stopping")
       \/ at[q] = "got"
    /\ Goto(q, "done")
    /\ UNCHANGED <<processVars, stored, slot, room, read, got, task>>

\* Seeded fault: the room made while the store was read is replaced.
InstallAnyway(q) ==
    /\ at[q] = "loaded"
    /\ room' = [room EXCEPT ![q] = NewRoom(read[q])]
    /\ slot' = q
    /\ got' = [got EXCEPT ![q] = q]
    /\ Goto(q, "got")
    /\ UNCHANGED <<processVars, stored, read, task>>

\* Get, second section: another request's room wins.
Install(q) ==
    /\ at[q] = "loaded"
    /\ IF slot # None THEN /\ got' = [got EXCEPT ![q] = slot]
                           /\ UNCHANGED <<room, slot>>
                      ELSE /\ room' = [room EXCEPT ![q] = NewRoom(read[q])]
                           /\ slot' = q
                           /\ got' = [got EXCEPT ![q] = q]
    /\ Goto(q, "got")
    /\ UNCHANGED <<processVars, stored, read, task>>

\* handleText: the text is answered, nobody joins.
Answer(q) ==
    /\ q \in Readers
    /\ at[q] = "got"
    /\ Goto(q, "done")
    /\ UNCHANGED <<processVars, stored, slot, room, read, got, task>>

\* handleSocket, Room.Join.
Join(q) ==
    /\ q \in Sockets
    /\ at[q] = "got"
    /\ room' = [room EXCEPT ![got[q]].users = @ \cup {q}, ![got[q]].idle = FALSE]
    /\ Goto(q, "joined")
    /\ UNCHANGED <<processVars, stored, slot, read, got, task>>

\* Seeded fault: an edit does not mark the room.
EditUnmarked(q) ==
    /\ at[q] = "joined"
    /\ q \notin room[got[q]].text
    /\ room' = [room EXCEPT ![got[q]].text = @ \cup {q}, ![got[q]].idle = FALSE]
    /\ UNCHANGED <<processVars, stored, slot, requestVars, task>>

\* Room.ApplyEdit; each user makes one edit (bound).  A message that has been
\* read is applied even though the context is cancelled.
Edit(q) ==
    /\ at[q] = "joined"
    /\ q \notin room[got[q]].text
    /\ room' = [room EXCEPT ![got[q]].text = @ \cup {q},
                            ![got[q]].dirty = TRUE, ![got[q]].idle = FALSE]
    /\ UNCHANGED <<processVars, stored, slot, requestVars, task>>

\* Room.Leave.
Leave(q) ==
    /\ at[q] = "joined"
    /\ room' = [room EXCEPT ![got[q]].users = @ \ {q}, ![got[q]].idle = FALSE]
    /\ Goto(q, "done")
    /\ UNCHANGED <<processVars, stored, slot, read, got, task>>

\* An empty room has not been touched for Config.Expiry, a day; no request takes
\* as long to get its room.
Expire ==
    /\ Expires
    /\ slot # None
    /\ room[slot].users = {}
    /\ \A q \in Requests : at[q] \notin {"loading", "loaded", "got"}
    /\ room' = [room EXCEPT ![slot].idle = TRUE]
    /\ UNCHANGED <<processVars, stored, slot, requestVars, task>>

---------------------------------------------------------------------------
(* The registry's goroutine.                                               *)

Cleaned(r) == [room EXCEPT ![r].dirty = FALSE]

\* snapshotAll: TakeDirty of a room that is dirty.
TakeSnapshot ==
    /\ Alive
    /\ task.at = "waiting"
    /\ slot # None /\ room[slot].dirty
    /\ task' = Task("saving", slot, room[slot].text)
    /\ room' = Cleaned(slot)
    /\ UNCHANGED <<processVars, stored, slot, requestVars>>

\* Seeded fault: the flag is cleared after the write, by which time there may
\* be another edit.
SaveThenClean ==
    /\ task.at = "saving"
    /\ stored' = task.text
    /\ room' = Cleaned(task.room)
    /\ task' = Waiting
    /\ UNCHANGED <<processVars, slot, requestVars>>

\* snapshotAll: Store.Save.
Save ==
    /\ task.at = "saving"
    /\ stored' = task.text
    /\ task' = Waiting
    /\ UNCHANGED <<processVars, slot, room, requestVars>>

\* It fails, or its context is cancelled.
SaveFails ==
    /\ task.at = "saving"
    /\ StoreFails \/ process = "stopping"
    /\ task' = Waiting
    /\ UNCHANGED <<processVars, stored, slot, room, requestVars>>

\* sweep: an empty room, idle for too long.
SweepLook ==
    /\ Alive
    /\ task.at = "waiting"
    /\ slot # None /\ room[slot].users = {} /\ room[slot].idle
    /\ task' = Task("sweeping", slot, {})
    /\ UNCHANGED <<processVars, stored, slot, room, requestVars>>

\* sweep: TakeDirty.
SweepTake ==
    /\ task.at = "sweeping"
    /\ LET r == task.room
       IN  /\ task' = IF room[r].dirty THEN Task("flushing", r, room[r].text)
                                       ELSE Task("dropping", r, {})
           /\ room' = Cleaned(r)
    /\ UNCHANGED <<processVars, stored, slot, requestVars>>

\* sweep: Store.Save.
SweepSave ==
    /\ task.at = "flushing"
    /\ stored' = task.text
    /\ task' = Task("dropping", task.room, {})
    /\ UNCHANGED <<processVars, slot, room, requestVars>>

\* It fails: the room is kept.
SweepSaveFails ==
    /\ task.at = "flushing"
    /\ StoreFails \/ process = "stopping"
    /\ task' = Waiting
    /\ UNCHANGED <<processVars, stored, slot, room, requestVars>>

\* sweep, under the lock: the room is dropped unless someone has joined it.
SweepDrop ==
    /\ task.at = "dropping"
    /\ slot' = IF slot = task.room /\ room[task.room].users = {} THEN None ELSE slot
    /\ task' = Waiting
    /\ UNCHANGED <<processVars, stored, room, requestVars>>

---------------------------------------------------------------------------
(* The process.                                                            *)

\* A signal cancels the context, which is also the base of the requests'.
Stop ==
    /\ Stops
    /\ process = "up"
    /\ process' = "stopping"
    /\ UNCHANGED <<crashes, stored, slot, room, requestVars, task>>

\* Run has made its last flush, in its own context: TakeDirty and Save.
FinalFlush ==
    /\ process = "stopping"
    /\ task.at = "waiting"
    /\ task' = Task("flushed", None, {})
    /\ IF slot # None /\ room[slot].dirty
       THEN \/ stored' = room[slot].text /\ room' = Cleaned(slot)
            \/ StoreFails /\ room' = Cleaned(slot) /\ UNCHANGED stored
       ELSE UNCHANGED <<stored, room>>
    /\ UNCHANGED <<processVars, slot, requestVars>>

\* Nothing of the memory is left; the requests are gone.
Forget ==
    /\ slot' = None
    /\ room' = [r \in Requests |-> NewRoom({})]
    /\ at' = [q \in Requests |-> IF at[q] = "new" THEN "new" ELSE "done"]
    /\ read' = [q \in Requests |-> {}]
    /\ got' = [q \in Requests |-> None]
    /\ task' = Waiting

\* main returns: it has waited for the flush, not for the sockets, and not even
\* for the flush if Shutdown returns an error.
Exit ==
    /\ process = "stopping"
    /\ task.at = "flushed" \/ Overruns
    /\ process' = "stopped"
    /\ Forget
    /\ UNCHANGED <<crashes, stored>>

Crash ==
    /\ Alive
    /\ crashes < MaxCrashes
    /\ crashes' = crashes + 1
    /\ process' = "crashed"
    /\ Forget
    /\ UNCHANGED stored

Restart ==
    /\ process = "crashed"
    /\ process' = "up"
    /\ UNCHANGED <<crashes, stored, slot, room, requestVars, task>>

Request(q) ==
    \/ Lookup(q) \/ Load(q) \/ GiveUp(q) \/ Install(q) \/ Answer(q)
    \/ Join(q) \/ Edit(q) \/ Leave(q)

Run ==
    \/ TakeSnapshot \/ Save \/ SaveFails
    \/ SweepLook \/ SweepTake \/ SweepSave \/ SweepSaveFails \/ SweepDrop
    \/ FinalFlush

Next ==
    \/ \E q \in Requests : Request(q)
    \/ Run
    \/ Expire \/ Stop \/ Exit \/ Crash \/ Restart

Spec == Init /\ [][Next]_vars

\* The ticker ticks, and a write ends.
FairSpec == Spec /\ WF_vars(TakeSnapshot \/ Save)
---------------------------------------------------------------------------
(* Properties.                                                             *)

Rooms ==
    [text : SUBSET Sockets, users : SUBSET Sockets, dirty : BOOLEAN, idle : BOOLEAN]

Tasks ==
    [at : {"waiting", "saving", "sweeping", "flushing", "dropping", "flushed"},
     room : Requests \cup {None}, text : SUBSET Sockets]

TypeOK ==
    /\ process \in {"up", "stopping", "stopped", "crashed"}
    /\ crashes \in 0..MaxCrashes
    /\ stored \subseteq Sockets
    /\ slot \in Requests \cup {None}
    /\ room \in [Requests -> Rooms]
    /\ at \in [Requests -> {"new", "loading", "loaded", "got", "joined", "done"}]
    /\ read \in [Requests -> SUBSET Sockets]
    /\ got \in [Requests -> Requests \cup {None}]
    /\ task \in Tasks

(***************************************************************************)
(* Whoever edits the document does so in the same room (registry.go: "two  *)
(* simultaneous joiners can never end up with two different rooms").       *)
(***************************************************************************)
OneRoom ==
    \A p, q \in Requests : at[p] = "joined" /\ at[q] = "joined" => got[p] = got[q]

(***************************************************************************)
(* What has once been stored stays stored: a save never puts back an older *)
(* text, whatever rooms were dropped, restored and lost in between         *)
(* (sqlite.go, Save replaces the row).                                     *)
(***************************************************************************)
StoreGrows == [][stored \subseteq stored']_stored

(***************************************************************************)
(* The room in the registry has everything that was ever stored: it was    *)
(* restored from the latest text (registry.go, sweep: "rejoining an        *)
(* expired room restores it transparently").                               *)
(***************************************************************************)
RestoredWhole == slot # None => stored \subseteq room[slot].text

(***************************************************************************)
(* A room that is not marked as dirty has nothing left to write, except    *)
(* what is just being written (room.go, TakeDirty), as long as no write    *)
(* fails.                                                                  *)
(***************************************************************************)
CleanIsStored ==
    slot # None /\ ~room[slot].dirty => room[slot].text \subseteq stored \cup task.text

(***************************************************************************)
(* Every edit to the registry's room is written sooner or later            *)
(* (registry.go, snapshotAll), when nothing fails and nobody pulls the     *)
(* plug.                                                                   *)
(***************************************************************************)
EditsGetStored ==
    \A q \in Sockets : slot # None /\ q \in room[slot].text ~> q \in stored
=============================================================================
