--------------------------- MODULE RegistryProofs ---------------------------
(***************************************************************************)
(* The registry keeps its rooms and its store in order, for any requests.  *)
(***************************************************************************)
EXTENDS RegistryInv, TLAPS

USE RegistryAssumption DEF Requests

\* What the requests change of a room leaves it one.
LEMMA ChangedRoom ==
    ASSUME NEW x \in Rooms, NEW q \in Sockets
    PROVE  /\ [x EXCEPT !.users = @ \cup {q}, !.idle = FALSE] \in Rooms
           /\ [x EXCEPT !.users = @ \ {q}, !.idle = FALSE] \in Rooms
           /\ [x EXCEPT !.text = @ \cup {q}, !.dirty = TRUE, !.idle = FALSE] \in Rooms
<1>1. /\ x.users \cup {q} \in SUBSET Sockets
      /\ x.users \ {q} \in SUBSET Sockets
      /\ x.text \cup {q} \in SUBSET Sockets
    BY DEF Rooms
<1> QED BY <1>1, Zenon DEF Rooms

\* So does clearing or setting a flag.
LEMMA MarkedRoom ==
    ASSUME NEW x \in Rooms
    PROVE  [x EXCEPT !.dirty = FALSE] \in Rooms /\ [x EXCEPT !.idle = TRUE] \in Rooms
BY Zenon DEF Rooms

---------------------------------------------------------------------------
(* Each step preserves the invariant.                                      *)

\* A request finds the registry's room, or goes to read the store.
LEMMA LookupOK ==
    ASSUME IInv, NEW q \in Requests, Lookup(q)
    PROVE  IInv'
<1>1. TypeOK'
    BY DEF Lookup, IInv, TypeOK, Goto, processVars
<1>2. HasRoom' /\ Registered'
    BY <1>1
       DEF Lookup, IInv, TypeOK, HasRoom, Registered, Sweeping, Goto,
           processVars
<1>3. InHand' /\ RestoredWhole'
    BY <1>1
       DEF Lookup, IInv, TypeOK, InHand, RestoredWhole, Sweeping, Writing, Goto,
           processVars
<1>4. ReadLatest' /\ NotReading'
    BY <1>1
       DEF Lookup, IInv, TypeOK, ReadLatest, NotReading, Sweeping, Goto,
           processVars, InHand, Writing
<1>5. StopsOnly' /\ CleanUnlessFailing'
    BY <1>1
       DEF Lookup, IInv, TypeOK, StopsOnly, CleanUnlessFailing, CleanIsStored,
           Goto, processVars
<1> QED BY <1>1, <1>2, <1>3, <1>4, <1>5 DEF IInv

\* What a request reads is the latest text, if no room has been made meanwhile.
LEMMA LoadOK ==
    ASSUME IInv, NEW q \in Requests, Load(q)
    PROVE  IInv'
<1>1. TypeOK'
    BY DEF Load, IInv, TypeOK, Goto, processVars
<1>2. HasRoom' /\ Registered'
    BY <1>1
       DEF Load, IInv, TypeOK, HasRoom, Registered, Sweeping, Goto, processVars
<1>3. InHand' /\ RestoredWhole'
    BY <1>1
       DEF Load, IInv, TypeOK, InHand, RestoredWhole, Sweeping, Writing, Goto,
           processVars
<1>4. ReadLatest' /\ NotReading'
    BY <1>1
       DEF Load, IInv, TypeOK, ReadLatest, NotReading, Sweeping, Goto,
           processVars
<1>5. StopsOnly' /\ CleanUnlessFailing'
    BY <1>1
       DEF Load, IInv, TypeOK, StopsOnly, CleanUnlessFailing, CleanIsStored,
           Goto, processVars
<1> QED BY <1>1, <1>2, <1>3, <1>4, <1>5 DEF IInv

\* A request that fails leaves everything as it was.
LEMMA GiveUpOK ==
    ASSUME IInv, NEW q \in Requests, GiveUp(q)
    PROVE  IInv'
<1>1. TypeOK'
    BY DEF GiveUp, IInv, TypeOK, Goto, processVars
<1>2. HasRoom' /\ Registered'
    BY <1>1
       DEF GiveUp, IInv, TypeOK, HasRoom, Registered, Sweeping, Goto,
           processVars
<1>3. InHand' /\ RestoredWhole'
    BY <1>1
       DEF GiveUp, IInv, TypeOK, InHand, RestoredWhole, Sweeping, Writing, Goto,
           processVars
<1>4. ReadLatest' /\ NotReading'
    BY <1>1
       DEF GiveUp, IInv, TypeOK, ReadLatest, NotReading, Sweeping, Goto,
           processVars
<1>5. StopsOnly' /\ CleanUnlessFailing'
    BY <1>1
       DEF GiveUp, IInv, TypeOK, StopsOnly, CleanUnlessFailing, CleanIsStored,
           Goto, processVars
<1> QED BY <1>1, <1>2, <1>3, <1>4, <1>5 DEF IInv

\* A new room has the latest text, because there was none when it was read.
LEMMA InstallOK ==
    ASSUME IInv, NEW q \in Requests, Install(q)
    PROVE  IInv'
<1>1. TypeOK'
  <2>1. NewRoom(read[q]) \in Rooms
      BY DEF NewRoom, IInv, TypeOK, Rooms
  <2>2. room' \in [Requests -> Rooms]
      BY <2>1 DEF Install, IInv, TypeOK
  <2> QED BY <2>2 DEF Install, IInv, TypeOK, Goto, processVars
<1>2. HasRoom' /\ Registered'
    BY <1>1
       DEF Install, IInv, TypeOK, HasRoom, Registered, Sweeping, Goto,
           processVars, NewRoom
<1>3. InHand' /\ RestoredWhole'
    BY <1>1
       DEF Install, IInv, TypeOK, InHand, RestoredWhole, Sweeping, Writing,
           ReadLatest, Goto, processVars, NewRoom, Rooms
<1>4. ReadLatest' /\ NotReading'
    BY <1>1
       DEF Install, IInv, TypeOK, ReadLatest, NotReading, Sweeping, Goto,
           processVars, NewRoom
<1>5. StopsOnly' /\ CleanUnlessFailing'
    BY <1>1
       DEF Install, IInv, TypeOK, StopsOnly, CleanUnlessFailing, CleanIsStored,
           Goto, processVars, NewRoom, Rooms, ReadLatest
<1> QED BY <1>1, <1>2, <1>3, <1>4, <1>5 DEF IInv

\* Nobody joins.
LEMMA AnswerOK ==
    ASSUME IInv, NEW q \in Requests, Answer(q)
    PROVE  IInv'
<1>1. TypeOK'
    BY DEF Answer, IInv, TypeOK, Goto, processVars
<1>2. HasRoom' /\ Registered'
    BY <1>1
       DEF Answer, IInv, TypeOK, HasRoom, Registered, Sweeping, Goto,
           processVars
<1>3. InHand' /\ RestoredWhole'
    BY <1>1
       DEF Answer, IInv, TypeOK, InHand, RestoredWhole, Sweeping, Writing, Goto,
           processVars
<1>4. ReadLatest' /\ NotReading'
    BY <1>1
       DEF Answer, IInv, TypeOK, ReadLatest, NotReading, Sweeping, Goto,
           processVars
<1>5. StopsOnly' /\ CleanUnlessFailing'
    BY <1>1
       DEF Answer, IInv, TypeOK, StopsOnly, CleanUnlessFailing, CleanIsStored,
           Goto, processVars
<1> QED BY <1>1, <1>2, <1>3, <1>4, <1>5 DEF IInv

\* A room that is joined keeps its text.
LEMMA JoinOK ==
    ASSUME IInv, NEW q \in Requests, Join(q)
    PROVE  IInv'
<1>1. TypeOK'
  <2>1. q \in Sockets /\ got[q] \in Requests
      BY DEF Join, IInv, TypeOK, HasRoom, Requests
  <2>2. room' \in [Requests -> Rooms]
      BY <2>1, ChangedRoom DEF Join, IInv, TypeOK
  <2>3. \A r \in Requests : room[r].text \subseteq Sockets
      BY DEF IInv, TypeOK, Rooms
  <2> QED BY <2>2, <2>3 DEF Join, IInv, TypeOK, Goto, processVars
<1>2. HasRoom' /\ Registered'
    BY <1>1
       DEF Join, IInv, TypeOK, HasRoom, Registered, Sweeping, Goto, processVars
<1>3. InHand' /\ RestoredWhole'
    BY <1>1
       DEF Join, IInv, TypeOK, InHand, RestoredWhole, Sweeping, Writing, Goto,
           processVars, Rooms
<1>4. ReadLatest' /\ NotReading'
    BY <1>1
       DEF Join, IInv, TypeOK, ReadLatest, NotReading, Sweeping, Goto,
           processVars
<1>5. StopsOnly' /\ CleanUnlessFailing'
    BY <1>1
       DEF Join, IInv, TypeOK, StopsOnly, CleanUnlessFailing, CleanIsStored,
           Goto, processVars, Rooms
<1> QED BY <1>1, <1>2, <1>3, <1>4, <1>5 DEF IInv

\* A room's text only grows, and an edit marks it.
LEMMA EditOK ==
    ASSUME IInv, NEW q \in Requests, Edit(q)
    PROVE  IInv'
<1>1. TypeOK'
  <2>1. q \in Sockets /\ got[q] \in Requests
      BY DEF Edit, IInv, TypeOK, HasRoom, Requests
  <2>2. room' \in [Requests -> Rooms]
      BY <2>1, ChangedRoom DEF Edit, IInv, TypeOK
  <2>3. \A r \in Requests : room[r].text \subseteq Sockets
      BY DEF IInv, TypeOK, Rooms
  <2> QED BY <2>2, <2>3 DEF Edit, IInv, TypeOK, processVars, requestVars
<1>2. HasRoom' /\ Registered'
    BY <1>1
       DEF Edit, IInv, TypeOK, HasRoom, Registered, Sweeping, processVars,
           requestVars
<1>3. InHand' /\ RestoredWhole'
    BY <1>1
       DEF Edit, IInv, TypeOK, InHand, RestoredWhole, Sweeping, Writing,
           processVars, requestVars, Rooms
<1>4. ReadLatest' /\ NotReading'
    BY <1>1
       DEF Edit, IInv, TypeOK, ReadLatest, NotReading, Sweeping, processVars,
           requestVars
<1>5. StopsOnly' /\ CleanUnlessFailing'
    BY <1>1
       DEF Edit, IInv, TypeOK, StopsOnly, CleanUnlessFailing, CleanIsStored,
           InHand, Writing, processVars, requestVars, Rooms
<1> QED BY <1>1, <1>2, <1>3, <1>4, <1>5 DEF IInv

\* A room that is left keeps its text.
LEMMA LeaveOK ==
    ASSUME IInv, NEW q \in Requests, Leave(q)
    PROVE  IInv'
<1>1. TypeOK'
  <2>1. q \in Sockets /\ got[q] \in Requests
      BY DEF Leave, IInv, TypeOK, HasRoom, Requests
  <2>2. room' \in [Requests -> Rooms]
      BY <2>1, ChangedRoom DEF Leave, IInv, TypeOK
  <2>3. \A r \in Requests : room[r].text \subseteq Sockets
      BY DEF IInv, TypeOK, Rooms
  <2> QED BY <2>2, <2>3 DEF Leave, IInv, TypeOK, Goto, processVars
<1>2. HasRoom' /\ Registered'
    BY <1>1
       DEF Leave, IInv, TypeOK, HasRoom, Registered, Sweeping, Goto, processVars
<1>3. InHand' /\ RestoredWhole'
    BY <1>1
       DEF Leave, IInv, TypeOK, InHand, RestoredWhole, Sweeping, Writing, Goto,
           processVars, Rooms
<1>4. ReadLatest' /\ NotReading'
    BY <1>1
       DEF Leave, IInv, TypeOK, ReadLatest, NotReading, Sweeping, Goto,
           processVars
<1>5. StopsOnly' /\ CleanUnlessFailing'
    BY <1>1
       DEF Leave, IInv, TypeOK, StopsOnly, CleanUnlessFailing, CleanIsStored,
           Goto, processVars, Rooms
<1> QED BY <1>1, <1>2, <1>3, <1>4, <1>5 DEF IInv

\* What is taken to be saved is all that is in the room.
LEMMA TakeSnapshotOK ==
    ASSUME IInv, TakeSnapshot
    PROVE  IInv'
<1>1. TypeOK'
  <2>1. room' \in [Requests -> Rooms]
      BY MarkedRoom DEF TakeSnapshot, IInv, TypeOK, Cleaned
  <2>2. \A r \in Requests : room[r].text \subseteq Sockets
      BY DEF IInv, TypeOK, Rooms
  <2> QED BY <2>1, <2>2
             DEF TakeSnapshot, IInv, TypeOK, Tasks, Alive, Task, processVars,
                 requestVars
<1>2. HasRoom' /\ Registered'
    BY <1>1
       DEF TakeSnapshot, IInv, TypeOK, HasRoom, Registered, Sweeping, Alive,
           Task, Cleaned, processVars, requestVars
<1>3. InHand' /\ RestoredWhole'
    BY <1>1
       DEF TakeSnapshot, IInv, TypeOK, InHand, RestoredWhole, Sweeping, Writing,
           Alive, Task, Cleaned, processVars, requestVars, Rooms
<1>4. ReadLatest' /\ NotReading'
    BY <1>1
       DEF TakeSnapshot, IInv, TypeOK, ReadLatest, NotReading, Sweeping, Alive,
           Task, Cleaned, processVars, requestVars
<1>5. StopsOnly' /\ CleanUnlessFailing'
    BY <1>1
       DEF TakeSnapshot, IInv, TypeOK, StopsOnly, CleanUnlessFailing,
           CleanIsStored, InHand, Writing, Alive, Task, Cleaned, processVars,
           requestVars, Rooms
<1> QED BY <1>1, <1>2, <1>3, <1>4, <1>5 DEF IInv

\* What is saved has all that was stored before.
LEMMA SaveOK ==
    ASSUME IInv, Save
    PROVE  IInv'
<1>1. TypeOK'
    BY DEF Save, IInv, TypeOK, InHand, Sweeping, Writing, Tasks, Waiting,
           processVars, requestVars
<1>2. HasRoom' /\ Registered'
    BY <1>1
       DEF Save, IInv, TypeOK, HasRoom, Registered, Sweeping, Waiting,
           processVars, requestVars
<1>3. InHand' /\ RestoredWhole'
    BY <1>1
       DEF Save, IInv, TypeOK, InHand, RestoredWhole, Sweeping, Writing,
           Waiting, processVars, requestVars
<1>4. ReadLatest' /\ NotReading'
    BY <1>1
       DEF Save, IInv, TypeOK, ReadLatest, NotReading, Sweeping, InHand,
           Writing, Waiting, processVars, requestVars
<1>5. StopsOnly' /\ CleanUnlessFailing'
    BY <1>1
       DEF Save, IInv, TypeOK, StopsOnly, CleanUnlessFailing, CleanIsStored,
           InHand, Writing, Waiting, processVars, requestVars
<1> QED BY <1>1, <1>2, <1>3, <1>4, <1>5 DEF IInv

\* Only where writes may fail is something taken and not saved.
LEMMA SaveFailsOK ==
    ASSUME IInv, SaveFails
    PROVE  IInv'
<1>1. TypeOK'
    BY DEF SaveFails, IInv, TypeOK, Tasks, Waiting, processVars, requestVars
<1>2. HasRoom' /\ Registered'
    BY <1>1
       DEF SaveFails, IInv, TypeOK, HasRoom, Registered, Sweeping, Waiting,
           processVars, requestVars
<1>3. InHand' /\ RestoredWhole'
    BY <1>1
       DEF SaveFails, IInv, TypeOK, InHand, RestoredWhole, Sweeping, Writing,
           Waiting, processVars, requestVars
<1>4. ReadLatest' /\ NotReading'
    BY <1>1
       DEF SaveFails, IInv, TypeOK, ReadLatest, NotReading, Sweeping, Waiting,
           processVars, requestVars
<1>5. StopsOnly' /\ CleanUnlessFailing'
    BY <1>1
       DEF SaveFails, IInv, TypeOK, StopsOnly, CleanUnlessFailing,
           CleanIsStored, InHand, Writing, Waiting, processVars, requestVars
<1> QED BY <1>1, <1>2, <1>3, <1>4, <1>5 DEF IInv

\* A sweep takes up the registry's room.
LEMMA SweepLookOK ==
    ASSUME IInv, SweepLook
    PROVE  IInv'
<1>1. TypeOK'
    BY DEF SweepLook, IInv, TypeOK, InHand, Sweeping, Writing, Tasks, Alive,
           Task, processVars, requestVars
<1>2. HasRoom' /\ Registered'
    BY <1>1
       DEF SweepLook, IInv, TypeOK, HasRoom, Registered, Sweeping, Alive, Task,
           processVars, requestVars
<1>3. InHand' /\ RestoredWhole'
    BY <1>1
       DEF SweepLook, IInv, TypeOK, InHand, RestoredWhole, Sweeping, Writing,
           Alive, Task, processVars, requestVars
<1>4. ReadLatest' /\ NotReading'
    BY <1>1
       DEF SweepLook, IInv, TypeOK, ReadLatest, NotReading, Sweeping, Alive,
           Task, processVars, requestVars
<1>5. StopsOnly' /\ CleanUnlessFailing'
    BY <1>1
       DEF SweepLook, IInv, TypeOK, StopsOnly, CleanUnlessFailing,
           CleanIsStored, InHand, Writing, Alive, Task, processVars, requestVars
<1> QED BY <1>1, <1>2, <1>3, <1>4, <1>5 DEF IInv

\* What is taken to be flushed is all that is in the room.
LEMMA SweepTakeOK ==
    ASSUME IInv, SweepTake
    PROVE  IInv'
<1>1. TypeOK'
  <2>1. room' \in [Requests -> Rooms]
      BY MarkedRoom DEF SweepTake, IInv, TypeOK, Cleaned, InHand, Sweeping
  <2>2. \A r \in Requests : room[r].text \subseteq Sockets
      BY DEF IInv, TypeOK, Rooms
  <2> QED BY <2>1, <2>2
             DEF SweepTake, IInv, TypeOK, Tasks, InHand, Sweeping, Task,
                 processVars, requestVars
<1>2. HasRoom' /\ Registered'
    BY <1>1
       DEF SweepTake, IInv, TypeOK, HasRoom, Registered, Sweeping, Task,
           Cleaned, processVars, requestVars
<1>3. InHand' /\ RestoredWhole'
    BY <1>1
       DEF SweepTake, IInv, TypeOK, InHand, RestoredWhole, Sweeping, Writing,
           Task, Cleaned, processVars, requestVars, Rooms
<1>4. ReadLatest' /\ NotReading'
    BY <1>1
       DEF SweepTake, IInv, TypeOK, ReadLatest, NotReading, Sweeping, InHand,
           Writing, Task, Cleaned, processVars, requestVars
<1>5. StopsOnly' /\ CleanUnlessFailing'
    BY <1>1
       DEF SweepTake, IInv, TypeOK, StopsOnly, CleanUnlessFailing,
           CleanIsStored, InHand, Writing, Task, Cleaned, processVars,
           requestVars, Rooms
<1> QED BY <1>1, <1>2, <1>3, <1>4, <1>5 DEF IInv

\* What is flushed has all that was stored before.
LEMMA SweepSaveOK ==
    ASSUME IInv, SweepSave
    PROVE  IInv'
<1>1. TypeOK'
    BY DEF SweepSave, IInv, TypeOK, InHand, Sweeping, Writing, Tasks, Task,
           processVars, requestVars
<1>2. HasRoom' /\ Registered'
    BY <1>1
       DEF SweepSave, IInv, TypeOK, HasRoom, Registered, Sweeping, Task,
           processVars, requestVars
<1>3. InHand' /\ RestoredWhole'
    BY <1>1
       DEF SweepSave, IInv, TypeOK, InHand, RestoredWhole, Sweeping, Writing,
           Task, processVars, requestVars
<1>4. ReadLatest' /\ NotReading'
    BY <1>1
       DEF SweepSave, IInv, TypeOK, ReadLatest, NotReading, Sweeping, InHand,
           Writing, Task, processVars, requestVars
<1>5. StopsOnly' /\ CleanUnlessFailing'
    BY <1>1
       DEF SweepSave, IInv, TypeOK, StopsOnly, CleanUnlessFailing,
           CleanIsStored, InHand, Writing, Task, processVars, requestVars
<1> QED BY <1>1, <1>2, <1>3, <1>4, <1>5 DEF IInv

\* As SaveFails.
LEMMA SweepSaveFailsOK ==
    ASSUME IInv, SweepSaveFails
    PROVE  IInv'
<1>1. TypeOK'
    BY DEF SweepSaveFails, IInv, TypeOK, Tasks, Waiting, processVars,
           requestVars
<1>2. HasRoom' /\ Registered'
    BY <1>1
       DEF SweepSaveFails, IInv, TypeOK, HasRoom, Registered, Sweeping, Waiting,
           processVars, requestVars
<1>3. InHand' /\ RestoredWhole'
    BY <1>1
       DEF SweepSaveFails, IInv, TypeOK, InHand, RestoredWhole, Sweeping,
           Writing, Waiting, processVars, requestVars
<1>4. ReadLatest' /\ NotReading'
    BY <1>1
       DEF SweepSaveFails, IInv, TypeOK, ReadLatest, NotReading, Sweeping,
           Waiting, processVars, requestVars
<1>5. StopsOnly' /\ CleanUnlessFailing'
    BY <1>1
       DEF SweepSaveFails, IInv, TypeOK, StopsOnly, CleanUnlessFailing,
           CleanIsStored, InHand, Writing, Waiting, processVars, requestVars
<1> QED BY <1>1, <1>2, <1>3, <1>4, <1>5 DEF IInv

\* No request that has read the store outlives the room.
LEMMA SweepDropOK ==
    ASSUME IInv, SweepDrop
    PROVE  IInv'
<1>1. TypeOK'
    BY DEF SweepDrop, IInv, TypeOK, Tasks, Waiting, processVars, requestVars
<1>2. HasRoom' /\ Registered'
    BY <1>1
       DEF SweepDrop, IInv, TypeOK, HasRoom, Registered, Sweeping, Waiting,
           processVars, requestVars
<1>3. InHand' /\ RestoredWhole'
    BY <1>1
       DEF SweepDrop, IInv, TypeOK, InHand, RestoredWhole, Sweeping, Writing,
           Waiting, processVars, requestVars
<1>4. ReadLatest' /\ NotReading'
    BY <1>1
       DEF SweepDrop, IInv, TypeOK, ReadLatest, NotReading, Sweeping, InHand,
           Writing, Waiting, processVars, requestVars
<1>5. StopsOnly' /\ CleanUnlessFailing'
    BY <1>1
       DEF SweepDrop, IInv, TypeOK, StopsOnly, CleanUnlessFailing,
           CleanIsStored, InHand, Writing, Waiting, processVars, requestVars
<1> QED BY <1>1, <1>2, <1>3, <1>4, <1>5 DEF IInv

\* The last flush writes all that is in the room.
LEMMA FinalFlushOK ==
    ASSUME IInv, FinalFlush
    PROVE  IInv'
<1>1. TypeOK'
  <2>1. room' \in [Requests -> Rooms]
    <3>1. CASE room' = Cleaned(slot) /\ slot # None
        BY <3>1, MarkedRoom DEF IInv, TypeOK, Cleaned
    <3>2. CASE room' = room
        BY <3>2 DEF IInv, TypeOK
    <3> QED BY <3>1, <3>2 DEF FinalFlush
  <2>2. \A r \in Requests : room[r].text \subseteq Sockets
      BY DEF IInv, TypeOK, Rooms
  <2> QED BY <2>1, <2>2
             DEF FinalFlush, IInv, TypeOK, Tasks, Task, processVars, requestVars
<1>2. HasRoom' /\ Registered'
    BY <1>1
       DEF FinalFlush, IInv, TypeOK, HasRoom, Registered, Sweeping, Task,
           Cleaned, processVars, requestVars, Rooms
<1>3. InHand' /\ RestoredWhole'
    BY <1>1
       DEF FinalFlush, IInv, TypeOK, InHand, RestoredWhole, Sweeping, Writing,
           Task, Cleaned, processVars, requestVars, Rooms
<1>4. ReadLatest' /\ NotReading'
    BY <1>1
       DEF FinalFlush, IInv, TypeOK, ReadLatest, NotReading, Sweeping, Task,
           Cleaned, processVars, requestVars, Rooms
<1>5. StopsOnly' /\ CleanUnlessFailing'
    BY <1>1
       DEF FinalFlush, IInv, TypeOK, StopsOnly, CleanUnlessFailing,
           CleanIsStored, InHand, Writing, Task, Cleaned, processVars,
           requestVars, Rooms
<1> QED BY <1>1, <1>2, <1>3, <1>4, <1>5 DEF IInv

\* Where rooms expire, no request is reading the store then.
LEMMA ExpireOK ==
    ASSUME IInv, Expire
    PROVE  IInv'
<1>1. TypeOK'
  <2>1. room' \in [Requests -> Rooms]
      BY MarkedRoom DEF Expire, IInv, TypeOK
  <2>2. \A r \in Requests : room[r].text \subseteq Sockets
      BY DEF IInv, TypeOK, Rooms
  <2> QED BY <2>1, <2>2 DEF Expire, IInv, TypeOK, processVars, requestVars
<1>2. HasRoom' /\ Registered'
    BY <1>1
       DEF Expire, IInv, TypeOK, HasRoom, Registered, Sweeping, processVars,
           requestVars
<1>3. InHand' /\ RestoredWhole'
    BY <1>1
       DEF Expire, IInv, TypeOK, InHand, RestoredWhole, Sweeping, Writing,
           processVars, requestVars, Rooms
<1>4. ReadLatest' /\ NotReading'
    BY <1>1
       DEF Expire, IInv, TypeOK, ReadLatest, NotReading, Sweeping, processVars,
           requestVars
<1>5. StopsOnly' /\ CleanUnlessFailing'
    BY <1>1
       DEF Expire, IInv, TypeOK, StopsOnly, CleanUnlessFailing, CleanIsStored,
           processVars, requestVars, Rooms
<1> QED BY <1>1, <1>2, <1>3, <1>4, <1>5 DEF IInv

\* Being told to stop changes no room.
LEMMA StopOK ==
    ASSUME IInv, Stop
    PROVE  IInv'
<1>1. TypeOK'
    BY DEF Stop, IInv, TypeOK, Rooms, requestVars
<1>2. HasRoom' /\ Registered'
    BY <1>1 DEF Stop, IInv, TypeOK, HasRoom, Registered, Sweeping, requestVars
<1>3. InHand' /\ RestoredWhole'
    BY <1>1
       DEF Stop, IInv, TypeOK, InHand, RestoredWhole, Sweeping, Writing,
           requestVars
<1>4. ReadLatest' /\ NotReading'
    BY <1>1
       DEF Stop, IInv, TypeOK, ReadLatest, NotReading, Sweeping, requestVars
<1>5. StopsOnly' /\ CleanUnlessFailing'
    BY <1>1
       DEF Stop, IInv, TypeOK, StopsOnly, CleanUnlessFailing, CleanIsStored,
           requestVars
<1> QED BY <1>1, <1>2, <1>3, <1>4, <1>5 DEF IInv

\* A process that has ended has no rooms and no requests.
LEMMA ExitOK ==
    ASSUME IInv, Exit
    PROVE  IInv'
<1>1. TypeOK'
    BY DEF Exit, IInv, TypeOK, Tasks, Rooms, Forget, NewRoom, Waiting
<1>2. HasRoom' /\ Registered'
    BY <1>1
       DEF Exit, IInv, TypeOK, HasRoom, Registered, Sweeping, Forget, NewRoom,
           Waiting
<1>3. InHand' /\ RestoredWhole'
    BY <1>1
       DEF Exit, IInv, TypeOK, InHand, RestoredWhole, Sweeping, Writing, Forget,
           NewRoom, Waiting
<1>4. ReadLatest' /\ NotReading'
    BY <1>1
       DEF Exit, IInv, TypeOK, ReadLatest, NotReading, Sweeping, Forget,
           NewRoom, Waiting
<1>5. StopsOnly' /\ CleanUnlessFailing'
    BY <1>1
       DEF Exit, IInv, TypeOK, StopsOnly, CleanUnlessFailing, CleanIsStored,
           Forget, NewRoom, Waiting
<1> QED BY <1>1, <1>2, <1>3, <1>4, <1>5 DEF IInv

\* Nor has one that has crashed.
LEMMA CrashOK ==
    ASSUME IInv, Crash
    PROVE  IInv'
<1>1. TypeOK'
    BY RegistryAssumption
       DEF Crash, IInv, TypeOK, Tasks, Rooms, Forget, NewRoom, Waiting, Alive
<1>2. HasRoom' /\ Registered'
    BY <1>1
       DEF Crash, IInv, TypeOK, HasRoom, Registered, Sweeping, Forget, NewRoom,
           Waiting, Alive
<1>3. InHand' /\ RestoredWhole'
    BY <1>1
       DEF Crash, IInv, TypeOK, InHand, RestoredWhole, Sweeping, Writing,
           Forget, NewRoom, Waiting, Alive
<1>4. ReadLatest' /\ NotReading'
    BY <1>1
       DEF Crash, IInv, TypeOK, ReadLatest, NotReading, Sweeping, Forget,
           NewRoom, Waiting, Alive
<1>5. StopsOnly' /\ CleanUnlessFailing'
    BY <1>1
       DEF Crash, IInv, TypeOK, StopsOnly, CleanUnlessFailing, CleanIsStored,
           Forget, NewRoom, Waiting, Alive
<1> QED BY <1>1, <1>2, <1>3, <1>4, <1>5 DEF IInv

\* It starts with none.
LEMMA RestartOK ==
    ASSUME IInv, Restart
    PROVE  IInv'
<1>1. TypeOK'
    BY DEF Restart, IInv, TypeOK, requestVars
<1>2. HasRoom' /\ Registered'
    BY <1>1
       DEF Restart, IInv, TypeOK, HasRoom, Registered, Sweeping, requestVars
<1>3. InHand' /\ RestoredWhole'
    BY <1>1
       DEF Restart, IInv, TypeOK, InHand, RestoredWhole, Sweeping, Writing,
           requestVars
<1>4. ReadLatest' /\ NotReading'
    BY <1>1
       DEF Restart, IInv, TypeOK, ReadLatest, NotReading, Sweeping, requestVars
<1>5. StopsOnly' /\ CleanUnlessFailing'
    BY <1>1
       DEF Restart, IInv, TypeOK, StopsOnly, CleanUnlessFailing, CleanIsStored,
           requestVars
<1> QED BY <1>1, <1>2, <1>3, <1>4, <1>5 DEF IInv

---------------------------------------------------------------------------
(* The theorems.                                                           *)

\* It holds at the start, with no room and nothing stored.
LEMMA InitOK == Init => IInv
<1> SUFFICES ASSUME Init PROVE IInv
    OBVIOUS
<1>1. TypeOK
    BY DEF Init, TypeOK, NewRoom, Rooms, Waiting, Tasks
<1>2. HasRoom /\ Registered /\ InHand /\ RestoredWhole /\ ReadLatest /\ NotReading
    BY DEF Init, HasRoom, Registered, InHand, RestoredWhole, ReadLatest, NotReading,
           Sweeping, Writing, Waiting, NewRoom
<1>3. StopsOnly /\ CleanUnlessFailing
    BY DEF Init, StopsOnly, CleanUnlessFailing, CleanIsStored
<1> QED BY <1>1, <1>2, <1>3 DEF IInv

\* It is preserved by every step.
LEMMA NextOK == IInv /\ [Next]_vars => IInv'
<1> SUFFICES ASSUME IInv, [Next]_vars PROVE IInv'
    OBVIOUS
<1>1. ASSUME NEW q \in Requests, Request(q) PROVE IInv'
    BY <1>1, LookupOK, LoadOK, GiveUpOK, InstallOK, AnswerOK, JoinOK, EditOK, LeaveOK
       DEF Request
<1>2. CASE Run
    BY <1>2, TakeSnapshotOK, SaveOK, SaveFailsOK, SweepLookOK, SweepTakeOK,
       SweepSaveOK, SweepSaveFailsOK, SweepDropOK, FinalFlushOK DEF Run
<1>3. CASE Expire \/ Stop \/ Exit \/ Crash \/ Restart
    BY <1>3, ExpireOK, StopOK, ExitOK, CrashOK, RestartOK
<1>4. CASE UNCHANGED vars
  <2>1. TypeOK' /\ HasRoom' /\ Registered' /\ InHand' /\ RestoredWhole'
      BY <1>4 DEF vars, IInv, TypeOK, HasRoom, Registered, InHand, RestoredWhole,
                  Sweeping, Writing
  <2>2. ReadLatest' /\ NotReading' /\ StopsOnly' /\ CleanUnlessFailing'
      BY <1>4 DEF vars, IInv, ReadLatest, NotReading, Sweeping, StopsOnly,
                  CleanUnlessFailing, CleanIsStored
  <2> QED BY <2>1, <2>2 DEF IInv
<1> QED BY <1>1, <1>2, <1>3, <1>4 DEF Next

\* The invariant holds in every reachable state, whatever fails and whenever the
\* process crashes (registry.go).
THEOREM Invariance == Spec => []IInv
BY InitOK, NextOK, PTL DEF Spec

\* The state stays well typed; in particular whoever has joined has a room.
THEOREM TypeCorrect == Spec => []TypeOK
<1>1. IInv => TypeOK
    BY DEF IInv
<1> QED BY <1>1, Invariance, PTL

\* Where no room expires, whoever edits the document does so in one room
\* (registry.go, Get: "theirs wins").
THEOREM NoSecondRoom ==
    ASSUME ~Expires
    PROVE  Spec => []OneRoom
<1>1. IInv => OneRoom
    BY DEF IInv, Registered, OneRoom
<1> QED BY <1>1, Invariance, PTL

\* The room in the registry has all that was ever stored: dropping and restoring
\* it, failing writes and crashes included (registry.go, sweep).
THEOREM RestoredRoomsAreWhole == Spec => []RestoredWhole
<1>1. IInv => RestoredWhole
    BY DEF IInv
<1> QED BY <1>1, Invariance, PTL

\* No save puts an older text back (sqlite.go, Save).
THEOREM StoreNeverGoesBack == Spec => StoreGrows
<1>1. IInv /\ [Next]_vars => [stored \subseteq stored']_stored
  <2> SUFFICES ASSUME IInv, Next PROVE stored \subseteq stored'
      BY DEF vars
  <2>1. CASE Save \/ SweepSave
      BY <2>1 DEF Save, SweepSave, IInv, InHand, Writing
  <2>2. CASE FinalFlush
      BY <2>2 DEF FinalFlush, IInv, RestoredWhole
  <2>3. ASSUME NEW q \in Requests, Request(q) PROVE UNCHANGED stored
      BY <2>3 DEF Request, Lookup, Load, GiveUp, Install, Answer, Join, Edit, Leave
  <2>4. CASE \/ TakeSnapshot \/ SaveFails \/ SweepLook \/ SweepTake
             \/ SweepSaveFails \/ SweepDrop
      BY <2>4 DEF TakeSnapshot, SaveFails, SweepLook, SweepTake, SweepSaveFails,
                  SweepDrop
  <2>5. CASE Expire \/ Stop \/ Exit \/ Crash \/ Restart
      BY <2>5 DEF Expire, Stop, Exit, Crash, Restart
  <2> QED BY <2>1, <2>2, <2>3, <2>4, <2>5 DEF Next, Run
<1> QED BY <1>1, Invariance, PTL DEF Spec, StoreGrows

\* Where no write fails and the process is not told to stop, a room that is not
\* marked has been written (room.go, TakeDirty).
THEOREM CleanRoomsAreStored ==
    ASSUME ~StoreFails, ~Stops
    PROVE  Spec => []CleanIsStored
<1>1. IInv => CleanIsStored
    BY DEF IInv, CleanUnlessFailing
<1> QED BY <1>1, Invariance, PTL
=============================================================================
