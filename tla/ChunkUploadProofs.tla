-------------------------- MODULE ChunkUploadProofs --------------------------
(***************************************************************************)
(* Uploads in chunks, for any files, upload ids, sizes, requests and       *)
(* failures: only whole files are stored, what is reported as finished is  *)
(* stored, and a session's chunks are on disk while it is in use.          *)
(***************************************************************************)
EXTENDS ChunkUpload, FiniteSetTheorems, TLAPS

Closing == {"assemble", "store", "drop", "remove"}
Holds(t)   == task[t].pc \notin {"idle", "session"}     \* t got a session
Busy(t, u) == task[t].pc # "idle" /\ IdOf(t) = u

(* The chunks 0, 1, ... of upload u, as far as they were read. *)
InOrder(data, u) ==
  \A k \in DOMAIN data : data[k].index = k - 1 /\ UploadId[data[k].file] = u

(* A request carries a chunk of its file, which was sent. *)
RequestsWereSent ==
  \A t \in Tasks : task[t].pc # "idle" =>
    /\ task[t].index \in Indexes(task[t].file)
    /\ sent[task[t].file][task[t].index] > 0

(* Chunks lie in the directory of their upload, and are read in order. *)
ChunksInPlace ==
  /\ \A u \in UploadIds : \A c \in temp[u] : UploadId[c.file] = u
  /\ \A t \in Tasks : InOrder(task[t].data, IdOf(t))

(* The janitor only removes what has expired. *)
JanitorRests == faults = 0 => janitor = {}

Basics ==
  /\ TypeOK
  /\ sent = [f \in Files |-> sent[f]]
  /\ RequestsWereSent /\ ChunksInPlace /\ JanitorRests

(* Each session ever created belongs to one upload id, id[s]: the map and  *)
(* the goroutines use it for that upload only, its total is that of a file *)
(* of this upload, and what it received was sent under it.                 *)
Owned(id) ==
  /\ id \in [1..Len(sessions) -> UploadIds]
  /\ \A u \in UploadIds : current[u] # 0 => id[current[u]] = u
  /\ \A t \in Tasks : Holds(t) => task[t].session # 0 /\ id[task[t].session] = IdOf(t)
  /\ \A s \in 1..Len(sessions) :
       /\ \E f \in Files : UploadId[f] = id[s] /\ sessions[s].total = TotalChunks[f]
       /\ \A i \in sessions[s].received : SentOf(id[s], i) # {}

(* A file that is about to be stored has all its chunks. *)
ReadToTheEnd ==
  \A t \in Tasks : task[t].pc = "store" => Len(task[t].data) = sessions[task[t].session].total

StoredInv == ReadToTheEnd /\ StoredIsWhole /\ FinishedIsStored

(* In an undisturbed upload each chunk has one request, it is not yet      *)
(* received while that request has still to save it, and once a request    *)
(* found the session complete, no other request will look for a session:   *)
(* every chunk was sent, and its request is past that point.               *)
OneRequestPerChunk(u) ==
  \A s, t \in Tasks : Busy(s, u) /\ Busy(t, u) /\ task[s].index = task[t].index => s = t
NotYetReceived(id, u) ==
  \A t \in Tasks : IdOf(t) = u /\ task[t].pc \in {"session", "save"} =>
    \A s \in DOMAIN sessions : id[s] = u => task[t].index \notin sessions[s].received
ClosedForGood(u) ==
  (\E t \in Tasks : IdOf(t) = u /\ task[t].pc \in Closing) =>
    /\ \A t \in Tasks : IdOf(t) = u => task[t].pc # "session"
    /\ \A f \in Files : UploadId[f] = u => \A i \in Indexes(f) : SentOf(u, i) # {}
RemovedAfterUse(u) ==
  \A t \in Tasks : IdOf(t) = u /\ task[t].pc = "remove" => current[u] = 0
OnDisk(u) ==
  current[u] # 0 => sessions[current[u]].received \subseteq {c.index : c \in temp[u]}

Calm(id, u) ==
  /\ OneRequestPerChunk(u) /\ NotYetReceived(id, u) /\ ClosedForGood(u)
  /\ RemovedAfterUse(u) /\ OnDisk(u)

IInv ==
  /\ Basics /\ StoredInv
  /\ \E id : Owned(id) /\ \A u \in UploadIds : Undisturbed(u) => Calm(id, u)

-----------------------------------------------------------------------------
(* What a step writes to its request                                       *)

Task(n) == [pc: Steps, file: Files, index: Nat, session: 0..n, data: Seq(Chunk)]

(* The other requests stay where they are. *)
Only(t) == \A x \in Tasks \ {t} : task'[x] = task[x]
Keeps(t) == /\ task'[t].file = task[t].file /\ task'[t].index = task[t].index
            /\ Only(t)

LEMMA TypedTask ==
  ASSUME TypeOK, NEW t \in Tasks
  PROVE  /\ task \in [Tasks -> Task(Len(sessions))]
         /\ task[t] \in Task(Len(sessions))
         /\ task[t].pc \in Steps /\ task[t].file \in Files /\ task[t].index \in Nat
         /\ task[t].session \in 0..Len(sessions) /\ task[t].data \in Seq(Chunk)
         /\ IdOf(t) \in UploadIds
         /\ Len(sessions) \in Nat
<1>1. Len(sessions) \in Nat
  BY DEF TypeOK
<1>2. task \in [Tasks -> Task(Len(sessions))]
  BY DEF TypeOK, Task
<1>3. task[t] \in Task(Len(sessions))
  BY <1>2
<1>4. /\ task[t].pc \in Steps /\ task[t].file \in Files /\ task[t].index \in Nat
      /\ task[t].session \in 0..Len(sessions) /\ task[t].data \in Seq(Chunk)
  BY <1>3 DEF Task
<1>5. IdOf(t) \in UploadIds
  BY <1>4, FilesAssumption DEF IdOf
<1> QED BY <1>1, <1>2, <1>3, <1>4, <1>5

LEMMA IdleType ==
  /\ \A n \in Nat : Idle \in Task(n)
  /\ Idle.pc = "idle" /\ Idle.session = 0 /\ Idle.data = <<>> /\ Idle.index = 0
  /\ Idle.file \in Files
<1>1. (CHOOSE f \in Files : TRUE) \in Files
  BY FilesAssumption
<1> QED BY <1>1 DEF Idle, Task, Steps

LEMMA GotoEffect ==
  ASSUME TypeOK, NEW t \in Tasks, NEW pc \in Steps, Goto(t, pc)
  PROVE  /\ task' \in [Tasks -> Task(Len(sessions))] /\ Keeps(t)
         /\ task'[t].pc = pc
         /\ task'[t].session = task[t].session /\ task'[t].data = task[t].data
<1>1. [task[t] EXCEPT !.pc = pc] \in Task(Len(sessions))
  BY TypedTask DEF Task
<1>2. task' = [task EXCEPT ![t] = [task[t] EXCEPT !.pc = pc]]
  BY DEF Goto
<1>3. task'[t] = [task[t] EXCEPT !.pc = pc]
  BY <1>2, TypedTask
<1> QED BY <1>1, <1>2, <1>3, TypedTask DEF Keeps, Only, Task

LEMMA ReturnEffect ==
  ASSUME TypeOK, NEW t \in Tasks, Return(t)
  PROVE  /\ task' \in [Tasks -> Task(Len(sessions))]
         /\ Only(t) /\ task'[t] = Idle
         /\ task'[t].pc = "idle" /\ task'[t].data = <<>>
BY TypedTask, IdleType DEF Return, Only

-----------------------------------------------------------------------------
(* Types, requests and directories                                         *)

LEMMA InitBasics == Init => Basics
<1> SUFFICES ASSUME Init PROVE Basics
  OBVIOUS
<1>1. \A f \in Files : sent[f] = [i \in Indexes(f) |-> 0]
  BY DEF Init
<1>2. \A t \in Tasks : task[t] = Idle
  BY DEF Init
<1>3. task \in [Tasks -> [pc: Steps, file: Files, index: Nat, session: 0..Len(sessions),
                          data: Seq(Chunk)]]
  BY IdleType DEF Init, Task
<1>4. janitor \subseteq UploadIds /\ Cardinality(janitor) <= 1
  BY FS_EmptySet DEF Init
<1>5. TypeOK
  BY <1>1, <1>3, <1>4, SendsAssumption DEF Init, TypeOK
<1>6. RequestsWereSent /\ JanitorRests
  BY <1>2, IdleType DEF RequestsWereSent, JanitorRests, Init
<1>7. ChunksInPlace
  BY <1>2, IdleType DEF Init, ChunksInPlace, InOrder
<1> QED BY <1>5, <1>6, <1>7 DEF Basics, Init

LEMMA RequestsStay ==
  ASSUME Basics, NEW t \in Tasks, Only(t), UNCHANGED sent,
         task'[t].pc = "idle" \/ (Keeps(t) /\ task[t].pc # "idle")
  PROVE  RequestsWereSent'
BY DEF Basics, RequestsWereSent, Only, Keeps

LEMMA DataStays ==
  ASSUME Basics, NEW t \in Tasks, Only(t), UNCHANGED temp,
         task'[t].data = <<>> \/ (Keeps(t) /\ task'[t].data = task[t].data)
  PROVE  ChunksInPlace'
<1>1. ASSUME NEW x \in Tasks PROVE InOrder(task'[x].data, UploadId[task'[x].file])
  <2>1. CASE x = t /\ task'[t].data = <<>>
    BY <2>1 DEF InOrder
  <2>2. CASE x # t \/ task'[t].data # <<>>
    BY <2>2 DEF Basics, ChunksInPlace, IdOf, Only, Keeps
  <2> QED BY <2>1, <2>2
<1> QED BY <1>1 DEF Basics, ChunksInPlace, IdOf

LEMMA FaultCounts ==
  ASSUME TypeOK, Fault
  PROVE  faults' \in 0..MaxFaults /\ faults' # 0
BY SendsAssumption DEF TypeOK, Fault

LEMMA SendBasics ==
  ASSUME Basics, NEW t \in Tasks, NEW f \in Files, NEW i \in Indexes(f), Send(t, f, i)
  PROVE  Basics'
<1> DEFINE k == [Idle EXCEPT !.pc = "session", !.file = f, !.index = i]
<1>1. TypeOK /\ i \in Nat
  BY FilesAssumption DEF Basics, Indexes
<1>2. k \in Task(Len(sessions)) /\ k.pc = "session" /\ k.file = f /\ k.index = i /\ k.data = <<>>
  BY <1>1, IdleType, TypedTask DEF Idle, Task, Steps
<1>3. /\ task' = [task EXCEPT ![t] = k] /\ sent' = [sent EXCEPT ![f][i] = @ + 1]
      /\ requests' = requests + 1
      /\ UNCHANGED <<sessions, current, dirs, temp, stored, janitor, answered, faults>>
  BY DEF Send, disk
<1> HIDE DEF k
<1>4. /\ task' \in [Tasks -> Task(Len(sessions))] /\ task'[t] = k /\ Only(t)
  BY <1>1, <1>2, <1>3, TypedTask DEF Only
<1>5. /\ sent' = [g \in Files |-> sent'[g]]
      /\ \A g \in Files : sent'[g] = IF g = f THEN [sent[f] EXCEPT ![i] = @ + 1] ELSE sent[g]
  BY <1>3 DEF Basics
<1>6. requests \in Nat /\ requests' \in 0..MaxRequests
  BY <1>1, <1>3, SendsAssumption DEF Send, TypeOK
<1>7. ASSUME NEW g \in Files PROVE sent'[g] \in [Indexes(g) -> 0..requests']
  <2>1. sent[g] \in [Indexes(g) -> 0..requests] /\ sent[f] \in [Indexes(f) -> 0..requests]
    BY <1>1 DEF TypeOK
  <2>2. sent[f][i] + 1 \in 0..requests'
    BY <1>3, <1>6, <2>1
  <2>3. \A n \in 0..requests : n \in 0..requests'
    BY <1>3, <1>6
  <2> QED BY <1>5, <2>1, <2>2, <2>3
<1>8. TypeOK'
  BY <1>1, <1>3, <1>4, <1>6, <1>7 DEF TypeOK, Task
<1>9. RequestsWereSent'
  <2>1. ASSUME NEW x \in Tasks, task'[x].pc # "idle"
        PROVE  /\ task'[x].index \in Indexes(task'[x].file)
               /\ sent'[task'[x].file][task'[x].index] > 0
    <3>1. CASE x = t
      <4>1. sent[f] \in [Indexes(f) -> 0..requests]
        BY <1>1 DEF TypeOK
      <4>2. sent'[f][i] = sent[f][i] + 1 /\ sent[f][i] \in 0..requests
        BY <1>5, <4>1
      <4>3. sent'[f][i] > 0
        BY <1>6, <4>2
      <4> QED BY <1>2, <1>4, <3>1, <4>3
    <3>2. CASE x # t
      <4>1. task'[x] = task[x]
        BY <1>4, <3>2 DEF Only
      <4> DEFINE g == task[x].file
                 j == task[x].index
      <4>2. g \in Files /\ j \in Indexes(g) /\ sent[g][j] > 0
        BY <1>1, <2>1, <4>1, TypedTask DEF Basics, RequestsWereSent
      <4> HIDE DEF g, j
      <4>3. sent[g] \in [Indexes(g) -> 0..requests]
        BY <1>1, <4>2 DEF TypeOK
      <4>4. sent'[g][j] = sent[g][j] \/ sent'[g][j] = sent[g][j] + 1
        BY <1>5, <4>2, <4>3
      <4>5. sent[g][j] \in 0..requests
        BY <4>2, <4>3
      <4>6. sent'[g][j] > 0
        BY <1>6, <4>2, <4>4, <4>5
      <4> QED BY <4>1, <4>2, <4>6 DEF g, j
    <3> QED BY <3>1, <3>2
  <2> QED BY <2>1 DEF RequestsWereSent
<1>10. ChunksInPlace'
  BY <1>2, <1>3, <1>4, DataStays
<1>11. JanitorRests'
  BY <1>3 DEF Basics, JanitorRests
<1> QED BY <1>5, <1>8, <1>9, <1>10, <1>11 DEF Basics

LEMMA GetOrCreateEffect ==
  ASSUME TypeOK, NEW t \in Tasks, GetOrCreateSession(t)
  PROVE  /\ Keeps(t) /\ task'[t].pc = "save" /\ task'[t].data = task[t].data
         /\ UNCHANGED <<temp, stored, janitor, answered, sent, requests, faults>>
         /\ \/ /\ current[IdOf(t)] # 0 /\ task'[t].session = current[IdOf(t)]
               /\ task' \in [Tasks -> Task(Len(sessions))]
               /\ UNCHANGED <<sessions, current, dirs>>
            \/ /\ current[IdOf(t)] = 0 /\ task'[t].session = Len(sessions) + 1
               /\ task' \in [Tasks -> Task(Len(sessions) + 1)]
               /\ sessions' = Append(sessions, [total |-> TotalChunks[task[t].file],
                                                received |-> {}])
               /\ current' = [current EXCEPT ![IdOf(t)] = Len(sessions) + 1]
               /\ dirs' = dirs \union {IdOf(t)}
<1> DEFINE L == Len(sessions)
<1>1. current[IdOf(t)] \in 0..L /\ L + 1 \in Nat /\ L \in Nat
  BY TypedTask DEF TypeOK
<1>2. \A n \in 0..L : [task[t] EXCEPT !.pc = "save", !.session = n] \in Task(L)
  BY TypedTask DEF Task, Steps
<1>3. [task[t] EXCEPT !.pc = "save", !.session = L + 1] \in Task(L + 1)
  <2>1. L + 1 \in 0..(L + 1)
    BY <1>1
  <2> QED BY <2>1, TypedTask DEF Task, Steps
<1>4. \A x \in Tasks : task[x] \in Task(L + 1)
  BY <1>1, TypedTask DEF Task
<1>5. UNCHANGED <<temp, stored, janitor, answered, sent, requests, faults>>
  BY DEF GetOrCreateSession, disk, bounds
<1>6. CASE current[IdOf(t)] # 0
  <2>1. /\ task' = [task EXCEPT ![t] = [task[t] EXCEPT !.pc = "save",
                                                       !.session = current[IdOf(t)]]]
        /\ UNCHANGED <<sessions, current, dirs>>
    BY <1>6 DEF GetOrCreateSession, disk
  <2>2. task'[t] = [task[t] EXCEPT !.pc = "save", !.session = current[IdOf(t)]]
    BY <2>1, TypedTask
  <2> QED BY <1>1, <1>2, <1>5, <1>6, <2>1, <2>2, TypedTask DEF Keeps, Only, Task
<1>7. CASE current[IdOf(t)] = 0
  <2>1. /\ task' = [task EXCEPT ![t] = [task[t] EXCEPT !.pc = "save", !.session = L + 1]]
        /\ sessions' = Append(sessions, [total |-> TotalChunks[task[t].file], received |-> {}])
        /\ current' = [current EXCEPT ![IdOf(t)] = L + 1]
        /\ dirs' = dirs \union {IdOf(t)}
    BY <1>7 DEF GetOrCreateSession, disk
  <2>2. task'[t] = [task[t] EXCEPT !.pc = "save", !.session = L + 1]
    BY <2>1, TypedTask
  <2>3. task' \in [Tasks -> Task(L + 1)]
    BY <1>3, <1>4, <2>1, TypedTask
  <2> QED BY <1>5, <1>7, <2>1, <2>2, <2>3, TypedTask DEF Keeps, Only, Task
<1> QED BY <1>6, <1>7

LEMMA GetOrCreateBasics ==
  ASSUME Basics, NEW t \in Tasks, GetOrCreateSession(t)
  PROVE  Basics'
<1>1. TypeOK
  BY DEF Basics
<1>2. /\ Keeps(t) /\ Only(t) /\ task'[t].data = task[t].data /\ task[t].pc # "idle"
      /\ UNCHANGED <<temp, stored, janitor, answered, sent, requests, faults>>
  BY <1>1, GetOrCreateEffect DEF GetOrCreateSession, Keeps
<1>3. TypeOK'
  <2>1. CASE current[IdOf(t)] # 0
    <3>1. /\ task' \in [Tasks -> Task(Len(sessions))]
          /\ UNCHANGED <<sessions, current, dirs>>
      BY <1>1, <2>1, GetOrCreateEffect
    <3> QED BY <1>1, <1>2, <3>1 DEF TypeOK, Task
  <2>2. CASE current[IdOf(t)] = 0
    <3>1. [total |-> TotalChunks[task[t].file], received |-> {}] \in Session
      BY <1>1, TypedTask, FilesAssumption DEF Session
    <3>2. /\ sessions' \in Seq(Session) /\ Len(sessions') = Len(sessions) + 1
      <4>1. PICK r \in Session : sessions' = Append(sessions, r)
        BY <1>1, <2>2, <3>1, GetOrCreateEffect
      <4> QED BY <1>1, <4>1 DEF TypeOK
    <3>3. current' \in [UploadIds -> 0..Len(sessions')]
      <4>1. Len(sessions) \in Nat /\ current' = [current EXCEPT ![IdOf(t)] = Len(sessions) + 1]
        BY <1>1, <2>2, GetOrCreateEffect, TypedTask
      <4>2. PICK n \in Nat : n = Len(sessions')
        BY <3>2, <4>1
      <4>3. /\ n = Len(sessions) + 1 /\ current \in [UploadIds -> 0..Len(sessions)]
            /\ current' = [current EXCEPT ![IdOf(t)] = n]
        BY <1>1, <3>2, <4>1, <4>2 DEF TypeOK
      <4>4. \A x \in 0..Len(sessions) : x \in 0..n
        BY <4>1, <4>3
      <4>5. n \in 0..n
        BY <4>2
      <4>6. current' \in [UploadIds -> 0..n]
        BY <4>3, <4>4, <4>5
      <4> QED BY <4>2, <4>6
    <3>4. dirs' \subseteq UploadIds /\ dirs \subseteq dirs'
      BY <1>1, <2>2, GetOrCreateEffect, TypedTask DEF TypeOK
    <3>5. task' \in [Tasks -> Task(Len(sessions'))]
      BY <1>1, <2>2, <3>2, GetOrCreateEffect
    <3> QED BY <1>1, <1>2, <3>2, <3>3, <3>4, <3>5 DEF TypeOK, Task
  <2> QED BY <2>1, <2>2
<1>4. RequestsWereSent' /\ ChunksInPlace'
  BY <1>2, RequestsStay, DataStays
<1>5. JanitorRests'
  BY <1>2 DEF Basics, JanitorRests
<1> QED BY <1>2, <1>3, <1>4, <1>5 DEF Basics

LEMMA SaveChunkEffect ==
  ASSUME TypeOK, NEW t \in Tasks, SaveChunk(t)
  PROVE  /\ task[t].pc = "save" /\ Only(t)
         /\ task' \in [Tasks -> Task(Len(sessions))]
         /\ UNCHANGED <<current, dirs, stored, janitor, answered, sent, requests>>
         /\ faults' \in 0..MaxFaults /\ (faults' = 0 => faults = 0)
         /\ \/ /\ Keeps(t) /\ task'[t].pc = "check" /\ task'[t].data = task[t].data
               /\ task'[t].session = task[t].session
               /\ \/ /\ task[t].index \in Received(t)
                     /\ UNCHANGED <<sessions, temp>>
                  \/ /\ task[t].index \notin Received(t) /\ IdOf(t) \in dirs
                     /\ temp' = [temp EXCEPT ![IdOf(t)] =
                          {c \in @ : c.index # task[t].index} \union {ThisChunk(t)}]
                     /\ sessions' = [sessions EXCEPT
                          ![task[t].session].received = @ \union {task[t].index}]
            \/ task'[t] = Idle /\ UNCHANGED <<sessions, temp>>
<1>1. faults \in 0..MaxFaults
  BY DEF TypeOK
<1>2. UNCHANGED <<current, dirs, stored, janitor, answered, sent, requests>>
  BY DEF SaveChunk
<1>3. CASE task[t].index \in Received(t) /\ Goto(t, "check") /\ UNCHANGED <<sessions, temp, faults>>
  BY <1>1, <1>2, <1>3, GotoEffect DEF SaveChunk, Keeps, Steps
<1>4. CASE /\ task[t].index \notin Received(t) /\ IdOf(t) \in dirs
           /\ temp' = [temp EXCEPT ![IdOf(t)] =
                {c \in @ : c.index # task[t].index} \union {ThisChunk(t)}]
           /\ sessions' = [sessions EXCEPT ![task[t].session].received = @ \union {task[t].index}]
           /\ Goto(t, "check") /\ UNCHANGED faults
  BY <1>1, <1>2, <1>4, GotoEffect DEF SaveChunk, Keeps, Steps
<1>5. CASE /\ task[t].index \notin Received(t)
           /\ (IdOf(t) \notin dirs /\ UNCHANGED faults) \/ Fault
           /\ Return(t) /\ UNCHANGED <<sessions, temp>>
  BY <1>1, <1>2, <1>5, ReturnEffect, FaultCounts DEF SaveChunk
<1> QED BY <1>3, <1>4, <1>5 DEF SaveChunk

(* A session that received one more chunk is a session. *)
LEMMA ReceivedMore ==
  ASSUME TypeOK, NEW s \in 1..Len(sessions), NEW i \in Nat,
         sessions' = [sessions EXCEPT ![s].received = @ \union {i}]
  PROVE  /\ sessions' \in Seq(Session) /\ Len(sessions') = Len(sessions)
         /\ \A x \in 1..Len(sessions) :
              /\ sessions'[x].total = sessions[x].total
              /\ sessions'[x].received =
                   IF x = s THEN sessions[s].received \union {i} ELSE sessions[x].received
<1>1. sessions \in Seq(Session) /\ sessions[s] \in Session
  BY DEF TypeOK
<1> DEFINE r == [sessions[s] EXCEPT !.received = @ \union {i}]
<1>2. /\ r \in Session /\ r.total = sessions[s].total
      /\ r.received = sessions[s].received \union {i}
  BY <1>1 DEF Session
<1>3. sessions' = [sessions EXCEPT ![s] = r]
  OBVIOUS
<1> HIDE DEF r
<1>4. sessions' \in Seq(Session) /\ Len(sessions') = Len(sessions)
  <2>1. sessions \in [1..Len(sessions) -> Session] /\ Len(sessions) \in Nat
    BY <1>1
  <2>2. sessions' \in [1..Len(sessions) -> Session]
    BY <1>2, <1>3, <2>1
  <2> QED BY <2>1, <2>2
<1> QED BY <1>1, <1>2, <1>3, <1>4

LEMMA SaveChunkBasics ==
  ASSUME Basics, NEW t \in Tasks, SaveChunk(t), task[t].session # 0
  PROVE  Basics'
<1> DEFINE u == IdOf(t)
           i == task[t].index
<1>1. TypeOK /\ u \in UploadIds /\ i \in Nat /\ task[t].session \in 1..Len(sessions)
  BY TypedTask DEF Basics
<1>2. /\ Only(t) /\ task[t].pc = "save"
      /\ task' \in [Tasks -> Task(Len(sessions))]
      /\ UNCHANGED <<current, dirs, stored, janitor, answered, sent, requests>>
      /\ faults' \in 0..MaxFaults /\ (faults' = 0 => faults = 0)
      /\ task'[t] = Idle \/ (Keeps(t) /\ task'[t].data = task[t].data)
  BY <1>1, SaveChunkEffect
<1>3. RequestsWereSent' /\ JanitorRests'
  BY <1>2, RequestsStay, IdleType DEF Basics, JanitorRests
<1>4. CASE UNCHANGED <<sessions, temp>>
  <2>1. TypeOK'
    BY <1>1, <1>2, <1>4 DEF TypeOK, Task
  <2>2. ChunksInPlace'
    BY <1>2, <1>4, DataStays, IdleType
  <2> QED BY <1>2, <1>3, <2>1, <2>2 DEF Basics
<1>5. CASE /\ u \in dirs
           /\ temp' = [temp EXCEPT ![u] = {c \in @ : c.index # i} \union {ThisChunk(t)}]
           /\ sessions' = [sessions EXCEPT ![task[t].session].received = @ \union {i}]
  <2>1. sessions' \in Seq(Session) /\ Len(sessions') = Len(sessions)
    BY <1>1, <1>5, ReceivedMore
  <2>2. ThisChunk(t) \in Chunk /\ ThisChunk(t).index = i /\ ThisChunk(t).file = task[t].file
    BY <1>1, TypedTask DEF ThisChunk, Chunk
  <2>3. temp' = [temp EXCEPT ![u] = {c \in temp[u] : c.index # i} \union {ThisChunk(t)}]
    BY <1>5
  <2> HIDE DEF u, i
  <2>4. temp' \in [UploadIds -> SUBSET Chunk]
    BY <1>1, <2>2, <2>3 DEF TypeOK
  <2>5. ASSUME NEW v \in UploadIds
        PROVE  /\ temp'[v] # {} => v \in dirs'
               /\ \A c, d \in temp'[v] : c.index = d.index => c = d
    BY <1>1, <1>2, <1>5, <2>2, <2>3 DEF TypeOK
  <2>6. TypeOK'
    BY <1>1, <1>2, <2>1, <2>4, <2>5 DEF TypeOK, Task
  <2>7. ASSUME NEW v \in UploadIds, NEW c \in temp'[v] PROVE UploadId[c.file] = v
    <3>1. UploadId[task[t].file] = u
      BY DEF u, IdOf
    <3> QED BY <1>1, <2>2, <2>3, <3>1 DEF Basics, ChunksInPlace, TypeOK
  <2>8. ASSUME NEW x \in Tasks PROVE InOrder(task'[x].data, UploadId[task'[x].file])
    <3>1. CASE task'[x].data = <<>>
      BY <3>1 DEF InOrder
    <3>2. CASE task'[x].data # <<>>
      BY <1>2, <3>2, IdleType DEF Basics, ChunksInPlace, IdOf, Only, Keeps
    <3> QED BY <3>1, <3>2
  <2>9. ChunksInPlace'
    BY <2>7, <2>8 DEF ChunksInPlace, IdOf
  <2> QED BY <1>2, <1>3, <2>6, <2>9 DEF Basics
<1> QED BY <1>1, <1>4, <1>5, SaveChunkEffect

LEMMA IsCompleteEffect ==
  ASSUME TypeOK, NEW t \in Tasks, IsComplete(t)
  PROVE  /\ task[t].pc = "check" /\ Only(t)
         /\ task' \in [Tasks -> Task(Len(sessions))]
         /\ UNCHANGED <<sessions, current, dirs, temp, stored, janitor, answered, sent,
                        requests, faults>>
         /\ \/ /\ Cardinality(Received(t)) = sessions[task[t].session].total
               /\ Keeps(t) /\ task'[t].pc = "assemble" /\ task'[t].data = task[t].data
               /\ task'[t].session = task[t].session
            \/ task'[t] = Idle
<1>1. UNCHANGED <<sessions, current, dirs, temp, stored, janitor, answered, sent, requests,
                  faults>>
  BY DEF IsComplete, disk, bounds
<1>2. CASE Cardinality(Received(t)) = sessions[task[t].session].total
  <2>1. Goto(t, "assemble")
    BY <1>2 DEF IsComplete
  <2> QED BY <1>1, <1>2, <2>1, GotoEffect DEF IsComplete, Keeps, Steps
<1>3. CASE Cardinality(Received(t)) # sessions[task[t].session].total
  BY <1>1, <1>3, ReturnEffect DEF IsComplete
<1> QED BY <1>2, <1>3

LEMMA AssembleEffect ==
  ASSUME TypeOK, NEW t \in Tasks, AssembleFile(t)
  PROVE  /\ task[t].pc = "assemble" /\ Keeps(t)
         /\ task' \in [Tasks -> Task(Len(sessions))]
         /\ UNCHANGED <<sessions, current, dirs, temp, stored, janitor, answered, sent,
                        requests, faults>>
         /\ task'[t].session = task[t].session
         /\ \/ /\ Len(task[t].data) = sessions[task[t].session].total
               /\ task'[t].pc = "store" /\ task'[t].data = task[t].data
            \/ /\ task'[t].pc = "assemble"
               /\ \E c \in temp[IdOf(t)] : /\ c.index = Len(task[t].data)
                                           /\ task'[t].data = Append(task[t].data, c)
            \/ task'[t].pc = "drop" /\ task'[t].data = task[t].data
<1>1. UNCHANGED <<sessions, current, dirs, temp, stored, janitor, answered, sent, requests,
                  faults>>
  BY DEF AssembleFile, disk, bounds
<1>2. CASE Len(task[t].data) = sessions[task[t].session].total
  <2>1. Goto(t, "store")
    BY <1>2 DEF AssembleFile
  <2> QED BY <1>1, <1>2, <2>1, GotoEffect DEF AssembleFile, Steps
<1>3. ASSUME NEW c \in temp[IdOf(t)], c.index = Len(task[t].data),
             task' = [task EXCEPT ![t].data = Append(@, c)]
      PROVE  /\ task' \in [Tasks -> Task(Len(sessions))] /\ Keeps(t)
             /\ task'[t].pc = task[t].pc /\ task'[t].session = task[t].session
             /\ task'[t].data = Append(task[t].data, c)
  <2>1. c \in Chunk
    BY TypedTask DEF TypeOK
  <2>2. Append(task[t].data, c) \in Seq(Chunk)
    BY <2>1, TypedTask
  <2>3. [task[t] EXCEPT !.data = Append(task[t].data, c)] \in Task(Len(sessions))
    BY <2>2, TypedTask DEF Task
  <2>4. task' = [task EXCEPT ![t] = [task[t] EXCEPT !.data = Append(task[t].data, c)]]
    BY <1>3
  <2>5. task'[t] = [task[t] EXCEPT !.data = Append(task[t].data, c)]
    BY <2>4, TypedTask
  <2> QED BY <2>3, <2>4, <2>5, TypedTask DEF Keeps, Only, Task
<1>4. CASE Len(task[t].data) # sessions[task[t].session].total /\ Goto(t, "drop")
  BY <1>1, <1>4, GotoEffect DEF AssembleFile, Steps
<1>5. CASE \E c \in {c \in temp[IdOf(t)] : c.index = Len(task[t].data)} :
             task' = [task EXCEPT ![t].data = Append(@, c)]
  BY <1>1, <1>3, <1>5 DEF AssembleFile
<1> QED BY <1>2, <1>4, <1>5 DEF AssembleFile

(* A step that only moves its request and adds to the files that are stored. *)
LEMMA MoveBasics ==
  ASSUME Basics, NEW t \in Tasks, Only(t),
         task' \in [Tasks -> Task(Len(sessions))],
         UNCHANGED <<sessions, dirs, temp, janitor, sent, requests>>,
         current' \in [UploadIds -> 0..Len(sessions)],
         stored' \subseteq Seq(Chunk), answered' \subseteq UploadIds,
         faults' \in 0..MaxFaults, faults' = 0 => faults = 0,
         task'[t].pc = "idle" \/ (Keeps(t) /\ task[t].pc # "idle"),
         InOrder(task'[t].data, UploadId[task'[t].file])
  PROVE  Basics'
<1>1. TypeOK'
  BY DEF Basics, TypeOK, Task
<1>2. RequestsWereSent'
  BY RequestsStay
<1>3. ChunksInPlace'
  BY DEF Basics, ChunksInPlace, IdOf, Only
<1>4. JanitorRests'
  BY DEF Basics, JanitorRests
<1> QED BY <1>1, <1>2, <1>3, <1>4 DEF Basics

LEMMA OwnData ==
  ASSUME Basics, NEW t \in Tasks,
         task'[t] = Idle \/ (Keeps(t) /\ task'[t].data = task[t].data)
  PROVE  InOrder(task'[t].data, UploadId[task'[t].file])
<1>1. CASE task'[t] = Idle
  BY <1>1, IdleType DEF InOrder
<1>2. CASE Keeps(t) /\ task'[t].data = task[t].data
  BY <1>2 DEF Basics, ChunksInPlace, IdOf, Keeps
<1> QED BY <1>1, <1>2

LEMMA IsCompleteBasics ==
  ASSUME Basics, NEW t \in Tasks, IsComplete(t)
  PROVE  Basics'
<1>1. TypeOK /\ faults \in 0..MaxFaults /\ stored \subseteq Seq(Chunk)
      /\ answered \subseteq UploadIds /\ current \in [UploadIds -> 0..Len(sessions)]
  BY DEF Basics, TypeOK
<1>2. task'[t] = Idle \/ (Keeps(t) /\ task'[t].data = task[t].data)
  BY <1>1, IsCompleteEffect
<1>3. InOrder(task'[t].data, UploadId[task'[t].file])
  BY <1>2, OwnData
<1> QED BY <1>1, <1>2, <1>3, IsCompleteEffect, MoveBasics, IdleType

LEMMA AssembleBasics ==
  ASSUME Basics, NEW t \in Tasks, AssembleFile(t)
  PROVE  Basics'
<1>1. TypeOK /\ faults \in 0..MaxFaults /\ stored \subseteq Seq(Chunk)
      /\ answered \subseteq UploadIds /\ current \in [UploadIds -> 0..Len(sessions)]
  BY DEF Basics, TypeOK
<1>2. InOrder(task'[t].data, UploadId[task'[t].file])
  <2>1. CASE task'[t].data = task[t].data
    BY <1>1, <2>1, OwnData, AssembleEffect
  <2>2. ASSUME NEW c \in temp[IdOf(t)], c.index = Len(task[t].data),
               task'[t].data = Append(task[t].data, c)
        PROVE  InOrder(task'[t].data, UploadId[task'[t].file])
    <3>1. /\ UploadId[c.file] = IdOf(t) /\ task[t].data \in Seq(Chunk) /\ c \in Chunk
          /\ InOrder(task[t].data, IdOf(t)) /\ task'[t].file = task[t].file
      BY <1>1, <2>2, TypedTask, AssembleEffect DEF Basics, ChunksInPlace, TypeOK, Keeps
    <3>2. PICK d \in Seq(Chunk) : d = task[t].data
      BY <3>1
    <3>3. PICK e : e = Append(d, c)
      OBVIOUS
    <3>4. /\ Len(d) \in Nat /\ DOMAIN e = 1..(Len(d) + 1)
          /\ \A k \in 1..Len(d) : e[k] = d[k]
          /\ e[Len(d) + 1] = c
      BY <3>1, <3>2, <3>3
    <3>5. ASSUME NEW k \in DOMAIN e PROVE e[k].index = k - 1 /\ UploadId[e[k].file] = IdOf(t)
      <4>1. CASE k = Len(d) + 1
        BY <2>2, <3>1, <3>2, <3>4, <4>1
      <4>2. CASE k # Len(d) + 1
        <5>1. k \in 1..Len(d) /\ k \in DOMAIN d
          BY <3>2, <3>4, <3>5, <4>2
        <5> QED BY <3>1, <3>2, <3>4, <5>1 DEF InOrder
      <4> QED BY <4>1, <4>2
    <3> QED BY <2>2, <3>1, <3>2, <3>3, <3>5 DEF InOrder, IdOf
  <2> QED BY <1>1, <2>1, <2>2, AssembleEffect
<1> QED BY <1>1, <1>2, AssembleEffect, MoveBasics DEF Keeps

LEMMA StoreEffect ==
  ASSUME TypeOK, NEW t \in Tasks, StoreFile(t)
  PROVE  /\ task[t].pc = "store" /\ Keeps(t)
         /\ task' \in [Tasks -> Task(Len(sessions))]
         /\ task'[t].pc = "drop" /\ task'[t].session = task[t].session
         /\ task'[t].data = task[t].data
         /\ UNCHANGED <<sessions, current, dirs, temp, janitor, sent, requests>>
         /\ faults' \in 0..MaxFaults /\ (faults' = 0 => faults = 0)
         /\ \/ /\ stored' = stored \union {task[t].data}
               /\ answered' = answered \union {IdOf(t)}
            \/ UNCHANGED <<stored, answered>>
<1>1. Goto(t, "drop") /\ "drop" \in Steps /\ task[t].pc = "store"
  BY DEF StoreFile, Steps
<1>2. UNCHANGED <<sessions, current, dirs, temp, janitor, sent, requests>>
  BY DEF StoreFile, disk
<1>3. faults' \in 0..MaxFaults /\ (faults' = 0 => faults = 0)
  BY FaultCounts DEF StoreFile, TypeOK
<1>4. \/ stored' = stored \union {task[t].data} /\ answered' = answered \union {IdOf(t)}
      \/ UNCHANGED <<stored, answered>>
  BY DEF StoreFile
<1> QED BY <1>1, <1>2, <1>3, <1>4, GotoEffect

LEMMA StoreBasics ==
  ASSUME Basics, NEW t \in Tasks, StoreFile(t)
  PROVE  Basics'
<1>1. TypeOK /\ stored \subseteq Seq(Chunk) /\ answered \subseteq UploadIds
      /\ current \in [UploadIds -> 0..Len(sessions)]
  BY DEF Basics, TypeOK
<1>2. stored' \subseteq Seq(Chunk) /\ answered' \subseteq UploadIds
  BY <1>1, StoreEffect, TypedTask
<1>3. InOrder(task'[t].data, UploadId[task'[t].file])
  BY <1>1, StoreEffect, OwnData
<1> QED BY <1>1, <1>2, <1>3, StoreEffect, MoveBasics DEF Keeps

LEMMA DropEffect ==
  ASSUME TypeOK, NEW t \in Tasks, DropSession(t)
  PROVE  /\ task[t].pc = "drop" /\ Only(t)
         /\ task' \in [Tasks -> Task(Len(sessions))]
         /\ UNCHANGED <<sessions, dirs, temp, stored, janitor, answered, sent, requests, faults>>
         /\ current' = [current EXCEPT ![IdOf(t)] = 0]
         /\ \/ /\ Keeps(t) /\ task'[t].pc = "remove" /\ task'[t].data = task[t].data
               /\ task'[t].session = task[t].session
            \/ task'[t] = Idle
<1>1. UNCHANGED <<sessions, dirs, temp, stored, janitor, answered, sent, requests, faults>>
  BY DEF DropSession, disk, bounds
<1>2. CASE Goto(t, "remove")
  BY <1>1, <1>2, GotoEffect DEF DropSession, Keeps, Steps
<1>3. CASE Return(t)
  BY <1>1, <1>3, ReturnEffect DEF DropSession
<1> QED BY <1>2, <1>3 DEF DropSession

LEMMA DropBasics ==
  ASSUME Basics, NEW t \in Tasks, DropSession(t)
  PROVE  Basics'
<1>1. TypeOK /\ faults \in 0..MaxFaults /\ stored \subseteq Seq(Chunk)
      /\ answered \subseteq UploadIds /\ current \in [UploadIds -> 0..Len(sessions)]
  BY DEF Basics, TypeOK
<1>2. current' \in [UploadIds -> 0..Len(sessions)]
  <2>1. 0 \in 0..Len(sessions)
    BY <1>1, TypedTask
  <2> QED BY <1>1, <2>1, DropEffect
<1>3. task'[t] = Idle \/ (Keeps(t) /\ task'[t].data = task[t].data)
  BY <1>1, DropEffect
<1>4. InOrder(task'[t].data, UploadId[task'[t].file])
  BY <1>3, OwnData
<1> QED BY <1>1, <1>2, <1>3, <1>4, DropEffect, MoveBasics, IdleType

(* Removing a file, or an empty directory. *)
LEMMA RemoveOneEffect ==
  ASSUME Basics, NEW u \in UploadIds, RemoveOne(u)
  PROVE  /\ temp' \in [UploadIds -> SUBSET Chunk] /\ dirs' \subseteq UploadIds
         /\ \A v \in UploadIds : temp'[v] \subseteq temp[v]
         /\ \A v \in UploadIds \ {u} : temp'[v] = temp[v]
         /\ \A v \in UploadIds : /\ temp'[v] # {} => v \in dirs'
                                 /\ \A c, d \in temp'[v] : c.index = d.index => c = d
                                 /\ \A c \in temp'[v] : UploadId[c.file] = v
<1>1. /\ temp \in [UploadIds -> SUBSET Chunk] /\ dirs \subseteq UploadIds
      /\ \A v \in UploadIds : /\ temp[v] # {} => v \in dirs
                              /\ \A c, d \in temp[v] : c.index = d.index => c = d
                              /\ \A c \in temp[v] : UploadId[c.file] = v
  BY DEF Basics, TypeOK, ChunksInPlace
<1>2. CASE \E c \in temp[u] : temp' = [temp EXCEPT ![u] = @ \ {c}] /\ UNCHANGED dirs
  <2>1. PICK c \in temp[u] : temp' = [temp EXCEPT ![u] = temp[u] \ {c}] /\ UNCHANGED dirs
    BY <1>2
  <2>2. temp' \in [UploadIds -> SUBSET Chunk]
    BY <1>1, <2>1
  <2>3. \A v \in UploadIds : temp'[v] \subseteq temp[v] /\ (v # u => temp'[v] = temp[v])
    BY <1>1, <2>1
  <2>4. ASSUME NEW v \in UploadIds, temp'[v] # {} PROVE v \in dirs'
    BY <1>1, <2>1, <2>3, <2>4
  <2> QED BY <1>1, <2>1, <2>2, <2>3, <2>4
<1>3. CASE temp[u] = {} /\ dirs' = dirs \ {u} /\ UNCHANGED temp
  BY <1>1, <1>3
<1> QED BY <1>2, <1>3 DEF RemoveOne

(* A step that moves its request, or none, and removes a file. *)
LEMMA RemovalBasics ==
  ASSUME Basics, NEW u \in UploadIds, RemoveOne(u),
         (\E t \in Tasks : task[t].pc # "idle" /\ Return(t)) \/ UNCHANGED task,
         current' \in [UploadIds -> 0..Len(sessions)],
         janitor' = janitor \/ janitor' = {},
         UNCHANGED <<sessions, stored, answered, sent, requests, faults>>
  PROVE  Basics'
<1>1. TypeOK
  BY DEF Basics
<1>2. /\ task' \in [Tasks -> Task(Len(sessions))]
      /\ \A x \in Tasks : task'[x] = task[x] \/ task'[x] = Idle
  <2>1. ASSUME NEW t \in Tasks, Return(t)
        PROVE  /\ task' \in [Tasks -> Task(Len(sessions))]
               /\ \A x \in Tasks : task'[x] = task[x] \/ task'[x] = Idle
    BY <1>1, <2>1, ReturnEffect DEF Only
  <2>2. CASE UNCHANGED task
    <3>1. task \in [Tasks -> Task(Len(sessions))]
      BY <1>1 DEF TypeOK, Task
    <3> QED BY <2>2, <3>1
  <2> QED BY <2>1, <2>2
<1>3. janitor' \subseteq UploadIds /\ Cardinality(janitor') <= 1
  <2>1. janitor \subseteq UploadIds /\ Cardinality(janitor) <= 1
    BY <1>1 DEF TypeOK
  <2>2. Cardinality({}) <= 1
    BY FS_EmptySet
  <2> QED BY <2>1, <2>2
<1>4. TypeOK'
  BY <1>1, <1>2, <1>3, RemoveOneEffect DEF TypeOK, Task
<1>5. RequestsWereSent'
  BY <1>2, IdleType DEF Basics, RequestsWereSent
<1>6. ASSUME NEW x \in Tasks PROVE InOrder(task'[x].data, UploadId[task'[x].file])
  <2>1. CASE task'[x] = task[x]
    BY <2>1 DEF Basics, ChunksInPlace, IdOf
  <2>2. CASE task'[x] = Idle
    BY <2>2, IdleType DEF InOrder
  <2> QED BY <1>2, <2>1, <2>2
<1>7. ChunksInPlace'
  BY <1>6, RemoveOneEffect DEF ChunksInPlace, IdOf
<1>8. JanitorRests'
  BY DEF Basics, JanitorRests
<1> QED BY <1>4, <1>5, <1>7, <1>8 DEF Basics

LEMMA RemoveDirectoryBasics ==
  ASSUME Basics, NEW t \in Tasks, RemoveDirectory(t)
  PROVE  Basics'
<1>1. /\ UNCHANGED <<sessions, current, stored, janitor, answered, sent, requests, faults>>
      /\ RemoveOne(IdOf(t)) /\ task[t].pc = "remove"
      /\ Return(t) \/ UNCHANGED task
  BY DEF RemoveDirectory, bounds
<1>2. IdOf(t) \in UploadIds /\ current' \in [UploadIds -> 0..Len(sessions)]
  BY <1>1, TypedTask DEF Basics, TypeOK
<1>3. (\E x \in Tasks : task[x].pc # "idle" /\ Return(x)) \/ UNCHANGED task
  BY <1>1
<1>4. PICK u \in UploadIds : u = IdOf(t)
  BY <1>2
<1>5. RemoveOne(u)
  BY <1>1, <1>4
<1> QED BY <1>1, <1>2, <1>3, <1>5, RemovalBasics

LEMMA ExpireBasics ==
  ASSUME Basics, NEW u \in UploadIds, Expire(u)
  PROVE  Basics' /\ faults' # 0
<1>1. /\ UNCHANGED <<sessions, current, dirs, temp, stored, task, answered, sent, requests>>
      /\ janitor' = {u} /\ Fault
  BY DEF Expire, disk
<1>2. TypeOK /\ faults' \in 0..MaxFaults /\ faults' # 0
  BY <1>1, FaultCounts DEF Basics
<1>3. Cardinality(janitor') <= 1
  <2>1. Cardinality({u}) = 1
    BY FS_Singleton
  <2> QED BY <1>1, <2>1
<1>4. TypeOK'
  BY <1>1, <1>2, <1>3 DEF TypeOK
<1> QED BY <1>1, <1>2, <1>4 DEF Basics, RequestsWereSent, ChunksInPlace, JanitorRests, IdOf

LEMMA RemoveExpiredBasics ==
  ASSUME Basics, NEW u \in UploadIds, RemoveExpired(u)
  PROVE  Basics' /\ faults' # 0
<1>1. /\ UNCHANGED <<sessions, stored, task, answered, sent, requests, faults>>
      /\ RemoveOne(u) /\ janitor' \in {janitor, {}} /\ u \in janitor
      /\ current' \in {current, [current EXCEPT ![u] = 0]}
  BY DEF RemoveExpired, bounds
<1>2. faults # 0
  BY <1>1 DEF Basics, JanitorRests
<1>3. current' \in [UploadIds -> 0..Len(sessions)]
  <2>1. 0 \in 0..Len(sessions) /\ current \in [UploadIds -> 0..Len(sessions)]
    BY DEF Basics, TypeOK
  <2> QED BY <1>1, <2>1
<1> QED BY <1>1, <1>2, <1>3, RemovalBasics

LEMMA RestartBasics ==
  ASSUME Basics, Restart
  PROVE  Basics' /\ faults' # 0
<1>1. /\ UNCHANGED <<sessions, dirs, temp, stored, answered, sent, requests>>
      /\ current' = [v \in UploadIds |-> 0] /\ task' = [x \in Tasks |-> Idle]
      /\ janitor' = {} /\ Fault
  BY DEF Restart, disk
<1>2. TypeOK /\ faults' \in 0..MaxFaults /\ faults' # 0
  BY <1>1, FaultCounts DEF Basics
<1>3. /\ Cardinality(janitor') <= 1 /\ 0 \in 0..Len(sessions)
      /\ task' \in [Tasks -> Task(Len(sessions))]
  BY <1>1, <1>2, FS_EmptySet, TypedTask, IdleType DEF TypeOK
<1>4. TypeOK'
  BY <1>1, <1>2, <1>3 DEF TypeOK, Task
<1>5. ASSUME NEW x \in Tasks PROVE InOrder(task'[x].data, UploadId[task'[x].file])
  BY <1>1, IdleType DEF InOrder
<1> QED BY <1>1, <1>2, <1>4, <1>5, IdleType
        DEF Basics, RequestsWereSent, ChunksInPlace, JanitorRests, IdOf

-----------------------------------------------------------------------------
(* Whose sessions are whose                                                *)

(* Sending raises one count. *)
SentGrows == \A f \in Files : \A i \in Indexes(f) : sent[f][i] <= sent'[f][i]

LEMMA SendGrows ==
  ASSUME Basics,
         UNCHANGED sent \/ \E t \in Tasks, f \in Files : \E i \in Indexes(f) : Send(t, f, i)
  PROVE  SentGrows
<1>1. \A g \in Files : sent[g] \in [Indexes(g) -> 0..requests] /\ requests \in Nat
  BY SendsAssumption DEF Basics, TypeOK
<1>2. ASSUME NEW g \in Files, NEW j \in Indexes(g) PROVE sent[g][j] \in Nat
  BY <1>1
<1>3. CASE UNCHANGED sent
  BY <1>2, <1>3 DEF SentGrows
<1>4. ASSUME NEW f \in Files, NEW i \in Indexes(f), sent' = [sent EXCEPT ![f][i] = @ + 1]
      PROVE  SentGrows
  <2>1. \A g \in Files : sent'[g] = IF g = f THEN [sent[f] EXCEPT ![i] = @ + 1] ELSE sent[g]
    BY <1>4 DEF Basics
  <2>2. ASSUME NEW g \in Files, NEW j \in Indexes(g) PROVE sent[g][j] <= sent'[g][j]
    <3>1. sent'[g][j] = sent[g][j] \/ sent'[g][j] = sent[g][j] + 1
      BY <1>1, <2>1
    <3> QED BY <1>2, <3>1
  <2> QED BY <2>2 DEF SentGrows
<1> QED BY <1>3, <1>4 DEF Send

LEMMA SentStays ==
  ASSUME Basics, Basics', SentGrows, NEW u \in UploadIds, NEW i
  PROVE  SentOf(u, i) \subseteq SentOf(u, i)'
<1>1. ASSUME NEW f \in SentOf(u, i) PROVE f \in SentOf(u, i)'
  <2>1. f \in Files /\ UploadId[f] = u /\ i \in Indexes(f) /\ sent[f][i] > 0
    BY DEF SentOf
  <2>2. /\ sent[f] \in [Indexes(f) -> 0..requests] /\ sent'[f] \in [Indexes(f) -> 0..requests']
        /\ requests \in Nat /\ requests' \in Nat
    BY <2>1, SendsAssumption DEF Basics, TypeOK
  <2>3. sent[f][i] \in Nat /\ sent'[f][i] \in Nat /\ sent[f][i] <= sent'[f][i]
    BY <2>1, <2>2 DEF SentGrows
  <2>4. sent'[f][i] > 0
    BY <2>1, <2>3
  <2> QED BY <2>1, <2>4 DEF SentOf
<1> QED BY <1>1

(* A request that holds a session keeps it, and gets none. *)
HoldsOn(x) ==
  task'[x].pc \in {"idle", "session"} \/
    (Holds(x) /\ task'[x].session = task[x].session /\ task'[x].file = task[x].file)

LEMMA OwnedStays ==
  ASSUME Basics, Basics', SentGrows, NEW id, Owned(id),
         \A x \in Tasks : HoldsOn(x),
         \A u \in UploadIds : current'[u] \in {current[u], 0},
         Len(sessions') = Len(sessions),
         \A s \in 1..Len(sessions) :
           /\ sessions'[s].total = sessions[s].total
           /\ \A i \in sessions'[s].received :
                i \in sessions[s].received \/ SentOf(id[s], i)' # {}
  PROVE  Owned(id)'
<1>1. /\ id \in [1..Len(sessions) -> UploadIds]
      /\ \A u \in UploadIds : current[u] # 0 => id[current[u]] = u
      /\ \A t \in Tasks : Holds(t) => task[t].session # 0 /\ id[task[t].session] = IdOf(t)
      /\ \A s \in 1..Len(sessions) :
           /\ \E f \in Files : UploadId[f] = id[s] /\ sessions[s].total = TotalChunks[f]
           /\ \A i \in sessions[s].received : SentOf(id[s], i) # {}
  BY DEF Owned
<1>2. \A u \in UploadIds : current'[u] # 0 => id[current'[u]] = u
  BY <1>1
<1>3. \A t \in Tasks : Holds(t)' => task'[t].session # 0 /\ id[task'[t].session] = IdOf(t)'
  BY <1>1 DEF Holds, HoldsOn, IdOf
<1>4. ASSUME NEW s \in 1..Len(sessions)
      PROVE  /\ \E f \in Files : UploadId[f] = id[s] /\ sessions'[s].total = TotalChunks[f]
             /\ \A i \in sessions'[s].received : SentOf(id[s], i)' # {}
  <2>1. \E f \in Files : UploadId[f] = id[s] /\ sessions'[s].total = TotalChunks[f]
    BY <1>1
  <2>2. ASSUME NEW i \in sessions'[s].received PROVE SentOf(id[s], i)' # {}
    <3>1. i \in sessions[s].received => SentOf(id[s], i) # {}
      BY <1>1
    <3>2. PICK v \in UploadIds : v = id[s]
      BY <1>1
    <3>3. SentOf(v, i) \subseteq SentOf(v, i)'
      BY SentStays
    <3> QED BY <3>1, <3>2, <3>3
  <2> QED BY <2>1, <2>2
<1> QED BY <1>1, <1>2, <1>3, <1>4 DEF Owned

(* A new session belongs to the upload of the request that creates it. *)
LEMMA OwnedNew ==
  ASSUME Basics, Basics', NEW t \in Tasks, GetOrCreateSession(t), NEW id, Owned(id),
         NEW u, u = IdOf(t), current[u] = 0, NEW n, n = Len(sessions) + 1,
         NEW j, j = [s \in 1..n |-> IF s = n THEN u ELSE id[s]]
  PROVE  Owned(j)'
<1>1. u = IdOf(t) /\ current[IdOf(t)] = 0 /\ n = Len(sessions) + 1
  OBVIOUS
<1>2. TypeOK /\ Len(sessions) \in Nat /\ n \in Nat /\ u \in UploadIds
  BY <1>1, TypedTask DEF Basics
<1>3. /\ Keeps(t) /\ task'[t].pc = "save" /\ task'[t].session = n
      /\ sessions' = Append(sessions, [total |-> TotalChunks[task[t].file], received |-> {}])
      /\ current' = [current EXCEPT ![u] = n]
      /\ UNCHANGED sent
  BY <1>1, <1>2, GetOrCreateEffect
<1>4. /\ Len(sessions') = n
      /\ \A s \in 1..Len(sessions) : sessions'[s] = sessions[s]
      /\ sessions'[n].total = TotalChunks[task[t].file] /\ sessions'[n].received = {}
  <2>1. PICK r : r = [total |-> TotalChunks[task[t].file], received |-> {}]
    OBVIOUS
  <2>2. sessions' = Append(sessions, r) /\ sessions \in Seq(Session)
    BY <1>2, <1>3, <2>1 DEF TypeOK
  <2>3. /\ Len(sessions') = n
        /\ \A s \in 1..Len(sessions) : sessions'[s] = sessions[s]
        /\ sessions'[n] = r
    BY <1>1, <1>2, <2>2
  <2> QED BY <2>1, <2>3
<1>5. /\ id \in [1..Len(sessions) -> UploadIds]
      /\ \A v \in UploadIds : current[v] # 0 => id[current[v]] = v
      /\ \A x \in Tasks : Holds(x) => task[x].session # 0 /\ id[task[x].session] = IdOf(x)
      /\ \A s \in 1..Len(sessions) :
           /\ \E f \in Files : UploadId[f] = id[s] /\ sessions[s].total = TotalChunks[f]
           /\ \A i \in sessions[s].received : SentOf(id[s], i) # {}
  BY DEF Owned
<1>6. /\ j \in [1..n -> UploadIds] /\ j[n] = u
      /\ \A s \in 1..Len(sessions) : j[s] = id[s]
  <2>1. n \in 1..n /\ \A s \in 1..n : s = n \/ s \in 1..Len(sessions)
    BY <1>1, <1>2
  <2>2. \A s \in 1..Len(sessions) : s \in 1..n /\ s # n
    BY <1>1, <1>2
  <2> QED BY <1>1, <1>2, <1>5, <2>1, <2>2
<1>7. \A v \in UploadIds : current'[v] # 0 => j[current'[v]] = v
  <2>1. \A v \in UploadIds : current[v] # 0 => current[v] \in 1..Len(sessions)
    BY <1>2 DEF TypeOK
  <2>2. \A v \in UploadIds : current'[v] = IF v = u THEN n ELSE current[v]
    BY <1>2, <1>3 DEF TypeOK
  <2> QED BY <1>5, <1>6, <2>1, <2>2
<1>8. ASSUME NEW x \in Tasks, Holds(x)'
      PROVE  task'[x].session # 0 /\ j[task'[x].session] = IdOf(x)'
  <2>1. CASE x = t
    BY <1>1, <1>2, <1>3, <1>6, <2>1 DEF Keeps, IdOf
  <2>2. CASE x # t
    <3>1. task'[x] = task[x] /\ Holds(x) /\ task[x].session \in 0..Len(sessions)
      BY <1>2, <1>3, <1>8, <2>2, TypedTask DEF Keeps, Only, Holds
    <3> QED BY <1>2, <1>5, <1>6, <3>1 DEF IdOf
  <2> QED BY <2>1, <2>2
<1>9. ASSUME NEW s \in 1..n
      PROVE  /\ \E f \in Files : UploadId[f] = j[s] /\ sessions'[s].total = TotalChunks[f]
             /\ \A i \in sessions'[s].received : SentOf(j[s], i)' # {}
  <2>1. CASE s = n
    <3>1. task[t].file \in Files /\ UploadId[task[t].file] = u
      BY <1>1, <1>2, TypedTask DEF IdOf
    <3> QED BY <1>4, <1>6, <2>1, <3>1
  <2>2. CASE s # n
    <3>1. s \in 1..Len(sessions)
      BY <1>1, <1>2, <2>2
    <3>2. \A i : SentOf(j[s], i)' = SentOf(j[s], i)
      BY <1>3 DEF SentOf
    <3> QED BY <1>4, <1>5, <1>6, <3>1, <3>2
  <2> QED BY <2>1, <2>2
<1> QED BY <1>4, <1>6, <1>7, <1>8, <1>9 DEF Owned

-----------------------------------------------------------------------------
(* Undisturbed uploads                                                     *)

LEMMA UndisturbedBefore ==
  ASSUME Basics, Basics', SentGrows, faults' = 0 => faults = 0,
         NEW u \in UploadIds, Undisturbed(u)'
  PROVE  Undisturbed(u)
<1>1. SentOnce(u)' /\ faults = 0 /\ \A f \in Files : UploadId[f] = u => EachOf(u, TotalChunks[f])
  BY DEF Undisturbed, EachOf
<1>2. ASSUME NEW f \in Files, NEW g \in Files, NEW i \in Indexes(f),
             f \in SentOf(u, i), g \in SentOf(u, i)
      PROVE  f = g /\ sent[f][i] = 1
  <2>1. f \in SentOf(u, i)' /\ g \in SentOf(u, i)'
    BY <1>2, SentStays
  <2>2. f = g /\ sent'[f][i] = 1
    BY <1>1, <2>1 DEF SentOnce
  <2>3. sent[f][i] > 0 /\ sent[f][i] <= 1
    BY <1>2, <2>2 DEF SentOf, SentGrows
  <2>4. sent[f] \in [Indexes(f) -> 0..requests] /\ requests \in Nat
    BY SendsAssumption DEF Basics, TypeOK
  <2>5. sent[f][i] \in Nat
    BY <2>4
  <2> QED BY <2>2, <2>3, <2>5
<1> QED BY <1>1, <1>2 DEF Undisturbed, SentOnce, EachOf

(* Nobody looks for a session of u any more. *)
AllPast(u) ==
  /\ \A t \in Tasks : IdOf(t) = u => task[t].pc # "session"
  /\ \A f \in Files : UploadId[f] = u => \A i \in Indexes(f) : SentOf(u, i) # {}

(* A request that goes on, past the places it was at. *)
GoesOn(x) ==
  task'[x].pc = "idle" \/
    /\ task[x].pc # "idle" /\ task'[x].file = task[x].file /\ task'[x].index = task[x].index
    /\ task'[x].pc \in {"session", "save"} => task[x].pc \in {"session", "save"}
    /\ task'[x].pc = "session" => task[x].pc = "session"

LEMMA ChunksStayApart ==
  ASSUME NEW u, OneRequestPerChunk(u), \A x \in Tasks : GoesOn(x)
  PROVE  OneRequestPerChunk(u)'
BY DEF OneRequestPerChunk, Busy, GoesOn, IdOf

LEMMA StaysClosed ==
  ASSUME NEW u, ClosedForGood(u), \A x \in Tasks : GoesOn(x), UNCHANGED sent,
         \A x \in Tasks : IdOf(x)' = u /\ task'[x].pc \in Closing =>
           task[x].pc \in Closing \/ AllPast(u)
  PROVE  ClosedForGood(u)'
<1> SUFFICES ASSUME NEW x \in Tasks, IdOf(x)' = u, task'[x].pc \in Closing
             PROVE  AllPast(u)'
  BY DEF ClosedForGood, AllPast
<1>1. AllPast(u)
  <2>1. IdOf(x) = u
    BY DEF GoesOn, IdOf, Closing
  <2> QED BY <2>1 DEF ClosedForGood, AllPast
<1>2. \A t \in Tasks : IdOf(t)' = u => task'[t].pc # "session"
  BY <1>1 DEF AllPast, GoesOn, IdOf
<1> QED BY <1>1, <1>2 DEF AllPast, SentOf

(* A step that leaves sessions and directories alone. *)
LEMMA CalmIfStill ==
  ASSUME NEW id, NEW u, Calm(id, u), \A x \in Tasks : GoesOn(x),
         UNCHANGED <<sessions, current, temp, sent>>,
         \A x \in Tasks : IdOf(x)' = u /\ task'[x].pc \in Closing =>
           task[x].pc \in Closing \/ AllPast(u),
         \A x \in Tasks : task'[x].pc = "remove" => task[x].pc = "remove"
  PROVE  Calm(id, u)'
<1>1. OneRequestPerChunk(u)' /\ ClosedForGood(u)'
  BY ChunksStayApart, StaysClosed DEF Calm
<1>2. NotYetReceived(id, u)'
  BY DEF Calm, NotYetReceived, GoesOn, IdOf
<1>3. RemovedAfterUse(u)'
  BY DEF Calm, RemovedAfterUse, GoesOn, IdOf
<1>4. OnDisk(u)'
  BY DEF Calm, OnDisk
<1> QED BY <1>1, <1>2, <1>3, <1>4 DEF Calm

(* A complete session of an undisturbed upload has received every chunk of *)
(* it, so that no request of the upload still looks for a session.         *)
LEMMA CompleteIsAllPast ==
  ASSUME Basics, NEW id, Owned(id), NEW t \in Tasks, Holds(t), NEW u, u = IdOf(t),
         Undisturbed(u), Calm(id, u),
         Cardinality(Received(t)) = sessions[task[t].session].total
  PROVE  AllPast(u)
<1> DEFINE s == task[t].session
           R == sessions[s].received
<1>1. /\ s \in 1..Len(sessions) /\ id[s] = u /\ u \in UploadIds
      /\ DOMAIN sessions = 1..Len(sessions)
      /\ Cardinality(R) = sessions[s].total
  BY TypedTask DEF Basics, TypeOK, Owned, Received
<1>2. PICK f \in Files : UploadId[f] = u /\ sessions[s].total = TotalChunks[f]
  BY <1>1 DEF Owned
<1>3. PICK n \in Nat \ {0} : n = TotalChunks[f]
  BY FilesAssumption
<1>4. \A g \in Files : UploadId[g] = u => TotalChunks[g] = n /\ Indexes(g) = 0..(n - 1)
  BY <1>2, <1>3 DEF Undisturbed, EachOf, Indexes
<1>5. \A i \in R : SentOf(u, i) # {}
  BY <1>1 DEF Owned
<1>6. R \subseteq 0..(n - 1)
  BY <1>4, <1>5 DEF SentOf
<1>7. R = 0..(n - 1)
  <2>1. 0 \in Int /\ n - 1 \in Int /\ 0 <= n - 1
    OBVIOUS
  <2>2. IsFiniteSet(0..(n - 1)) /\ Cardinality(0..(n - 1)) = (n - 1) - 0 + 1
    BY <2>1, FS_Interval
  <2>3. Cardinality(R) = n
    BY <1>1, <1>2, <1>3
  <2>4. PICK r, S : r = R /\ S = 0..(n - 1)
    OBVIOUS
  <2>5. IsFiniteSet(S) /\ r \in SUBSET S /\ Cardinality(r) = Cardinality(S)
    BY <1>6, <2>2, <2>3, <2>4
  <2>6. r = S
    BY <2>5, FS_Subset
  <2> QED BY <2>4, <2>6
<1> HIDE DEF s, R
<1>8. ASSUME NEW x \in Tasks, IdOf(x) = u, task[x].pc = "session" PROVE FALSE
  <2>1. task[x].file \in Files /\ task[x].index \in Indexes(task[x].file)
    BY <1>8, TypedTask DEF Basics, RequestsWereSent
  <2>2. task[x].index \in R
    BY <1>4, <1>7, <1>8, <2>1 DEF IdOf
  <2> QED BY <1>1, <1>8, <2>2 DEF Calm, NotYetReceived, R
<1>9. ASSUME NEW g \in Files, UploadId[g] = u, NEW i \in Indexes(g) PROVE SentOf(u, i) # {}
  BY <1>4, <1>5, <1>7, <1>9
<1> QED BY <1>8, <1>9 DEF AllPast

LEMMA IsCompleteCalm ==
  ASSUME Basics, NEW t \in Tasks, IsComplete(t), NEW id, Owned(id),
         NEW u, Undisturbed(u), Calm(id, u)
  PROVE  Calm(id, u)'
<1>1. TypeOK
  BY DEF Basics
<1>2. /\ UNCHANGED <<sessions, current, temp, sent>> /\ task[t].pc = "check"
      /\ \A x \in Tasks \ {t} : task'[x] = task[x]
      /\ \/ task'[t].pc = "idle"
         \/ /\ task'[t].file = task[t].file /\ task'[t].index = task[t].index
            /\ task'[t].pc = "assemble"
            /\ Cardinality(Received(t)) = sessions[task[t].session].total
  BY <1>1, IsCompleteEffect, IdleType DEF Only, Keeps
<1>3. \A x \in Tasks : GoesOn(x)
  BY <1>2 DEF GoesOn
<1>4. ASSUME NEW x \in Tasks, IdOf(x)' = u, task'[x].pc \in Closing, task[x].pc \notin Closing
      PROVE  AllPast(u)
  <2>1. x = t /\ task'[t].pc = "assemble"
    BY <1>2, <1>4 DEF Closing
  <2>2. Holds(t) /\ u = IdOf(t) /\ Cardinality(Received(t)) = sessions[task[t].session].total
    BY <1>2, <1>4, <2>1 DEF Holds, IdOf
  <2> QED BY <2>2, CompleteIsAllPast
<1>5. \A x \in Tasks : task'[x].pc = "remove" => task[x].pc = "remove"
  BY <1>2
<1> QED BY <1>2, <1>3, <1>4, <1>5, CalmIfStill

LEMMA AssembleStoreCalm ==
  ASSUME Basics, NEW t \in Tasks, AssembleFile(t) \/ StoreFile(t), NEW id,
         NEW u, Calm(id, u)
  PROVE  Calm(id, u)'
<1>1. TypeOK
  BY DEF Basics
<1>2. /\ UNCHANGED <<sessions, current, temp, sent>> /\ task[t].pc \in {"assemble", "store"}
      /\ \A x \in Tasks \ {t} : task'[x] = task[x]
      /\ task'[t].file = task[t].file /\ task'[t].index = task[t].index
      /\ task'[t].pc \in {"assemble", "store", "drop"}
  BY <1>1, AssembleEffect, StoreEffect DEF Only, Keeps
<1>3. \A x \in Tasks : GoesOn(x)
  BY <1>2 DEF GoesOn
<1>4. \A x \in Tasks : task'[x].pc \in Closing => task[x].pc \in Closing
  BY <1>2 DEF Closing
<1>5. \A x \in Tasks : task'[x].pc = "remove" => task[x].pc = "remove"
  BY <1>2
<1> QED BY <1>2, <1>3, <1>4, <1>5, CalmIfStill

LEMMA DropCalm ==
  ASSUME Basics, NEW t \in Tasks, DropSession(t), NEW id, NEW u \in UploadIds, Calm(id, u)
  PROVE  Calm(id, u)'
<1>1. TypeOK
  BY DEF Basics
<1>2. /\ UNCHANGED <<sessions, temp, sent>> /\ task[t].pc = "drop"
      /\ current' = [current EXCEPT ![IdOf(t)] = 0]
      /\ \A x \in Tasks \ {t} : task'[x] = task[x]
      /\ \/ task'[t].pc = "idle"
         \/ /\ task'[t].file = task[t].file /\ task'[t].index = task[t].index
            /\ task'[t].pc = "remove"
  BY <1>1, DropEffect, IdleType DEF Only, Keeps
<1>3. \A x \in Tasks : GoesOn(x)
  BY <1>2 DEF GoesOn
<1>4. \A x \in Tasks : task'[x].pc \in Closing => task[x].pc \in Closing
  BY <1>2 DEF Closing
<1>5. OneRequestPerChunk(u)' /\ ClosedForGood(u)'
  BY <1>2, <1>3, <1>4, ChunksStayApart, StaysClosed DEF Calm
<1>6. NotYetReceived(id, u)'
  BY <1>2, <1>3 DEF Calm, NotYetReceived, GoesOn, IdOf
<1>7. \A v \in UploadIds : current'[v] = IF v = IdOf(t) THEN 0 ELSE current[v]
  BY <1>1, <1>2 DEF TypeOK
<1>8. RemovedAfterUse(u)'
  BY <1>2, <1>7 DEF Calm, RemovedAfterUse, IdOf
<1>9. OnDisk(u)'
  BY <1>2, <1>7 DEF Calm, OnDisk
<1> QED BY <1>5, <1>6, <1>8, <1>9 DEF Calm

LEMMA RemoveDirectoryCalm ==
  ASSUME Basics, NEW t \in Tasks, RemoveDirectory(t), NEW id, NEW u \in UploadIds, Calm(id, u)
  PROVE  Calm(id, u)'
<1>1. TypeOK /\ IdOf(t) \in UploadIds
  BY TypedTask DEF Basics
<1>2. /\ UNCHANGED <<sessions, current, sent>> /\ task[t].pc = "remove"
      /\ \A x \in Tasks \ {t} : task'[x] = task[x]
      /\ task'[t].pc = "idle" \/ task'[t] = task[t]
      /\ IdOf(t) # u => temp'[u] = temp[u]
  <2>1. PICK v \in UploadIds : v = IdOf(t)
    BY <1>1
  <2>2. v # u => temp'[u] = temp[u]
    BY <2>1, RemoveOneEffect DEF RemoveDirectory
  <2>3. task'[t].pc = "idle" \/ task' = task
    BY <1>1, ReturnEffect DEF RemoveDirectory
  <2>4. \A x \in Tasks \ {t} : task'[x] = task[x]
    BY <1>1, ReturnEffect DEF RemoveDirectory, Only
  <2> QED BY <2>1, <2>2, <2>3, <2>4 DEF RemoveDirectory, bounds
<1>3. \A x \in Tasks : GoesOn(x)
  BY <1>2 DEF GoesOn
<1>4. \A x \in Tasks : task'[x].pc \in Closing => task[x].pc \in Closing
  BY <1>2 DEF Closing
<1>5. OneRequestPerChunk(u)' /\ ClosedForGood(u)'
  BY <1>2, <1>3, <1>4, ChunksStayApart, StaysClosed DEF Calm
<1>6. NotYetReceived(id, u)'
  BY <1>2, <1>3 DEF Calm, NotYetReceived, GoesOn, IdOf
<1>7. RemovedAfterUse(u)'
  BY <1>2 DEF Calm, RemovedAfterUse, IdOf
<1>8. OnDisk(u)'
  BY <1>2 DEF Calm, OnDisk, RemovedAfterUse
<1> QED BY <1>5, <1>6, <1>7, <1>8 DEF Calm

LEMMA FoundCalm ==
  ASSUME Basics, NEW t \in Tasks, GetOrCreateSession(t), current[IdOf(t)] # 0,
         NEW id, NEW u, Calm(id, u)
  PROVE  Calm(id, u)'
<1>1. /\ UNCHANGED <<sessions, current, temp, sent>> /\ task[t].pc = "session"
      /\ \A x \in Tasks \ {t} : task'[x] = task[x]
      /\ task'[t].file = task[t].file /\ task'[t].index = task[t].index
      /\ task'[t].pc = "save"
  BY GetOrCreateEffect DEF Only, Keeps, Basics, GetOrCreateSession
<1>2. \A x \in Tasks : GoesOn(x)
  BY <1>1 DEF GoesOn
<1>3. \A x \in Tasks : task'[x].pc \in Closing => task[x].pc \in Closing
  BY <1>1 DEF Closing
<1>4. \A x \in Tasks : task'[x].pc = "remove" => task[x].pc = "remove"
  BY <1>1
<1> QED BY <1>1, <1>2, <1>3, <1>4, CalmIfStill

LEMMA NewCalm ==
  ASSUME Basics, NEW t \in Tasks, GetOrCreateSession(t), NEW id, Owned(id),
         NEW v, v = IdOf(t), current[v] = 0, NEW n, n = Len(sessions) + 1,
         NEW j, j = [s \in 1..n |-> IF s = n THEN v ELSE id[s]],
         NEW u \in UploadIds, Calm(id, u)
  PROVE  Calm(j, u)'
<1>1. /\ TypeOK /\ Len(sessions) \in Nat /\ n \in Nat /\ v \in UploadIds
      /\ DOMAIN sessions = 1..Len(sessions)
  BY TypedTask DEF Basics, TypeOK
<1>2. /\ UNCHANGED <<temp, sent>> /\ task[t].pc = "session"
      /\ \A x \in Tasks \ {t} : task'[x] = task[x]
      /\ task'[t].file = task[t].file /\ task'[t].index = task[t].index
      /\ task'[t].pc = "save"
      /\ sessions' = Append(sessions, [total |-> TotalChunks[task[t].file], received |-> {}])
      /\ current' = [current EXCEPT ![v] = n]
  <2>1. UNCHANGED <<temp, sent>> /\ task[t].pc = "session"
    BY DEF GetOrCreateSession, disk, bounds
  <2> QED BY <1>1, <2>1, GetOrCreateEffect DEF Only, Keeps, Basics
<1>3. /\ DOMAIN sessions' = 1..n
      /\ \A s \in 1..Len(sessions) : sessions'[s] = sessions[s]
      /\ sessions'[n].received = {}
  <2>1. PICK r : r = [total |-> TotalChunks[task[t].file], received |-> {}]
    OBVIOUS
  <2>2. sessions' = Append(sessions, r) /\ sessions \in Seq(Session)
    BY <1>1, <1>2, <2>1 DEF TypeOK
  <2>3. /\ DOMAIN sessions' = 1..n
        /\ \A s \in 1..Len(sessions) : sessions'[s] = sessions[s]
        /\ sessions'[n] = r
    BY <1>1, <2>2
  <2> QED BY <2>1, <2>3
<1>4. \A s \in 1..n : s = n \/ (s \in 1..Len(sessions) /\ j[s] = id[s])
  BY <1>1
<1>5. \A x \in Tasks : GoesOn(x)
  BY <1>2 DEF GoesOn
<1>6. \A x \in Tasks : task'[x].pc \in Closing => task[x].pc \in Closing
  BY <1>2 DEF Closing
<1>7. OneRequestPerChunk(u)' /\ ClosedForGood(u)'
  BY <1>2, <1>5, <1>6, ChunksStayApart, StaysClosed DEF Calm
<1>8. NotYetReceived(j, u)'
  <2>1. ASSUME NEW x \in Tasks, IdOf(x)' = u, task'[x].pc \in {"session", "save"},
               NEW s \in 1..n, j[s] = u
        PROVE  task'[x].index \notin sessions'[s].received
    <3>1. /\ IdOf(x) = u /\ task[x].pc \in {"session", "save"}
          /\ task'[x].index = task[x].index
      BY <1>5, <2>1 DEF GoesOn, IdOf
    <3> QED BY <1>1, <1>3, <1>4, <2>1, <3>1 DEF Calm, NotYetReceived
  <2> QED BY <1>3, <2>1 DEF NotYetReceived
<1>9. \A w \in UploadIds : current'[w] = IF w = v THEN n ELSE current[w]
  BY <1>1, <1>2 DEF TypeOK
<1>10. RemovedAfterUse(u)'
  <2>1. ASSUME NEW x \in Tasks, IdOf(x)' = u, task'[x].pc = "remove" PROVE current'[u] = 0
    <3>1. IdOf(x) = u /\ task[x].pc = "remove"
      BY <1>2, <2>1 DEF IdOf
    <3>2. u # v
      BY <1>2, <3>1 DEF Calm, ClosedForGood, Closing
    <3> QED BY <1>9, <3>1, <3>2 DEF Calm, RemovedAfterUse
  <2> QED BY <2>1 DEF RemovedAfterUse
<1>11. OnDisk(u)'
  <2>1. CASE u = v
    BY <1>3, <1>9, <2>1 DEF OnDisk
  <2>2. CASE u # v /\ current[u] # 0
    <3>1. current[u] \in 1..Len(sessions) /\ current'[u] = current[u]
      BY <1>1, <1>9, <2>2 DEF TypeOK
    <3> QED BY <1>2, <1>3, <2>2, <3>1 DEF Calm, OnDisk
  <2>3. CASE u # v /\ current[u] = 0
    BY <1>9, <2>3 DEF OnDisk
  <2> QED BY <2>1, <2>2, <2>3
<1> QED BY <1>7, <1>8, <1>10, <1>11 DEF Calm

LEMMA SaveCalm ==
  ASSUME Basics, NEW t \in Tasks, SaveChunk(t), NEW id, Owned(id),
         NEW u \in UploadIds, Calm(id, u)
  PROVE  Calm(id, u)'
<1> DEFINE v == IdOf(t)
           s == task[t].session
           i == task[t].index
<1>1. /\ TypeOK /\ v \in UploadIds /\ i \in Nat /\ s \in 1..Len(sessions) /\ id[s] = v
      /\ DOMAIN sessions = 1..Len(sessions)
  <2>1. Holds(t)
    BY DEF SaveChunk, Holds
  <2>2. TypeOK
    BY DEF Basics
  <2>3. v \in UploadIds /\ i \in Nat /\ DOMAIN sessions = 1..Len(sessions)
    <3>1. IdOf(t) \in UploadIds /\ task[t].index \in Nat
      BY <2>2, TypedTask
    <3>2. DOMAIN sessions = 1..Len(sessions)
      BY <2>2 DEF TypeOK
    <3> QED BY <3>1, <3>2
  <2>4. s # 0 /\ id[s] = v
    BY <2>1 DEF Owned
  <2>5. s \in 1..Len(sessions)
    <3>1. s \in 0..Len(sessions) /\ Len(sessions) \in Nat
      BY <2>2, TypedTask
    <3> QED BY <2>4, <3>1
  <2> QED BY <2>2, <2>3, <2>4, <2>5
<1>2. /\ UNCHANGED <<current, sent>> /\ task[t].pc = "save"
      /\ \A x \in Tasks \ {t} : task'[x] = task[x]
      /\ \/ task'[t].pc = "idle"
         \/ /\ task'[t].file = task[t].file /\ task'[t].index = task[t].index
            /\ task'[t].pc = "check"
  <2>1. UNCHANGED <<current, sent>> /\ task[t].pc = "save"
    BY <1>1, SaveChunkEffect
  <2>2. TypeOK
    BY <1>1
  <2>3. Only(t) /\ ((Keeps(t) /\ task'[t].pc = "check") \/ task'[t] = Idle)
    BY <2>2, SaveChunkEffect
  <2> QED BY <2>1, <2>3, IdleType DEF Only, Keeps
<1>3. \A x \in Tasks : GoesOn(x)
  BY <1>2 DEF GoesOn
<1>4. \A x \in Tasks : task'[x].pc \in Closing => task[x].pc \in Closing
  BY <1>2 DEF Closing
<1>5. \A x \in Tasks : task'[x].pc = "remove" => task[x].pc = "remove"
  BY <1>2
<1>6. CASE UNCHANGED <<sessions, temp>>
  BY <1>2, <1>3, <1>4, <1>5, <1>6, CalmIfStill
<1>7. CASE /\ temp' = [temp EXCEPT ![v] = {c \in @ : c.index # i} \union {ThisChunk(t)}]
           /\ sessions' = [sessions EXCEPT ![s].received = @ \union {i}]
  <2>1. /\ DOMAIN sessions' = 1..Len(sessions)
        /\ \A x \in 1..Len(sessions) :
             sessions'[x].received = IF x = s THEN sessions[s].received \union {i}
                                     ELSE sessions[x].received
    BY <1>1, <1>7, ReceivedMore
  <2>2. ThisChunk(t).index = i
    BY DEF ThisChunk
  <2> HIDE DEF v, s, i
  <2>3. /\ \A w \in UploadIds \ {v} : temp'[w] = temp[w]
        /\ temp'[v] = {c \in temp[v] : c.index # i} \union {ThisChunk(t)}
    BY <1>1, <1>7 DEF TypeOK
  <2>4. {c.index : c \in temp'[v]} = {c.index : c \in temp[v]} \union {i}
    BY <2>2, <2>3
  <2>5. OneRequestPerChunk(u)' /\ ClosedForGood(u)'
    BY <1>2, <1>3, <1>4, ChunksStayApart, StaysClosed DEF Calm
  <2>6. RemovedAfterUse(u)'
    BY <1>2, <1>3, <1>5 DEF Calm, RemovedAfterUse, GoesOn, IdOf
  <2>7. NotYetReceived(id, u)'
    <3>1. ASSUME NEW x \in Tasks, IdOf(x)' = u, task'[x].pc \in {"session", "save"},
                 NEW y \in 1..Len(sessions), id[y] = u
          PROVE  task'[x].index \notin sessions'[y].received
      <4>1. /\ IdOf(x) = u /\ task[x].pc \in {"session", "save"} /\ x # t
            /\ task'[x].index = task[x].index
        BY <1>2, <1>3, <3>1 DEF GoesOn, IdOf
      <4>2. task[x].index \notin sessions[y].received
        BY <1>1, <3>1, <4>1 DEF Calm, NotYetReceived
      <4>3. y = s => task[x].index # i
        BY <1>1, <1>2, <3>1, <4>1 DEF Calm, OneRequestPerChunk, Busy, i, v
      <4> QED BY <2>1, <4>1, <4>2, <4>3
    <3> QED BY <2>1, <3>1 DEF NotYetReceived
  <2>8. OnDisk(u)'
    <3>1. CASE current[u] # 0
      <4>1. current[u] \in 1..Len(sessions) /\ id[current[u]] = u /\ current'[u] = current[u]
        BY <1>1, <1>2, <3>1 DEF TypeOK, Owned
      <4>2. sessions[current[u]].received \subseteq {c.index : c \in temp[u]}
        BY <3>1 DEF Calm, OnDisk
      <4>3. {c.index : c \in temp[u]} \subseteq {c.index : c \in temp'[u]}
        BY <2>3, <2>4
      <4>4. current[u] = s => i \in {c.index : c \in temp'[u]}
        BY <1>1, <2>4, <4>1
      <4>5. sessions'[current[u]].received \subseteq {c.index : c \in temp'[u]}
        BY <2>1, <4>1, <4>2, <4>3, <4>4
      <4> QED BY <4>1, <4>5 DEF OnDisk
    <3>2. CASE current[u] = 0
      BY <1>2, <3>2 DEF OnDisk
    <3> QED BY <3>1, <3>2
  <2> QED BY <2>5, <2>6, <2>7, <2>8 DEF Calm
<1> QED BY <1>1, <1>6, <1>7, SaveChunkEffect

(* A new request brings a chunk that was not sent before: were the upload  *)
(* closing, all of them had been sent.                                     *)
LEMMA SendCalm ==
  ASSUME Basics, Basics', NEW t \in Tasks, NEW f \in Files, NEW i \in Indexes(f), Send(t, f, i),
         NEW id, Owned(id), NEW u \in UploadIds, Undisturbed(u)', Calm(id, u)
  PROVE  Calm(id, u)'
<1>1. /\ UNCHANGED <<sessions, current, temp>> /\ task[t].pc = "idle"
      /\ \A x \in Tasks \ {t} : task'[x] = task[x]
      /\ task'[t].file = f /\ task'[t].index = i /\ task'[t].pc = "session"
      /\ sent' = [sent EXCEPT ![f][i] = @ + 1]
  <2>1. task \in [Tasks -> Task(Len(sessions))]
    BY TypedTask DEF Basics
  <2> QED BY <2>1 DEF Send, Idle, disk
<1>2. SentGrows
  BY SendGrows
<1>3. UploadId[f] = u => SentOf(u, i) = {}
  <2>1. SUFFICES ASSUME UploadId[f] = u, NEW g \in SentOf(u, i) PROVE FALSE
    OBVIOUS
  <2>2. /\ sent[f] \in [Indexes(f) -> 0..requests] /\ requests \in Nat
        /\ sent'[f] = [sent[f] EXCEPT ![i] = @ + 1]
    BY <1>1, SendsAssumption DEF Basics, TypeOK
  <2>3. sent[f][i] \in Nat /\ sent'[f][i] = sent[f][i] + 1
    BY <2>2
  <2>4. f \in SentOf(u, i)' /\ g \in SentOf(u, i)'
    BY <1>2, <2>1, <2>3, SentStays DEF SentOf
  <2>5. SentOnce(u)' /\ g \in Files
    BY <2>1 DEF Undisturbed, SentOf
  <2>6. f = g /\ sent'[f][i] = 1
    BY <2>4, <2>5 DEF SentOnce
  <2>7. sent[f][i] > 0
    BY <2>1, <2>6 DEF SentOf
  <2> QED BY <2>3, <2>6, <2>7
<1>4. UploadId[f] = u =>
        \A x \in Tasks : Busy(x, u) => task[x].index # i
  <2>1. ASSUME UploadId[f] = u, NEW x \in Tasks, Busy(x, u), task[x].index = i PROVE FALSE
    <3>1. task[x].file \in SentOf(u, i)
      BY <2>1, TypedTask DEF Basics, RequestsWereSent, Busy, IdOf, SentOf
    <3> QED BY <1>3, <2>1, <3>1
  <2> QED BY <2>1
<1>5. OneRequestPerChunk(u)'
  <2>1. ASSUME NEW x \in Tasks, NEW y \in Tasks, Busy(x, u)', Busy(y, u)',
               task'[x].index = task'[y].index, x # y
        PROVE  FALSE
    <3>1. x # t => Busy(x, u) /\ task'[x] = task[x]
      BY <1>1, <2>1 DEF Busy, IdOf
    <3>2. y # t => Busy(y, u) /\ task'[y] = task[y]
      BY <1>1, <2>1 DEF Busy, IdOf
    <3>3. x = t \/ y = t => UploadId[f] = u
      BY <1>1, <2>1 DEF Busy, IdOf
    <3> QED BY <1>1, <1>4, <2>1, <3>1, <3>2, <3>3 DEF Calm, OneRequestPerChunk
  <2> QED BY <2>1 DEF OneRequestPerChunk
<1>6. NotYetReceived(id, u)'
  <2>1. ASSUME NEW x \in Tasks, IdOf(x)' = u, task'[x].pc \in {"session", "save"},
               NEW s \in DOMAIN sessions, id[s] = u
        PROVE  task'[x].index \notin sessions[s].received
    <3>1. CASE x # t
      BY <1>1, <2>1, <3>1 DEF Calm, NotYetReceived, IdOf
    <3>2. CASE x = t
      <4>1. SentOf(u, i) = {} /\ s \in 1..Len(sessions)
        BY <1>1, <1>3, <2>1, <3>2 DEF IdOf, Basics, TypeOK
      <4> QED BY <1>1, <2>1, <3>2, <4>1 DEF Owned
    <3> QED BY <3>1, <3>2
  <2> QED BY <1>1, <2>1 DEF NotYetReceived
<1>7. ClosedForGood(u)'
  <2>1. ASSUME NEW x \in Tasks, IdOf(x)' = u, task'[x].pc \in Closing
        PROVE  AllPast(u)'
    <3>1. x # t /\ IdOf(x) = u /\ task[x].pc \in Closing
      BY <1>1, <2>1 DEF IdOf, Closing
    <3>2. AllPast(u)
      BY <3>1 DEF Calm, ClosedForGood, AllPast
    <3>3. UploadId[f] # u
      BY <1>3, <3>2 DEF AllPast
    <3>4. \A y \in Tasks : IdOf(y)' = u => task'[y].pc # "session"
      BY <1>1, <3>2, <3>3 DEF AllPast, IdOf
    <3>5. \A g \in Files : UploadId[g] = u => \A k \in Indexes(g) : SentOf(u, k)' # {}
      <4>1. ASSUME NEW g \in Files, UploadId[g] = u, NEW k \in Indexes(g)
            PROVE  SentOf(u, k)' # {}
        <5>1. SentOf(u, k) \subseteq SentOf(u, k)'
          BY <1>2, SentStays
        <5> QED BY <3>2, <4>1, <5>1 DEF AllPast
      <4> QED BY <4>1
    <3> QED BY <3>4, <3>5 DEF AllPast
  <2> QED BY <2>1 DEF ClosedForGood, AllPast
<1>8. RemovedAfterUse(u)'
  BY <1>1 DEF Calm, RemovedAfterUse, IdOf
<1>9. OnDisk(u)'
  BY <1>1 DEF Calm, OnDisk
<1> QED BY <1>5, <1>6, <1>7, <1>8, <1>9 DEF Calm

-----------------------------------------------------------------------------
(* Sessions change hands nowhere                                           *)

LEMMA FoundOwned ==
  ASSUME Basics, Basics', NEW t \in Tasks, GetOrCreateSession(t), current[IdOf(t)] # 0,
         NEW id, Owned(id)
  PROVE  Owned(id)'
<1>1. IdOf(t) \in UploadIds /\ TypeOK
  BY TypedTask DEF Basics
<1>2. /\ UNCHANGED <<sessions, current, sent>>
      /\ \A x \in Tasks \ {t} : task'[x] = task[x]
      /\ task'[t].file = task[t].file /\ task'[t].session = current[IdOf(t)]
  BY <1>1, GetOrCreateEffect DEF Only, Keeps
<1>3. ASSUME NEW x \in Tasks, Holds(x)'
      PROVE  task'[x].session # 0 /\ id[task'[x].session] = IdOf(x)'
  <2>1. CASE x = t
    BY <1>1, <1>2, <2>1 DEF Owned, IdOf
  <2>2. CASE x # t
    BY <1>2, <1>3, <2>2 DEF Owned, Holds, IdOf
  <2> QED BY <2>1, <2>2
<1>4. \A s, i : SentOf(id[s], i)' = SentOf(id[s], i)
  BY <1>2 DEF SentOf
<1>5. ASSUME NEW s \in 1..Len(sessions)
      PROVE  /\ \E f \in Files : UploadId[f] = id[s] /\ sessions'[s].total = TotalChunks[f]
             /\ \A i \in sessions'[s].received : SentOf(id[s], i)' # {}
  <2>1. /\ \E f \in Files : UploadId[f] = id[s] /\ sessions[s].total = TotalChunks[f]
        /\ \A i \in sessions[s].received : SentOf(id[s], i) # {}
    BY DEF Owned
  <2>2. \A i \in sessions'[s].received : SentOf(id[s], i)' # {}
    BY <1>2, <1>4, <2>1
  <2> QED BY <1>2, <2>1, <2>2
<1>6. /\ id \in [1..Len(sessions) -> UploadIds]
      /\ \A u \in UploadIds : current[u] # 0 => id[current[u]] = u
  BY DEF Owned
<1> QED BY <1>2, <1>3, <1>5, <1>6 DEF Owned

LEMMA SendOwned ==
  ASSUME Basics, Basics', NEW t \in Tasks, NEW f \in Files, NEW i \in Indexes(f), Send(t, f, i),
         NEW id, Owned(id)
  PROVE  Owned(id)'
<1>1. /\ UNCHANGED <<sessions, current>> /\ task'[t].pc = "session"
      /\ \A x \in Tasks \ {t} : task'[x] = task[x]
  <2>1. task \in [Tasks -> Task(Len(sessions))]
    BY TypedTask DEF Basics
  <2> QED BY <2>1 DEF Send, Idle
<1>2. \A x \in Tasks : HoldsOn(x)
  BY <1>1 DEF HoldsOn, Holds
<1>3. SentGrows
  BY SendGrows
<1> QED BY <1>1, <1>2, <1>3, OwnedStays

LEMMA SaveOwned ==
  ASSUME Basics, Basics', NEW t \in Tasks, SaveChunk(t), NEW id, Owned(id)
  PROVE  Owned(id)'
<1>1. PICK s, i, v : s = task[t].session /\ i = task[t].index /\ v = IdOf(t)
  OBVIOUS
<1>2. TypeOK /\ i \in Nat /\ s \in 1..Len(sessions) /\ id[s] = v /\ v \in UploadIds
  <2>1. Holds(t)
    BY DEF SaveChunk, Holds
  <2> QED BY <1>1, <2>1, TypedTask DEF Basics, Owned
<1>3. /\ UNCHANGED <<current, sent>> /\ task[t].pc = "save"
      /\ \A x \in Tasks \ {t} : task'[x] = task[x]
      /\ \/ task'[t].pc = "idle"
         \/ task'[t].file = task[t].file /\ task'[t].session = task[t].session
  BY <1>2, SaveChunkEffect, IdleType DEF Only, Keeps
<1>4. \A x \in Tasks : HoldsOn(x)
  BY <1>3 DEF HoldsOn, Holds
<1>5. SentGrows
  BY <1>3, SendGrows
<1>6. SentOf(v, i)' # {}
  <2>1. task[t].file \in SentOf(v, i)
    BY <1>1, <1>3, TypedTask DEF Basics, RequestsWereSent, IdOf, SentOf
  <2>2. SentOf(v, i) \subseteq SentOf(v, i)'
    BY <1>2, <1>5, SentStays
  <2> QED BY <2>1, <2>2
<1>7. \/ UNCHANGED sessions
      \/ sessions' = [sessions EXCEPT ![s].received = @ \union {i}]
  BY <1>1, <1>2, SaveChunkEffect
<1>8. /\ Len(sessions') = Len(sessions)
      /\ \A x \in 1..Len(sessions) :
           /\ sessions'[x].total = sessions[x].total
           /\ \A k \in sessions'[x].received : k \in sessions[x].received \/ (x = s /\ k = i)
  <2>1. CASE UNCHANGED sessions
    BY <2>1
  <2>2. CASE sessions' = [sessions EXCEPT ![s].received = @ \union {i}]
    <3>1. /\ Len(sessions') = Len(sessions)
          /\ \A x \in 1..Len(sessions) :
               /\ sessions'[x].total = sessions[x].total
               /\ sessions'[x].received =
                    IF x = s THEN sessions[s].received \union {i} ELSE sessions[x].received
      BY <1>2, <2>2, ReceivedMore
    <3> QED BY <3>1
  <2> QED BY <1>7, <2>1, <2>2
<1>9. ASSUME NEW x \in 1..Len(sessions), NEW k \in sessions'[x].received
      PROVE  k \in sessions[x].received \/ SentOf(id[x], k)' # {}
  <2>1. CASE x = s /\ k = i
    BY <1>2, <1>6, <2>1
  <2>2. CASE ~(x = s /\ k = i)
    BY <1>8, <1>9, <2>2
  <2> QED BY <2>1, <2>2
<1> QED BY <1>3, <1>4, <1>5, <1>8, <1>9, OwnedStays

(* A step that creates no session and adds nothing to one. *)
LEMMA RestOwned ==
  ASSUME Basics, Basics', UNCHANGED <<sessions, sent>>, \A x \in Tasks : HoldsOn(x),
         \A u \in UploadIds : current'[u] \in {current[u], 0}, NEW id, Owned(id)
  PROVE  Owned(id)'
<1>1. SentGrows
  BY SendGrows
<1> QED BY <1>1, OwnedStays

LEMMA WorkOwned ==
  ASSUME Basics, Basics', NEW t \in Tasks, NEW id, Owned(id),
         IsComplete(t) \/ AssembleFile(t) \/ StoreFile(t) \/ DropSession(t) \/ RemoveDirectory(t)
  PROVE  Owned(id)'
<1>1. TypeOK
  BY DEF Basics
<1>2. /\ UNCHANGED <<sessions, sent>>
      /\ \A x \in Tasks \ {t} : task'[x] = task[x]
      /\ task'[t].pc # "idle" =>
           /\ Holds(t)
           /\ task'[t].file = task[t].file /\ task'[t].session = task[t].session
  <2>1. CASE IsComplete(t)
    BY <1>1, <2>1, IsCompleteEffect, IdleType DEF Only, Keeps, Holds
  <2>2. CASE AssembleFile(t)
    BY <1>1, <2>2, AssembleEffect DEF Only, Keeps, Holds
  <2>3. CASE StoreFile(t)
    BY <1>1, <2>3, StoreEffect DEF Only, Keeps, Holds
  <2>4. CASE DropSession(t)
    BY <1>1, <2>4, DropEffect, IdleType DEF Only, Keeps, Holds
  <2>5. CASE RemoveDirectory(t)
    BY <1>1, <2>5, ReturnEffect DEF RemoveDirectory, Only, Holds, bounds
  <2> QED BY <2>1, <2>2, <2>3, <2>4, <2>5
<1>3. \A x \in Tasks : HoldsOn(x)
  BY <1>2 DEF HoldsOn, Holds
<1>4. \A u \in UploadIds : current'[u] \in {current[u], 0}
  <2>1. current' = current \/ current' = [current EXCEPT ![IdOf(t)] = 0]
    BY <1>1, IsCompleteEffect, AssembleEffect, StoreEffect, DropEffect DEF RemoveDirectory
  <2> QED BY <1>1, <2>1 DEF TypeOK
<1> QED BY <1>2, <1>3, <1>4, RestOwned

LEMMA JanitorOwned ==
  ASSUME Basics, Basics', NEW id, Owned(id),
         (\E u \in UploadIds : Expire(u) \/ RemoveExpired(u)) \/ Restart
  PROVE  Owned(id)'
<1>1. UNCHANGED <<sessions, sent>>
  BY DEF Expire, RemoveExpired, Restart, bounds
<1>2. \A x \in Tasks : HoldsOn(x)
  <2>1. UNCHANGED task \/ task' = [x \in Tasks |-> Idle]
    BY DEF Expire, RemoveExpired, Restart
  <2> QED BY <2>1, IdleType DEF HoldsOn, Holds
<1>3. \A u \in UploadIds : current'[u] \in {current[u], 0}
  BY DEF Expire, RemoveExpired, Restart, Basics, TypeOK
<1> QED BY <1>1, <1>2, <1>3, RestOwned

-----------------------------------------------------------------------------
(* What is stored, and answered                                            *)

(* The totals of sessions stay, and a request that is about to store is    *)
(* one that was, or has read all its chunks.                               *)
ReadsOn ==
  /\ \A s \in 1..Len(sessions) : sessions'[s].total = sessions[s].total
  /\ \A x \in Tasks : task'[x].pc = "store" =>
       \/ task'[x] = task[x]
       \/ Len(task'[x].data) = sessions'[task'[x].session].total

LEMMA StepReadsOn ==
  ASSUME Basics, [Next]_vars, NEW id, Owned(id)
  PROVE  ReadsOn
<1>1. TypeOK
  BY DEF Basics
<1>2. ASSUME UNCHANGED sessions, \A x \in Tasks : task'[x].pc = "store" => task'[x] = task[x]
      PROVE  ReadsOn
  BY <1>2 DEF ReadsOn
<1>3. ASSUME NEW t \in Tasks, GetOrCreateSession(t) PROVE ReadsOn
  <2>1. \A x \in Tasks : task'[x].pc = "store" => task'[x] = task[x]
    BY <1>1, <1>3, GetOrCreateEffect DEF Keeps, Only
  <2>2. \A s \in 1..Len(sessions) : sessions'[s].total = sessions[s].total
    <3>1. CASE UNCHANGED sessions
      BY <3>1
    <3>2. CASE sessions' = Append(sessions, [total |-> TotalChunks[task[t].file], received |-> {}])
      <4>1. PICK r : sessions' = Append(sessions, r)
        BY <3>2
      <4>2. \A s \in 1..Len(sessions) : sessions'[s] = sessions[s]
        BY <1>1, <4>1 DEF TypeOK
      <4> QED BY <4>2
    <3> QED BY <1>1, <1>3, <3>1, <3>2, GetOrCreateEffect
  <2> QED BY <2>1, <2>2 DEF ReadsOn
<1>4. ASSUME NEW t \in Tasks, SaveChunk(t) PROVE ReadsOn
  <2>1. \A x \in Tasks : task'[x].pc = "store" => task'[x] = task[x]
    BY <1>1, <1>4, SaveChunkEffect, IdleType DEF Only
  <2>2. Holds(t) /\ task[t].session \in 1..Len(sessions) /\ task[t].index \in Nat
    BY <1>1, <1>4, TypedTask DEF SaveChunk, Holds, Owned
  <2>3. \A s \in 1..Len(sessions) : sessions'[s].total = sessions[s].total
    <3>1. CASE UNCHANGED sessions
      BY <3>1
    <3>2. CASE sessions' = [sessions EXCEPT ![task[t].session].received = @ \union {task[t].index}]
      BY <1>1, <2>2, <3>2, ReceivedMore
    <3> QED BY <1>1, <1>4, <3>1, <3>2, SaveChunkEffect
  <2> QED BY <2>1, <2>3 DEF ReadsOn
<1>5. ASSUME NEW t \in Tasks, IsComplete(t) PROVE ReadsOn
  BY <1>1, <1>2, <1>5, IsCompleteEffect, IdleType DEF Only
<1>6. ASSUME NEW t \in Tasks, AssembleFile(t) PROVE ReadsOn
  <2>1. UNCHANGED sessions /\ \A x \in Tasks \ {t} : task'[x] = task[x]
    BY <1>1, <1>6, AssembleEffect DEF Keeps, Only
  <2>2. task'[t].pc = "store" => Len(task'[t].data) = sessions'[task'[t].session].total
    BY <1>1, <1>6, AssembleEffect
  <2> QED BY <2>1, <2>2 DEF ReadsOn
<1>7. ASSUME NEW t \in Tasks, StoreFile(t) PROVE ReadsOn
  BY <1>1, <1>2, <1>7, StoreEffect DEF Keeps, Only
<1>8. ASSUME NEW t \in Tasks, DropSession(t) PROVE ReadsOn
  BY <1>1, <1>2, <1>8, DropEffect, IdleType DEF Only
<1>9. ASSUME NEW t \in Tasks, RemoveDirectory(t) PROVE ReadsOn
  BY <1>1, <1>2, <1>9, ReturnEffect DEF RemoveDirectory, Only
<1>10. ASSUME NEW t \in Tasks, NEW f \in Files, NEW i \in Indexes(f), Send(t, f, i)
       PROVE  ReadsOn
  <2>1. task \in [Tasks -> Task(Len(sessions))]
    BY <1>1, TypedTask
  <2> QED BY <1>2, <1>10, <2>1 DEF Send, Idle
<1>11. CASE (\E u \in UploadIds : Expire(u) \/ RemoveExpired(u)) \/ Restart
  <2>1. UNCHANGED sessions /\ (UNCHANGED task \/ task' = [x \in Tasks |-> Idle])
    BY <1>11 DEF Expire, RemoveExpired, Restart
  <2> QED BY <1>2, <2>1, IdleType
<1>12. CASE UNCHANGED vars
  BY <1>2, <1>12 DEF vars
<1> QED BY <1>3, <1>4, <1>5, <1>6, <1>7, <1>8, <1>9, <1>10, <1>11, <1>12 DEF Next, Serve

LEMMA StepStores ==
  ASSUME Basics, [Next]_vars
  PROVE  \/ UNCHANGED <<stored, answered>>
         \/ \E t \in Tasks : StoreFile(t)
BY DEF Next, Serve, GetOrCreateSession, SaveChunk, IsComplete, AssembleFile, DropSession,
       RemoveDirectory, Send, Expire, RemoveExpired, Restart, vars

LEMMA CompleteGrows ==
  ASSUME stored \subseteq stored', NEW u
  PROVE  Complete(u) \subseteq Complete(u)'
BY DEF Complete

LEMMA StoredStep ==
  ASSUME Basics, [Next]_vars, NEW id, Owned(id), StoredInv
  PROVE  StoredInv'
<1>1. ReadsOn
  BY StepReadsOn
<1>2. ReadToTheEnd'
  <2>1. ASSUME NEW x \in Tasks, task'[x].pc = "store"
        PROVE  Len(task'[x].data) = sessions'[task'[x].session].total
    <3>1. CASE task'[x] = task[x]
      <4>1. Holds(x) /\ Len(task[x].data) = sessions[task[x].session].total
        BY <2>1, <3>1 DEF Holds, StoredInv, ReadToTheEnd
      <4>2. task[x].session \in 1..Len(sessions)
        BY <4>1, TypedTask DEF Owned, Basics
      <4> QED BY <1>1, <3>1, <4>1, <4>2 DEF ReadsOn
    <3>2. CASE task'[x] # task[x]
      BY <1>1, <2>1, <3>2 DEF ReadsOn
    <3> QED BY <3>1, <3>2
  <2> QED BY <2>1 DEF ReadToTheEnd
<1>3. CASE UNCHANGED <<stored, answered>>
  <2>1. \A u \in UploadIds : Complete(u)' = Complete(u)
    BY <1>3 DEF Complete
  <2>2. StoredIsWhole'
    BY <1>3, <2>1 DEF StoredInv, StoredIsWhole
  <2>3. FinishedIsStored'
    BY <1>3, <2>1 DEF StoredInv, FinishedIsStored, Basics, TypeOK
  <2> QED BY <1>2, <2>2, <2>3 DEF StoredInv
<1>4. ASSUME NEW t \in Tasks, StoreFile(t), ~UNCHANGED <<stored, answered>> PROVE StoredInv'
  <2>1. PICK u, d : u = IdOf(t) /\ d = task[t].data
    OBVIOUS
  <2>2. /\ stored' = stored \union {d} /\ answered' = answered \union {u} /\ task[t].pc = "store"
        /\ u \in UploadIds
    BY <1>4, <2>1, StoreEffect, TypedTask DEF Basics
  <2>3. d \in Complete(u)'
    <3>1. Holds(t) /\ task[t].session \in 1..Len(sessions) /\ id[task[t].session] = u
      BY <2>1, <2>2, TypedTask DEF Basics, Holds, Owned
    <3>2. \E f \in Files : UploadId[f] = u /\ Len(d) = TotalChunks[f]
      BY <2>1, <2>2, <3>1 DEF Owned, StoredInv, ReadToTheEnd
    <3>3. InOrder(d, u)
      BY <2>1 DEF Basics, ChunksInPlace
    <3> QED BY <2>2, <3>2, <3>3 DEF Complete, InOrder
  <2>4. \A v \in UploadIds : Complete(v) \subseteq Complete(v)'
    BY <2>2, CompleteGrows
  <2>5. StoredIsWhole'
    BY <2>2, <2>3, <2>4 DEF StoredInv, StoredIsWhole
  <2>6. FinishedIsStored'
    BY <2>2, <2>3, <2>4 DEF StoredInv, FinishedIsStored, Basics, TypeOK
  <2> QED BY <1>2, <2>5, <2>6 DEF StoredInv
<1> QED BY <1>3, <1>4, StepStores

-----------------------------------------------------------------------------
(* The invariant                                                           *)

UploadsCalm(id) == Owned(id) /\ \A u \in UploadIds : Undisturbed(u) => Calm(id, u)

LEMMA InitInv == Init => IInv
<1> SUFFICES ASSUME Init PROVE IInv
  OBVIOUS
<1>1. Basics
  BY InitBasics
<1>2. /\ sessions = <<>> /\ current = [u \in UploadIds |-> 0] /\ stored = {} /\ answered = {}
      /\ \A t \in Tasks : task[t] = Idle
  BY DEF Init
<1>3. StoredInv
  BY <1>2, IdleType DEF StoredInv, ReadToTheEnd, StoredIsWhole, FinishedIsStored
<1>4. PICK id : id = [s \in 1..0 |-> CHOOSE u \in UploadIds : TRUE]
  OBVIOUS
<1>5. Len(sessions) = 0 /\ 1..Len(sessions) = {} /\ DOMAIN sessions = {}
  BY <1>2
<1>6. id \in [1..Len(sessions) -> UploadIds]
  BY <1>4, <1>5
<1>7. Owned(id)
  BY <1>2, <1>5, <1>6, IdleType DEF Owned, Holds
<1>8. ASSUME NEW u \in UploadIds PROVE Calm(id, u)
  BY <1>2, IdleType DEF Calm, OneRequestPerChunk, Busy, NotYetReceived, ClosedForGood, Closing,
                        RemovedAfterUse, OnDisk
<1> QED BY <1>1, <1>3, <1>7, <1>8 DEF IInv

LEMMA BasicsStep ==
  ASSUME Basics, NEW id, Owned(id), [Next]_vars
  PROVE  Basics'
<1>1. ASSUME NEW t \in Tasks, SaveChunk(t) PROVE task[t].session # 0
  BY <1>1 DEF Owned, Holds, SaveChunk
<1>2. CASE UNCHANGED vars
  BY <1>2 DEF vars, Basics, TypeOK, RequestsWereSent, ChunksInPlace, JanitorRests, IdOf
<1> QED BY <1>1, <1>2, SendBasics, GetOrCreateBasics, SaveChunkBasics, IsCompleteBasics,
           AssembleBasics, StoreBasics, DropBasics, RemoveDirectoryBasics, ExpireBasics,
           RemoveExpiredBasics, RestartBasics DEF Next, Serve

(* No step undoes a failure, or takes back what was sent. *)
LEMMA HistoryGrows ==
  ASSUME Basics, [Next]_vars
  PROVE  SentGrows /\ (faults' = 0 => faults = 0)
<1>1. CASE \E t \in Tasks, f \in Files : \E i \in Indexes(f) : Send(t, f, i)
  BY <1>1, SendGrows DEF Send
<1>2. CASE \E t \in Tasks : Serve(t)
  <2>1. UNCHANGED sent
    BY <1>2 DEF Serve, GetOrCreateSession, SaveChunk, IsComplete, AssembleFile, StoreFile,
                DropSession, RemoveDirectory, bounds
  <2>2. faults' = 0 => faults = 0
    BY <1>2, FaultCounts DEF Serve, GetOrCreateSession, SaveChunk, IsComplete, AssembleFile,
                StoreFile, DropSession, RemoveDirectory, bounds, Basics
  <2> QED BY <2>1, <2>2, SendGrows
<1>3. CASE (\E u \in UploadIds : Expire(u) \/ RemoveExpired(u)) \/ Restart
  BY <1>3, SendGrows, ExpireBasics, RemoveExpiredBasics, RestartBasics
     DEF Expire, RemoveExpired, Restart, bounds
<1>4. CASE UNCHANGED vars
  BY <1>4, SendGrows DEF vars
<1> QED BY <1>1, <1>2, <1>3, <1>4 DEF Next

(* A step to a state with failures leaves no upload undisturbed. *)
LEMMA CalmStep ==
  ASSUME Basics, Basics', [Next]_vars, NEW id, UploadsCalm(id)
  PROVE  \E j : UploadsCalm(j)'
<1>1. Owned(id) /\ \A u \in UploadIds : Undisturbed(u) => Calm(id, u)
  BY DEF UploadsCalm
<1>2. \A u \in UploadIds : Undisturbed(u)' => Undisturbed(u) /\ Calm(id, u)
  BY <1>1, UndisturbedBefore, HistoryGrows
<1>3. ASSUME NEW t \in Tasks, GetOrCreateSession(t), current[IdOf(t)] # 0
      PROVE  UploadsCalm(id)'
  BY <1>1, <1>2, <1>3, FoundOwned, FoundCalm DEF UploadsCalm
<1>4. ASSUME NEW t \in Tasks, GetOrCreateSession(t), current[IdOf(t)] = 0
      PROVE  \E j : UploadsCalm(j)'
  <2>1. PICK v, n, j : /\ v = IdOf(t) /\ n = Len(sessions) + 1
                       /\ j = [s \in 1..n |-> IF s = n THEN v ELSE id[s]]
    OBVIOUS
  <2>2. Owned(j)'
    BY <1>1, <1>4, <2>1, OwnedNew
  <2>3. \A u \in UploadIds : Undisturbed(u)' => Calm(j, u)'
    BY <1>1, <1>2, <1>4, <2>1, NewCalm
  <2> QED BY <2>2, <2>3 DEF UploadsCalm
<1>5. ASSUME NEW t \in Tasks, SaveChunk(t) PROVE UploadsCalm(id)'
  BY <1>1, <1>2, <1>5, SaveOwned, SaveCalm DEF UploadsCalm
<1>6. ASSUME NEW t \in Tasks, IsComplete(t) PROVE UploadsCalm(id)'
  BY <1>1, <1>2, <1>6, WorkOwned, IsCompleteCalm DEF UploadsCalm
<1>7. ASSUME NEW t \in Tasks, AssembleFile(t) \/ StoreFile(t) PROVE UploadsCalm(id)'
  BY <1>1, <1>2, <1>7, WorkOwned, AssembleStoreCalm DEF UploadsCalm
<1>8. ASSUME NEW t \in Tasks, DropSession(t) PROVE UploadsCalm(id)'
  BY <1>1, <1>2, <1>8, WorkOwned, DropCalm DEF UploadsCalm
<1>9. ASSUME NEW t \in Tasks, RemoveDirectory(t) PROVE UploadsCalm(id)'
  BY <1>1, <1>2, <1>9, WorkOwned, RemoveDirectoryCalm DEF UploadsCalm
<1>10. ASSUME NEW t \in Tasks, NEW f \in Files, NEW i \in Indexes(f), Send(t, f, i)
       PROVE  UploadsCalm(id)'
  BY <1>1, <1>2, <1>10, SendOwned, SendCalm DEF UploadsCalm
<1>11. CASE (\E u \in UploadIds : Expire(u) \/ RemoveExpired(u)) \/ Restart
  <2>1. faults' # 0
    BY <1>11, ExpireBasics, RemoveExpiredBasics, RestartBasics
  <2>2. Owned(id)'
    BY <1>1, <1>11, JanitorOwned
  <2> QED BY <2>1, <2>2 DEF UploadsCalm, Undisturbed
<1>12. CASE UNCHANGED vars
  <2>1. \A x \in Tasks : HoldsOn(x)
    BY <1>12 DEF vars, HoldsOn, Holds
  <2>2. Owned(id)'
    BY <1>1, <1>12, <2>1, RestOwned DEF vars
  <2>3. ASSUME NEW u \in UploadIds, Calm(id, u) PROVE Calm(id, u)'
    BY <1>12, <2>3 DEF vars, Calm, OneRequestPerChunk, Busy, NotYetReceived, ClosedForGood,
                       RemovedAfterUse, OnDisk, IdOf, SentOf
  <2> QED BY <1>2, <2>2, <2>3 DEF UploadsCalm
<1> QED BY <1>3, <1>4, <1>5, <1>6, <1>7, <1>8, <1>9, <1>10, <1>11, <1>12 DEF Next, Serve

LEMMA NextInv == IInv /\ [Next]_vars => IInv'
<1> SUFFICES ASSUME IInv, [Next]_vars PROVE IInv'
  OBVIOUS
<1>1. PICK id : UploadsCalm(id)
  BY DEF IInv, UploadsCalm
<1>2. Basics /\ Owned(id) /\ StoredInv
  BY <1>1 DEF IInv, UploadsCalm
<1>3. Basics' /\ StoredInv'
  BY <1>2, BasicsStep, StoredStep
<1>4. \E j : UploadsCalm(j)'
  BY <1>1, <1>2, <1>3, CalmStep
<1> QED BY <1>3, <1>4 DEF IInv, UploadsCalm

LEMMA InvOfSpec == Spec => []IInv
BY InitInv, NextInv, PTL DEF Spec

(* What is stored is never a torso: whatever is saved, cleaned up or       *)
(* removed between two reads of an assembly, by the goroutines of any      *)
(* upload, the janitor or a restart, only whole uploads reach the upload   *)
(* directory.                                                              *)
THEOREM OnlyWholeFiles == Spec => []StoredIsWhole
<1>1. IInv => StoredIsWhole
  BY DEF IInv, StoredInv
<1> QED BY <1>1, InvOfSpec, PTL

(* Sessions, their directories and the answers given of them agree: what   *)
(* is reported as finished is stored, and what a session of an undisturbed *)
(* upload counts as received is on disk.                                   *)
THEOREM SessionsAgree == Spec => []SessionInv
<1>1. IInv => SessionInv
  BY DEF IInv, Basics, StoredInv, Calm, OnDisk, SessionInv, ReceivedIsOnDisk
<1> QED BY <1>1, InvOfSpec, PTL
==============================================================================
