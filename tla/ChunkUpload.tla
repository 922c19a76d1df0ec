---------------------------- MODULE ChunkUpload ----------------------------
(***************************************************************************)
(* storage-service: files uploaded in chunks.                              *)
(*                                                                         *)
(* A session per upload id lives in memory (ChunkManager.sessions, under   *)
(* cm.mu); its chunks are files chunk_0, chunk_1, ... in a temporary       *)
(* directory named after the upload id.  The request that finds the        *)
(* session complete assembles the chunks, stores the result under the hash *)
(* of its content and cleans up.  Requests hold the session's own lock     *)
(* only while they save a chunk or assemble; the directory is removed      *)
(* outside of both locks.  A janitor removes sessions after 24 hours, and  *)
(* a restart forgets all of them but leaves their directories.             *)
(***************************************************************************)
EXTENDS Integers, Sequences, FiniteSets

CONSTANTS Files,
          UploadIds,
          UploadId,    \* UploadId[f]: the id under which f is sent
          TotalChunks, \* TotalChunks[f]
          Tasks,       \* requests served concurrently
          MaxRequests, \* bound: chunks sent, repetitions included
          MaxFaults    \* bound: expiries, failed writes and restarts

ASSUME FilesAssumption ==
  /\ Files # {}
  /\ UploadId \in [Files -> UploadIds]
  /\ TotalChunks \in [Files -> Nat \ {0}]
ASSUME SendsAssumption == {MaxRequests, MaxFaults} \subseteq Nat

VARIABLES sessions,  \* every ChunkSession ever created
          current,   \* ChunkManager.sessions: upload id to session, or 0
          dirs,      \* temporary directories that exist
          temp,      \* temp[u]: the chunk files in the directory of u
          stored,    \* the files in the upload directory
          task,
          janitor,   \* upload ids whose directory the janitor is removing
          sent,      \* sent[f][i]: how often chunk i of f was sent
          answered,  \* history: upload ids reported as finished
          requests, faults

vars == <<sessions, current, dirs, temp, stored, task, janitor, sent, answered,
          requests, faults>>

Chunk    == [file: Files, index: Nat]
Indexes(f) == 0..(TotalChunks[f] - 1)
Session  == [total: Nat \ {0}, received: SUBSET Nat]
Steps    == {"idle", "session", "save", "check", "assemble", "store", "drop", "remove"}
Idle     == [pc |-> "idle", file |-> CHOOSE f \in Files : TRUE, index |-> 0, session |-> 0,
             data |-> <<>>]

TypeOK ==
  /\ sessions \in Seq(Session)
  /\ current \in [UploadIds -> 0..Len(sessions)]
  /\ dirs \subseteq UploadIds
  /\ temp \in [UploadIds -> SUBSET Chunk]
  /\ \A u \in UploadIds : /\ temp[u] # {} => u \in dirs
                          /\ \A c, d \in temp[u] : c.index = d.index => c = d
  /\ stored \subseteq Seq(Chunk)
  /\ task \in [Tasks -> [pc: Steps, file: Files, index: Nat, session: 0..Len(sessions),
                         data: Seq(Chunk)]]
  /\ janitor \subseteq UploadIds /\ Cardinality(janitor) <= 1
  /\ \A f \in Files : sent[f] \in [Indexes(f) -> 0..requests]
  /\ answered \subseteq UploadIds
  /\ requests \in 0..MaxRequests /\ faults \in 0..MaxFaults

Init ==
  /\ sessions = <<>>
  /\ current = [u \in UploadIds |-> 0]
  /\ dirs = {} /\ temp = [u \in UploadIds |-> {}]
  /\ stored = {}
  /\ task = [t \in Tasks |-> Idle]
  /\ janitor = {}
  /\ sent = [f \in Files |-> [i \in Indexes(f) |-> 0]]
  /\ answered = {}
  /\ requests = 0 /\ faults = 0

Goto(t, pc) == task' = [task EXCEPT ![t].pc = pc]
Return(t)   == task' = [task EXCEPT ![t] = Idle]
Fault       == faults < MaxFaults /\ faults' = faults + 1
IdOf(t)     == UploadId[task[t].file]
disk        == <<dirs, temp>>
bounds      == <<sent, requests, faults>>

-----------------------------------------------------------------------------
(* HandleChunkUpload *)

(* A request arrives; a client sends chunks in any order, and again. *)
Send(t, f, i) ==
  /\ task[t].pc = "idle" /\ requests < MaxRequests
  /\ requests' = requests + 1
  /\ sent' = [sent EXCEPT ![f][i] = @ + 1]
  /\ task' = [task EXCEPT ![t] = [Idle EXCEPT !.pc = "session", !.file = f, !.index = i]]
  /\ UNCHANGED <<sessions, current, disk, stored, janitor, answered, faults>>

(* Under cm.mu, which the janitor holds while it removes directories.  An  *)
(* existing session is used whatever the request says about the file.      *)
GetOrCreateSession(t) ==
  /\ task[t].pc = "session" /\ janitor = {}
  /\ LET u == IdOf(t)
     IN  IF current[u] # 0
         THEN /\ task' = [task EXCEPT ![t].pc = "save", ![t].session = current[u]]
              /\ UNCHANGED <<sessions, current, disk>>
         ELSE /\ sessions' = Append(sessions, [total |-> TotalChunks[task[t].file],
                                               received |-> {}])
              /\ current' = [current EXCEPT ![u] = Len(sessions) + 1]
              /\ dirs' = dirs \union {u} /\ UNCHANGED temp
              /\ task' = [task EXCEPT ![t].pc = "save", ![t].session = Len(sessions) + 1]
  /\ UNCHANGED <<stored, janitor, answered, bounds>>

(* Nobody assembles session s: its lock can be taken for writing. *)
Unlocked(s) == \A t \in Tasks : task[t].pc = "assemble" => task[t].session # s

Received(t) == sessions[task[t].session].received
ThisChunk(t) == [file |-> task[t].file, index |-> task[t].index]

(* A chunk that was received before is skipped.  The write fails when the  *)
(* directory is gone.                                                      *)
SaveChunk(t) ==
  /\ task[t].pc = "save" /\ Unlocked(task[t].session)
  /\ \/ /\ task[t].index \in Received(t)
        /\ Goto(t, "check") /\ UNCHANGED <<sessions, temp, faults>>
     \/ /\ task[t].index \notin Received(t) /\ IdOf(t) \in dirs
        /\ temp' = [temp EXCEPT ![IdOf(t)] =
             {c \in @ : c.index # task[t].index} \union {ThisChunk(t)}]
        /\ sessions' = [sessions EXCEPT ![task[t].session].received = @ \union {task[t].index}]
        /\ Goto(t, "check") /\ UNCHANGED faults
     \/ /\ task[t].index \notin Received(t)
        /\ \/ IdOf(t) \notin dirs /\ UNCHANGED faults
           \/ Fault
        /\ Return(t) /\ UNCHANGED <<sessions, temp>>
  /\ UNCHANGED <<current, dirs, stored, janitor, answered, sent, requests>>

(* The progress is reported unless as many chunks as announced are there. *)
IsComplete(t) ==
  /\ task[t].pc = "check"
  /\ IF Cardinality(Received(t)) = sessions[task[t].session].total
     THEN Goto(t, "assemble") ELSE Return(t)
  /\ UNCHANGED <<sessions, current, disk, stored, janitor, answered, bounds>>

(* The chunk files are read one after the other; one that is missing ends  *)
(* the assembly, and the session is cleaned up.                            *)
SkipMissing(t) ==
  /\ task[t].pc = "assemble"
  /\ LET s == task[t].session
         n == Len(task[t].data)
         found == {c \in temp[IdOf(t)] : c.index = n}
     IN  \/ \E c \in found : task' = [task EXCEPT ![t].data = Append(@, c)]
         \/ found = {} /\ n < sessions[s].total /\ Goto(t, "store")
         \/ found = {} /\ n = sessions[s].total /\ Goto(t, "store")
  /\ UNCHANGED <<sessions, current, disk, stored, janitor, answered, bounds>>

AssembleFile(t) ==
  /\ task[t].pc = "assemble"
  /\ LET n == Len(task[t].data)
         found == {c \in temp[IdOf(t)] : c.index = n}
     IN  IF n = sessions[task[t].session].total THEN Goto(t, "store")
         ELSE \/ \E c \in found : task' = [task EXCEPT ![t].data = Append(@, c)]
              \/ found = {} /\ Goto(t, "drop")
  /\ UNCHANGED <<sessions, current, disk, stored, janitor, answered, bounds>>

(* os.WriteFile under the hash of the content. *)
StoreFile(t) ==
  /\ task[t].pc = "store"
  /\ \/ /\ stored' = stored \union {task[t].data}
        /\ answered' = answered \union {IdOf(t)} /\ UNCHANGED faults
     \/ Fault /\ UNCHANGED <<stored, answered>>
  /\ Goto(t, "drop")
  /\ UNCHANGED <<sessions, current, disk, janitor, sent, requests>>

(* CleanupSession: whatever session the upload id has now is dropped under *)
(* cm.mu; its directory is removed afterwards, file by file.               *)
KeepSession(t) ==
  /\ task[t].pc = "drop" /\ janitor = {}
  /\ IF current[IdOf(t)] = 0 THEN Return(t) ELSE Goto(t, "remove")
  /\ UNCHANGED <<sessions, current, disk, stored, janitor, answered, bounds>>

DropSession(t) ==
  /\ task[t].pc = "drop" /\ janitor = {}
  /\ current' = [current EXCEPT ![IdOf(t)] = 0]
  /\ IF current[IdOf(t)] = 0 THEN Return(t) ELSE Goto(t, "remove")
  /\ UNCHANGED <<sessions, disk, stored, janitor, answered, bounds>>

(* A step of os.RemoveAll: one file, or the empty directory. *)
RemoveOne(u) ==
  \/ \E c \in temp[u] : temp' = [temp EXCEPT ![u] = @ \ {c}] /\ UNCHANGED dirs
  \/ temp[u] = {} /\ dirs' = dirs \ {u} /\ UNCHANGED temp

RemoveDirectory(t) ==
  /\ task[t].pc = "remove"
  /\ RemoveOne(IdOf(t))
  /\ IF temp[IdOf(t)] = {} THEN Return(t) ELSE UNCHANGED task
  /\ UNCHANGED <<sessions, current, stored, janitor, answered, bounds>>

-----------------------------------------------------------------------------
(* cleanupExpiredSessions: a session is 24 hours old, in use or not.       *)
Expire(u) ==
  /\ janitor = {} /\ current[u] # 0
  /\ Fault
  /\ janitor' = {u}
  /\ UNCHANGED <<sessions, current, disk, stored, task, answered, sent, requests>>

KeepLock(u) ==
  /\ u \in janitor
  /\ RemoveOne(u)
  /\ current' = [current EXCEPT ![u] = 0]
  /\ UNCHANGED <<sessions, stored, task, janitor, answered, bounds>>

RemoveExpired(u) ==
  /\ u \in janitor
  /\ RemoveOne(u)
  /\ IF temp[u] = {} THEN janitor' = {} /\ current' = [current EXCEPT ![u] = 0]
     ELSE UNCHANGED <<janitor, current>>
  /\ UNCHANGED <<sessions, stored, task, answered, bounds>>

(* The process stops and is started again: the map is empty. *)
Restart ==
  /\ Fault
  /\ current' = [u \in UploadIds |-> 0]
  /\ task' = [t \in Tasks |-> Idle]
  /\ janitor' = {}
  /\ UNCHANGED <<sessions, disk, stored, answered, sent, requests>>

-----------------------------------------------------------------------------
Serve(t) ==
  \/ GetOrCreateSession(t) \/ SaveChunk(t) \/ IsComplete(t) \/ AssembleFile(t)
  \/ StoreFile(t) \/ DropSession(t) \/ RemoveDirectory(t)

Next ==
  \/ \E t \in Tasks : Serve(t)
  \/ \E t \in Tasks, f \in Files : \E i \in Indexes(f) : Send(t, f, i)
  \/ \E u \in UploadIds : Expire(u) \/ RemoveExpired(u)
  \/ Restart

Spec == Init /\ [][Next]_vars

(* Requests that were accepted are served, and the janitor gets on with    *)
(* its work; nothing makes a client send.                                  *)
FairSpec ==
  /\ Spec
  /\ \A t \in Tasks : WF_vars(Serve(t))
  /\ \A u \in UploadIds : WF_vars(RemoveExpired(u))

-----------------------------------------------------------------------------
(* The stored files that consist of chunks 0, 1, ... sent under u, as many *)
(* as some file of u has.                                                  *)
Complete(u) ==
  {data \in stored :
     /\ \E f \in Files : UploadId[f] = u /\ Len(data) = TotalChunks[f]
     /\ \A k \in DOMAIN data : data[k].index = k - 1 /\ UploadId[data[k].file] = u}

(* What is stored is never a torso: it has every chunk of one upload id,   *)
(* in order, whatever is saved, cleaned up or removed between two reads of *)
(* the assembly.                                                           *)
StoredIsWhole == stored \subseteq UNION {Complete(u) : u \in UploadIds}

(* is_finished is only reported for an upload that is stored. *)
FinishedIsStored == \A u \in answered : Complete(u) # {}

(* The files of which chunk i was sent under u. *)
SentOf(u, i) == {f \in Files : UploadId[f] = u /\ i \in Indexes(f) /\ sent[f][i] > 0}

(* No chunk was sent twice under u, for one file or for two. *)
SentOnce(u) ==
  \A f, g \in Files : \A i \in Indexes(f) :
    f \in SentOf(u, i) /\ g \in SentOf(u, i) => f = g /\ sent[f][i] = 1

(* The files sent under u have n chunks each. *)
EachOf(u, n) == \A f \in Files : UploadId[f] = u => TotalChunks[f] = n

(* A chunk that a session counts as received is on disk until the session  *)
(* is cleaned up, unless a chunk was repeated, files of several sizes were *)
(* sent under one id, a session expired or the service failed: only then   *)
(* can the clean-up of an older session of the same upload id remove it.   *)
Undisturbed(u) == faults = 0 /\ SentOnce(u) /\ \A f \in Files : UploadId[f] = u => EachOf(u, TotalChunks[f])
ReceivedIsOnDisk ==
  \A u \in UploadIds :
    current[u] # 0 /\ Undisturbed(u) =>
      sessions[current[u]].received \subseteq {c.index : c \in temp[u]}

(* Once every chunk of an upload was sent, in whatever order and however   *)
(* often, it is stored, unless its session expired or the service failed:  *)
(* of several requests that find the session complete, the first to clean  *)
(* up has stored it.                                                       *)
SentIsStored ==
  \A u \in UploadIds, n \in {TotalChunks[f] : f \in Files} :
    EachOf(u, n) =>
      ((\A i \in 0..(n - 1) : SentOf(u, i) # {}) ~> (Complete(u) # {} \/ faults > 0))

(* No request waits forever for a lock or a directory. *)
RequestsReturn == \A t \in Tasks : task[t].pc # "idle" ~> task[t].pc = "idle"

(* Sessions, their directories and the answers given of them agree. *)
SessionInv == TypeOK /\ FinishedIsStored /\ ReceivedIsOnDisk

(* Uploads come to their end: every request is answered, and a file whose  *)
(* chunks were all sent is stored.                                         *)
UploadsEnd == SentIsStored /\ RequestsReturn
=============================================================================
