-------------------------------- MODULE Upload --------------------------------
(***************************************************************************)
(* Files uploaded in parts (apiserver/service/minio_server.go and          *)
(* pkg/datasource/oss.go, with the client of                               *)
(* apiserver/examples/upload-download-file). A client asks which parts of  *)
(* an unfinished upload the object store has, starts a new upload if there *)
(* is none, sends the missing parts straight to the store, each in a       *)
(* goroutine of its own, and has the server merge them. The server keeps   *)
(* nothing between requests: an unfinished upload is found again by the    *)
(* name of the object. Several clients may upload at once, any of them may *)
(* be killed and run again, users abort uploads and delete files.          *)
(***************************************************************************)
EXTENDS Naturals, FiniteSets

CONSTANTS
  Clients,
  Names,       \* names of objects, with the path in the bucket
  Prefixed,    \* pairs of names of which the second begins with the first
  Contents,
  Files,       \* what is uploaded: a name and a content
  Jobs,        \* which client uploads which file
  NoPart,
  NParts,      \* parts of every file
  MaxUploads,  \* upload ids
  MaxFaults,   \* parts and answers that are lost
  MaxKills,
  MaxUsers     \* aborts and deletions

ASSUME FilesAssumption ==
  /\ Files \subseteq [name : Names, content : Contents]
  /\ Jobs \subseteq [Clients -> Files]
  /\ NoPart \notin Contents
  /\ Prefixed \subseteq Names \X Names
  /\ \A n \in Names : <<n, n>> \in Prefixed
ASSUME BoundsAssumption ==
  /\ NParts \in Nat \ {0} /\ MaxUploads \in Nat \ {0}
  /\ MaxFaults \in Nat /\ MaxKills \in Nat /\ MaxUsers \in Nat

VARIABLES
  objects,     \* name -> the parts its object was merged from
  uploads,     \* upload id -> name, state and parts
  file,        \* client -> the file it uploads
  client,      \* client -> what uploadFile holds while it runs
  removing,    \* names that goroutines of DeleteFiles are about to remove
  raced,       \* names of which a merge was asked for before a failure was reported
  faults, kills, users

store  == <<objects, uploads, removing>>
bounds == <<faults, kills, users>>
vars   == <<store, file, client, raced, bounds>>

-----------------------------------------------------------------------------
Parts == 1..NParts
Ids   == 1..MaxUploads
NoParts == [p \in Parts |-> NoPart]
Whole(f) == [p \in Parts |-> f.content]     \* what Stat's ETag is compared with

Uploads == [name : Names, state : {"unused", "open", "closed"}, parts : [Parts -> Contents \cup {NoPart}]]

\* uploadFile: the server's three calls of GetSuccessChunks, a new upload,
\* the parts, the server's two calls of CompleteMultipart, or how it ended.
Ended  == {"idle", "done", "congratulated", "error"}
Places == Ended \cup {"stat", "find", "list", "new", "upload", "complete", "merge"}

\* A part: its URL asked for, sent; do returned nil (or the store had the part),
\* do returned an error, the error noted.
PartPlaces == {"url", "put", "ok", "failed", "reported"}

\* Mutant: wg.Done is called as the part is sent.
ReturnedOnPut == {"put", "ok", "failed", "reported"}
Returned == {"ok", "failed", "reported"}

\* The variables of uploadFile: the upload id, where each part's goroutine is,
\* that no failure was noted, and the parts the server has listed for the merge.
Locals ==
  [pc : Places, id : Ids, part : [Parts -> PartPlaces], doComplete : BOOLEAN,
   listed : [Parts -> Contents \cup {NoPart}]]
At(place) ==
  [pc |-> place, id |-> 1, part |-> [p \in Parts |-> "ok"], doComplete |-> TRUE,
   listed |-> NoParts]

\* What the store answers for: an open upload of this very name.
Valid(i, n) == uploads[i].state = "open" /\ uploads[i].name = n

Init ==
  /\ objects = [n \in Names |-> NoParts]
  /\ \E n \in Names : uploads = [i \in Ids |-> [name |-> n, state |-> "unused", parts |-> NoParts]]
  /\ file \in Jobs
  /\ client = [c \in Clients |-> At("idle")]
  /\ removing = {} /\ raced = {}
  /\ faults = 0 /\ kills = 0 /\ users = 0

-----------------------------------------------------------------------------
(* The client and the requests it makes *)

Goto(c, place) == client' = [client EXCEPT ![c].pc = place]
End(c, how)    == client' = [client EXCEPT ![c] = At(how)]

\* uploadFile is called: the first time, after an error, or after a kill.
Start(c) ==
  /\ client[c].pc \in {"idle", "error"}
  /\ Goto(c, "stat")
  /\ UNCHANGED <<store, file, raced, bounds>>

\* GetSuccessChunks: an object with this ETag needs no upload.
StatObject(c) ==
  /\ client[c].pc = "stat"
  /\ IF objects[file[c].name] = Whole(file[c]) THEN End(c, "done") ELSE Goto(c, "find")
  /\ UNCHANGED <<store, file, raced, bounds>>

\* Unfinished uploads are listed by prefix: a longer name is found as well.
\* Mutant: finished ones are found, too.
FoundClosed(n) == {i \in Ids : uploads[i].state # "unused" /\ <<n, uploads[i].name>> \in Prefixed}
Found(n) == {i \in Ids : uploads[i].state = "open" /\ <<n, uploads[i].name>> \in Prefixed}

\* Ids are given out in order, so the last one initiated is the greatest.
IncompleteUpload(c) ==
  /\ client[c].pc = "find"
  /\ LET found == Found(file[c].name) IN
     IF found = {}
     THEN Goto(c, "new")
     ELSE \E i \in found :
            /\ \A j \in found : j <= i
            /\ client' = [client EXCEPT ![c].id = i, ![c].pc = "list"]
  /\ UNCHANGED <<store, file, raced, bounds>>

\* The store does not answer: the error of the search alone is ignored, and a
\* second upload of the name begun.
RequestFails(c) ==
  /\ faults < MaxFaults /\ faults' = faults + 1
  /\ \/ client[c].pc \in {"stat", "list", "new"} /\ End(c, "error")
     \/ client[c].pc = "find" /\ Goto(c, "new")
  /\ UNCHANGED <<store, file, raced, kills, users>>

\* The parts that the upload holds are skipped.
Missing(i) == [p \in Parts |-> IF uploads[i].parts[p] # NoPart THEN "ok" ELSE "url"]

\* An upload of another name, or
\* one that was finished meanwhile, makes the request fail.
CompletedChunks(c) ==
  /\ client[c].pc = "list"
  /\ IF Valid(client[c].id, file[c].name)
     THEN client' = [client EXCEPT
            ![c].part = Missing(client[c].id), ![c].pc = "upload"]
     ELSE End(c, "error")
  /\ UNCHANGED <<store, file, raced, bounds>>

NewMultipart(c) ==
  /\ client[c].pc = "new"
  /\ \E i \in Ids :
       /\ uploads[i].state = "unused" /\ \A j \in 1..(i - 1) : uploads[j].state # "unused"
       /\ uploads' = [uploads EXCEPT ![i] = [name |-> file[c].name, state |-> "open", parts |-> NoParts]]
       /\ client' = [client EXCEPT ![c].id = i, ![c].part = [p \in Parts |-> "url"], ![c].pc = "upload"]
  /\ UNCHANGED <<objects, removing, file, raced, bounds>>

\* A part's goroutine is at this place. After wg.Wait nothing reads what it does.
PartAt(c, p, place) == client[c].pc = "upload" /\ client[c].part[p] = place
Goes(c, p, to) == client' = [client EXCEPT ![c].part[p] = to]

\* GetMultipartUploadURL: a part that has arrived meanwhile is not sent.
GetMultipartUploadURL(c, p) ==
  /\ PartAt(c, p, "url")
  /\ Goes(c, p, IF ~Valid(client[c].id, file[c].name) THEN "failed"
                ELSE IF uploads[client[c].id].parts[p] # NoPart THEN "ok" ELSE "put")
  /\ UNCHANGED <<store, file, raced, bounds>>

\* The store takes a part of an open upload, over one it already has.
StorePart(c, p) == uploads' = [uploads EXCEPT ![client[c].id].parts[p] = file[c].content]

PutPart(c, p) ==
  /\ PartAt(c, p, "put")
  /\ IF Valid(client[c].id, file[c].name)
     THEN Goes(c, p, "ok") /\ StorePart(c, p)
     ELSE Goes(c, p, "failed") /\ UNCHANGED uploads
  /\ UNCHANGED <<objects, removing, file, raced, bounds>>

\* The request is lost, or only its answer.
PutFails(c, p) ==
  /\ faults < MaxFaults /\ faults' = faults + 1
  /\ PartAt(c, p, "put") /\ Goes(c, p, "failed")
  /\ \/ UNCHANGED uploads
     \/ Valid(client[c].id, file[c].name) /\ StorePart(c, p)
  /\ UNCHANGED <<objects, removing, file, raced, kills, users>>

\* do has returned, and with it wg.Done has been called, when the goroutine
\* notes the failure.
ReportFailure(c, p) ==
  /\ PartAt(c, p, "failed")
  /\ client' = [client EXCEPT ![c].part[p] = "reported", ![c].doComplete = FALSE]
  /\ UNCHANGED <<store, file, raced, bounds>>

\* wg.Wait: every goroutine has returned from do. Without a failure the parts
\* are merged; either way, in the end, the user is congratulated.
WaitParts(c) ==
  /\ client[c].pc = "upload" /\ \A p \in Parts : client[c].part[p] \in Returned
  /\ client' = [client EXCEPT ![c] =
       IF @.doComplete THEN [At("complete") EXCEPT !.id = client[c].id] ELSE At("congratulated")]
  /\ raced' = IF client[c].doComplete /\ \E p \in Parts : client[c].part[p] = "failed"
              THEN raced \cup {file[c].name} ELSE raced
  /\ UNCHANGED <<store, file, bounds>>

\* CompleteMultipart: the server lists the parts ...
ListObjectParts(c) ==
  /\ client[c].pc = "complete" /\ Valid(client[c].id, file[c].name)
  /\ client' = [client EXCEPT ![c].listed = uploads[client[c].id].parts, ![c].pc = "merge"]
  /\ UNCHANGED <<store, file, raced, bounds>>

\* ... and merges them, if each still has its ETag and there is one.
Mergeable(c) ==
  /\ Valid(client[c].id, file[c].name)
  /\ client[c].listed # NoParts
  /\ \A p \in Parts : client[c].listed[p] # NoPart =>
                        uploads[client[c].id].parts[p] = client[c].listed[p]

Merge(c) ==
  /\ objects' = [objects EXCEPT ![file[c].name] = client[c].listed]
  /\ uploads' = [uploads EXCEPT ![client[c].id].state = "closed"]

\* The retried function returns an outer err, which is nil: a failure is logged,
\* the merge is not asked for again, and the user is congratulated.
CompleteMultipart(c) ==
  /\ client[c].pc = "merge" /\ Mergeable(c)
  /\ Merge(c)
  /\ End(c, "congratulated")
  /\ UNCHANGED <<removing, file, raced, bounds>>

CompleteFails(c) ==
  /\ \/ client[c].pc = "complete" /\ ~Valid(client[c].id, file[c].name) /\ UNCHANGED faults
     \/ client[c].pc = "merge" /\ ~Mergeable(c) /\ UNCHANGED faults
     \/ client[c].pc \in {"complete", "merge"} /\ faults < MaxFaults /\ faults' = faults + 1
  /\ End(c, "congratulated")
  /\ UNCHANGED <<store, file, raced, kills, users>>

-----------------------------------------------------------------------------
(* Users *)

\* The client's process dies, its goroutines with it.
Kill(c) ==
  /\ kills < MaxKills /\ kills' = kills + 1
  /\ client[c].pc \notin Ended
  /\ End(c, "idle")
  /\ UNCHANGED <<store, file, raced, faults, users>>

Abort ==
  /\ users < MaxUsers /\ users' = users + 1
  /\ \E i \in Ids :
       /\ uploads[i].state = "open"
       /\ uploads' = [uploads EXCEPT ![i].state = "closed"]
  /\ UNCHANGED <<objects, removing, file, client, raced, faults, kills>>

\* DeleteFiles answers at once; a goroutine removes what has the name as prefix.
DeleteFiles ==
  /\ users < MaxUsers /\ users' = users + 1
  /\ \E n \in Names : removing' = removing \cup {n}
  /\ UNCHANGED <<objects, uploads, file, client, raced, faults, kills>>

Remove(n) ==
  /\ n \in removing /\ removing' = removing \ {n}
  /\ objects' = [m \in Names |-> IF <<n, m>> \in Prefixed THEN NoParts ELSE objects[m]]
  /\ UNCHANGED <<uploads, file, client, raced, bounds>>

Part(c, p) ==
  \/ GetMultipartUploadURL(c, p) \/ PutPart(c, p) \/ PutFails(c, p) \/ ReportFailure(c, p)

UploadFile(c) ==
  \/ Start(c) \/ StatObject(c) \/ IncompleteUpload(c) \/ RequestFails(c) \/ CompletedChunks(c) \/ NewMultipart(c)
  \/ WaitParts(c) \/ ListObjectParts(c) \/ CompleteMultipart(c) \/ CompleteFails(c)

Next ==
  \/ \E c \in Clients : UploadFile(c) \/ Kill(c) \/ \E p \in Parts : Part(c, p)
  \/ Abort \/ DeleteFiles \/ \E n \in Names : Remove(n)

Spec == Init /\ [][Next]_vars

\* Processes run, and whoever was told of an error, or was killed, runs the
\* client again.
FairSpec ==
  /\ Spec
  /\ \A c \in Clients :
       WF_vars(UploadFile(c)) /\ \A p \in Parts : WF_vars(Part(c, p))
  /\ \A n \in Names : WF_vars(Remove(n))

-----------------------------------------------------------------------------
TypeOK ==
  /\ objects \in [Names -> [Parts -> Contents \cup {NoPart}]]
  /\ uploads \in [Ids -> Uploads]
  /\ file \in [Clients -> Files]
  /\ client \in [Clients -> Locals]
  /\ removing \subseteq Names /\ raced \subseteq Names
  /\ faults \in 0..MaxFaults /\ kills \in 0..MaxKills /\ users \in 0..MaxUsers

\* An object has every part, whoever sent them and however often the clients
\* were killed, unless a client went on to the merge between the failure of a
\* part and the note of it.
AllParts ==
  \A n \in Names \ raced :
    objects[n] = NoParts \/ \A p \in Parts : objects[n][p] # NoPart

\* What holds in every state of clients and store: types, and objects that have been
\* merged (CompleteMultipart) only when all parts were there.
Inv == TypeOK /\ AllParts

\* Whoever runs the client again after each error comes to an end of it, unless an
\* unfinished upload of a longer name stands in the way.
Finishes ==
  \A c \in Clients :
    \/ <>(client[c].pc \in {"done", "congratulated"})
    \/ <>[](\E i \in Found(file[c].name) : uploads[i].name # file[c].name)
=============================================================================
