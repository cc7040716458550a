----------------------------- MODULE Upload_proof -----------------------------
(***************************************************************************)
(* Proofs about Upload, for all sets of clients, names and files, and for  *)
(* every number of parts, uploads, lost requests, kills, aborts and        *)
(* deletions: type correctness, and that objects are whole.                *)
(***************************************************************************)
EXTENDS Upload, TLAPS

-----------------------------------------------------------------------------
(* The invariant *)

\* Where a client holds the id of an upload that was begun.
Holding == {"list", "upload", "complete", "merge"}

AllIn(parts) == \A p \in Parts : parts[p] # NoPart

\* What a client says of its upload is so: a part that it calls arrived is there,
\* all of them are when it asks for the merge, and those that the server lists are
\* all; or its failure was not noted in time. Another client of the same upload,
\* or an earlier run of this one, only ever adds parts.
ClientOK(c) ==
  LET here == client[c]  late == file[c].name \in raced IN
  /\ here.pc \in Holding => uploads[here.id].state # "unused"
  /\ here.pc = "upload" => \A p \in Parts :
       /\ here.part[p] = "ok" => uploads[here.id].parts[p] # NoPart
       /\ here.part[p] = "reported" => ~here.doComplete
  /\ here.pc \in {"complete", "merge"} /\ ~late => AllIn(uploads[here.id].parts)
  /\ here.pc = "merge" /\ ~late => AllIn(here.listed)

IInv == Inv /\ \A c \in Clients : ClientOK(c)

-----------------------------------------------------------------------------
(* Types *)

LEMMA FileType ==
  ASSUME TypeOK, NEW c \in Clients
  PROVE  file[c].name \in Names /\ file[c].content \in Contents /\ file[c].content # NoPart
BY FilesAssumption DEF TypeOK

LEMMA IdType == 1 \in Ids
BY BoundsAssumption DEF Ids

LEMMA AtType ==
  ASSUME NEW place \in Places
  PROVE  /\ At(place) \in Locals
         /\ At(place).pc = place /\ At(place).doComplete
BY IdType DEF At, Locals, PartPlaces, NoParts

LEMMA ClientFields ==
  ASSUME TypeOK, NEW c \in Clients
  PROVE  /\ client[c] \in Locals /\ client[c].pc \in Places /\ client[c].id \in Ids
         /\ client[c].part \in [Parts -> PartPlaces] /\ client[c].doComplete \in BOOLEAN
         /\ client[c].listed \in [Parts -> Contents \cup {NoPart}]
         /\ uploads[client[c].id] \in Uploads
BY DEF TypeOK, Locals

-----------------------------------------------------------------------------
(* Steps *)

\* Uploads only get further: none is unused again, and no part is lost.
Further ==
  \A i \in Ids : uploads[i].state # "unused" =>
    /\ uploads'[i].state # "unused"
    /\ \A p \in Parts : uploads[i].parts[p] # NoPart => uploads'[i].parts[p] # NoPart

\* The clients that a step leaves alone.
LEMMA ClientStays ==
  ASSUME IInv, Further, NEW c \in Clients, client'[c] = client[c], file' = file, raced \subseteq raced'
  PROVE  ClientOK(c)'
<1>1. PICK i \in Ids : i = client[c].id
  BY ClientFields DEF IInv, Inv
<1>2. ClientOK(c)
  BY DEF IInv
<1> QED
  BY <1>1, <1>2 DEF ClientOK, Further, Holding, AllIn

\* A step of a client's.
LEMMA ClientSteps ==
  ASSUME IInv, Further, file' = file, raced' \subseteq Names, raced \subseteq raced',
         uploads' \in [Ids -> Uploads],
         removing' \subseteq Names, objects' \in [Names -> [Parts -> Contents \cup {NoPart}]], AllParts',
         faults' \in 0..MaxFaults, kills' \in 0..MaxKills, users' \in 0..MaxUsers,
         NEW c \in Clients, NEW new \in Locals, client' = [client EXCEPT ![c] = new], ClientOK(c)'
  PROVE  IInv'
<1>1. client' \in [Clients -> Locals] /\ \A e \in Clients : e # c => client'[e] = client[e]
  BY DEF IInv, Inv, TypeOK
<1>2. \A e \in Clients : ClientOK(e)'
  BY <1>1, ClientStays
<1>3. TypeOK'
  BY <1>1 DEF IInv, Inv, TypeOK
<1> QED
  BY <1>2, <1>3 DEF IInv, Inv

\* The store, the failures and the users are as they were.
Quiet == UNCHANGED <<objects, removing, file, raced, kills, users>> /\ faults' \in 0..MaxFaults

LEMMA QuietStep ==
  ASSUME IInv, Quiet, Further, uploads' \in [Ids -> Uploads],
         NEW c \in Clients, NEW new \in Locals, client' = [client EXCEPT ![c] = new], ClientOK(c)'
  PROVE  IInv'
<1>1. /\ objects' \in [Names -> [Parts -> Contents \cup {NoPart}]]
      /\ removing' \subseteq Names /\ raced' \subseteq Names
      /\ faults' \in 0..MaxFaults /\ kills' \in 0..MaxKills /\ users' \in 0..MaxUsers
  BY DEF IInv, Inv, TypeOK, Quiet
<1>2. AllParts'
  BY DEF IInv, Inv, AllParts, Quiet
<1> QED
  BY <1>1, <1>2, ClientSteps DEF Quiet

LEMMA NothingStored ==
  ASSUME uploads' = uploads
  PROVE  Further
BY DEF Further

\* Without an upload there is nothing to say of a client.
LEMMA Elsewhere ==
  ASSUME NEW c \in Clients, client'[c].pc \notin Holding
  PROVE  ClientOK(c)'
BY DEF ClientOK, Holding

LEMMA EndStep ==
  ASSUME IInv, Quiet, uploads' = uploads, NEW c \in Clients, NEW how \in Ended, End(c, how)
  PROVE  IInv'
<1> DEFINE new == At(how)
<1>1. new \in Locals /\ new.pc = how
  BY AtType DEF Places
<1>2. client' = [client EXCEPT ![c] = new]
  BY DEF End
<1> HIDE DEF new
<1>3. client'[c] = new /\ uploads' \in [Ids -> Uploads]
  BY <1>2 DEF IInv, Inv, TypeOK
<1>4. ClientOK(c)'
  BY <1>1, <1>3, Elsewhere DEF Ended, Holding
<1> QED
  BY <1>1, <1>2, <1>3, <1>4, NothingStored, QuietStep

LEMMA GotoStep ==
  ASSUME IInv, Quiet, uploads' = uploads, NEW c \in Clients, NEW to \in Places \ Holding, Goto(c, to)
  PROVE  IInv'
<1> DEFINE new == [client[c] EXCEPT !.pc = to]
<1>1. new \in Locals /\ new.pc = to
  BY ClientFields DEF IInv, Inv, Locals
<1>2. client' = [client EXCEPT ![c] = new]
  BY DEF Goto
<1> HIDE DEF new
<1>3. client'[c] = new /\ uploads' \in [Ids -> Uploads]
  BY <1>2 DEF IInv, Inv, TypeOK
<1>4. ClientOK(c)'
  BY <1>1, <1>3, Elsewhere
<1> QED
  BY <1>1, <1>2, <1>3, <1>4, NothingStored, QuietStep

-----------------------------------------------------------------------------
(* The client *)

LEMMA StartOK ==
  ASSUME IInv, NEW c \in Clients, Start(c)
  PROVE  IInv'
<1>1. Quiet /\ uploads' = uploads /\ Goto(c, "stat")
  BY DEF Start, Quiet, store, bounds, IInv, Inv, TypeOK
<1> QED
  BY <1>1, GotoStep DEF Places, Holding

LEMMA StatObjectOK ==
  ASSUME IInv, NEW c \in Clients, StatObject(c)
  PROVE  IInv'
<1>1. Quiet /\ uploads' = uploads /\ (End(c, "done") \/ Goto(c, "find"))
  BY DEF StatObject, Quiet, store, bounds, IInv, Inv, TypeOK
<1> QED
  BY <1>1, GotoStep, EndStep DEF Places, Holding, Ended

\* The upload found is one that was begun.
LEMMA IncompleteUploadOK ==
  ASSUME IInv, NEW c \in Clients, IncompleteUpload(c)
  PROVE  IInv'
<1>1. Quiet /\ uploads' = uploads
  BY DEF IncompleteUpload, Quiet, store, bounds, IInv, Inv, TypeOK
<1>2. CASE Goto(c, "new")
  BY <1>1, <1>2, GotoStep DEF Places, Holding
<1>3. CASE \E i \in Found(file[c].name) : client' = [client EXCEPT ![c].id = i, ![c].pc = "list"]
  <2>1. PICK i \in Found(file[c].name) : client' = [client EXCEPT ![c].id = i, ![c].pc = "list"]
    BY <1>3
  <2>2. i \in Ids /\ uploads[i].state # "unused"
    BY DEF Found
  <2> DEFINE new == [client[c] EXCEPT !.id = i, !.pc = "list"]
  <2>3. new \in Locals /\ new.pc = "list" /\ new.id = i
    BY <2>2, ClientFields DEF IInv, Inv, Locals, Places
  <2>4. client' = [client EXCEPT ![c] = new]
    BY <2>1
  <2> HIDE DEF new
  <2>5. client'[c] = new /\ uploads' \in [Ids -> Uploads]
    BY <1>1, <2>4 DEF IInv, Inv, TypeOK
  <2>6. ClientOK(c)'
    BY <1>1, <2>2, <2>3, <2>5 DEF ClientOK, Holding
  <2> QED
    BY <1>1, <2>3, <2>4, <2>5, <2>6, NothingStored, QuietStep
<1> QED
  BY <1>2, <1>3 DEF IncompleteUpload

LEMMA RequestFailsOK ==
  ASSUME IInv, NEW c \in Clients, RequestFails(c)
  PROVE  IInv'
<1>1. Quiet /\ uploads' = uploads /\ (End(c, "error") \/ Goto(c, "new"))
  BY BoundsAssumption DEF RequestFails, Quiet, store, IInv, Inv, TypeOK
<1> QED
  BY <1>1, GotoStep, EndStep DEF Places, Holding, Ended

\* The parts that are skipped are there.
LEMMA CompletedChunksOK ==
  ASSUME IInv, NEW c \in Clients, CompletedChunks(c)
  PROVE  IInv'
<1>1. Quiet /\ uploads' = uploads
  BY DEF CompletedChunks, Quiet, store, bounds, IInv, Inv, TypeOK
<1>2. CASE End(c, "error")
  BY <1>1, <1>2, EndStep DEF Ended
<1>3. CASE client' = [client EXCEPT ![c].part = Missing(client[c].id), ![c].pc = "upload"]
  <2>1. PICK i \in Ids : i = client[c].id
    BY ClientFields DEF IInv, Inv
  <2> DEFINE new == [client[c] EXCEPT !.part = Missing(i), !.pc = "upload"]
  <2>2. Missing(i) \in [Parts -> PartPlaces]
        /\ \A p \in Parts : /\ Missing(i)[p] # "reported"
                            /\ Missing(i)[p] = "ok" => uploads[i].parts[p] # NoPart
    BY DEF Missing, PartPlaces
  <2>3. new \in Locals /\ new.pc = "upload" /\ new.part = Missing(i) /\ new.id = i
    BY <2>1, <2>2, ClientFields DEF IInv, Inv, Locals, Places
  <2>4. client' = [client EXCEPT ![c] = new]
    BY <1>3, <2>1
  <2>5. uploads[i].state # "unused"
    BY <2>1 DEF IInv, ClientOK, CompletedChunks, Holding
  <2> HIDE DEF new
  <2>6. client'[c] = new /\ uploads' \in [Ids -> Uploads]
    BY <1>1, <2>4 DEF IInv, Inv, TypeOK
  <2>7. ClientOK(c)'
    BY <1>1, <2>2, <2>3, <2>5, <2>6 DEF ClientOK, Holding
  <2> QED
    BY <1>1, <2>3, <2>4, <2>6, <2>7, NothingStored, QuietStep
<1> QED
  BY <1>2, <1>3 DEF CompletedChunks

\* An id is given out once.
LEMMA NewMultipartOK ==
  ASSUME IInv, NEW c \in Clients, NewMultipart(c)
  PROVE  IInv'
<1> DEFINE fresh == [name |-> file[c].name, state |-> "open", parts |-> NoParts]
           urls == [p \in Parts |-> "url"]
<1>1. PICK i \in Ids :
        /\ uploads[i].state = "unused"
        /\ uploads' = [uploads EXCEPT ![i] = fresh]
        /\ client' = [client EXCEPT ![c].id = i, ![c].part = urls, ![c].pc = "upload"]
  BY DEF NewMultipart
<1>2. Quiet
  BY DEF NewMultipart, Quiet, bounds, IInv, Inv, TypeOK
<1>3. fresh \in Uploads /\ fresh.state = "open"
  BY FileType DEF IInv, Inv, Uploads, NoParts
<1> HIDE DEF fresh
<1>4. uploads' \in [Ids -> Uploads] /\ uploads'[i] = fresh /\ \A j \in Ids : j # i => uploads'[j] = uploads[j]
  BY <1>1, <1>3 DEF IInv, Inv, TypeOK
<1>5. Further
  BY <1>1, <1>4 DEF Further
<1> DEFINE new == [client[c] EXCEPT !.id = i, !.part = urls, !.pc = "upload"]
<1>6. new \in Locals /\ new.pc = "upload" /\ new.part = urls /\ new.id = i
  BY ClientFields DEF IInv, Inv, Locals, Places, PartPlaces
<1>7. client' = [client EXCEPT ![c] = new]
  BY <1>1
<1> HIDE DEF new
<1>8. client'[c] = new
  BY <1>7 DEF IInv, Inv, TypeOK
<1>9. ClientOK(c)'
  BY <1>3, <1>4, <1>6, <1>8 DEF ClientOK, Holding
<1> QED
  BY <1>2, <1>4, <1>5, <1>6, <1>7, <1>9, QuietStep

-----------------------------------------------------------------------------
(* The goroutines of the parts *)

\* A part that goes on, calls itself arrived only when it is there.
LEMMA PartStep ==
  ASSUME IInv, Quiet, Further, uploads' \in [Ids -> Uploads], NEW c \in Clients, NEW p \in Parts,
         client[c].pc = "upload", NEW to \in PartPlaces \ {"reported"}, Goes(c, p, to),
         to = "ok" => uploads'[client[c].id].parts[p] # NoPart
  PROVE  IInv'
<1>1. PICK i \in Ids : i = client[c].id
  BY ClientFields DEF IInv, Inv
<1> DEFINE here == client[c]
           parts == [here.part EXCEPT ![p] = to]
           new == [here EXCEPT !.part = parts]
<1>2. /\ parts \in [Parts -> PartPlaces] /\ parts[p] = to
      /\ \A q \in Parts : q # p => parts[q] = here.part[q]
  BY ClientFields DEF IInv, Inv
<1>3. client' = [client EXCEPT ![c] = new]
  BY DEF Goes
<1> HIDE DEF parts
<1>4. /\ new \in Locals /\ new.pc = "upload" /\ new.part = parts /\ new.id = i
      /\ new.doComplete = here.doComplete
  BY <1>1, <1>2, ClientFields DEF IInv, Inv, Locals
<1> HIDE DEF new
<1>5. client'[c] = new
  BY <1>3 DEF IInv, Inv, TypeOK
<1>6. ClientOK(c) /\ uploads[i].state # "unused"
  BY <1>1 DEF IInv, ClientOK, Holding
<1>7. uploads'[i].state # "unused"
  BY <1>6 DEF Further
<1>8. ASSUME NEW q \in Parts
      PROVE  /\ parts[q] = "ok" => uploads'[i].parts[q] # NoPart
             /\ parts[q] = "reported" => ~here.doComplete
  BY <1>1, <1>2, <1>6 DEF Further, ClientOK
<1>9. ClientOK(c)'
  BY <1>4, <1>5, <1>7, <1>8 DEF ClientOK, Holding
<1> QED
  BY <1>3, <1>4, <1>9, QuietStep

\* What the store takes is a part.
LEMMA Stored ==
  ASSUME IInv, NEW c \in Clients, NEW p \in Parts, StorePart(c, p)
  PROVE  /\ uploads' \in [Ids -> Uploads] /\ Further
         /\ uploads'[client[c].id].parts[p] # NoPart
<1>1. PICK i \in Ids : i = client[c].id
  BY ClientFields DEF IInv, Inv
<1> DEFINE content == file[c].content
           parts == [uploads[i].parts EXCEPT ![p] = content]
           new == [uploads[i] EXCEPT !.parts = parts]
<1>2. content \in Contents /\ content # NoPart /\ uploads[i] \in Uploads
  BY FileType DEF IInv, Inv, TypeOK
<1> HIDE DEF content
<1>3. /\ parts \in [Parts -> Contents \cup {NoPart}] /\ parts[p] # NoPart
      /\ \A q \in Parts : q # p => parts[q] = uploads[i].parts[q]
  BY <1>2 DEF Uploads
<1>4. uploads' = [uploads EXCEPT ![i] = new]
  BY <1>1 DEF StorePart, content
<1> HIDE DEF parts
<1>5. new \in Uploads /\ new.state = uploads[i].state /\ new.parts = parts
  BY <1>2, <1>3 DEF Uploads
<1> HIDE DEF new
<1>6. uploads' \in [Ids -> Uploads] /\ uploads'[i] = new /\ \A j \in Ids : j # i => uploads'[j] = uploads[j]
  BY <1>4, <1>5 DEF IInv, Inv, TypeOK
<1>7. Further
  BY <1>3, <1>5, <1>6 DEF Further
<1> QED
  BY <1>1, <1>3, <1>5, <1>6, <1>7

LEMMA GetMultipartUploadURLOK ==
  ASSUME IInv, NEW c \in Clients, NEW p \in Parts, GetMultipartUploadURL(c, p)
  PROVE  IInv'
<1>1. /\ Quiet /\ uploads' = uploads /\ client[c].pc = "upload"
  BY DEF GetMultipartUploadURL, PartAt, Quiet, store, bounds, IInv, Inv, TypeOK
<1>2. PICK to \in {"failed", "ok", "put"} :
        Goes(c, p, to) /\ (to = "ok" => uploads[client[c].id].parts[p] # NoPart)
  BY DEF GetMultipartUploadURL
<1>3. Further /\ uploads' \in [Ids -> Uploads] /\ to \in PartPlaces \ {"reported"}
  BY <1>1, NothingStored DEF IInv, Inv, TypeOK, PartPlaces
<1>4. to = "ok" => uploads'[client[c].id].parts[p] # NoPart
  BY <1>1, <1>2
<1> QED
  BY <1>1, <1>2, <1>3, <1>4, PartStep

LEMMA PutPartOK ==
  ASSUME IInv, NEW c \in Clients, NEW p \in Parts, PutPart(c, p) \/ PutFails(c, p)
  PROVE  IInv'
<1>1. Quiet /\ client[c].pc = "upload"
  BY BoundsAssumption DEF PutPart, PutFails, PartAt, Quiet, bounds, IInv, Inv, TypeOK
<1>2. CASE StorePart(c, p) /\ (Goes(c, p, "ok") \/ Goes(c, p, "failed"))
  BY <1>1, <1>2, Stored, PartStep DEF PartPlaces
<1>3. CASE UNCHANGED uploads /\ Goes(c, p, "failed")
  <2>1. Further /\ uploads' \in [Ids -> Uploads]
    BY <1>3, NothingStored DEF IInv, Inv, TypeOK
  <2> QED
    BY <1>1, <1>3, <2>1, PartStep DEF PartPlaces
<1> QED
  BY <1>2, <1>3 DEF PutPart, PutFails

LEMMA ReportFailureOK ==
  ASSUME IInv, NEW c \in Clients, NEW p \in Parts, ReportFailure(c, p)
  PROVE  IInv'
<1>1. PICK i \in Ids : i = client[c].id
  BY ClientFields DEF IInv, Inv
<1> DEFINE here == client[c]
           parts == [here.part EXCEPT ![p] = "reported"]
           new == [here EXCEPT !.part = parts, !.doComplete = FALSE]
<1>2. Quiet /\ uploads' = uploads /\ here.pc = "upload"
  BY DEF ReportFailure, PartAt, Quiet, store, bounds, IInv, Inv, TypeOK
<1>3. /\ parts \in [Parts -> PartPlaces] /\ parts[p] = "reported"
      /\ \A q \in Parts : q # p => parts[q] = here.part[q]
  BY ClientFields DEF IInv, Inv, PartPlaces
<1>4. client' = [client EXCEPT ![c] = new]
  BY DEF ReportFailure
<1> HIDE DEF parts
<1>5. new \in Locals /\ new.pc = "upload" /\ new.part = parts /\ new.id = i /\ ~new.doComplete
  BY <1>1, <1>2, <1>3, ClientFields DEF IInv, Inv, Locals
<1> HIDE DEF new
<1>6. client'[c] = new /\ uploads' \in [Ids -> Uploads]
  BY <1>2, <1>4 DEF IInv, Inv, TypeOK
<1>7. ClientOK(c) /\ uploads[i].state # "unused"
  BY <1>1, <1>2 DEF IInv, ClientOK, Holding
<1>8. ASSUME NEW q \in Parts, parts[q] = "ok"
      PROVE  uploads[i].parts[q] # NoPart
  BY <1>1, <1>2, <1>3, <1>7, <1>8 DEF ClientOK
<1>9. ClientOK(c)'
  BY <1>2, <1>5, <1>6, <1>7, <1>8 DEF ClientOK, Holding
<1> QED
  BY <1>2, <1>4, <1>5, <1>6, <1>9, NothingStored, QuietStep

-----------------------------------------------------------------------------
(* The merge *)

\* After wg.Wait without a failure all parts are there: unless a failure is about
\* to be noted, which is what raced remembers.
LEMMA WaitPartsOK ==
  ASSUME IInv, NEW c \in Clients, WaitParts(c)
  PROVE  IInv'
<1>1. PICK i \in Ids : i = client[c].id
  BY ClientFields DEF IInv, Inv
<1>2. PICK n \in Names : n = file[c].name
  BY FileType DEF IInv, Inv
<1> DEFINE here == client[c]
<1>3. /\ client[c].pc = "upload" /\ (\A p \in Parts : here.part[p] \in Returned)
      /\ UNCHANGED <<objects, uploads, removing, file, faults, kills, users>>
      /\ raced' = IF here.doComplete /\ \E p \in Parts : here.part[p] = "failed" THEN raced \cup {n} ELSE raced
  BY <1>2 DEF WaitParts, store, bounds
<1>4. /\ raced' \subseteq Names /\ raced \subseteq raced' /\ uploads' \in [Ids -> Uploads] /\ removing' \subseteq Names
      /\ objects' \in [Names -> [Parts -> Contents \cup {NoPart}]]
      /\ faults' \in 0..MaxFaults /\ kills' \in 0..MaxKills /\ users' \in 0..MaxUsers
  BY <1>3 DEF IInv, Inv, TypeOK
<1>5. AllParts'
  BY <1>3, <1>4 DEF IInv, Inv, AllParts
<1>6. ClientOK(c) /\ uploads[i].state # "unused"
  BY <1>1, <1>3 DEF IInv, ClientOK, Holding
<1>7. CASE ~here.doComplete
  <2> DEFINE new == At("congratulated")
  <2>1. new \in Locals /\ new.pc = "congratulated" /\ client' = [client EXCEPT ![c] = new]
    BY <1>7, AtType DEF WaitParts, Places, Ended
  <2> HIDE DEF new
  <2>2. client'[c] = new
    BY <2>1 DEF IInv, Inv, TypeOK
  <2>3. ClientOK(c)'
    BY <2>1, <2>2, Elsewhere DEF Holding
  <2> QED
    BY <1>3, <1>4, <1>5, <2>1, <2>3, NothingStored, ClientSteps
<1>8. CASE here.doComplete
  <2> DEFINE new == [At("complete") EXCEPT !.id = i]
  <2>1. /\ new \in Locals /\ new.pc = "complete" /\ new.id = i
    BY AtType DEF Places, Locals
  <2>2. client' = [client EXCEPT ![c] = new]
    BY <1>1, <1>8 DEF WaitParts
  <2> HIDE DEF new
  <2>3. client'[c] = new
    BY <2>2 DEF IInv, Inv, TypeOK
  <2>4. n \notin raced' => AllIn(uploads[i].parts)
    BY <1>1, <1>3, <1>6, <1>8 DEF ClientOK, AllIn, Returned
  <2>5. ClientOK(c)'
    BY <1>2, <1>3, <1>6, <2>1, <2>3, <2>4 DEF ClientOK, Holding, AllIn
  <2> QED
    BY <1>3, <1>4, <1>5, <2>1, <2>2, <2>5, NothingStored, ClientSteps
<1> QED
  BY <1>7, <1>8

LEMMA ListObjectPartsOK ==
  ASSUME IInv, NEW c \in Clients, ListObjectParts(c)
  PROVE  IInv'
<1>1. PICK i \in Ids : i = client[c].id
  BY ClientFields DEF IInv, Inv
<1> DEFINE new == [client[c] EXCEPT !.listed = uploads[i].parts, !.pc = "merge"]
<1>2. Quiet /\ uploads' = uploads /\ client[c].pc = "complete"
  BY DEF ListObjectParts, Quiet, store, bounds, IInv, Inv, TypeOK
<1>3. uploads[i].parts \in [Parts -> Contents \cup {NoPart}]
  BY DEF IInv, Inv, TypeOK, Uploads
<1>4. client' = [client EXCEPT ![c] = new]
  BY <1>1 DEF ListObjectParts
<1>5. new \in Locals /\ new.pc = "merge" /\ new.id = i /\ new.listed = uploads[i].parts
  BY <1>1, <1>3, ClientFields DEF IInv, Inv, Locals, Places
<1> HIDE DEF new
<1>6. client'[c] = new /\ uploads' \in [Ids -> Uploads]
  BY <1>2, <1>4 DEF IInv, Inv, TypeOK
<1>7. ClientOK(c)'
  <2>1. uploads[i].state # "unused" /\ (file[c].name \notin raced => AllIn(uploads[i].parts))
    BY <1>1, <1>2 DEF IInv, ClientOK, Holding
  <2>2. file' = file /\ raced' = raced
    BY <1>2 DEF Quiet
  <2> QED
    BY <1>2, <1>5, <1>6, <2>1, <2>2 DEF ClientOK, Holding, AllIn
<1> QED
  BY <1>2, <1>4, <1>5, <1>6, <1>7, NothingStored, QuietStep

\* An upload that is closed keeps what it has.
LEMMA Closed ==
  ASSUME TypeOK, NEW i \in Ids, uploads' = [uploads EXCEPT ![i].state = "closed"]
  PROVE  uploads' \in [Ids -> Uploads] /\ Further
<1> DEFINE new == [uploads[i] EXCEPT !.state = "closed"]
<1>1. new \in Uploads /\ new.state = "closed" /\ new.parts = uploads[i].parts
  BY DEF TypeOK, Uploads
<1> HIDE DEF new
<1>2. uploads' = [uploads EXCEPT ![i] = new]
  BY DEF new
<1> QED
  BY <1>1, <1>2 DEF TypeOK, Further

\* The parts that were listed become the object.
LEMMA CompleteMultipartOK ==
  ASSUME IInv, NEW c \in Clients, CompleteMultipart(c)
  PROVE  IInv'
<1>1. PICK i \in Ids : i = client[c].id
  BY ClientFields DEF IInv, Inv
<1>2. PICK n \in Names : n = file[c].name
  BY FileType DEF IInv, Inv
<1>3. PICK parts \in [Parts -> Contents \cup {NoPart}] : parts = client[c].listed
  BY ClientFields DEF IInv, Inv
<1>4. /\ objects' = [objects EXCEPT ![n] = parts] /\ uploads' = [uploads EXCEPT ![i].state = "closed"]
      /\ UNCHANGED <<removing, file, raced, faults, kills, users>> /\ End(c, "congratulated") /\ client[c].pc = "merge"
  BY <1>1, <1>2, <1>3 DEF CompleteMultipart, Merge, bounds
<1>5. uploads' \in [Ids -> Uploads] /\ Further
  BY <1>4, Closed DEF IInv, Inv
<1>6. /\ objects' \in [Names -> [Parts -> Contents \cup {NoPart}]]
      /\ objects'[n] = parts /\ \A m \in Names : m # n => objects'[m] = objects[m]
  BY <1>4 DEF IInv, Inv, TypeOK
<1>7. n \notin raced => \A p \in Parts : parts[p] # NoPart
  BY <1>2, <1>3, <1>4 DEF IInv, ClientOK, AllIn
<1>8. AllParts'
  BY <1>4, <1>6, <1>7 DEF IInv, Inv, AllParts
<1> DEFINE new == At("congratulated")
<1>9. new \in Locals /\ new.pc = "congratulated" /\ client' = [client EXCEPT ![c] = new]
  BY <1>4, AtType DEF End, Places, Ended
<1> HIDE DEF new
<1>10. client'[c] = new
  BY <1>9 DEF IInv, Inv, TypeOK
<1>11. ClientOK(c)'
  BY <1>9, <1>10, Elsewhere DEF Holding
<1>12. /\ raced' \subseteq Names /\ raced \subseteq raced' /\ removing' \subseteq Names /\ file' = file
       /\ faults' \in 0..MaxFaults /\ kills' \in 0..MaxKills /\ users' \in 0..MaxUsers
  BY <1>4 DEF IInv, Inv, TypeOK
<1> QED
  BY <1>5, <1>6, <1>8, <1>9, <1>11, <1>12, ClientSteps

LEMMA CompleteFailsOK ==
  ASSUME IInv, NEW c \in Clients, CompleteFails(c)
  PROVE  IInv'
<1>1. Quiet /\ uploads' = uploads /\ End(c, "congratulated")
  BY BoundsAssumption DEF CompleteFails, Quiet, store, IInv, Inv, TypeOK
<1> QED
  BY <1>1, EndStep DEF Ended

-----------------------------------------------------------------------------
(* Kills and users *)

LEMMA KillOK ==
  ASSUME IInv, NEW c \in Clients, Kill(c)
  PROVE  IInv'
<1> DEFINE new == At("idle")
<1>1. /\ new \in Locals /\ new.pc = "idle" /\ client' = [client EXCEPT ![c] = new]
      /\ UNCHANGED <<objects, uploads, removing, file, raced, faults, users>> /\ kills' \in 0..MaxKills
  BY AtType, BoundsAssumption DEF Kill, End, store, Places, Ended, IInv, Inv, TypeOK
<1> HIDE DEF new
<1>2. client'[c] = new
  BY <1>1 DEF IInv, Inv, TypeOK
<1>3. ClientOK(c)'
  BY <1>1, <1>2, Elsewhere DEF Holding
<1>4. /\ raced' \subseteq Names /\ removing' \subseteq Names /\ uploads' \in [Ids -> Uploads]
      /\ objects' \in [Names -> [Parts -> Contents \cup {NoPart}]] /\ AllParts'
      /\ faults' \in 0..MaxFaults /\ users' \in 0..MaxUsers
  BY <1>1 DEF IInv, Inv, TypeOK, AllParts
<1> QED
  BY <1>1, <1>3, <1>4, NothingStored, ClientSteps

\* What users do, beside the clients.
LEMMA UsersOK ==
  ASSUME IInv, Abort \/ DeleteFiles \/ \E n \in Names : Remove(n)
  PROVE  IInv'
<1>1. /\ UNCHANGED <<file, client, raced, faults, kills>> /\ users' \in 0..MaxUsers /\ removing' \subseteq Names
  BY BoundsAssumption DEF Abort, DeleteFiles, Remove, bounds, IInv, Inv, TypeOK
<1>2. uploads' \in [Ids -> Uploads] /\ Further
  <2>1. CASE Abort
    BY <2>1, Closed DEF Abort, IInv, Inv
  <2>2. CASE uploads' = uploads
    BY <2>2, NothingStored DEF IInv, Inv, TypeOK
  <2> QED
    BY <2>1, <2>2 DEF DeleteFiles, Remove
<1>3. objects' \in [Names -> [Parts -> Contents \cup {NoPart}]] /\ \A n \in Names : objects'[n] \in {objects[n], NoParts}
  <2>1. CASE objects' = objects
    BY <2>1 DEF IInv, Inv, TypeOK
  <2>2. CASE \E n \in Names : Remove(n)
    <3>1. NoParts \in [Parts -> Contents \cup {NoPart}]
      BY DEF NoParts
    <3> QED
      BY <2>2, <3>1 DEF Remove, IInv, Inv, TypeOK
  <2> QED
    BY <2>1, <2>2 DEF Abort, DeleteFiles
<1>4. AllParts'
  BY <1>1, <1>3 DEF IInv, Inv, AllParts
<1>5. TypeOK'
  BY <1>1, <1>2, <1>3 DEF IInv, Inv, TypeOK
<1>6. \A c \in Clients : ClientOK(c)'
  BY <1>1, <1>2, ClientStays
<1> QED
  BY <1>4, <1>5, <1>6 DEF IInv, Inv

-----------------------------------------------------------------------------
(* Theorems *)

LEMMA Initially ==
  ASSUME Init
  PROVE  IInv
<1>1. NoParts \in [Parts -> Contents \cup {NoPart}]
  BY DEF NoParts
<1>2. PICK n \in Names : uploads = [i \in Ids |-> [name |-> n, state |-> "unused", parts |-> NoParts]]
  BY DEF Init
<1>3. uploads \in [Ids -> Uploads]
  BY <1>1, <1>2 DEF Uploads
<1>4. At("idle") \in Locals /\ At("idle").pc = "idle"
  BY AtType DEF Places, Ended
<1>5. TypeOK
  BY <1>1, <1>3, <1>4, FilesAssumption, BoundsAssumption DEF Init, TypeOK
<1>6. AllParts
  BY DEF Init, AllParts
<1>7. \A c \in Clients : ClientOK(c)
  BY <1>4 DEF Init, ClientOK, Holding
<1> QED
  BY <1>5, <1>6, <1>7 DEF IInv, Inv

LEMMA Invariance ==
  ASSUME IInv, [Next]_vars
  PROVE  IInv'
<1>1. CASE \E c \in Clients : UploadFile(c) \/ Kill(c)
  BY <1>1, StartOK, StatObjectOK, IncompleteUploadOK, RequestFailsOK, CompletedChunksOK, NewMultipartOK,
     WaitPartsOK, ListObjectPartsOK, CompleteMultipartOK, CompleteFailsOK, KillOK DEF UploadFile
<1>2. CASE \E c \in Clients, p \in Parts : Part(c, p)
  BY <1>2, GetMultipartUploadURLOK, PutPartOK, ReportFailureOK DEF Part
<1>3. CASE Abort \/ DeleteFiles \/ \E n \in Names : Remove(n)
  BY <1>3, UsersOK
<1>4. CASE UNCHANGED vars
  BY <1>4 DEF vars, store, bounds, IInv, Inv, TypeOK, AllParts, ClientOK, AllIn
<1> QED
  BY <1>1, <1>2, <1>3, <1>4 DEF Next

\* Types, and that an object has every part: whoever sent them, however many clients
\* upload the same file, fail, are killed and run again, and whatever users abort and
\* delete meanwhile.
THEOREM ObjectsAreWhole == Spec => []Inv
<1>1. Init => IInv
  BY Initially
<1>2. IInv /\ [Next]_vars => IInv'
  BY Invariance
<1>3. IInv => Inv
  BY DEF IInv
<1> QED
  BY <1>1, <1>2, <1>3, PTL DEF Spec

=============================================================================
