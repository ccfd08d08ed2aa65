------------------------------ MODULE TempPhotos ------------------------------
(***************************************************************************)
(* Temporary photographs: lib/providers/temp_photo_provider, with the form,*)
(* the accept dialog and the panel that call it, on several devices over   *)
(* one Firestore and one Storage.                                          *)
(*                                                                         *)
(* A request is a step on the server; the step after it is the code up to  *)
(* the next await.  A reference is kept as given or not, a picture as the  *)
(* number of its upload: an address shows its own upload only.  The rights *)
(* of the users are left out: the devices are of users who see the photos. *)
(***************************************************************************)
EXTENDS Integers, FiniteSets

CONSTANTS
    Photos, AssetNos, Devices,
    Registered,  \* numbers of assets that are in the register already
    NoNumber,    \* no mergedAssetNo
    Tasks,       \* bound: calls of the provider under way, of all devices
    DeviceOf,    \* the device of each
    Loads,       \* bound: loads under way, of all devices
    MaxPictures, \* bound: uploads for one photo
    MaxFaults    \* bound: writes that fail, and restarts

ASSUME PhotosAssumption ==
    /\ Photos # {} /\ Devices # {}
    /\ NoNumber \notin AssetNos /\ Registered \subseteq AssetNos
    /\ DeviceOf \in [Tasks -> Devices]
    /\ MaxPictures \in Nat \ {0} /\ MaxFaults \in Nat

VARIABLES
    docs, stored, uploads,  \* the temp photos; is the picture there, which upload is it
    shown, loading,         \* of each device: _tempPhotos and its spinner
    task, load,             \* calls and loads under way
    budget,                 \* faults that are left
    created,                \* the assets made of photos, those that were replaced too
    disturbed               \* history: photos whose picture may be lost (see Disturb)

server == <<docs, stored, uploads, created>>
local == <<shown, loading, load>>
vars == <<server, local, task, budget, disturbed>>

Pictures == Nat

\* taken: the id is made up, no document is written yet.
Doc == [state : {"unused", "taken", "there", "gone"}, ref : BOOLEAN, pic : Pictures,
        merged : AssetNos \cup {NoNumber}]

NoDoc == [state |-> "unused", ref |-> FALSE, pic |-> 0, merged |-> NoNumber]

\* A TempPhoto of a device.  Its reference plays no part there.
Entry == [id : Photos, pic : Pictures, merged : BOOLEAN]

\* A call of the provider; modal: the accept dialog, open.
TaskState ==
    [pc : {"idle", "modal", "erase", "upload", "write", "create", "mark", "remove", "confirm"},
     kind : {"save", "edit", "accept", "delete"}, id : Photos, ref : BOOLEAN,
     pic : Pictures, number : AssetNos \cup {NoNumber}]

\* readable: each of the documents answered has a reference.
LoadState == [pc : {"idle", "asked", "answered"}, dev : Devices, answer : SUBSET Entry,
              readable : BOOLEAN]

IdleTask == [pc |-> "idle", kind |-> "save", id |-> CHOOSE p \in Photos : TRUE, ref |-> FALSE,
             pic |-> 0, number |-> NoNumber]

IdleLoad == [pc |-> "idle", dev |-> CHOOSE d \in Devices : TRUE, answer |-> {},
             readable |-> TRUE]

PhotoTypeOK ==
    /\ docs \in [Photos -> Doc]
    /\ stored \in [Photos -> BOOLEAN] /\ uploads \in [Photos -> Pictures]
    /\ shown \in [Devices -> SUBSET Entry] /\ loading \in [Devices -> BOOLEAN]
    /\ task \in [Tasks -> TaskState] /\ load \in [Loads -> LoadState]
    /\ budget \in 0..MaxFaults
    /\ created \subseteq Photos \X AssetNos /\ disturbed \subseteq Photos

EntryOf(p) == [id |-> p, pic |-> docs[p].pic, merged |-> docs[p].merged # NoNumber]

\* Photos of earlier days, and devices that have loaded them or not.
Init ==
    /\ \E S \in SUBSET Photos :
         /\ docs = [p \in Photos |-> IF p \in S THEN [state |-> "there", ref |-> TRUE, pic |-> 1,
                                                    merged |-> NoNumber]
                                   ELSE NoDoc]
         /\ stored = [p \in Photos |-> p \in S]
         /\ uploads = [p \in Photos |-> IF p \in S THEN 1 ELSE 0]
         /\ shown \in [Devices -> {{}, {EntryOf(p) : p \in S}}]
    /\ loading = [d \in Devices |-> FALSE]
    /\ task = [t \in Tasks |-> IdleTask] /\ load = [l \in Loads |-> IdleLoad]
    /\ budget = MaxFaults
    /\ created = {} /\ disturbed = {}

-----------------------------------------------------------------------------
(* loadTempPhotos: nobody calls it but the form, after a save or an edit *)

LoadBegins(l, d) ==
    /\ load[l] = IdleLoad
    /\ load' = [load EXCEPT ![l] = [IdleLoad EXCEPT !.pc = "asked", !.dev = d]]
    /\ loading' = [loading EXCEPT ![d] = TRUE]

LoadAnswered(l) ==
    LET found == {p \in Photos : docs[p].state = "there"} IN
    /\ load[l].pc = "asked"
    /\ load' = [load EXCEPT ![l].pc = "answered",
                            ![l].answer = {EntryOf(p) : p \in found},
                            ![l].readable = \A p \in found : docs[p].ref]
    /\ UNCHANGED <<server, shown, loading, task, budget, disturbed>>

LoadEnds(l, S) ==
    /\ shown' = [shown EXCEPT ![load[l].dev] = S]
    /\ loading' = [loading EXCEPT ![load[l].dev] = FALSE]
    /\ load' = [load EXCEPT ![l] = IdleLoad]
    /\ UNCHANGED <<server, task, budget, disturbed>>

\* fromMap throws on a document without a reference: then all of the answer is dropped.
LoadReturns(l) ==
    /\ load[l].pc = "answered"
    /\ LoadEnds(l, IF load[l].readable THEN load[l].answer ELSE shown[load[l].dev])

LoadFails(l) == load[l].pc = "asked" /\ LoadEnds(l, shown[load[l].dev])

LoadStep(l) == LoadAnswered(l) \/ LoadReturns(l) \/ LoadFails(l)

-----------------------------------------------------------------------------
(* What a user begins *)

Start(t, r) == task[t].pc = "idle" /\ task' = [task EXCEPT ![t] = r]

\* Calls that still change the picture of p, or the document that names it.
AtPicture(p) ==
    {t \in Tasks : /\ task[t].id = p
                   /\ task[t].kind \in {"save", "edit", "delete"}
                   /\ task[t].pc \notin {"idle", "confirm"}}

\* The picture of p may be lost: from now on nothing is promised about it.
Disturb(S) == disturbed' = disturbed \cup S

\* saveTempPhoto, with a new id.  The form asks for a description or a reference.
Save(t, p, r) ==
    /\ docs[p].state = "unused"
    /\ Start(t, [IdleTask EXCEPT !.pc = "upload", !.kind = "save", !.id = p, !.ref = r])
    /\ docs' = [docs EXCEPT ![p].state = "taken"]
    /\ UNCHANGED <<stored, uploads, created, local, budget, disturbed>>

\* updateTempPhoto of an entry that is in the list: with a new picture, or with the
\* address that the device has.  An edit beside another one, or of an old copy, disturbs.
Update(t, e, r, image) ==
    /\ e \in shown[DeviceOf[t]]
    /\ image => uploads[e.id] + Cardinality(AtPicture(e.id)) < MaxPictures
    /\ Start(t, [IdleTask EXCEPT !.pc = IF image THEN "erase" ELSE "write", !.kind = "edit",
                                 !.id = e.id, !.ref = r,
                                 !.pic = IF image THEN 0 ELSE e.pic])
    /\ Disturb(IF AtPicture(e.id) # {} \/ e.pic # docs[e.id].pic THEN {e.id} ELSE {})
    /\ UNCHANGED <<server, local, budget>>

\* deleteTempPhoto, confirmed.
Delete(t, e) ==
    /\ e \in shown[DeviceOf[t]]
    /\ Start(t, [IdleTask EXCEPT !.pc = "erase", !.kind = "delete", !.id = e.id])
    /\ Disturb(IF AtPicture(e.id) # {} THEN {e.id} ELSE {})
    /\ UNCHANGED <<server, local, budget>>

\* The button is there for a photo that the list has as pending.
AcceptOpens(t, e) ==
    /\ e \in shown[DeviceOf[t]] /\ ~e.merged
    /\ Start(t, [IdleTask EXCEPT !.pc = "modal", !.kind = "accept", !.id = e.id])
    /\ UNCHANGED <<server, local, budget, disturbed>>

AcceptCloses(t) ==
    /\ task[t].pc = "modal"
    /\ task' = [task EXCEPT ![t] = IdleTask]
    /\ UNCHANGED <<server, local, budget, disturbed>>

\* acceptTempPhotoAsAsset with a valid number; without an entry in the list firstWhere
\* throws, and the dialog says so.
AcceptSubmitted(t, n) ==
    /\ task[t].pc = "modal"
    /\ \E e \in shown[DeviceOf[t]] : e.id = task[t].id
    /\ task' = [task EXCEPT ![t].pc = "create", ![t].number = n]
    /\ UNCHANGED <<server, local, budget, disturbed>>

-----------------------------------------------------------------------------
(* The requests of a call *)

\* The server's part of each; what a write gives a document is what the call brings.
UploadPicture(t) ==
    /\ task[t].pc = "upload"
    /\ stored' = [stored EXCEPT ![task[t].id] = TRUE]
    /\ uploads' = [uploads EXCEPT ![task[t].id] = @ + 1]
    /\ UNCHANGED <<docs, created>>

SetDoc(t) ==
    /\ task[t].pc = "write" /\ task[t].kind = "save"
    /\ docs' = [docs EXCEPT ![task[t].id] = [state |-> "there", ref |-> task[t].ref,
                                             pic |-> task[t].pic, merged |-> NoNumber]]
    /\ UNCHANGED <<stored, uploads, created>>

\* Mutants of UpdateDoc: the document is set, as the form knows it, instead of updated;
\* the address of the new picture is not written.
UpdateDocWhole(t) ==
    /\ task[t].pc = "write" /\ task[t].kind = "edit"
    /\ docs[task[t].id].state = "there"
    /\ docs' = [docs EXCEPT ![task[t].id] = [state |-> "there", ref |-> task[t].ref,
                                             pic |-> task[t].pic, merged |-> NoNumber]]
    /\ UNCHANGED <<stored, uploads, created>>

UpdateDocAnyway(t) ==
    /\ task[t].pc = "write" /\ task[t].kind = "edit"
    /\ docs' = [docs EXCEPT ![task[t].id].state = "there", ![task[t].id].ref = task[t].ref,
                            ![task[t].id].pic = task[t].pic]
    /\ UNCHANGED <<stored, uploads, created>>

UpdateDocKeepsAddress(t) ==
    /\ task[t].pc = "write" /\ task[t].kind = "edit"
    /\ docs[task[t].id].state = "there"
    /\ docs' = [docs EXCEPT ![task[t].id].ref = task[t].ref]
    /\ UNCHANGED <<stored, uploads, created>>

UpdateDoc(t) ==
    /\ task[t].pc = "write" /\ task[t].kind = "edit"
    /\ docs[task[t].id].state = "there"
    /\ docs' = [docs EXCEPT ![task[t].id].ref = task[t].ref, ![task[t].id].pic = task[t].pic]
    /\ UNCHANGED <<stored, uploads, created>>

\* The assets there are.
Register == Registered \cup {c[2] : c \in created}

\* set(): an asset that has the number is replaced.
CreateAsset(t) ==
    /\ task[t].pc = "create"
    /\ created' = created \cup {<<task[t].id, task[t].number>>}
    /\ UNCHANGED <<docs, stored, uploads>>

MarkMerged(t) ==
    /\ task[t].pc = "mark"
    /\ docs[task[t].id].state = "there"
    /\ docs' = [docs EXCEPT ![task[t].id].merged = task[t].number]
    /\ UNCHANGED <<stored, uploads, created>>

RemoveDoc(t) ==
    /\ task[t].pc = "remove"
    /\ docs' = [docs EXCEPT ![task[t].id] = [NoDoc EXCEPT !.state = "gone"]]
    /\ UNCHANGED <<stored, uploads, created>>

Request(t) ==
    \/ UploadPicture(t) \/ SetDoc(t) \/ UpdateDoc(t)
    \/ CreateAsset(t) \/ MarkMerged(t) \/ RemoveDoc(t)

\* The step after an answer.
Following(r) ==
    CASE r.pc = "upload" -> "write"
      [] r.pc = "create" -> "mark"
      [] r.pc \in {"write", "mark", "remove"} -> "confirm"

Answered(t) ==
    /\ Request(t)
    /\ task' = [task EXCEPT ![t].pc = Following(task[t]),
                            ![t].pic = IF task[t].pc = "upload" THEN uploads[task[t].id] + 1 ELSE @]
    /\ UNCHANGED <<local, budget, disturbed>>

\* Mutant of GivesUp: the creation of the asset is not waited for.
GivesUpUnlessCreating(t) ==
    task' = [task EXCEPT ![t] =
                CASE task[t].pc = "create" -> [task[t] EXCEPT !.pc = "mark"]
                  [] task[t].pc = "mark" -> [task[t] EXCEPT !.pc = "modal", !.number = NoNumber]
                  [] OTHER -> IdleTask]

\* The call returns with an error; the accept dialog stays, and may be submitted again.
GivesUp(t) ==
    task' = [task EXCEPT ![t] = IF task[t].kind = "accept"
                                THEN [task[t] EXCEPT !.pc = "modal", !.number = NoNumber]
                                ELSE IdleTask]

\* An update of a document that was deleted is refused.
Missing(t) ==
    /\ task[t].pc = "mark" \/ (task[t].pc = "write" /\ task[t].kind = "edit")
    /\ docs[task[t].id].state # "there"
    /\ GivesUp(t)
    /\ UNCHANGED <<server, local, budget, disturbed>>

\* The picture is deleted before the new one is sent, or before the document.  An error
\* (there is none, the network) is ignored.
Erase(t) ==
    /\ task[t].pc = "erase"
    /\ \/ stored' = [stored EXCEPT ![task[t].id] = FALSE] /\ UNCHANGED <<budget, disturbed>>
       \/ /\ budget > 0 /\ budget' = budget - 1
          /\ Disturb({task[t].id})
          /\ UNCHANGED stored
    /\ task' = [task EXCEPT ![t].pc = IF task[t].kind = "edit" THEN "upload" ELSE "remove"]
    /\ UNCHANGED <<docs, uploads, created, local>>

\* A request fails, done on the server or not.
Fails(t) ==
    /\ budget > 0 /\ budget' = budget - 1
    /\ task[t].pc \in {"upload", "write", "create", "mark", "remove"}
    /\ Request(t) \/ UNCHANGED server
    /\ GivesUp(t)
    /\ Disturb(IF t \in AtPicture(task[t].id) THEN {task[t].id} ELSE {})
    /\ UNCHANGED local

\* What the call leaves in the list of its device.
ListAfter(t) ==
    LET r == task[t]
        Changed(e) == IF r.kind = "edit" THEN [e EXCEPT !.pic = r.pic]
                                         ELSE [e EXCEPT !.merged = TRUE]
        others == {e \in shown[DeviceOf[t]] : e.id # r.id}
    IN CASE r.kind = "save" -> shown[DeviceOf[t]] \cup
                {[id |-> r.id, pic |-> r.pic, merged |-> FALSE]}
         [] r.kind = "delete" -> others
         [] r.kind \in {"edit", "accept"} ->
                others \cup {Changed(e) : e \in shown[DeviceOf[t]] \ others}

\* The list is changed; a form that was not closed meanwhile has it loaded.
Confirm(t) ==
    /\ task[t].pc = "confirm"
    /\ shown' = [shown EXCEPT ![DeviceOf[t]] = ListAfter(t)]
    /\ task' = [task EXCEPT ![t] = IdleTask]
    /\ \/ UNCHANGED <<load, loading>>
       \/ task[t].kind \in {"save", "edit"} /\ \E l \in Loads : LoadBegins(l, DeviceOf[t])
    /\ UNCHANGED <<server, budget, disturbed>>

Restart(d) ==
    /\ budget > 0 /\ budget' = budget - 1
    /\ Disturb({p \in Photos : \E t \in AtPicture(p) : DeviceOf[t] = d})
    /\ task' = [t \in Tasks |-> IF DeviceOf[t] = d THEN IdleTask ELSE task[t]]
    /\ load' = [l \in Loads |-> IF load[l].dev = d THEN IdleLoad ELSE load[l]]
    /\ shown' = [shown EXCEPT ![d] = {}]
    /\ loading' = [loading EXCEPT ![d] = FALSE]
    /\ UNCHANGED server

-----------------------------------------------------------------------------
TaskStep(t) == Answered(t) \/ Missing(t) \/ Erase(t) \/ Fails(t) \/ Confirm(t)

UserStep(t) ==
    \/ \E p \in Photos, r \in BOOLEAN : Save(t, p, r)
    \/ \E e \in shown[DeviceOf[t]] :
         \/ \E r, image \in BOOLEAN : Update(t, e, r, image)
         \/ Delete(t, e)
         \/ AcceptOpens(t, e)
    \/ AcceptCloses(t)
    \/ \E n \in AssetNos : AcceptSubmitted(t, n)

Next ==
    \/ \E t \in Tasks : TaskStep(t) \/ UserStep(t)
    \/ \E l \in Loads : LoadStep(l)
    \/ \E d \in Devices : Restart(d)

Spec == Init /\ [][Next]_vars

-----------------------------------------------------------------------------
\* A photo is marked as merged only with a number under which an asset was created from
\* it, whatever requests fail and whoever else accepts, edits or deletes it.
MergedHasAsset ==
    \A p \in Photos : docs[p].merged # NoNumber => <<p, docs[p].merged>> \in created

\* What was accepted does not wait for acceptance again, however old the copy is that
\* another call edits (docs/history/2025-07-20_code_fix_summary.md:28, update for set).
MergedStays ==
    [][\A p \in Photos : docs[p].merged # NoNumber /\ docs'[p].state = "there"
                         => docs'[p].merged # NoNumber]_vars

\* What was deleted does not come back, although other devices still show it, edit it and
\* accept it.
DeletedStays == [][\A p \in Photos : docs[p].state = "gone" => docs'[p].state = "gone"]_vars

\* The address in a document shows its picture, unless a call for the photo works on it,
\* failed, was cut off, ran beside another one or started from an old copy.
PictureIsThere ==
    \A p \in Photos :
        docs[p].state = "there" /\ AtPicture(p) = {} /\ p \notin disturbed
        => stored[p] /\ docs[p].pic = uploads[p]

-----------------------------------------------------------------------------
(* Claims of the sources that the code does not keep. *)

\* temp_photo_panel.dart:137 has the list loaded when a photo was saved: a load that is
\* answered shows what the server has.
AnswerIsShown ==
    [][\A l \in Loads : LoadReturns(l) => shown'[load[l].dev] = load[l].answer]_vars

\* temp_photo_provider.dart:171: accepting a photo creates an asset, and changes none.
AcceptCreates == [][\A t \in Tasks : CreateAsset(t) => task[t].number \notin Register]_vars

\* temp_photo_panel.dart:106: a photo is accepted once.
AcceptedOnce ==
    \A p \in Photos : \A m, n \in AssetNos : {<<p, m>>, <<p, n>>} \subseteq created => m = n
=============================================================================
