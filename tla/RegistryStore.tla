--------------------------- MODULE RegistryStore ---------------------------
(* The container registry: blobs on disk (or S3) with a row each, images   *)
(* with their manifests and tags, uploads of blobs in chunks or in one     *)
(* request, and the garbage collector, which runs hourly and after every   *)
(* deletion, beside the pushes and without a lock.  Every query and every  *)
(* file operation is a step of its own; a request may be cut short by a    *)
(* restart of the process at any step.                                     *)
EXTENDS FiniteSets, Naturals

CONSTANTS Blobs,         \* digests of blobs
          Manifests,     \* digests of image manifests
          LayersOf(_),   \* the config and layer digests a manifest names
          Images,        \* images (container_repositories), by name
          Clients,       \* requests that push and delete
          Collectors,    \* the garbage collector's loop, one per process
          MaxChunks,     \* bound: PATCH requests of one upload
          MaxRegistryCrashes, \* bound: restarts of the process
          NoTag, Nobody

ASSUME RegistryAssumption ==
  /\ \A m \in Manifests : LayersOf(m) \subseteq Blobs
  /\ NoTag \notin Manifests \cup Blobs
  /\ Manifests \cap Blobs = {}
  /\ MaxChunks \in Nat /\ MaxRegistryCrashes \in Nat

VARIABLES rows,     \* container_blobs
          file,     \* the blob file under each digest
          repos,    \* the images that have a row
          mans,     \* container_manifests: <<image, digest>>
          tag,      \* container_tags: one tag, latest, of each image
          req,      \* the request each task serves, and how far it is
          sound,    \* history: manifests stored complete, out of any collection's way
          torn,     \* history: blobs whose file a restart cut short
          regCrashes

registryVars == <<rows, file, repos, mans, tag, req, sound, torn, regCrashes>>

Tasks == Clients \cup Collectors
FileStates == {"none", "partial", "whole"}
Uploads == {"none", "short", "whole", "long"}    \* the upload file against the blob

RegistryIdle == [pc |-> "idle", image |-> Nobody, digest |-> Nobody, mono |-> FALSE,
         upload |-> "none", chunks |-> 0, live |-> FALSE, linked |-> FALSE,
         refs |-> {}, todo |-> {}]

RegistryInit ==
  /\ rows = {} /\ file = [d \in Blobs |-> "none"]
  /\ repos = {} /\ mans = {} /\ tag = [i \in Images |-> NoTag]
  /\ req = [t \in Tasks |-> RegistryIdle]
  /\ sound = {} /\ torn = {} /\ regCrashes = 0

(* The blobs a manifest row names.  The row that complete_upload writes    *)
(* under the digest of a blob names that blob.                             *)
Names(m) == IF m \in Manifests THEN LayersOf(m) ELSE {m}
Referenced == UNION {Names(p[2]) : p \in mans}

(* What a pull finds: the digest a reference stands for, the row of the    *)
(* manifest, and a blob with both its row and its file.                    *)
ResolveReference(i, ref) == IF ref \in Manifests \cup Blobs THEN ref ELSE tag[i]
ServesManifest(i, ref) == i \in repos /\ <<i, ResolveReference(i, ref)>> \in mans
ServesBlob(d) == d \in rows /\ file[d] # "none"

At(t, pc) == req[t].pc = pc
To(t, pc) == req' = [req EXCEPT ![t].pc = pc]
Finish(t) == req' = [req EXCEPT ![t] = RegistryIdle]

---------------------------------------------------------------------------
(* Blobs *)

(* get_or_create_repository: the row of the image, inserted if need be.    *)
CreateRepo(i) == repos' = repos \cup {i}

StartUpload(t, i, d, mono) ==
  /\ At(t, "idle")
  /\ CreateRepo(i)
  /\ req' = [req EXCEPT ![t] = [RegistryIdle EXCEPT
                !.pc = IF mono THEN "put" ELSE "open", !.image = i, !.digest = d, !.mono = mono]]
  /\ UNCHANGED <<rows, file, mans, tag, sound, torn, regCrashes>>

(* PATCH appends a chunk to the upload file, and creates it if it is gone. *)
PatchUpload(t) ==
  /\ At(t, "open") /\ req[t].chunks < MaxChunks
  /\ \E whole \in BOOLEAN :
       req' = [req EXCEPT ![t].chunks = @ + 1,
                          ![t].upload = CASE @ = "none" -> IF whole THEN "whole" ELSE "short"
                                          [] @ = "short" -> "whole"
                                          [] OTHER -> "long"]
  /\ UNCHANGED <<rows, file, repos, mans, tag, sound, torn, regCrashes>>

(* PUT: a body replaces the upload file; then its digest must be the one   *)
(* announced, and the copy to the blob's place is skipped when a file is   *)
(* there already.                                                          *)
CompleteUpload(t) ==
  /\ At(t, "open")
  /\ \E body \in {"none", "short", "whole"} :
       LET content == IF body = "none" THEN req[t].upload ELSE body IN
       IF content = "whole"
       THEN req' = [req EXCEPT ![t].upload = "none", ![t].chunks = 0,
                     ![t].pc = IF file[req[t].digest] = "none" THEN "put" ELSE "record"]
       ELSE req' = [req EXCEPT ![t].upload = content]
  /\ UNCHANGED <<rows, file, repos, mans, tag, sound, torn, regCrashes>>

(* File::create truncates, then the bytes follow. *)
BeginPut(t) ==
  /\ At(t, "put")
  /\ file' = [file EXCEPT ![req[t].digest] = "partial"]
  /\ req' = [req EXCEPT ![t].pc = "putting", ![t].linked = TRUE]
  /\ UNCHANGED <<rows, repos, mans, tag, sound, torn, regCrashes>>

EndPut(t) ==
  /\ At(t, "putting")
  /\ file' = [file EXCEPT ![req[t].digest] = IF req[t].linked THEN "whole" ELSE @]
  /\ req' = [req EXCEPT ![t].pc = "record", ![t].linked = FALSE]
  /\ torn' = IF req[t].linked THEN torn \ {req[t].digest} ELSE torn
  /\ UNCHANGED <<rows, repos, mans, tag, sound, regCrashes>>

(* record_blob: ON CONFLICT DO NOTHING.  A monolithic upload ends here.    *)
RecordBlob(t) ==
  /\ At(t, "record")
  /\ rows' = rows \cup {req[t].digest}
  /\ IF req[t].mono THEN Finish(t) ELSE To(t, "fallbackRepo")
  /\ UNCHANGED <<file, repos, mans, tag, sound, torn, regCrashes>>

(* complete_upload and put_manifest find the image's row, or insert it.    *)
TakeRepo(t) ==
  /\ At(t, "fallbackRepo") \/ At(t, "manifestRepo")
  /\ CreateRepo(req[t].image)
  /\ req' = [req EXCEPT ![t].live = TRUE,
                        ![t].pc = IF @ = "fallbackRepo" THEN "fallback" ELSE "manifest"]
  /\ UNCHANGED <<rows, file, mans, tag, sound, torn, regCrashes>>

(* mutant: the row of a deleted image is referred to *)
FallbackManifestStale(t) ==
  /\ At(t, "fallback")
  /\ mans' = mans \cup {<<req[t].image, req[t].digest>>}
  /\ Finish(t)
  /\ UNCHANGED <<rows, file, repos, tag, sound, torn, regCrashes>>
(* The manifest of one layer that keeps the blob from the collector; the   *)
(* insert fails when the image was deleted since its row was read.         *)
FallbackManifest(t) ==
  /\ At(t, "fallback")
  /\ mans' = IF req[t].live THEN mans \cup {<<req[t].image, req[t].digest>>} ELSE mans
  /\ Finish(t)
  /\ UNCHANGED <<rows, file, repos, tag, sound, torn, regCrashes>>

---------------------------------------------------------------------------
(* Manifests and tags *)

(* put_manifest: missing layers are only warned of. *)
StartManifest(t, i, m) ==
  /\ At(t, "idle")
  /\ req' = [req EXCEPT ![t] = [RegistryIdle EXCEPT !.pc = "manifestRepo", !.image = i, !.digest = m]]
  /\ UNCHANGED <<rows, file, repos, mans, tag, sound, torn, regCrashes>>

(* A collection is about to remove d: it read the manifests when none of   *)
(* them named d.                                                           *)
Doomed(d) == \E t \in Tasks : \/ req[t].pc = "list" /\ d \notin req[t].refs
                              \/ d \in req[t].todo

StoreManifest(t) ==
  /\ At(t, "manifest")
  /\ LET p == <<req[t].image, req[t].digest>> IN
     IF req[t].live
     THEN /\ mans' = mans \cup {p}
          /\ sound' = IF \A d \in LayersOf(p[2]) : ServesBlob(d) /\ ~Doomed(d)
                      THEN sound \cup {p} ELSE sound
          /\ To(t, "tag")
     ELSE Finish(t) /\ UNCHANGED <<mans, sound>>
  /\ UNCHANGED <<rows, file, repos, tag, torn, regCrashes>>

StoreTag(t) ==
  /\ At(t, "tag")
  /\ tag' = IF req[t].live THEN [tag EXCEPT ![req[t].image] = req[t].digest] ELSE tag
  /\ Finish(t)
  /\ UNCHANGED <<rows, file, repos, mans, sound, torn, regCrashes>>

(* The foreign keys delete the manifests and the tag with the image's row. *)
DeleteImage(t, i) ==
  /\ At(t, "idle") /\ i \in repos
  /\ repos' = repos \ {i}
  /\ mans' = {p \in mans : p[1] # i}
  /\ sound' = {p \in sound : p[1] # i}
  /\ tag' = [tag EXCEPT ![i] = NoTag]
  /\ req' = [u \in Tasks |-> IF u = t THEN [RegistryIdle EXCEPT !.pc = "collect"]
                             ELSE IF req[u].image = i THEN [req[u] EXCEPT !.live = FALSE]
                             ELSE req[u]]
  /\ UNCHANGED <<rows, file, torn, regCrashes>>

(* mutant: the manifest goes with its tag *)
DeleteTagManifest(t, i) ==
  /\ At(t, "idle") /\ tag[i] # NoTag
  /\ tag' = [tag EXCEPT ![i] = NoTag]
  /\ mans' = mans \ {<<i, tag[i]>>} /\ sound' = sound \ {<<i, tag[i]>>}
  /\ req' = [req EXCEPT ![t].pc = "collect"]
  /\ UNCHANGED <<rows, file, repos, torn, regCrashes>>
(* The manifest a deleted tag named keeps its row. *)
DeleteTag(t, i) ==
  /\ At(t, "idle") /\ tag[i] # NoTag
  /\ tag' = [tag EXCEPT ![i] = NoTag]
  /\ req' = [req EXCEPT ![t].pc = "collect"]
  /\ UNCHANGED <<rows, file, repos, mans, sound, torn, regCrashes>>

---------------------------------------------------------------------------
(* The garbage collector *)

BeginCollect(t) ==
  /\ t \in Collectors /\ At(t, "idle") /\ To(t, "collect")
  /\ UNCHANGED <<rows, file, repos, mans, tag, sound, torn, regCrashes>>

(* mutant: only the manifests a tag names count *)
ReadReferencesTagged(t) ==
  /\ At(t, "collect")
  /\ req' = [req EXCEPT ![t].pc = "list", ![t].refs = UNION {Names(tag[i]) : i \in {j \in Images : tag[j] # NoTag}}]
  /\ UNCHANGED <<rows, file, repos, mans, tag, sound, torn, regCrashes>>
ReadReferences(t) ==
  /\ At(t, "collect")
  /\ req' = [req EXCEPT ![t].pc = "list", ![t].refs = Referenced]
  /\ UNCHANGED <<rows, file, repos, mans, tag, sound, torn, regCrashes>>

ListBlobs(t) ==
  /\ At(t, "list")
  /\ req' = [req EXCEPT ![t].pc = "sweep", ![t].todo = rows \ req[t].refs, ![t].refs = {}]
  /\ UNCHANGED <<rows, file, repos, mans, tag, sound, torn, regCrashes>>

(* The file goes first; who still writes it writes an unlinked file. *)
SweepFile(t) ==
  /\ At(t, "sweep")
  /\ \E d \in req[t].todo :
       /\ file' = [file EXCEPT ![d] = "none"]
       /\ torn' = torn \ {d}
       /\ req' = [u \in Tasks |->
            IF u = t THEN [req[t] EXCEPT !.pc = "sweepRow", !.digest = d]
            ELSE IF req[u].digest = d THEN [req[u] EXCEPT !.linked = FALSE] ELSE req[u]]
  /\ UNCHANGED <<rows, repos, mans, tag, sound, regCrashes>>

SweepRow(t) ==
  /\ At(t, "sweepRow")
  /\ rows' = rows \ {req[t].digest}
  /\ req' = [req EXCEPT ![t].pc = "sweep", ![t].todo = @ \ {req[t].digest}, ![t].digest = Nobody]
  /\ UNCHANGED <<file, repos, mans, tag, sound, torn, regCrashes>>

(* cleanup_stale_uploads: an upload file untouched for 24 hours goes. *)
EndCollect(t) ==
  /\ At(t, "sweep") /\ req[t].todo = {}
  /\ \E stale \in SUBSET {u \in Clients : req[u].pc = "open"} :
       req' = [u \in Tasks |-> IF u = t THEN RegistryIdle
                               ELSE IF u \in stale THEN [req[u] EXCEPT !.upload = "none"]
                               ELSE req[u]]
  /\ UNCHANGED <<rows, file, repos, mans, tag, sound, torn, regCrashes>>

---------------------------------------------------------------------------
(* The client gives up between two requests, or the process restarts. *)
AbandonUpload(t) ==
  /\ At(t, "open")
  /\ Finish(t)
  /\ UNCHANGED <<rows, file, repos, mans, tag, sound, torn, regCrashes>>

RegistryCrash ==
  /\ regCrashes < MaxRegistryCrashes
  /\ regCrashes' = regCrashes + 1
  /\ torn' = torn \cup {req[t].digest : t \in {u \in Tasks : req[u].pc = "putting" /\ req[u].linked}}
  /\ req' = [t \in Tasks |-> IF req[t].pc = "open" THEN req[t] ELSE RegistryIdle]
  /\ UNCHANGED <<rows, file, repos, mans, tag, sound>>

CollectorStep(t) == \/ ReadReferences(t) \/ ListBlobs(t) \/ SweepFile(t) \/ SweepRow(t)
                    \/ EndCollect(t)

ClientStep(t) ==
  \/ \E i \in Images, d \in Blobs, mono \in BOOLEAN : StartUpload(t, i, d, mono)
  \/ PatchUpload(t) \/ CompleteUpload(t) \/ AbandonUpload(t)
  \/ BeginPut(t) \/ EndPut(t) \/ RecordBlob(t) \/ TakeRepo(t) \/ FallbackManifest(t)
  \/ \E i \in Images, m \in Manifests : StartManifest(t, i, m)
  \/ StoreManifest(t) \/ StoreTag(t)
  \/ \E i \in Images : DeleteImage(t, i) \/ DeleteTag(t, i)

RegistryNext ==
  \/ \E t \in Clients : ClientStep(t) \/ CollectorStep(t)
  \/ \E t \in Collectors : BeginCollect(t) \/ CollectorStep(t)
  \/ RegistryCrash

(* The loop ticks for ever; nothing makes a client go on. *)
RegistryFairness == \A t \in Collectors : WF_registryVars(BeginCollect(t) \/ CollectorStep(t))

RegistrySpec == RegistryInit /\ [][RegistryNext]_registryVars /\ RegistryFairness

---------------------------------------------------------------------------
RegistryPCs == {"idle", "open", "put", "putting", "record", "fallbackRepo", "fallback",
        "manifestRepo", "manifest", "tag", "collect", "list", "sweep", "sweepRow"}

(* Requests work on known images, blobs and manifests, an upload writes a  *)
(* blob and a tag write a manifest, and the file a task still writes is    *)
(* there.                                                                  *)
RegistryTypeOK ==
  /\ rows \subseteq Blobs /\ file \in [Blobs -> FileStates]
  /\ repos \subseteq Images /\ mans \subseteq repos \X (Manifests \cup Blobs)
  /\ tag \in [Images -> Manifests \cup {NoTag}]
  /\ sound \subseteq mans \cap (Images \X Manifests) /\ torn \subseteq Blobs
  /\ regCrashes \in 0..MaxRegistryCrashes
  /\ \A t \in Tasks :
       LET r == req[t] IN
       /\ r.pc \in RegistryPCs /\ r.upload \in Uploads
       /\ r.refs \subseteq Blobs /\ r.todo \subseteq Blobs
       /\ r.pc \in {"open", "put", "putting", "record", "fallbackRepo", "fallback"}
            => r.digest \in Blobs /\ r.image \in Images
       /\ r.pc \in {"manifestRepo", "manifest", "tag"} => r.digest \in Manifests /\ r.image \in Images
       /\ r.pc = "sweepRow" => r.digest \in Blobs
       /\ r.pc \in {"fallback", "manifest", "tag"} /\ r.live => r.image \in repos
       /\ r.linked => r.pc = "putting" /\ file[r.digest] # "none"

(* A tag names a manifest its image has, at every moment of a push, of a   *)
(* deletion of the image and of a push that was under way when the image   *)
(* was deleted and created again: a pull by tag never finds a tag without  *)
(* its manifest (get_manifest).                                            *)
TagResolves == \A i \in Images : tag[i] # NoTag => ServesManifest(i, NoTag)

(* An image whose blobs were all there when its manifest was stored, and   *)
(* that no collection under way had already condemned, keeps every blob    *)
(* until it is deleted, whatever other images are pushed and deleted,      *)
(* collectors run and processes restart (run_gc).                          *)
SoundImageKept == \A p \in sound : \A d \in LayersOf(p[2]) : ServesBlob(d)

(* Bytes under a digest are those of the digest: a file is cut short only  *)
(* while a request writes it or where a restart interrupted the write,     *)
(* and a later upload finds that file in place and keeps it                *)
(* (finalize_upload, LocalBackend::put).                                   *)
CutOnlyByRestart ==
  \A d \in Blobs : file[d] = "partial" =>
    d \in torn \/ \E t \in Tasks : req[t].pc = "putting" /\ req[t].linked /\ req[t].digest = d

(* All: a pull by tag finds its manifest, an image that was complete is    *)
(* never emptied by the collector (gc.rs), and a blob is served cut short  *)
(* only after a restart.                                                   *)
StoreSound == TagResolves /\ SoundImageKept /\ CutOnlyByRestart

===========================================================================
