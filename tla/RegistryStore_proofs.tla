------------------------ MODULE RegistryStore_proofs ------------------------
(***************************************************************************)
(* Proofs about RegistryStore, for every set of blobs, manifests, images,  *)
(* clients and collectors: types, that a tag resolves, and that the store  *)
(* is sound under uploads, deletions, collections and restarts.            *)
(***************************************************************************)
EXTENDS RegistryImages, TLAPS

ReqRows == [pc : RegistryPCs, image : Images \cup {Nobody},
            digest : Blobs \cup Manifests \cup {Nobody}, mono : BOOLEAN,
            upload : Uploads, chunks : Nat, live : BOOLEAN, linked : BOOLEAN,
            refs : SUBSET Blobs, todo : SUBSET Blobs]

Tables ==
  /\ rows \subseteq Blobs /\ file \in [Blobs -> FileStates]
  /\ repos \subseteq Images /\ mans \subseteq repos \X (Manifests \cup Blobs)
  /\ tag \in [Images -> Manifests \cup {NoTag}]
  /\ sound \subseteq mans \cap (Images \X Manifests) /\ torn \subseteq Blobs
  /\ regCrashes \in 0..MaxRegistryCrashes
  /\ req \in [Tasks -> ReqRows]

\* What a request may rely on where it is: its image is there while no one has
\* deleted it, its manifest is stored when it writes the tag, the file it writes
\* is in place while it is linked, and a blob is swept as one of those to do.
Relies(r) ==
  /\ r.pc \in {"open", "put", "putting", "record", "fallbackRepo", "fallback"}
       => r.digest \in Blobs /\ r.image \in Images
  /\ r.pc \in {"manifestRepo", "manifest", "tag"} => r.digest \in Manifests /\ r.image \in Images
  /\ r.pc = "sweepRow" => r.digest \in Blobs /\ r.digest \in r.todo
  /\ r.pc \in {"fallback", "manifest", "tag"} /\ r.live => r.image \in repos
  /\ r.pc = "tag" /\ r.live => <<r.image, r.digest>> \in mans
  /\ r.linked => r.pc = "putting" /\ file[r.digest] # "none"

Kept == \A p \in sound : \A d \in LayersOf(p[2]) : ServesBlob(d) /\ ~Doomed(d)

RegistryInv ==
  /\ Tables /\ (\A t \in Tasks : Relies(req[t]))
  /\ TagResolves /\ Kept /\ CutOnlyByRestart

-----------------------------------------------------------------------------
LEMMA IdleType == RegistryIdle \in ReqRows /\ Relies(RegistryIdle)
BY DEF RegistryIdle, ReqRows, Relies, RegistryPCs, Uploads

LEMMA NamesAreBlobs == \A m \in Manifests \cup Blobs : Names(m) \subseteq Blobs
BY RegistryAssumption DEF Names

LEMMA TagOf ==
  TagResolves <=> \A i \in Images : tag[i] # NoTag => i \in repos /\ <<i, tag[i]>> \in mans
BY RegistryAssumption DEF TagResolves, ServesManifest, ResolveReference

LEMMA RegistryInitial == RegistryInit => RegistryInv
<1> SUFFICES ASSUME RegistryInit PROVE RegistryInv
  OBVIOUS
<1>1. Tables
  BY IdleType, RegistryAssumption DEF RegistryInit, Tables, FileStates
<1>2. \A t \in Tasks : req[t] = RegistryIdle
  BY DEF RegistryInit
<1>3. \A t \in Tasks : Relies(req[t])
  BY <1>2, IdleType
<1>4. TagResolves /\ Kept
  BY TagOf DEF RegistryInit, Kept
<1>5. CutOnlyByRestart
  BY DEF RegistryInit, CutOnlyByRestart
<1> QED
  BY <1>1, <1>3, <1>4, <1>5 DEF RegistryInv

LEMMA InvGivesType == RegistryInv => RegistryTypeOK
<1> SUFFICES ASSUME RegistryInv PROVE RegistryTypeOK
  OBVIOUS
<1>1. ASSUME NEW t \in Tasks
      PROVE  /\ req[t].pc \in RegistryPCs /\ req[t].upload \in Uploads
             /\ req[t].refs \subseteq Blobs /\ req[t].todo \subseteq Blobs
             /\ Relies(req[t])
  BY DEF RegistryInv, Tables, ReqRows
<1> QED
  BY <1>1 DEF RegistryInv, Tables, RegistryTypeOK, Relies

-----------------------------------------------------------------------------
(* What a step that adds only leaves true. *)

\* Nothing a request relies on goes.
Grows == /\ repos \subseteq repos' /\ mans \subseteq mans'
         /\ \A d \in Blobs : file[d] # "none" => file'[d] # "none"
\* No collection condemns a blob it had not condemned.
Spares(t) == /\ req'[t].pc = "list" => req[t].pc = "list" /\ req'[t].refs = req[t].refs
             /\ req'[t].todo \subseteq req[t].todo

LEMMA OthersRely ==
  ASSUME NEW r \in ReqRows, Relies(r), Grows
  PROVE  Relies(r)'
<1>1. r.linked => r.digest \in Blobs
  BY DEF Relies
<1> QED
  BY <1>1 DEF Relies, Grows

LEMMA StaysKept ==
  ASSUME RegistryInv, rows \subseteq rows',
         \A d \in Blobs : file[d] # "none" => file'[d] # "none", sound' \subseteq sound,
         \A t \in Tasks : Spares(t)
  PROVE  Kept'
<1> SUFFICES ASSUME NEW p \in sound', NEW d \in LayersOf(p[2]) PROVE ServesBlob(d)' /\ ~Doomed(d)'
  BY DEF Kept
<1>1. ServesBlob(d) /\ ~Doomed(d) /\ d \in Blobs
  BY DEF RegistryInv, Kept, Tables, ServesBlob
<1>2. ServesBlob(d)'
  BY <1>1 DEF ServesBlob
<1>3. ~Doomed(d)'
  BY <1>1 DEF Doomed, Spares
<1> QED
  BY <1>2, <1>3

\* A step of one task that adds rows, writes no file and condemns nothing.
LEMMA GrowStep ==
  ASSUME RegistryInv, NEW t \in Tasks, NEW r \in ReqRows,
         req' = [req EXCEPT ![t] = r],
         rows' \in SUBSET Blobs, rows \subseteq rows',
         repos' \in SUBSET Images, repos \subseteq repos',
         mans' \in SUBSET (repos' \X (Manifests \cup Blobs)), mans \subseteq mans',
         UNCHANGED <<file, tag, sound, torn, regCrashes>>,
         req'[t] = r => Relies(req[t])',
         r.pc # "list", r.todo \subseteq req[t].todo,
         req[t].pc # "putting"
  PROVE  RegistryInv'
<1>1. req \in [Tasks -> ReqRows]
  BY DEF RegistryInv, Tables
<1>2. /\ req' \in [Tasks -> ReqRows] /\ req'[t] = r
      /\ \A u \in Tasks \ {t} : req'[u] = req[u]
  BY <1>1
<1>3. Grows
  BY DEF Grows
<1>4. Tables'
  BY <1>2 DEF RegistryInv, Tables
<1>5. ASSUME NEW u \in Tasks PROVE Relies(req[u])'
  <2>1. CASE u = t
    BY <1>2, <2>1
  <2>2. CASE u # t
    <3>1. \A q \in ReqRows : Relies(q) => Relies(q)'
      BY <1>3, OthersRely
    <3>2. req'[u] \in ReqRows /\ Relies(req'[u])
      BY <1>1, <1>2, <2>2 DEF RegistryInv
    <3> QED
      BY <3>1, <3>2 DEF Relies
  <2> QED
    BY <2>1, <2>2
<1>6. Kept'
  <2>1. \A u \in Tasks : Spares(u)
    BY <1>1, <1>2 DEF Spares
  <2> QED
    BY <1>3, <2>1, StaysKept DEF Grows
<1>7. TagResolves'
  BY DEF RegistryInv, TagResolves, ServesManifest, ResolveReference
<1>8. CutOnlyByRestart'
  BY <1>1, <1>2 DEF RegistryInv, CutOnlyByRestart
<1> QED
  BY <1>4, <1>5, <1>6, <1>7, <1>8 DEF RegistryInv

-----------------------------------------------------------------------------
(* Uploads, manifests and tags *)

LEMMA UploadsKeepInv ==
  ASSUME RegistryInv, NEW t \in Tasks,
         \/ \E i \in Images, d \in Blobs, mono \in BOOLEAN : StartUpload(t, i, d, mono)
         \/ PatchUpload(t) \/ CompleteUpload(t) \/ AbandonUpload(t) \/ RecordBlob(t)
  PROVE  RegistryInv'
<1>1. /\ req[t] \in ReqRows /\ Relies(req[t]) /\ rows \subseteq Blobs /\ repos \subseteq Images
      /\ mans \subseteq repos \X (Manifests \cup Blobs) /\ req \in [Tasks -> ReqRows]
  BY DEF RegistryInv, Tables
<1>2. CASE \E i \in Images, d \in Blobs, mono \in BOOLEAN : StartUpload(t, i, d, mono)
  <2>1. PICK i \in Images, d \in Blobs, mono \in BOOLEAN : StartUpload(t, i, d, mono)
    BY <1>2
  <2> DEFINE r == [RegistryIdle EXCEPT !.pc = IF mono THEN "put" ELSE "open", !.image = i,
                                       !.digest = d, !.mono = mono]
  <2>2. /\ repos' = repos \cup {i} /\ req' = [req EXCEPT ![t] = r] /\ req[t].pc = "idle"
        /\ UNCHANGED <<rows, file, mans, tag, sound, torn, regCrashes>>
    BY <2>1 DEF StartUpload, CreateRepo, At
  <2>3. /\ r \in ReqRows /\ r.pc \in {"put", "open"} /\ r.image = i /\ r.digest = d
        /\ ~r.linked /\ r.todo = {} /\ ~r.live
    BY DEF RegistryIdle, ReqRows, RegistryPCs, Uploads
  <2>4. req'[t] = r => Relies(req[t])'
    BY <2>3 DEF Relies
  <2> HIDE DEF r
  <2> QED
    BY <1>1, <2>2, <2>3, <2>4, GrowStep
<1>3. CASE PatchUpload(t)
  <2>1. PICK whole \in BOOLEAN :
          req' = [req EXCEPT ![t].chunks = @ + 1,
                             ![t].upload = CASE @ = "none" -> IF whole THEN "whole" ELSE "short"
                                             [] @ = "short" -> "whole"
                                             [] OTHER -> "long"]
    BY <1>3 DEF PatchUpload
  <2> DEFINE next == CASE req[t].upload = "none" -> IF whole THEN "whole" ELSE "short"
                       [] req[t].upload = "short" -> "whole"
                       [] OTHER -> "long"
             r == [req[t] EXCEPT !.chunks = @ + 1, !.upload = next]
  <2>2. next \in Uploads /\ req[t].pc = "open" /\ req[t].chunks + 1 \in Nat
    <3>1. next \in Uploads
      BY DEF Uploads
    <3>2. req[t].pc = "open"
      BY <1>3 DEF PatchUpload, At
    <3>3. req[t].chunks \in Nat
      BY <1>1 DEF ReqRows
    <3> QED
      BY <3>1, <3>2, <3>3
  <2> HIDE DEF next
  <2>3. /\ r \in ReqRows /\ r.pc = "open" /\ r.todo = req[t].todo /\ r.image = req[t].image
        /\ r.digest = req[t].digest /\ r.linked = req[t].linked /\ r.live = req[t].live
    BY <1>1, <2>2 DEF ReqRows
  <2>4. /\ req' = [req EXCEPT ![t] = r]
        /\ UNCHANGED <<rows, file, repos, mans, tag, sound, torn, regCrashes>>
    BY <1>1, <1>3, <2>1 DEF PatchUpload, next
  <2>5. req'[t] = r => Relies(req[t])'
    BY <1>1, <2>2, <2>3, <2>4 DEF Relies
  <2> HIDE DEF r
  <2> QED
    BY <1>1, <2>2, <2>3, <2>4, <2>5, GrowStep
<1>4. CASE CompleteUpload(t)
  <2>1. PICK r : /\ req' = [req EXCEPT ![t] = r]
                 /\ r \in ReqRows /\ r.pc \in {"open", "put", "record"}
                 /\ r.todo = req[t].todo /\ r.image = req[t].image
                 /\ r.digest = req[t].digest /\ r.linked = req[t].linked /\ r.live = req[t].live
    <3>1. PICK content \in Uploads :
            \/ req' = [req EXCEPT ![t].upload = "none", ![t].chunks = 0,
                      ![t].pc = IF file[req[t].digest] = "none" THEN "put" ELSE "record"]
            \/ req' = [req EXCEPT ![t].upload = content]
      BY <1>1, <1>4 DEF CompleteUpload, Uploads, ReqRows
    <3>2. CASE req' = [req EXCEPT ![t].upload = content]
      <4> DEFINE r == [req[t] EXCEPT !.upload = content]
      <4>1. /\ r \in ReqRows /\ r.pc = "open"
            /\ r.todo = req[t].todo /\ r.image = req[t].image
            /\ r.digest = req[t].digest /\ r.linked = req[t].linked /\ r.live = req[t].live
        BY <1>1, <1>4 DEF ReqRows, CompleteUpload, At
      <4> QED
        BY <1>1, <3>2, <4>1
    <3>3. CASE req' = [req EXCEPT ![t].upload = "none", ![t].chunks = 0,
                      ![t].pc = IF file[req[t].digest] = "none" THEN "put" ELSE "record"]
      <4> DEFINE pc == IF file[req[t].digest] = "none" THEN "put" ELSE "record"
                 r == [req[t] EXCEPT !.upload = "none", !.chunks = 0, !.pc = pc]
      <4>1. pc \in {"put", "record"}
        OBVIOUS
      <4>2. req' = [req EXCEPT ![t] = r]
        BY <1>1, <3>3
      <4> HIDE DEF pc
      <4>3. /\ r \in ReqRows /\ r.pc \in {"put", "record"}
            /\ r.todo = req[t].todo /\ r.image = req[t].image
            /\ r.digest = req[t].digest /\ r.linked = req[t].linked /\ r.live = req[t].live
        BY <1>1, <4>1 DEF ReqRows, RegistryPCs, Uploads
      <4> QED
        BY <4>2, <4>3
    <3> QED
      BY <3>1, <3>2, <3>3
  <2>2. req[t].pc = "open" /\ UNCHANGED <<rows, file, repos, mans, tag, sound, torn, regCrashes>>
    BY <1>4 DEF CompleteUpload, At
  <2>3. req'[t] = r => Relies(req[t])'
    BY <1>1, <2>1, <2>2 DEF Relies
  <2> QED
    BY <1>1, <2>1, <2>2, <2>3, GrowStep
<1>5. CASE AbandonUpload(t)
  <2>1. /\ req' = [req EXCEPT ![t] = RegistryIdle] /\ req[t].pc = "open"
        /\ UNCHANGED <<rows, file, repos, mans, tag, sound, torn, regCrashes>>
    BY <1>5 DEF AbandonUpload, Finish, At
  <2>2. req'[t] = RegistryIdle => Relies(req[t])'
    BY DEF Relies, RegistryIdle
  <2> QED
    BY <1>1, <2>1, <2>2, IdleType, GrowStep DEF RegistryIdle
<1>6. CASE RecordBlob(t)
  <2>1. PICK r : /\ req' = [req EXCEPT ![t] = r]
                 /\ r \in ReqRows /\ r.todo \subseteq req[t].todo /\ ~r.linked
                 /\ \/ r.pc = "idle"
                    \/ r.pc = "fallbackRepo" /\ r.digest = req[t].digest /\ r.image = req[t].image
    <3>1. CASE req[t].mono
      <4>1. req' = [req EXCEPT ![t] = RegistryIdle]
        BY <1>6, <3>1 DEF RecordBlob, Finish
      <4>2. RegistryIdle.pc = "idle" /\ RegistryIdle.todo = {} /\ ~RegistryIdle.linked
        BY DEF RegistryIdle
      <4> QED
        BY <4>1, <4>2, IdleType
    <3>2. CASE ~req[t].mono
      <4> DEFINE r == [req[t] EXCEPT !.pc = "fallbackRepo"]
      <4>1. /\ r \in ReqRows /\ r.pc = "fallbackRepo" /\ r.todo = req[t].todo
            /\ r.digest = req[t].digest /\ r.image = req[t].image /\ r.linked = req[t].linked
        BY <1>1 DEF ReqRows, RegistryPCs
      <4>2. ~req[t].linked
        BY <1>1, <1>6 DEF Relies, RecordBlob, At, ReqRows
      <4> QED
        BY <1>1, <1>6, <3>2, <4>1, <4>2 DEF RecordBlob, To
    <3> QED
      BY <3>1, <3>2
  <2>2. /\ req[t].pc = "record" /\ rows' = rows \cup {req[t].digest}
        /\ UNCHANGED <<file, repos, mans, tag, sound, torn, regCrashes>>
    BY <1>6 DEF RecordBlob, At
  <2>3. req[t].digest \in Blobs /\ req[t].image \in Images
    BY <1>1, <2>2 DEF Relies
  <2>4. req'[t] = r => Relies(req[t])'
    BY <2>1, <2>3 DEF Relies
  <2> QED
    BY <1>1, <2>1, <2>2, <2>3, <2>4, GrowStep
<1> QED
  BY <1>2, <1>3, <1>4, <1>5, <1>6

LEMMA PushesKeepInv ==
  ASSUME RegistryInv, NEW t \in Tasks,
         \/ \E i \in Images, m \in Manifests : StartManifest(t, i, m)
         \/ TakeRepo(t) \/ FallbackManifest(t) \/ BeginCollect(t)
  PROVE  RegistryInv'
<1>1. /\ req[t] \in ReqRows /\ Relies(req[t]) /\ rows \subseteq Blobs /\ repos \subseteq Images
      /\ mans \subseteq repos \X (Manifests \cup Blobs) /\ req \in [Tasks -> ReqRows]
  BY DEF RegistryInv, Tables
<1>2. CASE \E i \in Images, m \in Manifests : StartManifest(t, i, m)
  <2>1. PICK i \in Images, m \in Manifests : StartManifest(t, i, m)
    BY <1>2
  <2> DEFINE r == [RegistryIdle EXCEPT !.pc = "manifestRepo", !.image = i, !.digest = m]
  <2>2. /\ req' = [req EXCEPT ![t] = r] /\ req[t].pc = "idle"
        /\ UNCHANGED <<rows, file, repos, mans, tag, sound, torn, regCrashes>>
    BY <2>1 DEF StartManifest, At
  <2>3. /\ r \in ReqRows /\ r.pc = "manifestRepo" /\ r.image = i /\ r.digest = m
        /\ ~r.linked /\ r.todo = {} /\ ~r.live
    BY DEF RegistryIdle, ReqRows, RegistryPCs, Uploads
  <2>4. req'[t] = r => Relies(req[t])'
    BY <2>3 DEF Relies
  <2> HIDE DEF r
  <2> QED
    BY <1>1, <2>2, <2>3, <2>4, GrowStep
<1>3. CASE TakeRepo(t)
  <2> DEFINE pc == IF req[t].pc = "fallbackRepo" THEN "fallback" ELSE "manifest"
             r == [req[t] EXCEPT !.live = TRUE, !.pc = pc]
  <2>1. /\ req' = [req EXCEPT ![t] = r] /\ repos' = repos \cup {req[t].image}
        /\ req[t].pc \in {"fallbackRepo", "manifestRepo"}
        /\ UNCHANGED <<rows, file, mans, tag, sound, torn, regCrashes>>
    BY <1>1, <1>3 DEF TakeRepo, CreateRepo, At
  <2>2. /\ pc \in {"fallback", "manifest"}
        /\ pc = "fallback" => req[t].pc = "fallbackRepo"
        /\ pc = "manifest" => req[t].pc = "manifestRepo"
    BY <2>1
  <2> HIDE DEF pc
  <2>3. /\ r \in ReqRows /\ r.pc = pc /\ r.image = req[t].image /\ r.digest = req[t].digest
        /\ r.todo = req[t].todo /\ r.linked = req[t].linked
    BY <1>1, <2>2 DEF ReqRows, RegistryPCs
  <2>4. req[t].image \in Images
    BY <1>1, <2>1 DEF Relies
  <2>5. req'[t] = r => Relies(req[t])'
    BY <1>1, <2>1, <2>2, <2>3, <2>4 DEF Relies
  <2> HIDE DEF r
  <2>6. mans' \in SUBSET (repos' \X (Manifests \cup Blobs))
    BY <1>1, <2>1
  <2> QED
    BY <1>1, <2>1, <2>2, <2>3, <2>4, <2>5, <2>6, GrowStep
<1>4. CASE FallbackManifest(t)
  <2>1. /\ req' = [req EXCEPT ![t] = RegistryIdle] /\ req[t].pc = "fallback"
        /\ mans' = IF req[t].live THEN mans \cup {<<req[t].image, req[t].digest>>} ELSE mans
        /\ UNCHANGED <<rows, file, repos, tag, sound, torn, regCrashes>>
    BY <1>4 DEF FallbackManifest, Finish, At
  <2>2. req[t].digest \in Blobs /\ (req[t].live => req[t].image \in repos)
    BY <1>1, <2>1 DEF Relies
  <2>3. mans' \in SUBSET (repos' \X (Manifests \cup Blobs)) /\ mans \subseteq mans'
    BY <1>1, <2>1, <2>2
  <2>4. req'[t] = RegistryIdle => Relies(req[t])'
    BY DEF Relies, RegistryIdle
  <2> QED
    BY <1>1, <2>1, <2>3, <2>4, IdleType, GrowStep DEF RegistryIdle
<1>5. CASE BeginCollect(t)
  <2> DEFINE r == [req[t] EXCEPT !.pc = "collect"]
  <2>1. /\ req' = [req EXCEPT ![t] = r] /\ req[t].pc = "idle"
        /\ UNCHANGED <<rows, file, repos, mans, tag, sound, torn, regCrashes>>
    BY <1>5 DEF BeginCollect, To, At
  <2>2. r \in ReqRows /\ r.pc = "collect" /\ r.todo = req[t].todo /\ r.linked = req[t].linked
    BY <1>1 DEF ReqRows, RegistryPCs
  <2>3. req'[t] = r => Relies(req[t])'
    BY <1>1, <2>1, <2>2 DEF Relies
  <2> HIDE DEF r
  <2> QED
    BY <1>1, <2>1, <2>2, <2>3, GrowStep
<1> QED
  BY <1>2, <1>3, <1>4, <1>5

\* A manifest counts as sound when its blobs are served and not condemned.
LEMMA StoreManifestKeepsInv ==
  ASSUME RegistryInv, NEW t \in Tasks, StoreManifest(t)
  PROVE  RegistryInv'
<1> DEFINE p == <<req[t].image, req[t].digest>>
<1>1. /\ req[t] \in ReqRows /\ Relies(req[t]) /\ repos \subseteq Images
      /\ mans \subseteq repos \X (Manifests \cup Blobs) /\ req \in [Tasks -> ReqRows]
      /\ req[t].pc = "manifest" /\ rows \subseteq Blobs
      /\ UNCHANGED <<rows, file, repos, tag, torn, regCrashes>>
  BY DEF RegistryInv, Tables, StoreManifest, At
<1>2. req[t].image \in Images /\ req[t].digest \in Manifests /\ (req[t].live => req[t].image \in repos)
  BY <1>1 DEF Relies
<1>3. CASE ~req[t].live
  <2>1. req' = [req EXCEPT ![t] = RegistryIdle] /\ UNCHANGED <<mans, sound>>
    BY <1>3 DEF StoreManifest, Finish
  <2>2. req'[t] = RegistryIdle => Relies(req[t])'
    BY DEF Relies, RegistryIdle
  <2> QED
    BY <1>1, <2>1, <2>2, IdleType, GrowStep DEF RegistryIdle
<1>4. CASE req[t].live
  <2> DEFINE r == [req[t] EXCEPT !.pc = "tag"]
  <2>1. /\ req' = [req EXCEPT ![t] = r] /\ mans' = mans \cup {p}
        /\ sound' = IF \A d \in LayersOf(p[2]) : ServesBlob(d) /\ ~Doomed(d)
                    THEN sound \cup {p} ELSE sound
    BY <1>4 DEF StoreManifest, To
  <2>2. /\ r \in ReqRows /\ r.pc = "tag" /\ r.image = req[t].image /\ r.digest = req[t].digest
        /\ r.todo = req[t].todo /\ r.linked = req[t].linked
    BY <1>1 DEF ReqRows, RegistryPCs
  <2> HIDE DEF r
  <2>3. /\ req' \in [Tasks -> ReqRows] /\ req'[t] = r
        /\ \A u \in Tasks \ {t} : req'[u] = req[u]
    BY <1>1, <2>1, <2>2
  <2>4. Tables'
    BY <1>1, <1>2, <1>4, <2>1, <2>3 DEF RegistryInv, Tables
  <2>5. Grows
    BY <1>1, <2>1 DEF Grows
  <2>6. ASSUME NEW u \in Tasks PROVE Relies(req[u])'
    <3>1. CASE u = t
      BY <1>1, <1>2, <1>4, <2>1, <2>2, <2>3, <3>1 DEF Relies
    <3>2. CASE u # t
      <4>1. \A q \in ReqRows : Relies(q) => Relies(q)'
        BY <2>5, OthersRely
      <4>2. req'[u] \in ReqRows /\ Relies(req'[u])
        BY <1>1, <2>3, <3>2 DEF RegistryInv
      <4> QED
        BY <4>1, <4>2 DEF Relies
    <3> QED
      BY <3>1, <3>2
  <2>7. TagResolves'
    BY <1>1, <2>1 DEF RegistryInv, TagResolves, ServesManifest, ResolveReference
  <2>8. ASSUME NEW d, Doomed(d)' PROVE Doomed(d)
    <3>1. \A u \in Tasks : Spares(u)
      BY <1>1, <2>2, <2>3 DEF Spares
    <3> QED
      BY <2>8, <3>1 DEF Doomed, Spares
  <2>9. Kept'
    <3>1. \A q \in sound' : \A d \in LayersOf(q[2]) : ServesBlob(d) /\ ~Doomed(d)
      BY <2>1 DEF RegistryInv, Kept
    <3> QED
      BY <1>1, <2>8, <3>1 DEF Kept, ServesBlob
  <2>10. CutOnlyByRestart'
    BY <1>1, <2>3 DEF RegistryInv, CutOnlyByRestart
  <2> QED
    BY <2>4, <2>6, <2>7, <2>9, <2>10 DEF RegistryInv
<1> QED
  BY <1>3, <1>4

LEMMA TagsKeepInv ==
  ASSUME RegistryInv, NEW t \in Tasks,
         StoreTag(t) \/ \E i \in Images : DeleteTag(t, i)
  PROVE  RegistryInv'
<1>1. /\ req[t] \in ReqRows /\ Relies(req[t]) /\ req \in [Tasks -> ReqRows]
      /\ tag \in [Images -> Manifests \cup {NoTag}]
      /\ UNCHANGED <<rows, file, repos, mans, sound, torn, regCrashes>>
  BY DEF RegistryInv, Tables, StoreTag, DeleteTag
<1>2. PICK r \in ReqRows :
        /\ req' = [req EXCEPT ![t] = r] /\ r.pc \in {"idle", "collect"} /\ ~r.linked
        /\ r.todo \subseteq req[t].todo /\ req[t].pc # "putting"
  <2>1. CASE StoreTag(t)
    <3>1. req' = [req EXCEPT ![t] = RegistryIdle] /\ req[t].pc = "tag"
      BY <2>1 DEF StoreTag, Finish, At
    <3>2. RegistryIdle.pc = "idle" /\ RegistryIdle.todo = {} /\ ~RegistryIdle.linked
      BY DEF RegistryIdle
    <3> QED
      BY <3>1, <3>2, IdleType
  <2>2. CASE \E i \in Images : DeleteTag(t, i)
    <3> DEFINE r == [req[t] EXCEPT !.pc = "collect"]
    <3>1. req' = [req EXCEPT ![t] = r] /\ req[t].pc = "idle"
      BY <2>2 DEF DeleteTag, At
    <3>2. r \in ReqRows /\ r.pc = "collect" /\ r.todo = req[t].todo /\ r.linked = req[t].linked
      BY <1>1 DEF ReqRows, RegistryPCs
    <3>3. ~req[t].linked
      BY <1>1, <3>1 DEF Relies, ReqRows
    <3> QED
      BY <3>1, <3>2, <3>3
  <2> QED
    BY <2>1, <2>2
<1>3. /\ req' \in [Tasks -> ReqRows] /\ req'[t] = r
      /\ \A u \in Tasks \ {t} : req'[u] = req[u]
  BY <1>1, <1>2
<1>4. Grows
  BY <1>1 DEF Grows
<1>5. /\ tag' \in [Images -> Manifests \cup {NoTag}]
      /\ TagResolves'
  <2>1. CASE StoreTag(t)
    <3>1. /\ tag' = IF req[t].live THEN [tag EXCEPT ![req[t].image] = req[t].digest] ELSE tag
          /\ req[t].image \in Images /\ req[t].digest \in Manifests
          /\ req[t].live => req[t].image \in repos /\ <<req[t].image, req[t].digest>> \in mans
      BY <1>1, <2>1 DEF StoreTag, At, Relies
    <3>2. \A i \in Images : tag'[i] # NoTag => i \in repos /\ <<i, tag'[i]>> \in mans
      BY <1>1, <3>1, TagOf DEF RegistryInv
    <3> QED
      BY <1>1, <3>1, <3>2, RegistryAssumption DEF TagResolves, ServesManifest, ResolveReference
  <2>2. CASE \E i \in Images : DeleteTag(t, i)
    <3>1. PICK i \in Images : tag' = [tag EXCEPT ![i] = NoTag]
      BY <2>2 DEF DeleteTag
    <3>2. \A j \in Images : tag'[j] # NoTag => j \in repos /\ <<j, tag'[j]>> \in mans
      BY <1>1, <3>1, TagOf DEF RegistryInv
    <3> QED
      BY <1>1, <3>1, <3>2, RegistryAssumption DEF TagResolves, ServesManifest, ResolveReference
  <2> QED
    BY <2>1, <2>2
<1>6. Tables'
  BY <1>1, <1>3, <1>5 DEF RegistryInv, Tables
<1>7. ASSUME NEW u \in Tasks PROVE Relies(req[u])'
  <2>1. CASE u = t
    BY <1>2, <1>3, <2>1 DEF Relies
  <2>2. CASE u # t
    <3>1. \A q \in ReqRows : Relies(q) => Relies(q)'
      BY <1>4, OthersRely
    <3>2. req'[u] \in ReqRows /\ Relies(req'[u])
      BY <1>1, <1>3, <2>2 DEF RegistryInv
    <3> QED
      BY <3>1, <3>2 DEF Relies
  <2> QED
    BY <2>1, <2>2
<1>8. Kept'
  <2>1. \A u \in Tasks : Spares(u)
    BY <1>1, <1>2, <1>3 DEF Spares
  <2> QED
    BY <1>1, <1>4, <2>1, StaysKept DEF Grows
<1>9. CutOnlyByRestart'
  BY <1>1, <1>2, <1>3 DEF RegistryInv, CutOnlyByRestart
<1> QED
  BY <1>5, <1>6, <1>7, <1>8, <1>9 DEF RegistryInv
-----------------------------------------------------------------------------
(* Files written *)

LEMMA BeginPutKeepsInv ==
  ASSUME RegistryInv, NEW t \in Tasks, BeginPut(t)
  PROVE  RegistryInv'
<1> DEFINE r == [req[t] EXCEPT !.pc = "putting", !.linked = TRUE]
<1>1. /\ req[t] \in ReqRows /\ Relies(req[t]) /\ req \in [Tasks -> ReqRows]
      /\ file \in [Blobs -> FileStates] /\ req[t].pc = "put"
      /\ file' = [file EXCEPT ![req[t].digest] = "partial"]
      /\ req' = [req EXCEPT ![t] = r]
      /\ UNCHANGED <<rows, repos, mans, tag, sound, torn, regCrashes>>
  BY DEF RegistryInv, Tables, BeginPut, At
<1>2. /\ r \in ReqRows /\ r.pc = "putting" /\ r.linked /\ r.digest = req[t].digest
      /\ r.image = req[t].image /\ r.todo = req[t].todo
  BY <1>1 DEF ReqRows, RegistryPCs
<1> HIDE DEF r
<1>3. req[t].digest \in Blobs /\ req[t].image \in Images
  BY <1>1 DEF Relies
<1>4. /\ req' \in [Tasks -> ReqRows] /\ req'[t] = r
      /\ \A u \in Tasks \ {t} : req'[u] = req[u]
  BY <1>1, <1>2
<1>5. /\ file' \in [Blobs -> FileStates] /\ file'[req[t].digest] = "partial"
      /\ \A d \in Blobs \ {req[t].digest} : file'[d] = file[d]
  BY <1>1, <1>3 DEF FileStates
<1>6. Grows
  BY <1>1, <1>5 DEF Grows
<1>7. Tables'
  BY <1>1, <1>4, <1>5 DEF RegistryInv, Tables
<1>8. ASSUME NEW u \in Tasks PROVE Relies(req[u])'
  <2>1. CASE u = t
    BY <1>2, <1>3, <1>4, <1>5, <2>1 DEF Relies
  <2>2. CASE u # t
    <3>1. \A q \in ReqRows : Relies(q) => Relies(q)'
      BY <1>6, OthersRely
    <3>2. req'[u] \in ReqRows /\ Relies(req'[u])
      BY <1>1, <1>4, <2>2 DEF RegistryInv
    <3> QED
      BY <3>1, <3>2 DEF Relies
  <2> QED
    BY <2>1, <2>2
<1>9. Kept'
  <2>1. \A u \in Tasks : Spares(u)
    BY <1>1, <1>2, <1>4 DEF Spares
  <2> QED
    BY <1>1, <1>6, <2>1, StaysKept DEF Grows
<1>10. TagResolves'
  BY <1>1 DEF RegistryInv, TagResolves, ServesManifest, ResolveReference
<1>11. CutOnlyByRestart'
  <2> SUFFICES ASSUME NEW d \in Blobs, file'[d] = "partial"
               PROVE  d \in torn' \/ \E u \in Tasks : req'[u].pc = "putting" /\ req'[u].linked
                                                      /\ req'[u].digest = d
    BY DEF CutOnlyByRestart
  <2>1. CASE d = req[t].digest
    BY <1>2, <1>4, <2>1
  <2>2. CASE d # req[t].digest
    BY <1>1, <1>4, <1>5, <2>2 DEF RegistryInv, CutOnlyByRestart
  <2> QED
    BY <2>1, <2>2
<1> QED
  BY <1>7, <1>8, <1>9, <1>10, <1>11 DEF RegistryInv

\* The bytes of a file removed under the writer go to no one.
LEMMA EndPutKeepsInv ==
  ASSUME RegistryInv, NEW t \in Tasks, EndPut(t)
  PROVE  RegistryInv'
<1> DEFINE r == [req[t] EXCEPT !.pc = "record", !.linked = FALSE]
<1>1. /\ req[t] \in ReqRows /\ Relies(req[t]) /\ req \in [Tasks -> ReqRows]
      /\ file \in [Blobs -> FileStates] /\ req[t].pc = "putting" /\ torn \subseteq Blobs
      /\ file' = [file EXCEPT ![req[t].digest] = IF req[t].linked THEN "whole" ELSE @]
      /\ torn' = IF req[t].linked THEN torn \ {req[t].digest} ELSE torn
      /\ req' = [req EXCEPT ![t] = r]
      /\ UNCHANGED <<rows, repos, mans, tag, sound, regCrashes>>
  BY DEF RegistryInv, Tables, EndPut, At
<1>2. /\ r \in ReqRows /\ r.pc = "record" /\ ~r.linked /\ r.digest = req[t].digest
      /\ r.image = req[t].image /\ r.todo = req[t].todo
  BY <1>1 DEF ReqRows, RegistryPCs
<1> HIDE DEF r
<1>3. req[t].digest \in Blobs /\ req[t].image \in Images
  BY <1>1 DEF Relies
<1>4. /\ req' \in [Tasks -> ReqRows] /\ req'[t] = r
      /\ \A u \in Tasks \ {t} : req'[u] = req[u]
  BY <1>1, <1>2
<1>5. /\ file' \in [Blobs -> FileStates]
      /\ file'[req[t].digest] = IF req[t].linked THEN "whole" ELSE file[req[t].digest]
      /\ \A d \in Blobs \ {req[t].digest} : file'[d] = file[d]
  BY <1>1, <1>3 DEF FileStates
<1>6. Grows
  BY <1>1, <1>5 DEF Grows
<1>7. Tables'
  BY <1>1, <1>4, <1>5 DEF RegistryInv, Tables
<1>8. ASSUME NEW u \in Tasks PROVE Relies(req[u])'
  <2>1. CASE u = t
    BY <1>2, <1>3, <1>4, <2>1 DEF Relies
  <2>2. CASE u # t
    <3>1. \A q \in ReqRows : Relies(q) => Relies(q)'
      BY <1>6, OthersRely
    <3>2. req'[u] \in ReqRows /\ Relies(req'[u])
      BY <1>1, <1>4, <2>2 DEF RegistryInv
    <3> QED
      BY <3>1, <3>2 DEF Relies
  <2> QED
    BY <2>1, <2>2
<1>9. Kept'
  <2>1. \A u \in Tasks : Spares(u)
    BY <1>1, <1>2, <1>4 DEF Spares
  <2> QED
    BY <1>1, <1>6, <2>1, StaysKept DEF Grows
<1>10. TagResolves'
  BY <1>1 DEF RegistryInv, TagResolves, ServesManifest, ResolveReference
<1>11. CutOnlyByRestart'
  <2> SUFFICES ASSUME NEW d \in Blobs, file'[d] = "partial"
               PROVE  d \in torn' \/ \E u \in Tasks : req'[u].pc = "putting" /\ req'[u].linked
                                                      /\ req'[u].digest = d
    BY DEF CutOnlyByRestart
  <2>1. file[d] = "partial" /\ (req[t].linked => d # req[t].digest)
    BY <1>5
  <2>2. CASE d \in torn
    BY <1>1, <2>1, <2>2
  <2>3. CASE \E u \in Tasks : req[u].pc = "putting" /\ req[u].linked /\ req[u].digest = d
    BY <1>4, <2>1, <2>3
  <2> QED
    BY <2>1, <2>2, <2>3 DEF RegistryInv, CutOnlyByRestart
<1> QED
  BY <1>7, <1>8, <1>9, <1>10, <1>11 DEF RegistryInv

-----------------------------------------------------------------------------
(* Deletion, collection and restart *)

\* A request under way for the image learns that its row is gone.
LEMMA DeleteImageKeepsInv ==
  ASSUME RegistryInv, NEW t \in Tasks, NEW i \in Images, DeleteImage(t, i)
  PROVE  RegistryInv'
<1> DEFINE c == [RegistryIdle EXCEPT !.pc = "collect"]
           Cut(u) == [req[u] EXCEPT !.live = FALSE]
<1>1. /\ req \in [Tasks -> ReqRows] /\ (\A u \in Tasks : req[u] \in ReqRows /\ Relies(req[u]))
      /\ req[t].pc = "idle" /\ tag \in [Images -> Manifests \cup {NoTag}]
      /\ repos' = repos \ {i} /\ mans' = {p \in mans : p[1] # i}
      /\ sound' = {p \in sound : p[1] # i} /\ tag' = [tag EXCEPT ![i] = NoTag]
      /\ req' = [u \in Tasks |-> IF u = t THEN c
                                 ELSE IF req[u].image = i THEN Cut(u) ELSE req[u]]
      /\ UNCHANGED <<rows, file, torn, regCrashes>>
  BY DEF RegistryInv, Tables, DeleteImage, At
<1>2. c \in ReqRows /\ c.pc = "collect" /\ ~c.linked /\ c.todo = {}
  BY DEF RegistryIdle, ReqRows, RegistryPCs, Uploads
<1>3. ASSUME NEW u \in Tasks
      PROVE  /\ Cut(u) \in ReqRows /\ ~Cut(u).live /\ Cut(u).pc = req[u].pc
             /\ Cut(u).linked = req[u].linked /\ Cut(u).digest = req[u].digest
             /\ Cut(u).image = req[u].image /\ Cut(u).todo = req[u].todo
             /\ Cut(u).refs = req[u].refs
  BY <1>1 DEF ReqRows
<1> HIDE DEF c, Cut
<1>4. ASSUME NEW u \in Tasks, u # t
      PROVE  /\ req'[u] \in ReqRows /\ req'[u].pc = req[u].pc
             /\ req'[u].linked = req[u].linked /\ req'[u].digest = req[u].digest
             /\ req'[u].image = req[u].image /\ req'[u].todo = req[u].todo
             /\ req'[u].refs = req[u].refs
             /\ req'[u].live => req[u].live /\ req[u].image # i
  BY <1>1, <1>3, <1>4
<1>5. req'[t] = c /\ req' \in [Tasks -> ReqRows]
  BY <1>1, <1>2, <1>4
<1>6. Tables'
  BY <1>1, <1>5 DEF RegistryInv, Tables
<1>7. ASSUME NEW u \in Tasks PROVE Relies(req[u])'
  <2>1. CASE u = t
    BY <1>2, <1>5, <2>1 DEF Relies
  <2>2. CASE u # t
    BY <1>1, <1>4, <2>2 DEF Relies
  <2> QED
    BY <2>1, <2>2
<1>8. Kept'
  <2>1. \A u \in Tasks : Spares(u)
    BY <1>1, <1>2, <1>4, <1>5 DEF Spares
  <2> QED
    BY <1>1, <2>1, StaysKept
<1>9. TagResolves'
  <2>1. \A j \in Images : tag'[j] # NoTag => j \in repos' /\ <<j, tag'[j]>> \in mans'
    BY <1>1, TagOf DEF RegistryInv
  <2> QED
    BY <1>1, <2>1, RegistryAssumption DEF TagResolves, ServesManifest, ResolveReference
<1>10. CutOnlyByRestart'
  BY <1>1, <1>4 DEF RegistryInv, CutOnlyByRestart
<1> QED
  BY <1>6, <1>7, <1>8, <1>9, <1>10 DEF RegistryInv

\* A collection works on its own row until it removes a file.
LEMMA ReadStep ==
  ASSUME RegistryInv, NEW t \in Tasks, NEW r \in ReqRows,
         req' = [req EXCEPT ![t] = r], rows' \in SUBSET rows,
         UNCHANGED <<file, repos, mans, tag, sound, torn, regCrashes>>,
         r.pc \in {"list", "sweep"}, ~r.linked, req[t].pc # "putting", Kept'
  PROVE  RegistryInv'
<1>1. req \in [Tasks -> ReqRows] /\ rows \subseteq Blobs
  BY DEF RegistryInv, Tables
<1>2. /\ req' \in [Tasks -> ReqRows] /\ req'[t] = r
      /\ \A u \in Tasks \ {t} : req'[u] = req[u]
  BY <1>1
<1>3. Tables'
  BY <1>1, <1>2 DEF RegistryInv, Tables
<1>4. ASSUME NEW u \in Tasks PROVE Relies(req[u])'
  <2>1. CASE u = t
    BY <1>2, <2>1 DEF Relies
  <2>2. CASE u # t
    <3>1. Relies(req[u]) /\ req'[u] = req[u]
      BY <1>2, <2>2 DEF RegistryInv
    <3> QED
      BY <3>1 DEF Relies
  <2> QED
    BY <2>1, <2>2
<1>5. TagResolves'
  BY DEF RegistryInv, TagResolves, ServesManifest, ResolveReference
<1>6. CutOnlyByRestart'
  BY <1>2 DEF RegistryInv, CutOnlyByRestart
<1> QED
  BY <1>3, <1>4, <1>5, <1>6 DEF RegistryInv

\* What the manifests name is not condemned, and what is to do was condemned
\* when the blobs were listed.
LEMMA ReadsKeepInv ==
  ASSUME RegistryInv, NEW t \in Tasks, ReadReferences(t) \/ ListBlobs(t) \/ SweepRow(t)
  PROVE  RegistryInv'
<1>1. /\ req[t] \in ReqRows /\ Relies(req[t]) /\ req \in [Tasks -> ReqRows] /\ rows \subseteq Blobs
      /\ mans \subseteq repos \X (Manifests \cup Blobs)
      /\ sound \subseteq mans \cap (Images \X Manifests)
      /\ UNCHANGED <<file, repos, mans, tag, sound, torn, regCrashes>>
  BY DEF RegistryInv, Tables, ReadReferences, ListBlobs, SweepRow
<1>2. ASSUME NEW p \in sound, NEW d \in LayersOf(p[2]) PROVE ServesBlob(d) /\ ~Doomed(d)
  BY DEF RegistryInv, Kept
<1>3. CASE ReadReferences(t)
  <2> DEFINE r == [req[t] EXCEPT !.pc = "list", !.refs = Referenced]
  <2>1. /\ req' = [req EXCEPT ![t] = r] /\ req[t].pc = "collect" /\ rows' = rows
    BY <1>1, <1>3 DEF ReadReferences, At
  <2>2. Referenced \subseteq Blobs
    <3>1. \A p \in mans : p[2] \in Manifests \cup Blobs
      BY <1>1
    <3> QED
      BY <3>1, NamesAreBlobs DEF Referenced
  <2>3. /\ r \in ReqRows /\ r.pc = "list" /\ r.refs = Referenced /\ r.todo = req[t].todo
        /\ r.linked = req[t].linked
    BY <1>1, <2>2 DEF ReqRows, RegistryPCs
  <2> HIDE DEF r
  <2>4. req'[t] = r /\ \A u \in Tasks \ {t} : req'[u] = req[u]
    BY <1>1, <2>1
  <2>5. ~r.linked
    BY <1>1, <2>1, <2>3 DEF Relies, ReqRows
  <2>6. Kept'
    <3> SUFFICES ASSUME NEW p \in sound, NEW d \in LayersOf(p[2])
                 PROVE  ServesBlob(d)' /\ ~Doomed(d)'
      BY <1>1 DEF Kept
    <3>1. d \in Referenced
      <4>1. p \in mans /\ p[2] \in Manifests
        BY <1>1
      <4> QED
        BY <4>1 DEF Referenced, Names
    <3>2. ServesBlob(d) /\ ~Doomed(d)
      BY <1>2
    <3>3. ServesBlob(d)'
      BY <1>1, <2>1, <3>2 DEF ServesBlob
    <3>4. ~Doomed(d)'
      BY <2>3, <2>4, <3>1, <3>2 DEF Doomed
    <3> QED
      BY <3>3, <3>4
  <2> QED
    BY <1>1, <2>1, <2>3, <2>5, <2>6, ReadStep
<1>4. CASE ListBlobs(t)
  <2> DEFINE r == [req[t] EXCEPT !.pc = "sweep", !.todo = rows \ req[t].refs, !.refs = {}]
  <2>1. /\ req' = [req EXCEPT ![t] = r] /\ req[t].pc = "list" /\ rows' = rows
    BY <1>1, <1>4 DEF ListBlobs, At
  <2>2. /\ r \in ReqRows /\ r.pc = "sweep" /\ r.todo = rows \ req[t].refs
        /\ r.linked = req[t].linked
    BY <1>1 DEF ReqRows, RegistryPCs
  <2> HIDE DEF r
  <2>3. req'[t] = r /\ \A u \in Tasks \ {t} : req'[u] = req[u]
    BY <1>1, <2>1
  <2>4. ~r.linked
    BY <1>1, <2>1, <2>2 DEF Relies, ReqRows
  <2>5. Kept'
    <3> SUFFICES ASSUME NEW p \in sound, NEW d \in LayersOf(p[2])
                 PROVE  ServesBlob(d)' /\ ~Doomed(d)'
      BY <1>1 DEF Kept
    <3>1. ServesBlob(d) /\ ~Doomed(d)
      BY <1>2
    <3>2. ServesBlob(d)'
      BY <1>1, <2>1, <3>1 DEF ServesBlob
    <3>3. ~Doomed(d)'
      BY <2>1, <2>2, <2>3, <3>1 DEF Doomed
    <3> QED
      BY <3>2, <3>3
  <2> QED
    BY <1>1, <2>1, <2>2, <2>4, <2>5, ReadStep
<1>5. CASE SweepRow(t)
  <2> DEFINE r == [req[t] EXCEPT !.pc = "sweep", !.todo = @ \ {req[t].digest}, !.digest = Nobody]
  <2>1. /\ req' = [req EXCEPT ![t] = r] /\ req[t].pc = "sweepRow"
        /\ rows' = rows \ {req[t].digest}
    BY <1>1, <1>5 DEF SweepRow, At
  <2>2. /\ r \in ReqRows /\ r.pc = "sweep" /\ r.todo = req[t].todo \ {req[t].digest}
        /\ r.linked = req[t].linked
    BY <1>1 DEF ReqRows, RegistryPCs
  <2> HIDE DEF r
  <2>3. req'[t] = r /\ \A u \in Tasks \ {t} : req'[u] = req[u]
    BY <1>1, <2>1
  <2>4. ~r.linked /\ req[t].digest \in req[t].todo
    BY <1>1, <2>1, <2>2 DEF Relies, ReqRows
  <2>5. Kept'
    <3> SUFFICES ASSUME NEW p \in sound, NEW d \in LayersOf(p[2])
                 PROVE  ServesBlob(d)' /\ ~Doomed(d)'
      BY <1>1 DEF Kept
    <3>1. ServesBlob(d) /\ ~Doomed(d)
      BY <1>2
    <3>2. d # req[t].digest
      BY <2>4, <3>1 DEF Doomed
    <3>3. ServesBlob(d)'
      BY <1>1, <2>1, <3>1, <3>2 DEF ServesBlob
    <3>4. ~Doomed(d)'
      BY <2>1, <2>2, <2>3, <3>1 DEF Doomed
    <3> QED
      BY <3>3, <3>4
  <2> QED
    BY <1>1, <2>1, <2>2, <2>4, <2>5, ReadStep
<1> QED
  BY <1>3, <1>4, <1>5

\* A file goes that was condemned; whoever writes it writes into nothing.
LEMMA SweepFileKeepsInv ==
  ASSUME RegistryInv, NEW t \in Tasks, SweepFile(t)
  PROVE  RegistryInv'
<1>1. /\ req \in [Tasks -> ReqRows] /\ (\A u \in Tasks : req[u] \in ReqRows /\ Relies(req[u]))
      /\ req[t].pc = "sweep" /\ file \in [Blobs -> FileStates] /\ torn \subseteq Blobs
      /\ UNCHANGED <<rows, repos, mans, tag, sound, regCrashes>>
  BY DEF RegistryInv, Tables, SweepFile, At
<1> DEFINE Swept(d) == [req[t] EXCEPT !.pc = "sweepRow", !.digest = d]
           Unlinked(u) == [req[u] EXCEPT !.linked = FALSE]
<1>2. PICK d \in req[t].todo :
        /\ file' = [file EXCEPT ![d] = "none"] /\ torn' = torn \ {d}
        /\ req' = [u \in Tasks |-> IF u = t THEN Swept(d)
                                   ELSE IF req[u].digest = d THEN Unlinked(u) ELSE req[u]]
  BY DEF SweepFile
<1>3. d \in Blobs /\ ~req[t].linked
  BY <1>1, <1>2 DEF ReqRows, Relies
<1>4. /\ Swept(d) \in ReqRows /\ Swept(d).pc = "sweepRow" /\ Swept(d).digest = d
      /\ Swept(d).todo = req[t].todo /\ Swept(d).linked = req[t].linked
  BY <1>1, <1>3 DEF ReqRows, RegistryPCs
<1>5. ASSUME NEW u \in Tasks
      PROVE  /\ Unlinked(u) \in ReqRows /\ ~Unlinked(u).linked /\ Unlinked(u).pc = req[u].pc
             /\ Unlinked(u).live = req[u].live /\ Unlinked(u).digest = req[u].digest
             /\ Unlinked(u).image = req[u].image /\ Unlinked(u).todo = req[u].todo
             /\ Unlinked(u).refs = req[u].refs
  BY <1>1 DEF ReqRows
<1> HIDE DEF Swept, Unlinked
<1>6. ASSUME NEW u \in Tasks, u # t
      PROVE  /\ req'[u] \in ReqRows /\ req'[u].pc = req[u].pc
             /\ req'[u].live = req[u].live /\ req'[u].digest = req[u].digest
             /\ req'[u].image = req[u].image /\ req'[u].todo = req[u].todo
             /\ req'[u].refs = req[u].refs
             /\ req'[u].linked => req[u].linked /\ req[u].digest # d
             /\ req[u].linked /\ req[u].digest # d => req'[u].linked
  BY <1>1, <1>2, <1>5, <1>6
<1>7. req'[t] = Swept(d) /\ req' \in [Tasks -> ReqRows]
  BY <1>1, <1>2, <1>4, <1>6
<1>8. /\ file' \in [Blobs -> FileStates] /\ file'[d] = "none"
      /\ \A e \in Blobs \ {d} : file'[e] = file[e]
  BY <1>1, <1>2, <1>3 DEF FileStates
<1>9. Tables'
  BY <1>1, <1>2, <1>7, <1>8 DEF RegistryInv, Tables
<1>10. ASSUME NEW u \in Tasks PROVE Relies(req[u])'
  <2>1. CASE u = t
    BY <1>2, <1>3, <1>4, <1>7, <2>1 DEF Relies
  <2>2. CASE u # t
    BY <1>1, <1>6, <1>8, <2>2 DEF Relies
  <2> QED
    BY <2>1, <2>2
<1>11. Kept'
  <2> SUFFICES ASSUME NEW p \in sound, NEW e \in LayersOf(p[2])
               PROVE  ServesBlob(e)' /\ ~Doomed(e)'
    BY <1>1 DEF Kept
  <2>1. ServesBlob(e) /\ ~Doomed(e) /\ e \in Blobs
    BY DEF RegistryInv, Kept, Tables, ServesBlob
  <2>2. e # d
    BY <1>2, <2>1 DEF Doomed
  <2>3. ServesBlob(e)'
    BY <1>1, <1>8, <2>1, <2>2 DEF ServesBlob
  <2>4. ~Doomed(e)'
    <3>1. \A u \in Tasks : Spares(u)
      BY <1>4, <1>6, <1>7 DEF Spares
    <3> QED
      BY <2>1, <3>1 DEF Doomed, Spares
  <2> QED
    BY <2>3, <2>4
<1>12. TagResolves'
  BY <1>1 DEF RegistryInv, TagResolves, ServesManifest, ResolveReference
<1>13. CutOnlyByRestart'
  <2> SUFFICES ASSUME NEW e \in Blobs, file'[e] = "partial"
               PROVE  e \in torn' \/ \E u \in Tasks : req'[u].pc = "putting" /\ req'[u].linked
                                                      /\ req'[u].digest = e
    BY DEF CutOnlyByRestart
  <2>1. e # d /\ file[e] = "partial"
    BY <1>8
  <2>2. CASE e \in torn
    BY <1>2, <2>1, <2>2
  <2>3. CASE \E u \in Tasks : req[u].pc = "putting" /\ req[u].linked /\ req[u].digest = e
    BY <1>1, <1>6, <2>1, <2>3
  <2> QED
    BY <2>1, <2>2, <2>3 DEF RegistryInv, CutOnlyByRestart
<1> QED
  BY <1>9, <1>10, <1>11, <1>12, <1>13 DEF RegistryInv

\* A collection that ends takes old upload files with it, and nothing else.
LEMMA EndCollectKeepsInv ==
  ASSUME RegistryInv, NEW t \in Tasks, EndCollect(t)
  PROVE  RegistryInv'
<1>1. /\ req \in [Tasks -> ReqRows] /\ (\A u \in Tasks : req[u] \in ReqRows /\ Relies(req[u]))
      /\ req[t].pc = "sweep" /\ req[t].todo = {}
      /\ UNCHANGED <<rows, file, repos, mans, tag, sound, torn, regCrashes>>
  BY DEF RegistryInv, Tables, EndCollect, At
<1> DEFINE Stale(u) == [req[u] EXCEPT !.upload = "none"]
<1>2. PICK stale \in SUBSET {u \in Clients : req[u].pc = "open"} :
        req' = [u \in Tasks |-> IF u = t THEN RegistryIdle
                                ELSE IF u \in stale THEN Stale(u) ELSE req[u]]
  BY DEF EndCollect
<1>3. ASSUME NEW u \in Tasks
      PROVE  /\ Stale(u) \in ReqRows /\ Stale(u).pc = req[u].pc
             /\ Stale(u).live = req[u].live /\ Stale(u).digest = req[u].digest
             /\ Stale(u).image = req[u].image /\ Stale(u).todo = req[u].todo
             /\ Stale(u).refs = req[u].refs /\ Stale(u).linked = req[u].linked
  BY <1>1 DEF ReqRows, Uploads
<1> HIDE DEF Stale
<1>4. ASSUME NEW u \in Tasks, u # t
      PROVE  /\ req'[u] \in ReqRows /\ req'[u].pc = req[u].pc
             /\ req'[u].live = req[u].live /\ req'[u].digest = req[u].digest
             /\ req'[u].image = req[u].image /\ req'[u].todo = req[u].todo
             /\ req'[u].refs = req[u].refs /\ req'[u].linked = req[u].linked
  BY <1>1, <1>2, <1>3, <1>4
<1>5. req'[t] = RegistryIdle /\ req' \in [Tasks -> ReqRows]
  BY <1>1, <1>2, <1>4, IdleType
<1>6. RegistryIdle.pc = "idle" /\ ~RegistryIdle.linked /\ RegistryIdle.todo = {}
  BY DEF RegistryIdle
<1>7. Tables'
  BY <1>1, <1>5 DEF RegistryInv, Tables
<1>8. ASSUME NEW u \in Tasks PROVE Relies(req[u])'
  <2>1. CASE u = t
    BY <1>5, <1>6, <2>1 DEF Relies
  <2>2. CASE u # t
    BY <1>1, <1>4, <2>2 DEF Relies
  <2> QED
    BY <2>1, <2>2
<1>9. Kept'
  <2>1. \A u \in Tasks : Spares(u)
    BY <1>4, <1>5, <1>6 DEF Spares
  <2> QED
    BY <1>1, <2>1, StaysKept
<1>10. TagResolves'
  BY <1>1 DEF RegistryInv, TagResolves, ServesManifest, ResolveReference
<1>11. CutOnlyByRestart'
  BY <1>1, <1>4 DEF RegistryInv, CutOnlyByRestart
<1> QED
  BY <1>7, <1>8, <1>9, <1>10, <1>11 DEF RegistryInv

\* A restart forgets the requests under way; what they were writing is torn.
LEMMA CrashKeepsInv ==
  ASSUME RegistryInv, RegistryCrash
  PROVE  RegistryInv'
<1>1. /\ req \in [Tasks -> ReqRows] /\ (\A u \in Tasks : req[u] \in ReqRows /\ Relies(req[u]))
      /\ regCrashes \in 0..MaxRegistryCrashes /\ torn \subseteq Blobs
      /\ regCrashes < MaxRegistryCrashes /\ regCrashes' = regCrashes + 1
      /\ torn' = torn \cup {req[u].digest : u \in {v \in Tasks : req[v].pc = "putting" /\ req[v].linked}}
      /\ req' = [u \in Tasks |-> IF req[u].pc = "open" THEN req[u] ELSE RegistryIdle]
      /\ UNCHANGED <<rows, file, repos, mans, tag, sound>>
  BY DEF RegistryInv, Tables, RegistryCrash
<1>2. RegistryIdle.pc = "idle" /\ ~RegistryIdle.linked /\ RegistryIdle.todo = {}
  BY DEF RegistryIdle
<1>3. torn' \subseteq Blobs
  BY <1>1 DEF Relies
<1>4. regCrashes' \in 0..MaxRegistryCrashes
  BY <1>1, RegistryAssumption
<1>5. req' \in [Tasks -> ReqRows]
  BY <1>1, IdleType
<1>6. Tables'
  BY <1>1, <1>3, <1>4, <1>5 DEF RegistryInv, Tables
<1>7. ASSUME NEW u \in Tasks PROVE Relies(req[u])'
  <2>1. CASE req[u].pc = "open"
    BY <1>1, <2>1 DEF Relies
  <2>2. CASE req[u].pc # "open"
    BY <1>1, <1>2, <2>2 DEF Relies
  <2> QED
    BY <2>1, <2>2
<1>8. Kept'
  <2>1. \A u \in Tasks : Spares(u)
    BY <1>1, <1>2 DEF Spares
  <2> QED
    BY <1>1, <2>1, StaysKept
<1>9. TagResolves'
  BY <1>1 DEF RegistryInv, TagResolves, ServesManifest, ResolveReference
<1>10. CutOnlyByRestart'
  BY <1>1 DEF RegistryInv, CutOnlyByRestart
<1> QED
  BY <1>6, <1>7, <1>8, <1>9, <1>10 DEF RegistryInv

-----------------------------------------------------------------------------
(* The theorems *)

LEMMA CollectorsKeepInv ==
  ASSUME RegistryInv, NEW t \in Tasks, CollectorStep(t)
  PROVE  RegistryInv'
BY ReadsKeepInv, SweepFileKeepsInv, EndCollectKeepsInv DEF CollectorStep

LEMMA ClientsKeepInv ==
  ASSUME RegistryInv, NEW t \in Tasks, ClientStep(t)
  PROVE  RegistryInv'
<1>1. CASE \/ \E i \in Images, d \in Blobs, mono \in BOOLEAN : StartUpload(t, i, d, mono)
           \/ PatchUpload(t) \/ CompleteUpload(t) \/ AbandonUpload(t) \/ RecordBlob(t)
  BY <1>1, UploadsKeepInv
<1>2. CASE \/ \E i \in Images, m \in Manifests : StartManifest(t, i, m)
           \/ TakeRepo(t) \/ FallbackManifest(t)
  BY <1>2, PushesKeepInv
<1>3. CASE BeginPut(t) \/ EndPut(t) \/ StoreManifest(t)
  BY <1>3, BeginPutKeepsInv, EndPutKeepsInv, StoreManifestKeepsInv
<1>4. CASE StoreTag(t) \/ \E i \in Images : DeleteTag(t, i)
  BY <1>4, TagsKeepInv
<1>5. CASE \E i \in Images : DeleteImage(t, i)
  BY <1>5, DeleteImageKeepsInv
<1> QED
  BY <1>1, <1>2, <1>3, <1>4, <1>5 DEF ClientStep

LEMMA StepKeepsInv == RegistryInv /\ [RegistryNext]_registryVars => RegistryInv'
<1> SUFFICES ASSUME RegistryInv, [RegistryNext]_registryVars PROVE RegistryInv'
  OBVIOUS
<1>1. CASE \E t \in Clients : ClientStep(t) \/ CollectorStep(t)
  BY <1>1, ClientsKeepInv, CollectorsKeepInv DEF Tasks
<1>2. CASE \E t \in Collectors : BeginCollect(t) \/ CollectorStep(t)
  BY <1>2, PushesKeepInv, CollectorsKeepInv DEF Tasks
<1>3. CASE RegistryCrash
  BY <1>3, CrashKeepsInv
<1>4. CASE UNCHANGED registryVars
  BY <1>4 DEF registryVars, RegistryInv, Tables, Relies, TagResolves, ServesManifest,
              ResolveReference, Kept, ServesBlob, Doomed, CutOnlyByRestart
<1> QED
  BY <1>1, <1>2, <1>3, <1>4 DEF RegistryNext

LEMMA RegistryIsInv == RegistrySpec => []RegistryInv
BY RegistryInitial, StepKeepsInv, PTL DEF RegistrySpec

\* Requests work on known images, blobs and manifests whatever the pushes,
\* deletions, collections and restarts (routes/v2.rs, gc.rs).
THEOREM RegistryTyped == RegistrySpec => []RegistryTypeOK
BY RegistryIsInv, InvGivesType, PTL

\* A pull by tag never finds a tag without its manifest: put_manifest writes the
\* manifest first, and the image's row takes both with it (get_manifest).
THEOREM TagsResolve == RegistrySpec => []TagResolves
<1>1. RegistryInv => TagResolves
  BY DEF RegistryInv
<1> QED
  BY <1>1, RegistryIsInv, PTL

\* Tags resolve, an image complete and uncondemned when it was stored keeps its
\* blobs, and only a restart leaves a file cut short (run_gc, LocalBackend::put).
THEOREM StoreIsSound == RegistrySpec => []StoreSound
<1>1. RegistryInv => StoreSound
  BY DEF RegistryInv, Kept, StoreSound, SoundImageKept
<1> QED
  BY <1>1, RegistryIsInv, PTL
-----------------------------------------------------------------------------
(* The registry implements the image store. *)

CollectPCs == {"list", "sweep", "sweepRow"}
\* Only a sweep has blobs to do.
TodoIsSwept == \A t \in Tasks : req[t].todo # {} => req[t].pc \in {"sweep", "sweepRow"}

LEMMA TodoInitially == RegistryInit => TodoIsSwept
BY DEF RegistryInit, RegistryIdle, TodoIsSwept

\* One request moves on, the others keep their place and what is to do.
LEMMA TodoStep ==
  ASSUME RegistryInv, TodoIsSwept, NEW t \in Tasks,
         req' \in [Tasks -> ReqRows],
         \A u \in Tasks \ {t} : req'[u].pc = req[u].pc /\ req'[u].todo = req[u].todo,
         req'[t].todo # {} => req'[t].pc \in {"sweep", "sweepRow"}
  PROVE  TodoIsSwept'
BY DEF TodoIsSwept

LEMMA SamePlaces ==
  ASSUME \A u \in Tasks : req'[u].pc \in CollectPCs <=> req[u].pc \in CollectPCs
  PROVE  collectorRuns' = collectorRuns
<1>1. collectorRuns' <=> collectorRuns
  BY DEF collectorRuns, CollectPCs
<1>2. collectorRuns \in BOOLEAN /\ collectorRuns' \in BOOLEAN
  BY DEF collectorRuns
<1> QED
  BY <1>1, <1>2

LEMMA ImagesInitial == RegistryInit => Store!Init
<1> SUFFICES ASSUME RegistryInit PROVE Store!Init
  OBVIOUS
<1>1. storedImages = {} /\ completeImages = {}
  BY DEF RegistryInit, storedImages, completeImages
<1>2. ~collectorRuns
  BY DEF RegistryInit, RegistryIdle, collectorRuns
<1>3. collectorRuns = FALSE
  BY <1>2 DEF collectorRuns
<1> QED
  BY <1>1, <1>3 DEF RegistryInit, Store!Init

LEMMA SameBlobs ==
  ASSUME UNCHANGED <<mans, rows, file>>
  PROVE  UNCHANGED <<storedImages, completeImages>>
BY DEF storedImages, completeImages, ServesBlob

LEMMA MoreBlobs ==
  ASSUME UNCHANGED mans, rows \subseteq rows',
         \A d \in Blobs : file[d] # "none" => file'[d] # "none"
  PROVE  /\ storedImages' = storedImages
         /\ completeImages \subseteq completeImages' /\ completeImages' \subseteq storedImages
<1>1. storedImages' = storedImages
  BY DEF storedImages
<1>2. \A p \in storedImages : LayersOf(p[2]) \subseteq Blobs
  BY RegistryAssumption DEF storedImages
<1>3. ASSUME NEW d \in Blobs, ServesBlob(d) PROVE ServesBlob(d)'
  BY <1>3 DEF ServesBlob
<1> QED
  BY <1>1, <1>2, <1>3 DEF completeImages

LEMMA FewerBlobs ==
  ASSUME UNCHANGED mans, rows' \subseteq rows,
         \A d \in Blobs : file'[d] # "none" => file[d] # "none"
  PROVE  /\ storedImages' = storedImages /\ completeImages' \subseteq completeImages
<1>1. storedImages' = storedImages
  BY DEF storedImages
<1>2. \A p \in storedImages : LayersOf(p[2]) \subseteq Blobs
  BY RegistryAssumption DEF storedImages
<1>3. ASSUME NEW d \in Blobs, ServesBlob(d)' PROVE ServesBlob(d)
  BY <1>3 DEF ServesBlob
<1> QED
  BY <1>1, <1>2, <1>3 DEF completeImages

LEMMA PromisedAreComplete == RegistryInv => sound \subseteq completeImages
BY DEF RegistryInv, Tables, Kept, completeImages, storedImages

\* Clients see nothing of a request's own progress.
LEMMA QuietImplements ==
  ASSUME UNCHANGED <<rows, file, repos, mans, tag, sound>>,
         \A u \in Tasks : req'[u].pc \in CollectPCs <=> req[u].pc \in CollectPCs
  PROVE  UNCHANGED Store!storeVars
BY SameBlobs, SamePlaces DEF Store!storeVars

LEMMA QuietSteps ==
  ASSUME RegistryInv, NEW t \in Tasks,
         \/ PatchUpload(t) \/ CompleteUpload(t) \/ AbandonUpload(t) \/ BeginCollect(t)
         \/ \E i \in Images, m \in Manifests : StartManifest(t, i, m)
  PROVE  UNCHANGED Store!storeVars
<1>1. req \in [Tasks -> ReqRows]
  BY DEF RegistryInv, Tables
<1>2. UNCHANGED <<rows, file, repos, mans, tag, sound>>
  BY DEF PatchUpload, CompleteUpload, AbandonUpload, BeginCollect, StartManifest
<1>3. req[t].pc \in {"open", "idle"} /\ \A u \in Tasks \ {t} : req'[u] = req[u]
  BY <1>1 DEF PatchUpload, CompleteUpload, AbandonUpload, BeginCollect, StartManifest,
              At, To, Finish
<1>4. req'[t].pc \notin CollectPCs
  <2>1. CASE PatchUpload(t)
    BY <1>1, <2>1 DEF PatchUpload, At, CollectPCs, ReqRows
  <2>2. CASE CompleteUpload(t)
    BY <1>1, <2>2 DEF CompleteUpload, At, CollectPCs, ReqRows
  <2>3. CASE AbandonUpload(t) \/ BeginCollect(t)
    BY <1>1, <2>3 DEF AbandonUpload, BeginCollect, Finish, To, RegistryIdle, CollectPCs, ReqRows
  <2>4. CASE \E i \in Images, m \in Manifests : StartManifest(t, i, m)
    <3>1. PICK i \in Images, m \in Manifests : StartManifest(t, i, m)
      BY <2>4
    <3>2. req'[t] = [RegistryIdle EXCEPT !.pc = "manifestRepo", !.image = i, !.digest = m]
      BY <1>1, <3>1 DEF StartManifest
    <3>3. req'[t].pc = "manifestRepo"
      BY <3>2 DEF RegistryIdle
    <3> QED
      BY <3>3 DEF CollectPCs
  <2> QED
    BY <2>1, <2>2, <2>3, <2>4
<1>5. \A u \in Tasks : req'[u].pc \in CollectPCs <=> req[u].pc \in CollectPCs
  BY <1>3, <1>4 DEF CollectPCs
<1> QED
  BY <1>2, <1>5, QuietImplements

LEMMA CreateSteps ==
  ASSUME RegistryInv, NEW t \in Tasks,
         \/ TakeRepo(t)
         \/ \E i \in Images, d \in Blobs, mono \in BOOLEAN : StartUpload(t, i, d, mono)
  PROVE  Store!Next
<1>1. req \in [Tasks -> ReqRows] /\ Relies(req[t])
  BY DEF RegistryInv, Tables
<1>2. UNCHANGED <<rows, file, mans, tag, sound>>
  BY DEF TakeRepo, StartUpload
<1>3. \E i \in Images : CreateRepo(i)
  BY <1>1 DEF TakeRepo, StartUpload, At, Relies
<1>4. \A u \in Tasks : req'[u].pc \in CollectPCs <=> req[u].pc \in CollectPCs
  <2>1. CASE TakeRepo(t)
    BY <1>1, <2>1 DEF TakeRepo, At, CollectPCs, ReqRows
  <2>2. CASE \E i \in Images, d \in Blobs, mono \in BOOLEAN : StartUpload(t, i, d, mono)
    <3>1. PICK i \in Images, d \in Blobs, mono \in BOOLEAN : StartUpload(t, i, d, mono)
      BY <2>2
    <3>2. /\ req'[t] = [RegistryIdle EXCEPT !.pc = IF mono THEN "put" ELSE "open",
                                           !.image = i, !.digest = d, !.mono = mono]
          /\ req[t].pc = "idle" /\ \A u \in Tasks \ {t} : req'[u] = req[u]
      BY <1>1, <3>1 DEF StartUpload, At
    <3>3. req'[t].pc \in {"put", "open"}
      BY <3>2 DEF RegistryIdle
    <3> QED
      BY <3>2, <3>3 DEF CollectPCs
  <2> QED
    BY <2>1, <2>2
<1>5. UNCHANGED <<storedImages, completeImages, collectorRuns>>
  BY <1>2, <1>4, SameBlobs, SamePlaces
<1> QED
  BY <1>2, <1>3, <1>5 DEF Store!Next, Store!Create, CreateRepo

\* A blob's file and then its row arrive.
LEMMA ArriveSteps ==
  ASSUME RegistryInv, NEW t \in Tasks, BeginPut(t) \/ EndPut(t) \/ RecordBlob(t)
  PROVE  Store!Next
<1>1. /\ req \in [Tasks -> ReqRows] /\ file \in [Blobs -> FileStates]
      /\ UNCHANGED <<repos, mans, tag, sound>>
  BY DEF RegistryInv, Tables, BeginPut, EndPut, RecordBlob
<1>2. rows \subseteq rows' /\ \A d \in Blobs : file[d] # "none" => file'[d] # "none"
  BY <1>1 DEF BeginPut, EndPut, RecordBlob
<1>3. \A u \in Tasks : req'[u].pc \in CollectPCs <=> req[u].pc \in CollectPCs
  <2>1. CASE BeginPut(t) \/ EndPut(t)
    BY <1>1, <2>1 DEF BeginPut, EndPut, At, CollectPCs, ReqRows
  <2>2. CASE RecordBlob(t)
    BY <1>1, <2>2 DEF RecordBlob, At, To, Finish, RegistryIdle, CollectPCs, ReqRows
  <2> QED
    BY <2>1, <2>2
<1>4. collectorRuns' = collectorRuns
  BY <1>3, SamePlaces
<1>5. /\ storedImages' = storedImages
      /\ completeImages \subseteq completeImages' /\ completeImages' \subseteq storedImages
  BY <1>1, <1>2, MoreBlobs
<1> QED
  BY <1>1, <1>4, <1>5 DEF Store!Next, Store!Arrive

\* The row complete_upload writes under a blob's digest is no image's manifest.
LEMMA FallbackStep ==
  ASSUME RegistryInv, NEW t \in Tasks, FallbackManifest(t)
  PROVE  UNCHANGED Store!storeVars
<1>1. /\ req \in [Tasks -> ReqRows] /\ UNCHANGED <<rows, file, repos, tag, sound>>
      /\ req[t].digest \in Blobs
  BY DEF RegistryInv, Tables, FallbackManifest, At, Relies
<1>2. storedImages' = storedImages
  BY <1>1, RegistryAssumption DEF FallbackManifest, storedImages
<1>3. completeImages' = completeImages
  BY <1>1, <1>2 DEF completeImages, ServesBlob
<1>4. \A u \in Tasks : req'[u].pc \in CollectPCs <=> req[u].pc \in CollectPCs
  BY <1>1 DEF FallbackManifest, At, Finish, RegistryIdle, CollectPCs, ReqRows
<1>5. collectorRuns' = collectorRuns
  BY <1>4, SamePlaces
<1> QED
  BY <1>1, <1>2, <1>3, <1>5 DEF Store!storeVars

\* While no collection runs, no blob is condemned.
LEMMA NothingDoomed ==
  ASSUME TodoIsSwept, ~collectorRuns, NEW d
  PROVE  ~Doomed(d)
BY DEF TodoIsSwept, collectorRuns, Doomed

LEMMA PushStep ==
  ASSUME RegistryInv, RegistryInv', TodoIsSwept, NEW t \in Tasks, StoreManifest(t)
  PROVE  [Store!Next]_Store!storeVars
<1> DEFINE p == <<req[t].image, req[t].digest>>
<1>1. /\ req \in [Tasks -> ReqRows] /\ UNCHANGED <<rows, file, repos, tag>>
      /\ req[t].image \in Images /\ req[t].digest \in Manifests
      /\ req[t].live => req[t].image \in repos
  BY DEF RegistryInv, Tables, StoreManifest, At, Relies
<1>2. \A u \in Tasks : req'[u].pc \in CollectPCs <=> req[u].pc \in CollectPCs
  BY <1>1 DEF StoreManifest, At, To, Finish, RegistryIdle, CollectPCs, ReqRows
<1>3. collectorRuns' = collectorRuns
  BY <1>2, SamePlaces
<1>4. CASE ~req[t].live
  <2>1. UNCHANGED <<mans, sound>>
    BY <1>4 DEF StoreManifest
  <2> QED
    BY <1>1, <1>2, <2>1, QuietImplements
<1>5. CASE req[t].live
  <2>1. /\ mans' = mans \cup {p}
        /\ sound' = IF \A d \in LayersOf(p[2]) : ServesBlob(d) /\ ~Doomed(d)
                    THEN sound \cup {p} ELSE sound
    BY <1>5 DEF StoreManifest
  <2>2. storedImages' = storedImages \cup {p}
    BY <1>1, <2>1 DEF storedImages
  <2>3. completeImages' = IF \A d \in LayersOf(p[2]) : ServesBlob(d)
                          THEN completeImages \cup {p} ELSE completeImages
    <3>1. \A d : ServesBlob(d)' <=> ServesBlob(d)
      BY <1>1 DEF ServesBlob
    <3> HIDE DEF p
    <3>2. completeImages' = {q \in storedImages \cup {p} : \A d \in LayersOf(q[2]) : ServesBlob(d)}
      BY <2>2, <3>1 DEF completeImages
    <3> QED
      BY <3>2 DEF completeImages
  <2>4. sound' \subseteq completeImages'
    BY DEF RegistryInv, Tables, Kept, completeImages, storedImages
  <2>5. ~collectorRuns /\ p \in completeImages' => p \in sound'
    <3> SUFFICES ASSUME ~collectorRuns, p \in completeImages' PROVE p \in sound'
      OBVIOUS
    <3>1. \A d \in LayersOf(p[2]) : ServesBlob(d)
      BY <1>1 DEF completeImages, ServesBlob
    <3>2. \A d \in LayersOf(p[2]) : ~Doomed(d)
      BY NothingDoomed
    <3> QED
      BY <2>1, <3>1, <3>2
  <2>6. completeImages' \in {completeImages, completeImages \cup {p}}
    BY <2>3
  <2>7. sound' \in {sound, sound \cup {p}}
    BY <2>1
  <2>8. Store!Push(req[t].image, req[t].digest)
    BY <1>1, <1>3, <1>5, <2>2, <2>4, <2>5, <2>6, <2>7 DEF Store!Push
  <2> QED
    BY <1>1, <2>8 DEF Store!Next
<1> QED
  BY <1>4, <1>5

LEMMA TagSteps ==
  ASSUME RegistryInv, NEW t \in Tasks, StoreTag(t) \/ \E i \in Images : DeleteTag(t, i)
  PROVE  [Store!Next]_Store!storeVars
<1>1. /\ req \in [Tasks -> ReqRows] /\ UNCHANGED <<rows, file, repos, mans, sound>>
      /\ Relies(req[t])
  BY DEF RegistryInv, Tables, StoreTag, DeleteTag
<1>2. \A u \in Tasks : req'[u].pc \in CollectPCs <=> req[u].pc \in CollectPCs
  <2>1. CASE StoreTag(t)
    BY <1>1, <2>1 DEF StoreTag, At, Finish, RegistryIdle, CollectPCs, ReqRows
  <2>2. CASE \E i \in Images : DeleteTag(t, i)
    BY <1>1, <2>2 DEF DeleteTag, At, CollectPCs, ReqRows
  <2> QED
    BY <2>1, <2>2
<1>3. UNCHANGED <<storedImages, completeImages, collectorRuns>>
  BY <1>1, <1>2, SameBlobs, SamePlaces
<1>4. CASE StoreTag(t) /\ req[t].live
  <2>1. /\ req[t].image \in Images /\ req[t].digest \in Manifests
        /\ <<req[t].image, req[t].digest>> \in storedImages
        /\ tag' = [tag EXCEPT ![req[t].image] = req[t].digest]
    BY <1>1, <1>4 DEF Relies, StoreTag, At, storedImages
  <2>2. Store!PointTag(req[t].image, req[t].digest)
    BY <1>1, <1>3, <2>1 DEF Store!PointTag
  <2> QED
    BY <2>1, <2>2 DEF Store!Next
<1>5. CASE StoreTag(t) /\ ~req[t].live
  BY <1>1, <1>3, <1>5 DEF StoreTag, Store!storeVars
<1>6. CASE \E i \in Images : DeleteTag(t, i)
  BY <1>1, <1>3, <1>6 DEF DeleteTag, Store!Next, Store!Untag
<1> QED
  BY <1>4, <1>5, <1>6

LEMMA DeleteStep ==
  ASSUME RegistryInv, NEW t \in Tasks, NEW i \in Images, DeleteImage(t, i)
  PROVE  Store!Next
<1>1. /\ req \in [Tasks -> ReqRows] /\ UNCHANGED <<rows, file>> /\ i \in repos
      /\ repos' = repos \ {i} /\ mans' = {p \in mans : p[1] # i}
      /\ sound' = {p \in sound : p[1] # i} /\ tag' = [tag EXCEPT ![i] = NoTag]
  BY DEF RegistryInv, Tables, DeleteImage
<1>2. storedImages' = {p \in storedImages : p[1] # i}
  BY <1>1 DEF storedImages
<1>3. completeImages' = {p \in completeImages : p[1] # i}
  BY <1>1, <1>2 DEF completeImages, ServesBlob
<1>4. \A u \in Tasks : req'[u].pc \in CollectPCs <=> req[u].pc \in CollectPCs
  BY <1>1 DEF DeleteImage, At, RegistryIdle, CollectPCs, ReqRows
<1>5. collectorRuns' = collectorRuns
  BY <1>4, SamePlaces
<1>6. Store!Delete(i)
  BY <1>1, <1>2, <1>3, <1>5 DEF Store!Delete, Store!Others
<1> QED
  BY <1>6 DEF Store!Next

\* A collection begins or ends, and nothing else is to be seen.
LEMMA RunSteps ==
  ASSUME NEW t \in Tasks,
         ReadReferences(t) \/ ListBlobs(t) \/ EndCollect(t) \/ RegistryCrash
  PROVE  [Store!Next]_Store!storeVars
<1>1. UNCHANGED <<rows, file, repos, mans, tag, sound>>
  BY DEF ReadReferences, ListBlobs, EndCollect, RegistryCrash
<1>2. UNCHANGED <<storedImages, completeImages>>
  BY <1>1, SameBlobs
<1>3. collectorRuns \in BOOLEAN /\ collectorRuns' \in BOOLEAN
  BY DEF collectorRuns
<1>4. CASE collectorRuns' = collectorRuns
  BY <1>1, <1>2, <1>4 DEF Store!storeVars
<1>5. CASE collectorRuns' = ~collectorRuns
  BY <1>1, <1>2, <1>5 DEF Store!Next, Store!BeginOrEnd
<1> QED
  BY <1>3, <1>4, <1>5

LEMMA SweepSteps ==
  ASSUME RegistryInv, RegistryInv', NEW t \in Tasks, SweepFile(t) \/ SweepRow(t)
  PROVE  Store!Next
<1>1. /\ req \in [Tasks -> ReqRows] /\ file \in [Blobs -> FileStates]
      /\ UNCHANGED <<repos, mans, tag, sound>> /\ req[t].pc \in {"sweep", "sweepRow"}
  BY DEF RegistryInv, Tables, SweepFile, SweepRow, At
<1>2. rows' \subseteq rows /\ \A d \in Blobs : file'[d] # "none" => file[d] # "none"
  BY <1>1 DEF SweepFile, SweepRow
<1>3. storedImages' = storedImages /\ completeImages' \subseteq completeImages
  BY <1>1, <1>2, FewerBlobs
<1>4. req'[t].pc \in {"sweep", "sweepRow"}
  <2>1. CASE SweepFile(t)
    <3>1. \E d : req'[t] = [req[t] EXCEPT !.pc = "sweepRow", !.digest = d]
      BY <1>1, <2>1 DEF SweepFile
    <3> QED
      BY <1>1, <3>1 DEF ReqRows
  <2>2. CASE SweepRow(t)
    BY <1>1, <2>2 DEF SweepRow, ReqRows
  <2> QED
    BY <2>1, <2>2
<1>5. collectorRuns /\ collectorRuns'
  BY <1>1, <1>4 DEF collectorRuns
<1>6. collectorRuns' = collectorRuns
  <2>1. collectorRuns \in BOOLEAN /\ collectorRuns' \in BOOLEAN
    BY DEF collectorRuns
  <2> QED
    BY <1>5, <2>1
<1>7. sound' \subseteq completeImages'
  BY DEF RegistryInv, Tables, Kept, completeImages, storedImages
<1>8. sound \subseteq completeImages'
  BY <1>1, <1>7
<1>9. Store!Collect
  BY <1>1, <1>3, <1>5, <1>6, <1>8 DEF Store!Collect
<1> QED
  BY <1>9 DEF Store!Next

LEMMA TodoKept ==
  ASSUME RegistryInv, RegistryInv', TodoIsSwept, [RegistryNext]_registryVars
  PROVE  TodoIsSwept'
<1>1. req \in [Tasks -> ReqRows] /\ req' \in [Tasks -> ReqRows]
  BY DEF RegistryInv, Tables
<1>2. ASSUME NEW t \in Tasks,
             \/ \E i \in Images, d \in Blobs, mono \in BOOLEAN : StartUpload(t, i, d, mono)
             \/ \E i \in Images, m \in Manifests : StartManifest(t, i, m)
             \/ AbandonUpload(t) \/ FallbackManifest(t) \/ StoreTag(t) \/ BeginCollect(t)
      PROVE  TodoIsSwept'
  <2>1. \A u \in Tasks \ {t} : req'[u] = req[u]
    BY <1>1, <1>2 DEF StartUpload, StartManifest, AbandonUpload, FallbackManifest, StoreTag,
                      BeginCollect, To, Finish
  <2>2. req'[t].todo = {}
    <3>1. CASE BeginCollect(t)
      BY <1>1, <3>1 DEF BeginCollect, To, At, TodoIsSwept, ReqRows
    <3>2. CASE AbandonUpload(t) \/ FallbackManifest(t) \/ StoreTag(t)
      BY <1>1, <3>2 DEF AbandonUpload, FallbackManifest, StoreTag, Finish, RegistryIdle
    <3>3. CASE \/ \E i \in Images, d \in Blobs, mono \in BOOLEAN : StartUpload(t, i, d, mono)
               \/ \E i \in Images, m \in Manifests : StartManifest(t, i, m)
      BY <1>1, <3>3 DEF StartUpload, StartManifest, RegistryIdle
    <3> QED
      BY <1>2, <3>1, <3>2, <3>3
  <2> QED
    BY <1>1, <2>1, <2>2, TodoStep
<1>3. ASSUME NEW t \in Tasks,
             \/ PatchUpload(t) \/ CompleteUpload(t) \/ BeginPut(t) \/ EndPut(t) \/ RecordBlob(t)
             \/ TakeRepo(t) \/ StoreManifest(t) \/ ReadReferences(t) \/ \E i \in Images : DeleteTag(t, i)
      PROVE  TodoIsSwept'
  <2>1. \A u \in Tasks \ {t} : req'[u] = req[u]
    BY <1>1, <1>3 DEF PatchUpload, CompleteUpload, BeginPut, EndPut, RecordBlob, TakeRepo,
                      StoreManifest, DeleteTag, ReadReferences, To, Finish
  <2>2. req[t].todo = {}
    BY <1>3 DEF PatchUpload, CompleteUpload, BeginPut, EndPut, RecordBlob, TakeRepo, ReadReferences,
                StoreManifest, DeleteTag, At, TodoIsSwept
  <2>3. req'[t].todo = {}
    <3>1. CASE PatchUpload(t) \/ CompleteUpload(t)
      BY <1>1, <2>2, <3>1 DEF PatchUpload, CompleteUpload, ReqRows
    <3>2. CASE BeginPut(t) \/ EndPut(t) \/ TakeRepo(t)
      BY <1>1, <2>2, <3>2 DEF BeginPut, EndPut, TakeRepo, ReqRows
    <3>3. CASE RecordBlob(t) \/ StoreManifest(t)
      BY <1>1, <2>2, <3>3 DEF RecordBlob, StoreManifest, To, Finish, RegistryIdle, ReqRows
    <3>4. CASE ReadReferences(t) \/ \E i \in Images : DeleteTag(t, i)
      BY <1>1, <2>2, <3>4 DEF DeleteTag, ReadReferences, ReqRows
    <3> QED
      BY <1>3, <3>1, <3>2, <3>3, <3>4
  <2> QED
    BY <1>1, <2>1, <2>3, TodoStep
<1>4. ASSUME NEW t \in Tasks, NEW i \in Images, DeleteImage(t, i)
      PROVE  TodoIsSwept'
  <2>1. /\ \A u \in Tasks \ {t} : req'[u].pc = req[u].pc /\ req'[u].todo = req[u].todo
        /\ req'[t].todo = {}
    BY <1>1, <1>4 DEF DeleteImage, RegistryIdle, ReqRows
  <2> QED
    BY <1>1, <2>1, TodoStep
<1>5. ASSUME NEW t \in Tasks, ListBlobs(t) \/ SweepFile(t) \/ SweepRow(t)
      PROVE  TodoIsSwept'
  <2>1. CASE ListBlobs(t)
    <3>1. \A u \in Tasks \ {t} : req'[u] = req[u]
      BY <1>1, <2>1 DEF ListBlobs
    <3>2. req'[t].pc = "sweep"
      BY <1>1, <2>1 DEF ListBlobs, ReqRows
    <3> QED
      BY <1>1, <3>1, <3>2, TodoStep
  <2>2. CASE SweepFile(t)
    <3>1. /\ \A u \in Tasks \ {t} : req'[u].pc = req[u].pc /\ req'[u].todo = req[u].todo
          /\ req'[t].pc = "sweepRow"
      <4>1. PICK d \in req[t].todo : req' = [u \in Tasks |->
              IF u = t THEN [req[t] EXCEPT !.pc = "sweepRow", !.digest = d]
              ELSE IF req[u].digest = d THEN [req[u] EXCEPT !.linked = FALSE] ELSE req[u]]
        BY <2>2 DEF SweepFile
      <4>2. ASSUME NEW u \in Tasks, u # t
            PROVE  req'[u] = req[u] \/ req'[u] = [req[u] EXCEPT !.linked = FALSE]
        BY <4>1, <4>2
      <4>3. ASSUME NEW u \in Tasks, u # t
            PROVE  req'[u].pc = req[u].pc /\ req'[u].todo = req[u].todo
        BY <1>1, <4>2, <4>3 DEF ReqRows
      <4>4. req'[t] = [req[t] EXCEPT !.pc = "sweepRow", !.digest = d]
        BY <4>1
      <4>5. req'[t].pc = "sweepRow"
        BY <1>1, <4>4 DEF ReqRows
      <4> QED
        BY <4>3, <4>5
    <3> QED
      BY <1>1, <3>1, TodoStep
  <2>3. CASE SweepRow(t)
    <3>1. \A u \in Tasks \ {t} : req'[u] = req[u]
      BY <1>1, <2>3 DEF SweepRow
    <3>2. req'[t].pc = "sweep"
      BY <1>1, <2>3 DEF SweepRow, ReqRows
    <3> QED
      BY <1>1, <3>1, <3>2, TodoStep
  <2> QED
    BY <1>5, <2>1, <2>2, <2>3
<1>6. ASSUME NEW t \in Tasks, EndCollect(t)
      PROVE  TodoIsSwept'
  <2>1. /\ \A u \in Tasks \ {t} : req'[u].pc = req[u].pc /\ req'[u].todo = req[u].todo
        /\ req'[t].todo = {}
    BY <1>1, <1>6 DEF EndCollect, RegistryIdle, ReqRows
  <2> QED
    BY <1>1, <2>1, TodoStep
<1>7. CASE RegistryCrash
  BY <1>7 DEF RegistryCrash, RegistryIdle, TodoIsSwept
<1>8. CASE UNCHANGED registryVars
  BY <1>8 DEF registryVars, TodoIsSwept
<1>9. ASSUME NEW t \in Tasks, CollectorStep(t) PROVE TodoIsSwept'
  BY <1>3, <1>5, <1>6, <1>9 DEF CollectorStep
<1>10. ASSUME NEW t \in Tasks, ClientStep(t) PROVE TodoIsSwept'
  BY <1>2, <1>3, <1>4, <1>10 DEF ClientStep
<1> QED
  BY <1>2, <1>7, <1>8, <1>9, <1>10 DEF RegistryNext, Tasks

LEMMA RegistryStepImplements ==
  ASSUME RegistryInv, RegistryInv', TodoIsSwept, [RegistryNext]_registryVars
  PROVE  [Store!Next]_Store!storeVars
<1>1. ASSUME NEW t \in Tasks, CollectorStep(t) PROVE [Store!Next]_Store!storeVars
  BY <1>1, RunSteps, SweepSteps DEF CollectorStep
<1>2. ASSUME NEW t \in Tasks, ClientStep(t) PROVE [Store!Next]_Store!storeVars
  <2>1. CASE \/ PatchUpload(t) \/ CompleteUpload(t) \/ AbandonUpload(t)
             \/ \E i \in Images, m \in Manifests : StartManifest(t, i, m)
    BY <2>1, QuietSteps
  <2>2. CASE \/ TakeRepo(t)
             \/ \E i \in Images, d \in Blobs, mono \in BOOLEAN : StartUpload(t, i, d, mono)
    BY <2>2, CreateSteps
  <2>3. CASE BeginPut(t) \/ EndPut(t) \/ RecordBlob(t)
    BY <2>3, ArriveSteps
  <2>4. CASE FallbackManifest(t)
    BY <2>4, FallbackStep
  <2>5. CASE StoreManifest(t)
    BY <2>5, PushStep
  <2>6. CASE StoreTag(t) \/ \E i \in Images : DeleteTag(t, i)
    BY <2>6, TagSteps
  <2>7. CASE \E i \in Images : DeleteImage(t, i)
    BY <2>7, DeleteStep
  <2> QED
    BY <1>2, <2>1, <2>2, <2>3, <2>4, <2>5, <2>6, <2>7 DEF ClientStep
<1>3. ASSUME NEW t \in Tasks, BeginCollect(t) PROVE [Store!Next]_Store!storeVars
  BY <1>3, QuietSteps
<1>4. CASE RegistryCrash
  <2>1. UNCHANGED <<rows, file, repos, mans, tag, sound>>
    BY <1>4 DEF RegistryCrash
  <2>2. UNCHANGED <<storedImages, completeImages>>
    BY <2>1, SameBlobs
  <2>3. collectorRuns' = collectorRuns \/ collectorRuns' = ~collectorRuns
    BY DEF collectorRuns
  <2> QED
    BY <2>1, <2>2, <2>3 DEF Store!storeVars, Store!Next, Store!BeginOrEnd
<1>5. CASE UNCHANGED registryVars
  BY <1>5, QuietImplements DEF registryVars
<1> QED
  BY <1>1, <1>2, <1>3, <1>4, <1>5 DEF RegistryNext, Tasks

\* The registry is an image store to its clients: images lose manifests only
\* with their row, tags name stored manifests, and what was pushed complete
\* outside a collection is served until its image is deleted (gc.rs, routes/v2.rs).
THEOREM RegistryImplementsStore == RegistrySpec => ImplementsImageStore
<1>1. RegistryInit => TodoIsSwept
  BY TodoInitially
<1>2. RegistryInv /\ RegistryInv' /\ TodoIsSwept /\ [RegistryNext]_registryVars => TodoIsSwept'
  BY TodoKept
<1>3. RegistryInv /\ RegistryInv' /\ TodoIsSwept /\ [RegistryNext]_registryVars
        => [Store!Next]_Store!storeVars
  BY RegistryStepImplements
<1> QED
  BY <1>1, <1>2, <1>3, RegistryIsInv, ImagesInitial, PTL DEF RegistrySpec, ImplementsImageStore, Store!Spec
=============================================================================
