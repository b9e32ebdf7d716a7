----------------------------- MODULE ImageStore -----------------------------
(***************************************************************************)
(* What the registry promises those who push and pull, without uploads,    *)
(* rows and files: an image's manifests go only with the image, a tag only *)
(* ever names a manifest its image has, and an image pushed complete while *)
(* no collection runs stays complete until it is deleted.  Blobs go only   *)
(* while a collection runs, and never those of a promised image.           *)
(***************************************************************************)
CONSTANTS Images, Manifests, NoTag

VARIABLES
    catalog,      \* the images that exist
    stored,       \* <<image, manifest>>: the manifests of each image
    latest,       \* latest[i]: the manifest the tag of i names, or NoTag
    complete,     \* the stored manifests whose blobs can all be pulled
    promised,     \* those that no collection may make incomplete
    collecting    \* a collection is under way

storeVars == <<catalog, stored, latest, complete, promised, collecting>>

Init ==
    /\ catalog = {} /\ stored = {} /\ complete = {} /\ promised = {}
    /\ latest = [i \in Images |-> NoTag]
    /\ collecting = FALSE

Create(i) ==
    /\ catalog' = catalog \cup {i}
    /\ UNCHANGED <<stored, latest, complete, promised, collecting>>

(* A manifest may be pushed before its blobs: then nothing is promised.    *)
Push(i, m) ==
    /\ i \in catalog
    /\ stored' = stored \cup {<<i, m>>}
    /\ complete' \in {complete, complete \cup {<<i, m>>}}
    /\ promised' \in {promised, promised \cup {<<i, m>>}}
    /\ promised' \subseteq complete'
    /\ ~collecting /\ <<i, m>> \in complete' => <<i, m>> \in promised'
    /\ UNCHANGED <<catalog, latest, collecting>>

PointTag(i, m) ==
    /\ <<i, m>> \in stored
    /\ latest' = [latest EXCEPT ![i] = m]
    /\ UNCHANGED <<catalog, stored, complete, promised, collecting>>

Untag(i) ==
    /\ latest' = [latest EXCEPT ![i] = NoTag]
    /\ UNCHANGED <<catalog, stored, complete, promised, collecting>>

Others(i, pairs) == {p \in pairs : p[1] # i}
Delete(i) ==
    /\ i \in catalog
    /\ catalog' = catalog \ {i}
    /\ stored' = Others(i, stored)
    /\ complete' = Others(i, complete)
    /\ promised' = Others(i, promised)
    /\ latest' = [latest EXCEPT ![i] = NoTag]
    /\ UNCHANGED collecting

(* Blobs are uploaded. *)
Arrive ==
    /\ complete \subseteq complete' /\ complete' \subseteq stored
    /\ UNCHANGED <<catalog, stored, latest, promised, collecting>>

(* Blobs are collected. *)
Collect ==
    /\ collecting
    /\ complete' \subseteq complete /\ promised \subseteq complete'
    /\ UNCHANGED <<catalog, stored, latest, promised, collecting>>

BeginOrEnd ==
    /\ collecting' = ~collecting
    /\ UNCHANGED <<catalog, stored, latest, complete, promised>>

Next ==
    \/ \E i \in Images : Create(i) \/ Untag(i) \/ Delete(i)
    \/ \E i \in Images, m \in Manifests : Push(i, m) \/ PointTag(i, m)
    \/ Arrive \/ Collect \/ BeginOrEnd

Spec == Init /\ [][Next]_storeVars

=============================================================================
