--------------------------- MODULE RegistryImages ---------------------------
(***************************************************************************)
(* The registry's rows, files and requests implement the image store.      *)
(***************************************************************************)
EXTENDS RegistryStore

storedImages == mans \cap (Images \X Manifests)
completeImages == {p \in storedImages : \A d \in LayersOf(p[2]) : ServesBlob(d)}
collectorRuns == \E t \in Tasks : req[t].pc \in {"list", "sweep", "sweepRow"}

Store == INSTANCE ImageStore WITH
    catalog <- repos, stored <- storedImages, latest <- tag,
    complete <- completeImages, promised <- sound, collecting <- collectorRuns

(* Clients of the registry see an image store: manifests go only with      *)
(* their image, a tag is only ever set to a manifest that is stored, and   *)
(* whatever was pushed complete while the collector slept can be pulled    *)
(* until the image is deleted (put_manifest, delete_repository,            *)
(* delete_tag, run_gc).                                                    *)
ImplementsImageStore == Store!Spec

=============================================================================
