-------------------------------- MODULE Tags --------------------------------
(* The tags of one repository and the requests that write them (tags.rs and  *)
(* the functions of explorer.rs they call): each action is one git command.  *)
(* A tag stands for the commit it points at.                                 *)
EXTENDS Naturals, FiniteSets

CONSTANTS
  TagNames, Commits,
  Blocked,      \* names below which a pushed tag lies (v1 when v1/x exists)
  Shadowed,     \* names a branch has too
  TagClients, MaxTagAsks, MaxTagFaults,
  NoTag

ASSUME TagAssumption ==
  /\ NoTag \notin Commits /\ Blocked \cup Shadowed \subseteq TagNames
  /\ MaxTagAsks \in Nat /\ MaxTagFaults \in Nat

VARIABLES
  tagRef,     \* refs/tags
  tagReq,     \* the request a client has under way
  answered,   \* what the answers given so far say a tag is
  told,       \* what the post-receive hook was last told of a tag
  doubtful,   \* names of requests that met, or that failed half-way
  tagAsks, tagFaults
tagVars == <<tagRef, tagReq, answered, told, doubtful, tagAsks, tagFaults>>

NoReq == [pc |-> "off", op |-> "none", name |-> NoTag, final |-> NoTag,
          target |-> NoTag, old |-> NoTag]
Tagged(t) == tagRef[t] # NoTag
Touches(r) == IF r.pc = "off" THEN {} ELSE {r.name, r.final}
OnTag(c, pc) == tagReq[c].pc = pc
GoTag(c, pc) == tagReq' = [tagReq EXCEPT ![c].pc = pc]
Refuse(c) == tagReq' = [tagReq EXCEPT ![c] = NoReq]
(* A request that fails after it has changed something, for a reason other   *)
(* than another request                                                      *)
GiveUp(c) == doubtful' = doubtful \cup Touches(tagReq[c])
Answers == <<answered, told>>
TagBounds == <<tagAsks, tagFaults>>

TagsTypeOK ==
  /\ tagRef \in [TagNames -> Commits \cup {NoTag}]
  /\ answered \in [TagNames -> Commits \cup {NoTag}]
  /\ told \in [TagNames -> Commits \cup {NoTag}]
  /\ tagReq \in [TagClients ->
       [pc : {"off", "head", "list", "free", "again", "drop", "exists", "tag", "find", "rev"},
        op : {"none", "create", "update", "delete"}, name : TagNames \cup {NoTag},
        final : TagNames \cup {NoTag}, target : Commits \cup {NoTag},
        old : Commits \cup {NoTag}]]
  /\ doubtful \subseteq TagNames
  /\ tagAsks \in 0..MaxTagAsks /\ tagFaults \in 0..MaxTagFaults

TagsInit ==
  /\ tagRef \in {r \in [TagNames -> Commits \cup {NoTag}] : \A t \in Blocked : r[t] = NoTag}
  /\ answered = tagRef /\ told = tagRef
  /\ tagReq = [c \in TagClients |-> NoReq]
  /\ doubtful = {} /\ tagAsks = 0 /\ tagFaults = 0

-----------------------------------------------------------------------------
(* The names of all requests that have one of these names in common           *)
Met(names) ==
  LET others == {d \in TagClients : Touches(tagReq[d]) \cap names # {}}
  IN  IF others = {} THEN {} ELSE names \cup UNION {Touches(tagReq[d]) : d \in others}

FirstCommand(op) ==
  CASE op = "create" -> "exists" [] op = "update" -> "head" [] op = "delete" -> "again"

(* A request arrives.  Another one on one of its names is a race.            *)
TagRequest(c, op, t, f, v) ==
  /\ OnTag(c, "off") /\ tagAsks < MaxTagAsks
  /\ tagReq' = [tagReq EXCEPT ![c] =
       [pc |-> FirstCommand(op), op |-> op, name |-> t, final |-> f, target |-> v, old |-> NoTag]]
  /\ doubtful' = doubtful \cup Met({t, f})
  /\ tagAsks' = tagAsks + 1
  /\ UNCHANGED <<tagRef, Answers, tagFaults>>
AskTag(c) ==
  \E t, f \in TagNames, v \in Commits :
    \/ TagRequest(c, "create", t, t, v)
    \/ TagRequest(c, "update", t, f, v) \/ TagRequest(c, "update", t, f, NoTag)
    \/ TagRequest(c, "delete", t, t, NoTag)

(* update_repo_tag: tag_head_sha, then update_tag reads the tag from the     *)
(* list, which shows a shadowed tag under another name.                      *)
ReadHead(c) ==
  /\ OnTag(c, "head")
  /\ IF Tagged(tagReq[c].name)
     THEN tagReq' = [tagReq EXCEPT ![c].pc = "list", ![c].old = tagRef[tagReq[c].name]]
     ELSE Refuse(c)
  /\ UNCHANGED <<tagRef, Answers, doubtful, TagBounds>>
Listed(t) == Tagged(t) /\ t \notin Shadowed
ReadCurrent(c) ==
  /\ OnTag(c, "list")
  /\ LET r == tagReq[c]
     IN  IF Listed(r.name)
         THEN tagReq' = [tagReq EXCEPT ![c].pc = IF r.final = r.name THEN "again" ELSE "free",
                           ![c].target = IF r.target = NoTag THEN tagRef[r.name] ELSE r.target]
         ELSE Refuse(c)
  /\ UNCHANGED <<tagRef, Answers, doubtful, TagBounds>>
(* Mutant: a rename does not ask whether the new name is taken. *)
NameUnchecked(c) ==
  /\ OnTag(c, "free") /\ GoTag(c, "again")
  /\ UNCHANGED <<tagRef, Answers, doubtful, TagBounds>>
NameIsFree(c) ==
  /\ OnTag(c, "free")
  /\ IF Tagged(tagReq[c].final) THEN Refuse(c) ELSE GoTag(c, "again")
  /\ UNCHANGED <<tagRef, Answers, doubtful, TagBounds>>

(* delete_tag: the head again, then update-ref -d whatever it is by then.    *)
ReadAgain(c) ==
  /\ OnTag(c, "again")
  /\ LET r == tagReq[c]
     IN  IF Tagged(r.name)
         THEN tagReq' = [tagReq EXCEPT ![c].pc = "drop",
                           ![c].old = IF r.op = "delete" THEN tagRef[r.name] ELSE @]
         ELSE Refuse(c)
  /\ UNCHANGED <<tagRef, Answers, doubtful, TagBounds>>
DropTag(c) ==
  /\ OnTag(c, "drop")
  /\ LET r == tagReq[c]
     IN  /\ tagRef' = [tagRef EXCEPT ![r.name] = NoTag]
         /\ IF r.op = "delete"
            THEN /\ Refuse(c)
                 /\ answered' = [answered EXCEPT ![r.name] = NoTag]
                 /\ told' = [told EXCEPT ![r.name] = NoTag]
            ELSE GoTag(c, "exists") /\ UNCHANGED Answers
  /\ UNCHANGED <<doubtful, TagBounds>>

(* create_tag: for an update the old tag is gone by now.                     *)
CheckExists(c) ==
  /\ OnTag(c, "exists")
  /\ IF Tagged(tagReq[c].final) THEN Refuse(c) ELSE GoTag(c, "tag")
  /\ UNCHANGED <<tagRef, Answers, doubtful, TagBounds>>
(* git tag refuses a name that is taken by now, or blocked.                  *)
WriteTag(c) ==
  /\ OnTag(c, "tag")
  /\ LET r == tagReq[c]
     IN  IF Tagged(r.final) \/ r.final \in Blocked
         THEN /\ Refuse(c) /\ UNCHANGED tagRef
              /\ IF r.final \in Blocked THEN GiveUp(c) ELSE UNCHANGED doubtful
         ELSE /\ tagRef' = [tagRef EXCEPT ![r.final] = r.target]
              /\ GoTag(c, "find") /\ UNCHANGED doubtful
  /\ UNCHANGED <<Answers, TagBounds>>
FindTag(c) ==
  /\ OnTag(c, "find")
  /\ IF Listed(tagReq[c].final) THEN GoTag(c, "rev") ELSE Refuse(c)
  /\ IF tagReq[c].final \in Shadowed THEN GiveUp(c) ELSE UNCHANGED doubtful
  /\ UNCHANGED <<tagRef, Answers, TagBounds>>

(* rev_parse of the new tag, the answer, and the event for the hook: the     *)
(* event carries what the ref is now, the answer what was asked for.         *)
AnswerTag(c) ==
  /\ OnTag(c, "rev")
  /\ LET r == tagReq[c]
         freed == IF r.name # r.final THEN {r.name} ELSE {}
         After(f, new) == [t \in TagNames |-> IF t = r.final THEN new
                                              ELSE IF t \in freed THEN NoTag ELSE f[t]]
     IN  IF Tagged(r.final)
         THEN /\ answered' = After(answered, r.target) /\ told' = After(told, tagRef[r.final])
         ELSE UNCHANGED Answers
  /\ Refuse(c)
  /\ UNCHANGED <<tagRef, doubtful, TagBounds>>

(* A git client pushes or deletes a tag; its push tells the hook as well.    *)
PushTag(t, v) ==
  /\ tagAsks < MaxTagAsks /\ t \notin Blocked
  /\ tagRef' = [tagRef EXCEPT ![t] = v]
  /\ answered' = [answered EXCEPT ![t] = v] /\ told' = [told EXCEPT ![t] = v]
  /\ doubtful' = doubtful \cup Met({t})
  /\ tagAsks' = tagAsks + 1
  /\ UNCHANGED <<tagReq, tagFaults>>

(* The API dies, or a git command fails for another reason.                  *)
CutTag(c) ==
  /\ ~OnTag(c, "off") /\ tagFaults < MaxTagFaults
  /\ LET r == tagReq[c]
     IN  IF r.pc \in {"find", "rev"} \/ (r.op = "update" /\ r.pc \in {"exists", "tag"})
         THEN GiveUp(c) ELSE UNCHANGED doubtful
  /\ Refuse(c) /\ tagFaults' = tagFaults + 1
  /\ UNCHANGED <<tagRef, Answers, tagAsks>>

TagsNext ==
  \/ \E c \in TagClients :
       \/ AskTag(c) \/ ReadHead(c) \/ ReadCurrent(c) \/ NameIsFree(c) \/ ReadAgain(c) \/ DropTag(c)
       \/ CheckExists(c) \/ WriteTag(c) \/ FindTag(c) \/ AnswerTag(c) \/ CutTag(c)
  \/ \E t \in TagNames, v \in Commits \cup {NoTag} : PushTag(t, v)
TagsSpec == TagsInit /\ [][TagsNext]_tagVars

-----------------------------------------------------------------------------
(* Between requests a tag is what the last answer about it said, and the     *)
(* pipelines were told so: an update that drops the old tag before it        *)
(* creates the new one loses neither, unless another request wrote the same  *)
(* name meanwhile or the second half failed (a fault, a blocked new name, a   *)
(* new name that the list does not show).                                    *)
TagsAgree ==
  \A t \in TagNames \ doubtful :
    t \notin UNION {Touches(tagReq[c]) : c \in TagClients} =>
      tagRef[t] = answered[t] /\ tagRef[t] = told[t]
=============================================================================
