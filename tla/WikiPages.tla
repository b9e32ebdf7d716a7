------------------------------ MODULE WikiPages ------------------------------
(* The wiki of one repository: the requests of api/wiki.rs and the import of *)
(* worker/wiki_import.rs, one action for each statement.  A page has a slug, *)
(* a title, a body and a history of revisions.                               *)
EXTENDS Naturals, Sequences, FiniteSets

CONSTANTS
  Words,         \* titles and bodies
  Slugs,         \* base, base-2, ...: the slugs unique_slug tries, in order
  WikiClients, Importers, MaxWikiAsks, MaxWikiFaults,
  Same           \* a field the request does not give

ASSUME WikiAssumption ==
  /\ Same \notin Words /\ Slugs \in Nat \ {0}
  /\ MaxWikiAsks \in Nat /\ MaxWikiFaults \in Nat

VARIABLES
  page,       \* wiki_pages by slug: [id, title, body], id 0 where there is none
  revisions,  \* wiki_page_revisions by page id, oldest first
  wikiReq,    \* the request of a client or of the import
  wanted,     \* by page id: what the edits that were written asked for
  met,        \* ids of pages that two requests edited at once
  torn,       \* ids of pages whose last revision was never written
  wikiAsks, wikiFaults
wikiVars == <<page, revisions, wikiReq, wanted, met, torn, wikiAsks, wikiFaults>>

Ids == 1..MaxWikiAsks
NoPage == [id |-> 0, title |-> Same, body |-> Same]
Text(p) == [title |-> p.title, body |-> p.body]
Written == [title : Words, body : Words]
Writers == WikiClients \cup Importers
Quiet == [pc |-> "off", slug |-> 1, title |-> Same, body |-> Same, id |-> 0, text |-> Text(NoPage)]
WikiAt(c, pc) == wikiReq[c].pc = pc
WikiDone(c) == wikiReq' = [wikiReq EXCEPT ![c] = Quiet]
LatestOf(s) == s[Len(s)]
(* Another request has read this page, or owes it a revision. *)
Held(c, i) == \E d \in Writers \ {c} : wikiReq[d].pc \in {"write", "rev"} /\ wikiReq[d].id = i

WikiTypeOK ==
  /\ page \in [1..Slugs -> {NoPage} \cup [id : Ids, title : Words, body : Words]]
  /\ \A i \in Ids : revisions[i] \in Seq(Written)
  /\ wikiReq \in [Writers ->
       [pc : {"off", "slug", "insert", "read", "write", "upsert", "rev"}, slug : 1..Slugs,
        title : Words \cup {Same}, body : Words \cup {Same}, id : 0..MaxWikiAsks,
        text : Written \cup {Text(NoPage)}]]
  /\ wanted \in [Ids -> Written \cup {Text(NoPage)}]
  /\ met \subseteq Ids /\ torn \subseteq Ids
  /\ wikiAsks \in 0..MaxWikiAsks /\ wikiFaults \in 0..MaxWikiFaults

WikiInit ==
  /\ page = [s \in 1..Slugs |-> NoPage]
  /\ revisions = [i \in Ids |-> <<>>]
  /\ wikiReq = [c \in Writers |-> Quiet]
  /\ wanted = [i \in Ids |-> Text(NoPage)]
  /\ met = {} /\ torn = {} /\ wikiAsks = 0 /\ wikiFaults = 0

WikiRest == <<met, torn, wikiAsks, wikiFaults>>

-----------------------------------------------------------------------------
WikiAsk(c, pc, s, title, body) ==
  /\ WikiAt(c, "off") /\ wikiAsks < MaxWikiAsks
  /\ wikiReq' = [wikiReq EXCEPT ![c] =
       [Quiet EXCEPT !.pc = pc, !.slug = s, !.title = title, !.body = body]]
  /\ wikiAsks' = wikiAsks + 1
  /\ UNCHANGED <<page, revisions, wanted, met, torn, wikiFaults>>
AskWiki(c) ==
  \E t, b \in Words :
    \/ WikiAsk(c, "slug", 1, t, b)
    \/ \E s \in 1..Slugs : WikiAsk(c, "read", s, t, Same) \/ WikiAsk(c, "read", s, Same, b)
(* The import takes the slug of the page's file as it is.                    *)
ImportPage(c) == \E t, b \in Words : WikiAsk(c, "upsert", 1, t, b)

(* An id for a row that is inserted *)
FreshId == CHOOSE i \in Ids : revisions[i] = <<>> /\ wanted[i] = Text(NoPage)

(* unique_slug asks for one slug after another.                              *)
TrySlug(c) ==
  /\ WikiAt(c, "slug")
  /\ LET r == wikiReq[c]
     IN  IF page[r.slug].id = 0
         THEN wikiReq' = [wikiReq EXCEPT ![c].pc = "insert"]
         ELSE r.slug < Slugs /\ wikiReq' = [wikiReq EXCEPT ![c].slug = @ + 1]
  /\ UNCHANGED <<page, revisions, wanted, WikiRest>>

NewPage(c) ==
  LET r == wikiReq[c]
  IN  /\ page' = [page EXCEPT ![r.slug] = [id |-> FreshId, title |-> r.title, body |-> r.body]]
      /\ wanted' = [wanted EXCEPT ![FreshId] = Text(r)]
      /\ wikiReq' = [wikiReq EXCEPT ![c].pc = "rev", ![c].id = FreshId, ![c].text = Text(r)]
(* create_wiki_page; the slug may be taken by now, which is an error.        *)
InsertPage(c) ==
  /\ WikiAt(c, "insert")
  /\ IF page[wikiReq[c].slug].id = 0 THEN NewPage(c) ELSE WikiDone(c) /\ UNCHANGED <<page, wanted>>
  /\ UNCHANGED <<revisions, WikiRest>>

Filled(r, old) == [title |-> IF r.title = Same THEN old.title ELSE r.title,
                   body |-> IF r.body = Same THEN old.body ELSE r.body]
(* Page i gets this text; its revision is a statement of its own.            *)
Rewrite(c, i, text) ==
  /\ page' = [page EXCEPT ![wikiReq[c].slug] = [id |-> i, title |-> text.title, body |-> text.body]]
  /\ wanted' = [wanted EXCEPT ![i] = Filled(wikiReq[c], @)]
  /\ wikiReq' = [wikiReq EXCEPT ![c].pc = "rev", ![c].id = i, ![c].text = text]
  /\ met' = IF Held(c, i) \/ wikiReq[c].id \notin {0, i} THEN met \cup {i} ELSE met

(* update_wiki_page reads the page and fills the fields it was not given.    *)
ReadPage(c) ==
  /\ WikiAt(c, "read")
  /\ LET r == wikiReq[c]
         p == page[r.slug]
     IN  IF p.id = 0 THEN WikiDone(c)
         ELSE wikiReq' = [wikiReq EXCEPT ![c].pc = "write", ![c].id = p.id,
                                         ![c].text = Filled(r, Text(p))]
  /\ UNCHANGED <<page, revisions, wanted, WikiRest>>
(* The UPDATE goes by the slug, so the page may be another one by then.      *)
WritePage(c) ==
  /\ WikiAt(c, "write")
  /\ LET i == page[wikiReq[c].slug].id
     IN  IF i = 0 THEN WikiDone(c) /\ UNCHANGED <<page, wanted, met>>
         ELSE Rewrite(c, i, wikiReq[c].text)
  /\ UNCHANGED <<revisions, torn, wikiAsks, wikiFaults>>

(* upsert_wiki_page: an import that runs again writes over what users did.   *)
UpsertPage(c) ==
  /\ WikiAt(c, "upsert")
  /\ LET i == page[wikiReq[c].slug].id
     IN  IF i = 0 THEN NewPage(c) /\ UNCHANGED met ELSE Rewrite(c, i, Text(wikiReq[c]))
  /\ UNCHANGED <<revisions, torn, wikiAsks, wikiFaults>>

Exists(i) == \E s \in 1..Slugs : page[s].id = i
(* Mutant: the revision is of what the page was when it was read. *)
WriteRevisionOld(c) ==
  /\ WikiAt(c, "rev")
  /\ LET r == wikiReq[c]
         old == IF revisions[r.id] = <<>> THEN r.text ELSE LatestOf(revisions[r.id])
     IN  revisions' = IF Exists(r.id) THEN [revisions EXCEPT ![r.id] = Append(@, old)] ELSE revisions
  /\ WikiDone(c)
  /\ UNCHANGED <<page, wanted, WikiRest>>
(* insert_revision; a page that is gone takes its revisions with it, and the *)
(* foreign key refuses a new one.                                            *)
WriteRevision(c) ==
  /\ WikiAt(c, "rev")
  /\ LET r == wikiReq[c]
     IN  revisions' = IF Exists(r.id) THEN [revisions EXCEPT ![r.id] = Append(@, r.text)] ELSE revisions
  /\ WikiDone(c)
  /\ UNCHANGED <<page, wanted, WikiRest>>

(* delete_wiki_page is one statement.                                        *)
DeletePage(s) ==
  /\ page[s].id # 0 /\ wikiAsks < MaxWikiAsks
  /\ page' = [page EXCEPT ![s] = NoPage]
  /\ revisions' = [revisions EXCEPT ![page[s].id] = <<>>]
  /\ wikiAsks' = wikiAsks + 1
  /\ UNCHANGED <<wikiReq, wanted, met, torn, wikiFaults>>

(* The process dies between two statements, or a statement fails.            *)
CutWiki(c) ==
  /\ ~WikiAt(c, "off") /\ wikiFaults < MaxWikiFaults
  /\ torn' = IF WikiAt(c, "rev") THEN torn \cup {wikiReq[c].id} ELSE torn
  /\ WikiDone(c) /\ wikiFaults' = wikiFaults + 1
  /\ UNCHANGED <<page, revisions, wanted, met, wikiAsks>>

WikiNext ==
  \/ \E c \in WikiClients : AskWiki(c) \/ TrySlug(c) \/ InsertPage(c) \/ ReadPage(c) \/ WritePage(c)
  \/ \E c \in Importers : ImportPage(c) \/ UpsertPage(c)
  \/ \E c \in Writers : WriteRevision(c) \/ CutWiki(c)
  \/ \E s \in 1..Slugs : DeletePage(s)
WikiSpec == WikiInit /\ [][WikiNext]_wikiVars

-----------------------------------------------------------------------------
(* What a page says is in its history once the requests on it are over,      *)
(* whatever order their statements came in; and a page that was never edited *)
(* by two requests at once says in each field what the last edit of that     *)
(* field asked for, and its newest revision says the same.                   *)
Owed(i) == \E c \in Writers : WikiAt(c, "rev") /\ wikiReq[c].id = i
HistoryHasPage ==
  \A s \in 1..Slugs : LET p == page[s] IN
    p.id # 0 /\ ~Owed(p.id) /\ p.id \notin torn =>
      \E n \in 1..Len(revisions[p.id]) : revisions[p.id][n] = Text(p)
EditsKept ==
  \A s \in 1..Slugs : LET p == page[s] IN
    p.id # 0 /\ p.id \notin met =>
      /\ Text(p) = wanted[p.id]
      /\ ~Owed(p.id) /\ p.id \notin torn => LatestOf(revisions[p.id]) = Text(p)
(* Both: a page and its revisions (api/wiki.rs, worker/wiki_import.rs).       *)
WikiSound == HistoryHasPage /\ EditsKept
=============================================================================
