----------------------------- MODULE SearchIndex -----------------------------
(***************************************************************************)
(* What the search service is told of the pages. The CMS keeps no index:   *)
(* it sends, to one Kafka topic, the pages that have been published, moved *)
(* or given another slug and, to a second topic, the addresses of those    *)
(* unpublished or deleted; the service applies each topic in its order and *)
(* the two in no order at all. A send may fail, and often nothing sends it *)
(* again. Pages of bundles are sent by an action that a thread runs after  *)
(* the publication, from the row it reads then.                            *)
(***************************************************************************)
EXTENDS Naturals, Sequences

CONSTANTS
  SearchPage,   \* pages
  Home,         \* the page above those at the top
  Unlisted,     \* pages of an excluded type or language
  Slug,         \* slugs
  NoEntry,      \* no page: an address that is not in the index
  MaxEdits      \* bound: operations on pages and retries

ASSUME SearchAssumption ==
  /\ Home \notin SearchPage
  /\ NoEntry \notin SearchPage
  /\ Unlisted \subseteq SearchPage
  /\ MaxEdits \in Nat

VARIABLES
  status,    \* of each page: draft, live or deleted
  above,     \* the parent of each page
  slug,      \* the slug of each page
  hidden,    \* the pages that have a view restriction of their own
  toIndex,   \* pages of bundles whose SEARCH_UPDATED action is to be run
  held,      \* updates that actions have built and not yet sent
  updated,   \* the topic search-content-updated: the updates of each operation
  deleted,   \* the topic search-content-deleted: the addresses of each operation
  index,     \* what the service holds at each address
  edits,     \* operations and retries so far
  wasLive,   \* history: pages that have been live
  upset      \* history: addresses with a lost, late or overtaken message

searchVars == <<status, above, slug, hidden, toIndex, held, updated, deleted,
                index, edits, wasLive, upset>>

---------------------------------------------------------------------------
(* Addresses                                                               *)

\* Two levels of pages (a bound) are enough for a page to move with its children.
Address == {<<s>> : s \in Slug} \cup (Slug \X Slug)
NoAddress == <<>>

\* url_path, for the parents a and the slugs s.
AddressIn(a, s, p) == IF a[p] = Home THEN <<s[p]>> ELSE <<s[a[p]], s[p]>>
AddressOf(p) == AddressIn(above, slug, p)

Exists(p) == status[p] # "deleted"
Children(p) == {q \in SearchPage : Exists(q) /\ above[q] = p}

\* No other page of the same parent has the slug.
FreeUnder(a, s, p) ==
  \A q \in SearchPage \ {p} : Exists(q) /\ above[q] = a => slug[q] # s

Restricted(a, p) == p \in hidden \/ a[p] \in hidden

\* is_indexable_page
IndexableUnder(a, p) == p \notin Unlisted /\ ~Restricted(a, p)
Indexable(p) == IndexableUnder(above, p)

Update == [page : SearchPage, uri : Address, uri_old : Address \cup {NoAddress}]

SearchTypeOK ==
  /\ status \in [SearchPage -> {"draft", "live", "deleted"}]
  /\ above \in [SearchPage -> SearchPage \cup {Home}]
  /\ slug \in [SearchPage -> Slug]
  /\ hidden \subseteq SearchPage
  /\ toIndex \subseteq SearchPage
  /\ held \subseteq Update
  /\ updated \in Seq(SUBSET Update)
  /\ deleted \in Seq(SUBSET Address)
  /\ index \in [Address -> SearchPage \cup {NoEntry}]
  /\ edits \in 0 .. MaxEdits
  /\ wasLive \subseteq SearchPage
  /\ upset \subseteq Address

---------------------------------------------------------------------------
(* Sending                                                                 *)

Named(m) == {m.uri, m.uri_old} \ {NoAddress}
NamedBy(S) == UNION {Named(m) : m \in S}

PendingUpdates == UNION {updated[i] : i \in DOMAIN updated}
PendingDeletes == UNION {deleted[i] : i \in DOMAIN deleted}

\* A message is in its topic when the send returns or, the answer being late,
\* although it raised; any of an operation's messages may be lost. They name
\* different pages, and Kafka may deliver them in any order. Of
\* the addresses untold the service should hear and does not.
SendUpdates(S, untold) ==
  \E sent \in SUBSET S :
    /\ updated' = IF sent = {} THEN updated ELSE Append(updated, sent)
    /\ upset' = upset \cup untold \cup NamedBy(S \ sent)
                    \cup (NamedBy(sent) \cap PendingDeletes)

SendDeletes(S) ==
  \E sent \in SUBSET S :
    /\ deleted' = IF sent = {} THEN deleted ELSE Append(deleted, sent)
    /\ upset' = upset \cup (S \ sent) \cup (sent \cap NamedBy(PendingUpdates))

Edit(p) ==
  /\ edits < MaxEdits
  /\ edits' = edits + 1
  /\ Exists(p)

---------------------------------------------------------------------------
(* Messages                                                                *)

\* Mutant: the page is sent, what is below it is not.
Relocated_PageOnly(p, a, s, found) ==
  {[page |-> q, uri |-> AddressIn(a, s, q), uri_old |-> AddressOf(q)] :
     q \in {r \in {p} : r \in found /\ IndexableUnder(a, r)}}

\* _update_for_page_and_descendant_paths: p and what is below it, when the
\* parents are a, the slugs s and the live pages found; nothing when restricted.
Relocated(p, a, s, found) ==
  {[page |-> q, uri |-> AddressIn(a, s, q), uri_old |-> AddressOf(q)] :
     q \in {r \in {p} \cup Children(p) :
              ~Restricted(a, p) /\ r \in found /\ IndexableUnder(a, r)}}

\* publish_created_or_updated of a page that has not moved.
Refreshed(p, a, s) == [page |-> p, uri |-> AddressIn(a, s, p), uri_old |-> NoAddress]

\* After the deletion, with which the restrictions of the pages have gone: only
\* one of a parent that stays still hides a page.
GoneAddresses(gone) ==
  {AddressOf(q) : q \in {r \in gone :
     status[r] = "live" /\ r \notin Unlisted /\ above[r] \notin hidden \ gone}}

LivePages == {p \in SearchPage : status[p] = "live"}

\* The slug takes effect with the publication: page_slug_changed.
SlugChanged(p, s, found) ==
  IF s = slug[p] THEN {} ELSE Relocated(p, above, [slug EXCEPT ![p] = s], found)

\* The page to be found at an address.
Expected(u) == {p \in LivePages : Indexable(p) /\ AddressOf(p) = u}

---------------------------------------------------------------------------
(* Operations on pages                                                     *)

\* Mutant: a page scheduled for later is treated as live.
LiveAfter_Always(p, future) == LivePages \cup {p}

LiveAfter(p, future) == IF future THEN LivePages ELSE LivePages \cup {p}

\* A page is published by hand or by the schedule, now or for a later time; the
\* handlers run before the request ends and only if the page is live.
Publish(p, s, future) ==
  LET found == LiveAfter(p, future) IN
  /\ Edit(p)
  /\ future => status[p] = "draft"
  /\ FreeUnder(above[p], s, p)
  /\ slug' = [slug EXCEPT ![p] = s]
  /\ status' = IF future THEN status ELSE [status EXCEPT ![p] = "live"]
  /\ wasLive' = IF future THEN wasLive ELSE wasLive \cup {p}
  /\ SendUpdates(SlugChanged(p, s, found)
                 \cup {Refreshed(q, above, slug') : q \in {r \in {p} \cap found : Indexable(r)}}, {})
  /\ UNCHANGED <<above, hidden, toIndex, held, deleted, index>>

\* A page of a bundle: what the change of slug calls for is sent on the commit,
\* the page itself by its action.
PublishFromBundle(p, s) ==
  /\ Edit(p)
  /\ FreeUnder(above[p], s, p)
  /\ slug' = [slug EXCEPT ![p] = s]
  /\ status' = [status EXCEPT ![p] = "live"]
  /\ wasLive' = wasLive \cup {p}
  /\ toIndex' = toIndex \cup {p}
  /\ SendUpdates(SlugChanged(p, s, LivePages \cup {p}), {})
  /\ UNCHANGED <<above, hidden, held, deleted, index>>

\* on_page_unpublished
Unpublish(p) ==
  /\ Edit(p)
  /\ status[p] = "live"
  /\ status' = [status EXCEPT ![p] = "draft"]
  /\ SendDeletes({AddressOf(q) : q \in {r \in {p} : Indexable(r)}})
  /\ UNCHANGED <<above, slug, hidden, toIndex, held, updated, index, wasLive>>

\* on_page_deleted, for the page and those below it.
Delete(p) ==
  LET gone == {p} \cup Children(p) IN
  /\ Edit(p)
  /\ status' = [q \in SearchPage |-> IF q \in gone THEN "deleted" ELSE status[q]]
  /\ toIndex' = toIndex \ gone
  /\ deleted' = LET S == GoneAddresses(gone) IN IF S = {} THEN deleted ELSE Append(deleted, S)
  /\ upset' = upset \cup (GoneAddresses(gone) \cap NamedBy(PendingUpdates))
  /\ UNCHANGED <<above, slug, hidden, held, updated, index, wasLive>>

\* A send that raises rolls the deletion back, whatever has been sent by then.
DeleteFails(p) ==
  LET S == GoneAddresses({p} \cup Children(p)) IN
  /\ Edit(p)
  /\ S # {}
  /\ \E sent \in SUBSET S :
       /\ deleted' = IF sent = {} THEN deleted ELSE Append(deleted, sent)
       /\ upset' = upset \cup sent
  /\ UNCHANGED <<status, above, slug, hidden, toIndex, held, updated, index, wasLive>>

\* Where pages were found that a restricted parent hides.
Concealed(p, a) ==
  {AddressOf(q) : q \in {r \in {p} \cup Children(p) : Restricted(a, r)}}

\* on_page_moved
Move(p, a) ==
  /\ Edit(p)
  /\ a \in {Home} \cup {q \in SearchPage : Exists(q) /\ above[q] = Home}
  /\ a \notin {p, above[p]}
  /\ a # Home => Children(p) = {}
  /\ FreeUnder(a, slug[p], p)
  /\ above' = [above EXCEPT ![p] = a]
  /\ SendUpdates(Relocated(p, above', slug, LivePages), Concealed(p, above'))
  /\ UNCHANGED <<status, slug, hidden, toIndex, held, deleted, index, wasLive>>

\* View restrictions are set and taken off at once; nothing is told.
ChangePrivacy(p) ==
  /\ Edit(p)
  /\ hidden' = (hidden \ {p}) \cup ({p} \ hidden)
  /\ upset' = upset \cup {AddressOf(q) : q \in {p} \cup Children(p)}
  /\ UNCHANGED <<status, above, slug, toIndex, held, updated, deleted, index, wasLive>>

---------------------------------------------------------------------------
(* update_index_post_publish_action                                        *)

\* The row is read and the message built. The page is not asked whether it is live.
ActionRead(p) ==
  /\ p \in toIndex
  /\ held' = IF Indexable(p) THEN held \cup {Refreshed(p, above, slug)} ELSE held
  /\ toIndex' = toIndex \ {p}
  /\ UNCHANGED <<status, above, slug, hidden, updated, deleted, index, edits, wasLive, upset>>

\* What is built still says where the page is, and that it is to be found.
Current(m) ==
  /\ status[m.page] = "live"
  /\ Indexable(m.page)
  /\ m.uri = AddressOf(m.page)

\* The action may fail, sent or not, and be retried or, in the end, not.
ActionSend(m, arrives, again) ==
  /\ m \in held
  /\ again => edits < MaxEdits
  /\ edits' = IF again THEN edits + 1 ELSE edits
  /\ held' = held \ {m}
  /\ toIndex' = IF again /\ Exists(m.page) THEN toIndex \cup {m.page} ELSE toIndex
  /\ updated' = IF arrives THEN Append(updated, {m}) ELSE updated
  /\ upset' = upset \cup (IF arrives /\ Current(m) THEN Named(m) \cap PendingDeletes
                          ELSE IF arrives \/ ~again THEN Named(m) ELSE {})
  /\ UNCHANGED <<status, above, slug, hidden, deleted, index, wasLive>>

---------------------------------------------------------------------------
(* The search service                                                      *)

TakeUpdate(m) ==
  /\ updated # <<>>
  /\ m \in Head(updated)
  /\ updated' = IF Head(updated) = {m} THEN Tail(updated)
                ELSE [updated EXCEPT ![1] = @ \ {m}]
  /\ index' = [u \in Address |-> IF u = m.uri THEN m.page
                                 ELSE IF u = m.uri_old THEN NoEntry ELSE index[u]]
  /\ UNCHANGED <<status, above, slug, hidden, toIndex, held, deleted, edits, wasLive, upset>>

TakeDelete ==
  /\ deleted # <<>>
  /\ deleted' = Tail(deleted)
  /\ index' = [u \in Address |-> IF u \in Head(deleted) THEN NoEntry ELSE index[u]]
  /\ UNCHANGED <<status, above, slug, hidden, toIndex, held, updated, edits, wasLive, upset>>

---------------------------------------------------------------------------

\* Any tree of drafts and live pages, the index built from it (/v1/resources).
SearchInit ==
  /\ status \in [SearchPage -> {"draft", "live"}]
  /\ above \in [SearchPage -> SearchPage \cup {Home}]
  /\ \A p \in SearchPage : above[p] # Home => above[above[p]] = Home
  /\ slug \in [SearchPage -> Slug]
  /\ \A p \in SearchPage : FreeUnder(above[p], slug[p], p)
  /\ hidden = {}
  /\ toIndex = {}
  /\ held = {}
  /\ updated = <<>>
  /\ deleted = <<>>
  /\ index \in [Address -> SearchPage \cup {NoEntry}]
  /\ \A u \in Address : {index[u]} \ {NoEntry} = Expected(u)
  /\ edits = 0
  /\ wasLive = LivePages
  /\ upset = {}

SearchNext ==
  \/ \E p \in SearchPage, s \in Slug, future \in BOOLEAN : Publish(p, s, future)
  \/ \E p \in SearchPage, s \in Slug : PublishFromBundle(p, s)
  \/ \E p \in SearchPage, a \in SearchPage \cup {Home} : Move(p, a)
  \/ \E p \in SearchPage :
       Unpublish(p) \/ Delete(p) \/ DeleteFails(p) \/ ChangePrivacy(p) \/ ActionRead(p)
  \/ \E m \in held, arrives \in BOOLEAN, again \in BOOLEAN : ActionSend(m, arrives, again)
  \/ \E m \in PendingUpdates : TakeUpdate(m)
  \/ TakeDelete

SearchSpec == SearchInit /\ [][SearchNext]_searchVars

---------------------------------------------------------------------------
(* Properties                                                              *)

\* Only pages that have been live are ever found, and none of an excluded type:
\* a page scheduled for later, moved or renamed as a draft tells the service
\* nothing (is_indexable_page, on_page_moved, run_post_publish_actions_handler).
OnlyReleasedIsIndexed ==
  \A u \in Address : index[u] # NoEntry => index[u] \in wasLive \ Unlisted

\* Nothing about the address is on its way.
Quiet(u) ==
  /\ u \notin NamedBy(PendingUpdates \cup held) \cup PendingDeletes
  /\ \A p \in toIndex : AddressOf(p) # u

\* When nothing about an address is on its way the service holds there just the
\* live page that has it, through moves of whole branches, changes of slugs and
\* addresses given to other pages - unless a message about it was lost, was sent
\* late, or crossed one of the other topic (cms/search/signal_handlers.py).
QuietIndexIsRight ==
  \A u \in Address \ upset :
    Quiet(u) => {index[u]} \ {NoEntry} = Expected(u)
=============================================================================
