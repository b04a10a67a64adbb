--------------------------- MODULE SearchIndexProofs ---------------------------
(* Proofs about SearchIndex, for any number of pages and slugs: types; only  *)
(* pages that have been live are ever found; what the service holds of an    *)
(* address nothing is on its way about is right.                             *)
EXTENDS SearchIndex, SequenceTheorems, TLAPS

---------------------------------------------------------------------------
(* Types                                                                   *)

LEMMA AddressType ==
  ASSUME NEW a \in [SearchPage -> SearchPage \cup {Home}], NEW s \in [SearchPage -> Slug],
         NEW p \in SearchPage
  PROVE  AddressIn(a, s, p) \in Address
  <1>1. CASE a[p] = Home
    BY <1>1 DEF AddressIn, Address
  <1>2. CASE a[p] # Home
    <2>1. <<s[a[p]], s[p]>> \in Slug \X Slug
      BY <1>2
    <2>2. QED
      BY <1>2, <2>1 DEF AddressIn, Address
  <1>3. QED
    BY <1>1, <1>2

LEMMA PageAddressType ==
  ASSUME SearchTypeOK, NEW p \in SearchPage
  PROVE  AddressOf(p) \in Address
  BY AddressType DEF SearchTypeOK, AddressOf

LEMMA RefreshedType ==
  ASSUME NEW a \in [SearchPage -> SearchPage \cup {Home}], NEW s \in [SearchPage -> Slug],
         NEW p \in SearchPage
  PROVE  Refreshed(p, a, s) \in Update
  BY AddressType DEF Refreshed, Update

LEMMA ChildrenType ==
  ASSUME NEW p \in SearchPage
  PROVE  Children(p) \subseteq SearchPage
  BY DEF Children

LEMMA RelocatedType ==
  ASSUME SearchTypeOK, NEW a \in [SearchPage -> SearchPage \cup {Home}],
         NEW s \in [SearchPage -> Slug], NEW p \in SearchPage, NEW found
  PROVE  /\ Relocated(p, a, s, found) \subseteq Update
         /\ \A m \in Relocated(p, a, s, found) : m.page \in found \ Unlisted
  <1>1. ASSUME NEW q \in {p} \cup Children(p)
        PROVE  [page |-> q, uri |-> AddressIn(a, s, q), uri_old |-> AddressOf(q)] \in Update
    <2>1. q \in SearchPage
      BY <1>1, ChildrenType
    <2>2. QED
      BY <2>1, AddressType, PageAddressType DEF Update
  <1>2. QED
    BY <1>1 DEF Relocated, IndexableUnder

LEMMA SlugChangedType ==
  ASSUME SearchTypeOK, NEW p \in SearchPage, NEW s \in Slug, NEW found
  PROVE  /\ SlugChanged(p, s, found) \subseteq Update
         /\ \A m \in SlugChanged(p, s, found) : m.page \in found \ Unlisted
  <1>1. above \in [SearchPage -> SearchPage \cup {Home}] /\ [slug EXCEPT ![p] = s] \in [SearchPage -> Slug]
    BY DEF SearchTypeOK
  <1>2. QED
    BY <1>1, RelocatedType DEF SlugChanged

LEMMA NamesType ==
  ASSUME NEW S \in SUBSET Update
  PROVE  NamedBy(S) \subseteq Address
  BY DEF NamedBy, Named, Update

LEMMA PendingType ==
  ASSUME SearchTypeOK
  PROVE  PendingUpdates \subseteq Update /\ PendingDeletes \subseteq Address
  BY DEF SearchTypeOK, PendingUpdates, PendingDeletes

\* What a send leaves in its topic and among the addresses that are upset.
LEMMA SendUpdatesType ==
  ASSUME SearchTypeOK, NEW S \in SUBSET Update, NEW untold \in SUBSET Address,
         SendUpdates(S, untold)
  PROVE  updated' \in Seq(SUBSET Update) /\ upset' \subseteq Address
  <1>1. PICK sent \in SUBSET S :
          /\ updated' = IF sent = {} THEN updated ELSE Append(updated, sent)
          /\ upset' = upset \cup untold \cup NamedBy(S \ sent)
                            \cup (NamedBy(sent) \cap PendingDeletes)
    BY DEF SendUpdates
  <1>2. sent \in SUBSET Update /\ updated \in Seq(SUBSET Update)
    BY DEF SearchTypeOK
  <1>3. updated' \in Seq(SUBSET Update)
    BY <1>1, <1>2
  <1>4. NamedBy(S \ sent) \subseteq Address /\ NamedBy(sent) \subseteq Address /\ upset \subseteq Address
    BY <1>2, NamesType DEF SearchTypeOK
  <1>5. QED
    BY <1>1, <1>3, <1>4

LEMMA SendDeletesType ==
  ASSUME SearchTypeOK, NEW S \in SUBSET Address, SendDeletes(S)
  PROVE  deleted' \in Seq(SUBSET Address) /\ upset' \subseteq Address
  <1>1. PICK sent \in SUBSET S :
          /\ deleted' = IF sent = {} THEN deleted ELSE Append(deleted, sent)
          /\ upset' = upset \cup (S \ sent) \cup (sent \cap NamedBy(PendingUpdates))
    BY DEF SendDeletes
  <1>2. deleted \in Seq(SUBSET Address) /\ sent \in SUBSET Address /\ upset \subseteq Address
    BY DEF SearchTypeOK
  <1>3. QED
    BY <1>1, <1>2

LEMMA GoneType ==
  ASSUME SearchTypeOK, NEW p \in SearchPage
  PROVE  GoneAddresses({p} \cup Children(p)) \in SUBSET Address
  BY PageAddressType, ChildrenType DEF GoneAddresses

LEMMA EditType ==
  ASSUME SearchTypeOK, edits < MaxEdits, edits' = edits + 1
  PROVE  edits' \in 0 .. MaxEdits
  BY SearchAssumption DEF SearchTypeOK

LEMMA PublishTypes ==
  ASSUME SearchTypeOK, NEW p \in SearchPage, NEW s \in Slug, NEW future \in BOOLEAN,
         Publish(p, s, future) \/ PublishFromBundle(p, s)
  PROVE  SearchTypeOK'
  <1>0. edits' \in 0 .. MaxEdits
    BY EditType DEF Publish, PublishFromBundle, Edit
  <1>1. slug' \in [SearchPage -> Slug] /\ above \in [SearchPage -> SearchPage \cup {Home}]
    BY DEF Publish, PublishFromBundle, SearchTypeOK
  <1>2. {} \in SUBSET Address
    OBVIOUS
  <1>3. CASE Publish(p, s, future)
    <2> DEFINE found == LiveAfter(p, future)
               fresh == {Refreshed(q, above, slug') : q \in {r \in {p} \cap found : Indexable(r)}}
    <2>1. SlugChanged(p, s, found) \cup fresh \in SUBSET Update
      BY <1>1, SlugChangedType, RefreshedType
    <2>2. SendUpdates(SlugChanged(p, s, found) \cup fresh, {})
      BY <1>3 DEF Publish
    <2>3. updated' \in Seq(SUBSET Update) /\ upset' \subseteq Address
      BY <1>2, <2>1, <2>2, SendUpdatesType
    <2>4. status' \in [SearchPage -> {"draft", "live", "deleted"}] /\ wasLive' \subseteq SearchPage
      BY <1>3 DEF Publish, SearchTypeOK
    <2>5. UNCHANGED <<above, hidden, toIndex, held, deleted, index>>
      BY <1>3 DEF Publish
    <2>6. QED
      BY <1>0, <1>1, <2>3, <2>4, <2>5 DEF SearchTypeOK
  <1>4. CASE PublishFromBundle(p, s)
    <2>1. SendUpdates(SlugChanged(p, s, LivePages \cup {p}), {})
      BY <1>4 DEF PublishFromBundle
    <2>2. updated' \in Seq(SUBSET Update) /\ upset' \subseteq Address
      BY <1>2, <2>1, SlugChangedType, SendUpdatesType
    <2>3. /\ status' \in [SearchPage -> {"draft", "live", "deleted"}]
          /\ wasLive' \subseteq SearchPage /\ toIndex' \subseteq SearchPage
      BY <1>4 DEF PublishFromBundle, SearchTypeOK
    <2>4. UNCHANGED <<above, hidden, held, deleted, index>>
      BY <1>4 DEF PublishFromBundle
    <2>5. QED
      BY <1>0, <1>1, <2>2, <2>3, <2>4 DEF SearchTypeOK
  <1>5. QED
    BY <1>3, <1>4

LEMMA MoveTypes ==
  ASSUME SearchTypeOK, NEW p \in SearchPage, NEW a \in SearchPage \cup {Home}, Move(p, a)
  PROVE  SearchTypeOK'
  <1>1. edits' \in 0 .. MaxEdits
    BY EditType DEF Move, Edit
  <1>2. above' \in [SearchPage -> SearchPage \cup {Home}] /\ slug \in [SearchPage -> Slug]
    BY DEF Move, SearchTypeOK
  <1>3. Relocated(p, above', slug, LivePages) \in SUBSET Update
    BY <1>2, RelocatedType
  <1>4. Concealed(p, above') \in SUBSET Address
    BY PageAddressType, ChildrenType DEF Concealed
  <1>5. SendUpdates(Relocated(p, above', slug, LivePages), Concealed(p, above'))
        /\ UNCHANGED <<status, slug, hidden, toIndex, held, deleted, index, wasLive>>
    BY DEF Move
  <1>6. updated' \in Seq(SUBSET Update) /\ upset' \subseteq Address
    BY <1>3, <1>4, <1>5, SendUpdatesType
  <1>7. QED
    BY <1>1, <1>2, <1>5, <1>6 DEF SearchTypeOK

LEMMA RemovalTypes ==
  ASSUME SearchTypeOK, NEW p \in SearchPage, Unpublish(p) \/ Delete(p) \/ DeleteFails(p)
  PROVE  SearchTypeOK'
  <1>1. edits' \in 0 .. MaxEdits
    BY EditType DEF Unpublish, Delete, DeleteFails, Edit
  <1>gone. GoneAddresses({p} \cup Children(p)) \in SUBSET Address
    BY GoneType
  <1>2. CASE Unpublish(p)
    <2>1. {AddressOf(q) : q \in {r \in {p} : Indexable(r)}} \in SUBSET Address
      BY PageAddressType
    <2>2. deleted' \in Seq(SUBSET Address) /\ upset' \subseteq Address
      BY <1>2, <2>1, SendDeletesType DEF Unpublish
    <2>3. status' \in [SearchPage -> {"draft", "live", "deleted"}]
          /\ UNCHANGED <<above, slug, hidden, toIndex, held, updated, index, wasLive>>
      BY <1>2 DEF Unpublish, SearchTypeOK
    <2>4. QED
      BY <1>1, <2>2, <2>3 DEF SearchTypeOK
  <1>3. CASE Delete(p)
    <2> DEFINE S == GoneAddresses({p} \cup Children(p))
    <2>1. /\ deleted' = (IF S = {} THEN deleted ELSE Append(deleted, S))
          /\ upset' = upset \cup (S \cap NamedBy(PendingUpdates))
      BY <1>3 DEF Delete
    <2> HIDE DEF S
    <2>2. deleted' \in Seq(SUBSET Address) /\ upset' \subseteq Address
      <3>1. S \in SUBSET Address
        BY <1>gone DEF S
      <3>2. deleted \in Seq(SUBSET Address) /\ upset \subseteq Address
        BY DEF SearchTypeOK
      <3>3. QED
        BY <2>1, <3>1, <3>2
    <2>3. /\ status' \in [SearchPage -> {"draft", "live", "deleted"}]
          /\ toIndex' \subseteq SearchPage
          /\ UNCHANGED <<above, slug, hidden, held, updated, index, wasLive>>
      BY <1>3 DEF Delete, SearchTypeOK
    <2>4. QED
      BY <1>1, <2>2, <2>3 DEF SearchTypeOK
  <1>4. CASE DeleteFails(p)
    <2> DEFINE S == GoneAddresses({p} \cup Children(p))
    <2>1. PICK sent \in SUBSET S :
            /\ deleted' = IF sent = {} THEN deleted ELSE Append(deleted, sent)
            /\ upset' = upset \cup sent
      BY <1>4 DEF DeleteFails
    <2> HIDE DEF S
    <2>2. deleted' \in Seq(SUBSET Address) /\ upset' \subseteq Address
      <3>1. S \in SUBSET Address
        BY <1>gone DEF S
      <3>2. deleted \in Seq(SUBSET Address) /\ upset \subseteq Address
        BY DEF SearchTypeOK
      <3>3. QED
        BY <2>1, <3>1, <3>2
    <2>3. UNCHANGED <<status, above, slug, hidden, toIndex, held, updated, index, wasLive>>
      BY <1>4 DEF DeleteFails
    <2>4. QED
      BY <1>1, <2>2, <2>3 DEF SearchTypeOK
  <1>5. QED
    BY <1>2, <1>3, <1>4

LEMMA PrivacyTypes ==
  ASSUME SearchTypeOK, NEW p \in SearchPage, ChangePrivacy(p)
  PROVE  SearchTypeOK'
  <1>1. edits' \in 0 .. MaxEdits
    BY EditType DEF ChangePrivacy, Edit
  <1>2. upset' \subseteq Address /\ hidden' \subseteq SearchPage
    BY PageAddressType, ChildrenType DEF ChangePrivacy, SearchTypeOK
  <1>3. QED
    BY <1>1, <1>2 DEF ChangePrivacy, SearchTypeOK

LEMMA ActionTypes ==
  ASSUME SearchTypeOK,
         \/ \E p \in SearchPage : ActionRead(p)
         \/ \E m \in held, arrives \in BOOLEAN, again \in BOOLEAN : ActionSend(m, arrives, again)
  PROVE  SearchTypeOK'
  <1>1. ASSUME NEW p \in SearchPage, ActionRead(p)
        PROVE  SearchTypeOK'
    <2>1. Refreshed(p, above, slug) \in Update
      BY RefreshedType DEF SearchTypeOK
    <2>2. QED
      BY <1>1, <2>1 DEF ActionRead, SearchTypeOK
  <1>2. ASSUME NEW m \in held, NEW arrives \in BOOLEAN, NEW again \in BOOLEAN,
               ActionSend(m, arrives, again)
        PROVE  SearchTypeOK'
    <2>1. m \in Update
      BY DEF SearchTypeOK
    <2>2. Named(m) \subseteq Address
      BY <2>1 DEF Named, Update
    <2>3. upset' \subseteq Address /\ toIndex' \subseteq SearchPage /\ held' \subseteq Update
      BY <1>2, <2>1, <2>2 DEF ActionSend, SearchTypeOK, Update
    <2>4. updated' \in Seq(SUBSET Update)
      BY <1>2, <2>1 DEF ActionSend, SearchTypeOK
    <2>5. edits' \in 0 .. MaxEdits
      BY <1>2, SearchAssumption DEF ActionSend, SearchTypeOK
    <2>6. QED
      BY <1>2, <2>3, <2>4, <2>5 DEF ActionSend, SearchTypeOK
  <1>3. QED
    BY <1>1, <1>2

LEMMA TakeTypes ==
  ASSUME SearchTypeOK, (\E m \in PendingUpdates : TakeUpdate(m)) \/ TakeDelete
  PROVE  SearchTypeOK'
  <1>1. ASSUME NEW m \in PendingUpdates, TakeUpdate(m)
        PROVE  SearchTypeOK'
    <2>1. m \in Update /\ m.page \in SearchPage
      BY PendingType DEF Update
    <2>2. updated \in Seq(SUBSET Update) /\ updated # <<>>
      BY <1>1 DEF TakeUpdate, SearchTypeOK
    <2>3. [updated EXCEPT ![1] = @ \ {m}] \in Seq(SUBSET Update)
      BY <2>2
    <2>4. updated' \in Seq(SUBSET Update)
      <3>1. Tail(updated) \in Seq(SUBSET Update)
        BY <2>2
      <3>2. QED
        BY <1>1, <2>3, <3>1 DEF TakeUpdate
    <2>5. index' \in [Address -> SearchPage \cup {NoEntry}]
      BY <1>1, <2>1 DEF TakeUpdate, SearchTypeOK
    <2>6. QED
      BY <1>1, <2>4, <2>5 DEF TakeUpdate, SearchTypeOK
  <1>2. CASE TakeDelete
    <2>1. deleted' \in Seq(SUBSET Address)
      BY <1>2 DEF TakeDelete, SearchTypeOK
    <2>2. index' \in [Address -> SearchPage \cup {NoEntry}]
      BY <1>2 DEF TakeDelete, SearchTypeOK
    <2>3. QED
      BY <1>2, <2>1, <2>2 DEF TakeDelete, SearchTypeOK
  <1>3. QED
    BY <1>1, <1>2

LEMMA SearchTypesKept ==
  ASSUME SearchTypeOK, [SearchNext]_searchVars
  PROVE  SearchTypeOK'
  <1>1. CASE UNCHANGED searchVars
    BY <1>1 DEF searchVars, SearchTypeOK
  <1>2. QED
    BY <1>1, PublishTypes, MoveTypes, RemovalTypes, PrivacyTypes, ActionTypes, TakeTypes
       DEF SearchNext

\* The pages, the messages and the index stay ones there can be (cms/search).
THEOREM SearchTypes == ASSUME SearchAssumption PROVE SearchSpec => []SearchTypeOK
  <1>1. SearchInit => SearchTypeOK
    BY SearchAssumption DEF SearchInit, SearchTypeOK, LivePages
  <1>2. QED
    BY <1>1, SearchTypesKept, PTL DEF SearchSpec

---------------------------------------------------------------------------
(* Only released pages are found                                           *)

\* Every message, sent or not yet, is about a listed page that has been live.
Told == {m \in Update : m.page \in wasLive \ Unlisted}

FoundInv ==
  /\ SearchTypeOK
  /\ LivePages \subseteq wasLive
  /\ toIndex \subseteq wasLive
  /\ held \subseteq Told
  /\ PendingUpdates \subseteq Told
  /\ OnlyReleasedIsIndexed

\* What a step that may send does to all but the messages.
Settled ==
  /\ wasLive \subseteq wasLive'
  /\ LivePages' \subseteq wasLive'
  /\ toIndex' \subseteq wasLive'
  /\ held' \subseteq Told'
  /\ index' = index

LEMMA ToldGrows ==
  ASSUME wasLive \subseteq wasLive'
  PROVE  Told \subseteq Told'
  BY DEF Told

LEMMA AppendedUpdates ==
  ASSUME SearchTypeOK, NEW S, NEW sent \in SUBSET S,
         updated' = IF sent = {} THEN updated ELSE Append(updated, sent)
  PROVE  PendingUpdates' \subseteq PendingUpdates \cup S
  <1>1. updated \in Seq(SUBSET Update)
    BY DEF SearchTypeOK
  <1>2. CASE sent = {}
    BY <1>2 DEF PendingUpdates
  <1>3. CASE sent # {}
    <2>1. updated' = Append(updated, sent)
      BY <1>3
    <2>2. DOMAIN updated' = 1 .. Len(updated) + 1
      BY <1>1, <2>1
    <2>3. ASSUME NEW i \in DOMAIN updated'
          PROVE  updated'[i] \subseteq PendingUpdates \cup S
      <3>1. CASE i = Len(updated) + 1
        BY <1>1, <2>1, <3>1
      <3>2. CASE i \in 1 .. Len(updated)
        <4>1. updated'[i] = updated[i] /\ i \in DOMAIN updated
          BY <1>1, <2>1, <3>2
        <4>2. QED
          BY <4>1 DEF PendingUpdates
      <3>3. QED
        BY <1>1, <2>2, <3>1, <3>2
    <2>4. QED
      BY <2>3 DEF PendingUpdates
  <1>4. QED
    BY <1>2, <1>3

LEMMA SentIsFound ==
  ASSUME FoundInv, SearchTypeOK', Settled, NEW S, S \subseteq Told', NEW sent \in SUBSET S,
         updated' = IF sent = {} THEN updated ELSE Append(updated, sent)
  PROVE  FoundInv'
  <1>1. PendingUpdates' \subseteq PendingUpdates \cup S
    BY AppendedUpdates DEF FoundInv
  <1>2. PendingUpdates' \subseteq Told'
    BY <1>1, ToldGrows DEF FoundInv, Settled
  <1>3. OnlyReleasedIsIndexed'
    BY DEF FoundInv, Settled, OnlyReleasedIsIndexed
  <1>4. QED
    BY <1>2, <1>3 DEF FoundInv, Settled

LEMMA SentBySend ==
  ASSUME FoundInv, SearchTypeOK', Settled, NEW S, S \subseteq Told', NEW untold,
         SendUpdates(S, untold)
  PROVE  FoundInv'
  <1>1. PICK sent \in SUBSET S : updated' = IF sent = {} THEN updated ELSE Append(updated, sent)
    BY DEF SendUpdates
  <1>2. QED
    BY <1>1, SentIsFound

\* A step that sends no update.
LEMMA SilentIsFound ==
  ASSUME FoundInv, SearchTypeOK', Settled, UNCHANGED updated
  PROVE  FoundInv'
  BY ToldGrows DEF FoundInv, Settled, PendingUpdates, OnlyReleasedIsIndexed

LEMMA PublishFound ==
  ASSUME FoundInv, NEW p \in SearchPage, NEW s \in Slug, NEW future \in BOOLEAN,
         Publish(p, s, future) \/ PublishFromBundle(p, s)
  PROVE  FoundInv'
  <1>0. SearchTypeOK /\ SearchTypeOK'
    BY PublishTypes DEF FoundInv
  <1>1. slug' \in [SearchPage -> Slug] /\ above \in [SearchPage -> SearchPage \cup {Home}]
    BY <1>0 DEF Publish, PublishFromBundle, SearchTypeOK
  <1>2. CASE Publish(p, s, future)
    <2> DEFINE found == LiveAfter(p, future)
               fresh == {Refreshed(q, above, slug') : q \in {r \in {p} \cap found : Indexable(r)}}
    <2>1. found \subseteq wasLive' /\ wasLive \subseteq wasLive'
      BY <1>2 DEF LiveAfter, Publish, FoundInv
    <2>2. LivePages' \subseteq wasLive'
      BY <1>0, <1>2 DEF Publish, FoundInv, LivePages, SearchTypeOK
    <2>3. Settled
      BY <1>2, <2>1, <2>2, ToldGrows DEF Publish, FoundInv, Settled
    <2>4. SlugChanged(p, s, found) \subseteq Told'
      BY <1>0, <2>1, SlugChangedType DEF Told
    <2>5. fresh \subseteq Told'
      <3>1. ASSUME NEW q \in {p} \cap found, Indexable(q)
            PROVE  Refreshed(q, above, slug') \in Told'
        <4>1. Refreshed(q, above, slug') \in Update /\ Refreshed(q, above, slug').page = q
          BY <1>1, RefreshedType DEF Refreshed
        <4>2. q \in wasLive' \ Unlisted
          BY <2>1, <3>1 DEF Indexable, IndexableUnder
        <4>3. QED
          BY <4>1, <4>2 DEF Told
      <3>2. QED
        BY <3>1
    <2>6. SendUpdates(SlugChanged(p, s, found) \cup fresh, {})
      BY <1>2 DEF Publish
    <2>7. QED
      BY <1>0, <2>3, <2>4, <2>5, <2>6, SentBySend
  <1>3. CASE PublishFromBundle(p, s)
    <2>1. LivePages \cup {p} \subseteq wasLive' /\ wasLive \subseteq wasLive' /\ toIndex' \subseteq wasLive'
      BY <1>3 DEF PublishFromBundle, FoundInv
    <2>2. LivePages' \subseteq wasLive'
      BY <1>0, <1>3 DEF PublishFromBundle, FoundInv, LivePages, SearchTypeOK
    <2>3. Settled
      BY <1>3, <2>1, <2>2, ToldGrows DEF PublishFromBundle, FoundInv, Settled
    <2>4. SlugChanged(p, s, LivePages \cup {p}) \subseteq Told'
      BY <1>0, <2>1, SlugChangedType DEF Told
    <2>5. QED
      BY <1>0, <1>3, <2>3, <2>4, SentBySend DEF PublishFromBundle
  <1>4. QED
    BY <1>2, <1>3

LEMMA MoveFound ==
  ASSUME FoundInv, NEW p \in SearchPage, NEW a \in SearchPage \cup {Home}, Move(p, a)
  PROVE  FoundInv'
  <1>0. SearchTypeOK /\ SearchTypeOK'
    BY MoveTypes DEF FoundInv
  <1>1. above' \in [SearchPage -> SearchPage \cup {Home}] /\ slug \in [SearchPage -> Slug]
    BY <1>0 DEF SearchTypeOK
  <1>2. Settled
    BY ToldGrows DEF Move, Settled, FoundInv, LivePages
  <1>3. Relocated(p, above', slug, LivePages) \subseteq Told'
    <2>1. wasLive' = wasLive
      BY DEF Move
    <2>2. QED
      BY <1>0, <1>1, <2>1, RelocatedType DEF Told, FoundInv
  <1>4. SendUpdates(Relocated(p, above', slug, LivePages), Concealed(p, above'))
    BY DEF Move
  <1>5. QED
    BY <1>0, <1>2, <1>3, <1>4, SentBySend

LEMMA RemovalFound ==
  ASSUME FoundInv, NEW p \in SearchPage,
         Unpublish(p) \/ Delete(p) \/ DeleteFails(p) \/ ChangePrivacy(p)
  PROVE  FoundInv'
  <1>0. SearchTypeOK /\ SearchTypeOK'
    BY RemovalTypes, PrivacyTypes DEF FoundInv
  <1>1. UNCHANGED <<held, updated, index, wasLive>> /\ toIndex' \subseteq toIndex
    BY DEF Unpublish, Delete, DeleteFails, ChangePrivacy
  <1>2. LivePages' \subseteq LivePages
    BY <1>0 DEF Unpublish, Delete, DeleteFails, ChangePrivacy, LivePages, SearchTypeOK
  <1>3. Settled
    BY <1>1, <1>2, ToldGrows DEF Settled, FoundInv
  <1>4. QED
    BY <1>0, <1>1, <1>3, SilentIsFound

LEMMA ActionFound ==
  ASSUME FoundInv,
         \/ \E p \in SearchPage : ActionRead(p)
         \/ \E m \in held, arrives \in BOOLEAN, again \in BOOLEAN : ActionSend(m, arrives, again)
  PROVE  FoundInv'
  <1>0. SearchTypeOK /\ SearchTypeOK'
    BY ActionTypes DEF FoundInv
  <1>1. ASSUME NEW p \in SearchPage, ActionRead(p)
        PROVE  FoundInv'
    <2>1. wasLive' = wasLive /\ UNCHANGED <<status, updated, index>> /\ toIndex' \subseteq toIndex
      BY <1>1 DEF ActionRead
    <2>2. Refreshed(p, above, slug) \in Update /\ Refreshed(p, above, slug).page = p
      BY <1>0, RefreshedType DEF SearchTypeOK, Refreshed
    <2>3. p \in wasLive
      BY <1>1 DEF ActionRead, FoundInv
    <2>4. Indexable(p) => Refreshed(p, above, slug) \in Told
      BY <2>2, <2>3 DEF Told, Indexable, IndexableUnder
    <2>5. held' \subseteq Told
      BY <1>1, <2>4 DEF ActionRead, FoundInv
    <2>6. Settled
      BY <2>1, <2>5, ToldGrows DEF Settled, FoundInv, LivePages
    <2>7. QED
      BY <1>0, <2>1, <2>6, SilentIsFound
  <1>2. ASSUME NEW m \in held, NEW arrives \in BOOLEAN, NEW again \in BOOLEAN,
               ActionSend(m, arrives, again)
        PROVE  FoundInv'
    <2>1. wasLive' = wasLive /\ UNCHANGED <<status, index>> /\ held' \subseteq held
      BY <1>2 DEF ActionSend
    <2>2. m \in Told /\ m.page \in wasLive
      BY DEF FoundInv, Told
    <2>3. toIndex' \subseteq wasLive
      BY <1>2, <2>2 DEF ActionSend, FoundInv
    <2>4. Settled
      BY <2>1, <2>3, ToldGrows DEF Settled, FoundInv, LivePages
    <2>5. {m} \subseteq Told'
      BY <2>1, <2>2 DEF Told
    <2>6. updated' = IF arrives THEN Append(updated, {m}) ELSE updated
      BY <1>2 DEF ActionSend
    <2>7. CASE arrives
      BY <1>0, <2>4, <2>5, <2>6, <2>7, SentIsFound
    <2>8. CASE ~arrives
      BY <1>0, <2>4, <2>6, <2>8, SilentIsFound
    <2>9. QED
      BY <2>7, <2>8
  <1>3. QED
    BY <1>1, <1>2

LEMMA TakenFromTopic ==
  ASSUME SearchTypeOK, NEW m \in PendingUpdates, TakeUpdate(m)
  PROVE  PendingUpdates' \subseteq PendingUpdates
  <1>1. updated \in Seq(SUBSET Update) /\ updated # <<>>
    BY DEF SearchTypeOK, TakeUpdate
  <1>2. CASE updated' = Tail(updated)
    <2>1. \A i \in DOMAIN updated' : updated'[i] = updated[i + 1] /\ i + 1 \in DOMAIN updated
      BY <1>1, <1>2
    <2>2. QED
      BY <2>1 DEF PendingUpdates
  <1>3. CASE updated' = [updated EXCEPT ![1] = @ \ {m}]
    <2>1. \A i \in DOMAIN updated' : updated'[i] \subseteq updated[i] /\ i \in DOMAIN updated
      BY <1>1, <1>3
    <2>2. QED
      BY <2>1 DEF PendingUpdates
  <1>4. QED
    BY <1>2, <1>3 DEF TakeUpdate

LEMMA TakeFound ==
  ASSUME FoundInv, (\E m \in PendingUpdates : TakeUpdate(m)) \/ TakeDelete
  PROVE  FoundInv'
  <1>0. SearchTypeOK /\ SearchTypeOK'
    BY TakeTypes DEF FoundInv
  <1>1. ASSUME NEW m \in PendingUpdates, TakeUpdate(m)
        PROVE  FoundInv'
    <2>1. PendingUpdates' \subseteq PendingUpdates
      BY <1>0, <1>1, TakenFromTopic
    <2>2. UNCHANGED <<status, toIndex, held, wasLive>>
      BY <1>1 DEF TakeUpdate
    <2>3. m.page \in wasLive \ Unlisted
      BY DEF FoundInv, Told
    <2>4. \A u \in Address : index'[u] \in {m.page, NoEntry, index[u]}
      BY <1>1 DEF TakeUpdate
    <2>5. OnlyReleasedIsIndexed'
      BY <2>2, <2>3, <2>4 DEF FoundInv, OnlyReleasedIsIndexed
    <2>6. QED
      BY <1>0, <2>1, <2>2, <2>5 DEF FoundInv, Told, LivePages
  <1>2. CASE TakeDelete
    <2>1. UNCHANGED <<status, toIndex, held, updated, wasLive>>
      BY <1>2 DEF TakeDelete
    <2>2. \A u \in Address : index'[u] \in {NoEntry, index[u]}
      BY <1>2 DEF TakeDelete
    <2>3. OnlyReleasedIsIndexed'
      BY <2>1, <2>2 DEF FoundInv, OnlyReleasedIsIndexed
    <2>4. QED
      BY <1>0, <2>1, <2>3 DEF FoundInv, Told, LivePages, PendingUpdates
  <1>3. QED
    BY <1>1, <1>2

LEMMA FoundKept ==
  ASSUME FoundInv, [SearchNext]_searchVars
  PROVE  FoundInv'
  <1>1. CASE UNCHANGED searchVars
    <2>1. UNCHANGED <<status, toIndex, held, updated, index, wasLive>>
      BY <1>1 DEF searchVars
    <2>2. SearchTypeOK'
      BY <1>1, SearchTypesKept DEF FoundInv
    <2>3. Settled
      BY <2>1 DEF FoundInv, Settled, Told, LivePages
    <2>4. QED
      BY <2>1, <2>2, <2>3, SilentIsFound
  <1>2. QED
    BY <1>1, PublishFound, MoveFound, RemovalFound, ActionFound, TakeFound DEF SearchNext

\* Whatever is lost, late, sent again or out of order, the service finds a page
\* only if it has been live, and none of an excluded type: no message about
\* another page is ever built (is_indexable_page, on_page_moved,
\* run_post_publish_actions_handler).
THEOREM OnlyReleasedFound ==
  ASSUME SearchAssumption
  PROVE  SearchSpec => []OnlyReleasedIsIndexed
  <1>1. SearchInit => FoundInv
    <2>1. ASSUME SearchInit
          PROVE  SearchTypeOK /\ OnlyReleasedIsIndexed
      <3>1. SearchTypeOK
        BY <2>1, SearchAssumption DEF SearchInit, SearchTypeOK, LivePages
      <3>2. ASSUME NEW u \in Address, index[u] # NoEntry
            PROVE  index[u] \in wasLive \ Unlisted
        <4>1. index[u] \in Expected(u)
          BY <2>1, <3>2 DEF SearchInit
        <4>2. QED
          BY <2>1, <4>1 DEF SearchInit, Expected, Indexable, IndexableUnder
      <3>3. QED
        BY <3>1, <3>2 DEF OnlyReleasedIsIndexed
    <2>2. QED
      BY <2>1 DEF SearchInit, FoundInv, PendingUpdates
  <1>2. FoundInv => OnlyReleasedIsIndexed
    BY DEF FoundInv
  <1>3. QED
    BY <1>1, <1>2, FoundKept, PTL DEF SearchSpec

---------------------------------------------------------------------------
(* What the service holds of a quiet address                               *)

\* A page is at the top or below a page at the top, and alone of its slug there.
Rooted(p) == above[p] # Home => Exists(above[p]) /\ above[above[p]] = Home
Distinct(p) == FreeUnder(above[p], slug[p], p)

TreeInv == \A p \in SearchPage : Exists(p) => Rooted(p) /\ Distinct(p)

OnePageEach ==
  \A p, q \in SearchPage : Exists(p) /\ Exists(q) /\ AddressOf(p) = AddressOf(q) => p = q

\* What an action has built says nothing of an earlier address.
HeldIsPlain == \A m \in held : m.uri_old = NoAddress

TreeFacts == SearchTypeOK /\ TreeInv /\ OnePageEach /\ HeldIsPlain

\* What an update that names an address puts there.
Word(m, u) == IF m.uri = u THEN m.page ELSE NoEntry

Wanted(x, u) == {x} \ {NoEntry} = Expected(u)

\* An action is still to tell of the page at the address.
Owed(u) ==
  \E p \in Expected(u) : p \in toIndex \/ \E m \in held : m.page = p /\ m.uri = u

\* A removal on its way is of an address that is free, and no update names it.
RemovalsRight(u) ==
  u \in PendingDeletes => Expected(u) = {} /\ u \notin NamedBy(PendingUpdates)

\* The updates that come last to an address put there what is expected.
UpdatesRight(u) ==
  \A i \in DOMAIN updated : \A m \in updated[i] :
    u \in Named(m) /\ (\A j \in DOMAIN updated : j > i => u \notin NamedBy(updated[j]))
    => Wanted(Word(m, u), u)

IndexRight(u) ==
  u \notin PendingDeletes \cup NamedBy(PendingUpdates) => Wanted(index[u], u)

Settles(u) == RemovalsRight(u) /\ UpdatesRight(u) /\ IndexRight(u)

Fits(u) == u \notin upset => Owed(u) \/ Settles(u)

RightInv == \A u \in Address : Fits(u)

LEMMA SameAddress ==
  ASSUME NEW a, NEW s, NEW b, NEW t, NEW p, NEW q, AddressIn(a, s, p) = AddressIn(b, t, q)
  PROVE  /\ a[p] = Home <=> b[q] = Home
         /\ s[p] = t[q]
         /\ a[p] # Home => s[a[p]] = t[b[q]]
  BY DEF AddressIn

LEMMA AddressIsSome ==
  ASSUME NEW u \in Address
  PROVE  u # NoAddress
  BY DEF Address, NoAddress

LEMMA TreeGivesOne ==
  ASSUME SearchTypeOK, TreeInv
  PROVE  OnePageEach
  <1>1. SUFFICES ASSUME NEW p \in SearchPage, NEW q \in SearchPage, Exists(p), Exists(q),
                        AddressOf(p) = AddressOf(q)
                 PROVE  p = q
    BY DEF OnePageEach
  <1>2. /\ above[p] = Home <=> above[q] = Home
        /\ slug[p] = slug[q]
        /\ above[p] # Home => slug[above[p]] = slug[above[q]]
    BY <1>1, SameAddress DEF AddressOf
  <1>3. above[p] = above[q]
    <2>1. CASE above[p] # Home
      <3>1. /\ above[p] \in SearchPage /\ Exists(above[p]) /\ above[above[p]] = Home
            /\ above[q] \in SearchPage /\ Exists(above[q]) /\ above[above[q]] = Home
        BY <1>1, <1>2, <2>1 DEF TreeInv, Rooted, SearchTypeOK
      <3>2. FreeUnder(Home, slug[above[p]], above[p])
        BY <3>1 DEF TreeInv, Distinct
      <3>3. QED
        BY <1>2, <2>1, <3>1, <3>2 DEF FreeUnder
    <2>2. QED
      BY <1>2, <2>1
  <1>4. FreeUnder(above[p], slug[p], p)
    BY <1>1 DEF TreeInv, Distinct
  <1>5. QED
    BY <1>1, <1>2, <1>3, <1>4 DEF FreeUnder

\* A page with pages below it is at the top.
LEMMA ParentIsAtTop ==
  ASSUME SearchAssumption, SearchTypeOK, TreeInv, NEW p \in SearchPage, NEW q \in Children(p)
  PROVE  above[p] = Home
  BY DEF SearchAssumption, TreeInv, Rooted, Children, SearchTypeOK

LEMMA MovesAlone ==
  ASSUME SearchAssumption, SearchTypeOK, TreeInv, NEW p \in SearchPage, NEW a, Move(p, a)
  PROVE  Children(p) = {}
  BY ParentIsAtTop DEF Move

LEMMA PublishTree ==
  ASSUME SearchTypeOK, TreeInv, NEW p \in SearchPage, NEW s \in Slug, NEW future \in BOOLEAN,
         Publish(p, s, future) \/ PublishFromBundle(p, s)
  PROVE  TreeInv'
  <1>1. /\ Exists(p) /\ FreeUnder(above[p], s, p)
        /\ above' = above /\ slug' = [slug EXCEPT ![p] = s]
    BY DEF Publish, PublishFromBundle, Edit
  <1>2. \A q \in SearchPage : Exists(q)' <=> Exists(q)
    BY <1>1 DEF Publish, PublishFromBundle, Exists, SearchTypeOK
  <1>3. SUFFICES ASSUME NEW q \in SearchPage, Exists(q)
                 PROVE  Rooted(q)' /\ Distinct(q)'
    BY <1>2 DEF TreeInv
  <1>4. Rooted(q)'
    <2>1. Rooted(q) /\ above[q] \in SearchPage \cup {Home}
      BY <1>3 DEF TreeInv, SearchTypeOK
    <2>2. QED
      BY <1>1, <1>2, <2>1 DEF Rooted
  <1>5. ASSUME NEW r \in SearchPage \ {q}, Exists(r), above[r] = above[q]
        PROVE  slug'[r] # slug'[q]
    <2>1. FreeUnder(above[q], slug[q], q)
      BY <1>3 DEF TreeInv, Distinct
    <2>2. QED
      BY <1>1, <1>3, <1>5, <2>1 DEF FreeUnder, SearchTypeOK
  <1>6. Distinct(q)'
    BY <1>1, <1>2, <1>5 DEF Distinct, FreeUnder
  <1>7. QED
    BY <1>4, <1>6

LEMMA MoveTree ==
  ASSUME SearchAssumption, SearchTypeOK, TreeInv, NEW p \in SearchPage,
         NEW a \in SearchPage \cup {Home}, Move(p, a)
  PROVE  TreeInv'
  <1>1. /\ Exists(p) /\ FreeUnder(a, slug[p], p) /\ a # p
        /\ a # Home => Exists(a) /\ above[a] = Home
        /\ above' = [above EXCEPT ![p] = a] /\ slug' = slug /\ status' = status
    BY DEF Move, Edit
  <1>2. \A q \in SearchPage : Exists(q) => above[q] # p
    BY MovesAlone DEF Children
  <1>3. \A q : Exists(q)' <=> Exists(q)
    BY <1>1 DEF Exists
  <1>4. SUFFICES ASSUME NEW q \in SearchPage, Exists(q)
                 PROVE  Rooted(q)' /\ Distinct(q)'
    BY <1>3 DEF TreeInv
  <1>5. Rooted(q)'
    <2>1. CASE q = p
      BY <1>1, <1>3, <2>1 DEF SearchTypeOK, Rooted
    <2>2. CASE q # p
      <3>1. Rooted(q) /\ above'[q] = above[q] /\ above[q] # p /\ above[q] \in SearchPage \cup {Home}
        BY <1>1, <1>2, <1>4, <2>2 DEF TreeInv, SearchTypeOK
      <3>2. above[q] # Home => above'[above[q]] = above[above[q]]
        BY <1>1, <3>1 DEF SearchTypeOK
      <3>3. QED
        BY <1>3, <3>1, <3>2 DEF Rooted
    <2>3. QED
      BY <2>1, <2>2
  <1>6. ASSUME NEW r \in SearchPage \ {q}, Exists(r), above'[r] = above'[q]
        PROVE  slug[r] # slug[q]
    <2>1. FreeUnder(above[q], slug[q], q)
      BY <1>4 DEF TreeInv, Distinct
    <2>2. QED
      BY <1>1, <1>4, <1>6, <2>1 DEF FreeUnder, SearchTypeOK
  <1>7. Distinct(q)'
    BY <1>1, <1>3, <1>6 DEF FreeUnder, Distinct
  <1>8. QED
    BY <1>5, <1>7

LEMMA DeleteTree ==
  ASSUME SearchAssumption, SearchTypeOK, TreeInv, NEW p \in SearchPage, Delete(p)
  PROVE  TreeInv'
  <1>1. above' = above /\ slug' = slug
    BY DEF Delete
  <1>2. \A q \in SearchPage : Exists(q)' <=> Exists(q) /\ q \notin {p} \cup Children(p)
    BY DEF Delete, Exists, SearchTypeOK
  <1>3. SUFFICES ASSUME NEW q \in SearchPage, Exists(q), q \notin {p} \cup Children(p)
                 PROVE  Rooted(q)' /\ Distinct(q)'
    BY <1>2 DEF TreeInv
  <1>4. Rooted(q)'
    <2>1. SUFFICES ASSUME above[q] # Home
                   PROVE  Exists(above[q])' /\ above[above[q]] = Home
      BY <1>1 DEF Rooted
    <2>2. above[q] \in SearchPage /\ Exists(above[q]) /\ above[above[q]] = Home
      BY <1>3, <2>1 DEF TreeInv, Rooted, SearchTypeOK
    <2>3. above[q] \notin {p} \cup Children(p)
      BY <1>3, <2>2 DEF Children, SearchAssumption
    <2>4. QED
      BY <1>1, <1>2, <2>2, <2>3
  <1>5. Distinct(q)'
    BY <1>1, <1>2, <1>3 DEF Distinct, FreeUnder, TreeInv
  <1>6. QED
    BY <1>4, <1>5

LEMMA SameTree ==
  ASSUME SearchTypeOK, TreeInv, UNCHANGED <<above, slug>>,
         \A q \in SearchPage : Exists(q)' <=> Exists(q)
  PROVE  TreeInv'
  <1>1. ASSUME NEW q \in SearchPage, Exists(q)
        PROVE  Rooted(q)' /\ Distinct(q)'
    <2>1. Rooted(q) /\ Distinct(q)
      BY <1>1 DEF TreeInv
    <2>2. above[q] \in SearchPage \cup {Home}
      BY DEF SearchTypeOK
    <2>3. QED
      BY <2>1, <2>2 DEF Rooted, Distinct, FreeUnder
  <1>2. QED
    BY <1>1 DEF TreeInv

LEMMA TreeKept ==
  ASSUME SearchAssumption, SearchTypeOK, TreeInv, [SearchNext]_searchVars
  PROVE  TreeInv'
  <1>1. ASSUME UNCHANGED <<status, above, slug>>
        PROVE  TreeInv'
    BY <1>1, SameTree DEF Exists
  <1>2. ASSUME NEW p \in SearchPage, Unpublish(p)
        PROVE  TreeInv'
    BY <1>2, SameTree DEF Unpublish, Exists, SearchTypeOK
  <1>3. ASSUME NEW p \in SearchPage, DeleteFails(p) \/ ChangePrivacy(p) \/ ActionRead(p)
        PROVE  TreeInv'
    BY <1>1, <1>3 DEF DeleteFails, ChangePrivacy, ActionRead
  <1>4. ASSUME NEW m \in held, NEW arrives \in BOOLEAN, NEW again \in BOOLEAN,
               ActionSend(m, arrives, again)
        PROVE  TreeInv'
    BY <1>1, <1>4 DEF ActionSend
  <1>5. ASSUME (\E m \in PendingUpdates : TakeUpdate(m)) \/ TakeDelete \/ UNCHANGED searchVars
        PROVE  TreeInv'
    BY <1>1, <1>5 DEF TakeUpdate, TakeDelete, searchVars
  <1>6. QED
    BY <1>2, <1>3, <1>4, <1>5, PublishTree, MoveTree, DeleteTree DEF SearchNext

LEMMA PlainKept ==
  ASSUME HeldIsPlain, [SearchNext]_searchVars
  PROVE  HeldIsPlain'
  <1>1. held' \subseteq held \cup {Refreshed(p, above, slug) : p \in SearchPage}
    BY DEF SearchNext, searchVars, Publish, PublishFromBundle, Move, Unpublish, Delete, DeleteFails,
           ChangePrivacy, ActionRead, ActionSend, TakeUpdate, TakeDelete
  <1>2. QED
    BY <1>1 DEF HeldIsPlain, Refreshed

---------------------------------------------------------------------------
(* What a step that sends leaves of an address                             *)

\* Updates appended to their topic, of an address they do not name, or of one
\* that all those that name it put right.
LEMMA AppendFits ==
  ASSUME SearchTypeOK, NEW u \in Address, Fits(u), NEW sent \in SUBSET Update,
         updated' = IF sent = {} THEN updated ELSE Append(updated, sent),
         upset \subseteq upset', UNCHANGED <<deleted, index>>,
         \/ u \in upset'
         \/ u \notin NamedBy(sent) /\ Expected(u)' = Expected(u) /\ (Owed(u) => Owed(u)')
         \/ /\ u \in NamedBy(sent) \ PendingDeletes
            /\ \A m \in sent : u \in Named(m) => Wanted(Word(m, u), u)'
  PROVE  Fits(u)'
  <1>0. updated \in Seq(SUBSET Update) /\ PendingDeletes' = PendingDeletes
    BY DEF SearchTypeOK, PendingDeletes
  <1>1. CASE sent = {}
    <2>1. updated' = updated /\ u \notin NamedBy(sent)
      BY <1>1 DEF NamedBy
    <2>2. u \in upset' \/ (Expected(u)' = Expected(u) /\ (Owed(u) => Owed(u)'))
      BY <2>1
    <2>3. PendingUpdates' = PendingUpdates
      BY <2>1 DEF PendingUpdates
    <2>4. QED
      BY <1>0, <2>1, <2>2, <2>3
         DEF Fits, Settles, RemovalsRight, UpdatesRight, IndexRight, Wanted
  <1>2. CASE sent # {}
    <2> DEFINE n == Len(updated)
    <2>1. /\ n \in Nat /\ DOMAIN updated = 1 .. n /\ DOMAIN updated' = 1 .. n + 1
          /\ updated'[n + 1] = sent /\ \A i \in 1 .. n : updated'[i] = updated[i]
      BY <1>0, <1>2
    <2> HIDE DEF n
    <2>2. PendingUpdates' = PendingUpdates \cup sent
      <3>1. PendingUpdates' \subseteq PendingUpdates \cup sent
        BY AppendedUpdates
      <3>2. ASSUME NEW i \in DOMAIN updated
            PROVE  updated[i] \subseteq PendingUpdates'
        BY <2>1, <3>2 DEF PendingUpdates
      <3>3. sent \subseteq PendingUpdates'
        <4>1. n + 1 \in DOMAIN updated'
          BY <2>1
        <4>2. QED
          BY <2>1, <4>1 DEF PendingUpdates
      <3>4. QED
        BY <3>1, <3>2, <3>3 DEF PendingUpdates
    <2>3. u \in NamedBy(PendingUpdates') <=> u \in NamedBy(PendingUpdates) \/ u \in NamedBy(sent)
      BY <2>2 DEF NamedBy
    <2>4. ASSUME u \notin NamedBy(sent), Expected(u)' = Expected(u), Settles(u)
          PROVE  Settles(u)'
      <3>1. RemovalsRight(u)' /\ IndexRight(u)'
        BY <1>0, <2>3, <2>4 DEF Settles, RemovalsRight, IndexRight, Wanted
      <3>2. ASSUME NEW i \in DOMAIN updated', NEW m \in updated'[i], u \in Named(m),
                   \A j \in DOMAIN updated' : j > i => u \notin NamedBy(updated'[j])
            PROVE  Wanted(Word(m, u), u)'
        <4>1. i # n + 1
          BY <2>1, <2>4, <3>2 DEF NamedBy
        <4>2. i \in DOMAIN updated /\ m \in updated[i]
          BY <2>1, <3>2, <4>1
        <4>3. \A j \in DOMAIN updated : j > i => u \notin NamedBy(updated[j])
          BY <2>1, <3>2
        <4>4. Wanted(Word(m, u), u)
          BY <2>4, <3>2, <4>2, <4>3 DEF Settles, UpdatesRight
        <4>5. QED
          BY <2>4, <4>4 DEF Wanted, Word
      <3>3. UpdatesRight(u)'
        BY <3>2 DEF UpdatesRight
      <3>4. QED
        BY <3>1, <3>3 DEF Settles
    <2>5. ASSUME u \in NamedBy(sent) \ PendingDeletes,
                 \A m \in sent : u \in Named(m) => Wanted(Word(m, u), u)'
          PROVE  Settles(u)'
      <3>1. RemovalsRight(u)' /\ IndexRight(u)'
        BY <1>0, <2>3, <2>5 DEF RemovalsRight, IndexRight
      <3>2. ASSUME NEW i \in DOMAIN updated', NEW m \in updated'[i], u \in Named(m),
                   \A j \in DOMAIN updated' : j > i => u \notin NamedBy(updated'[j])
            PROVE  Wanted(Word(m, u), u)'
        <4>1. i = n + 1
          <5>1. n + 1 \in DOMAIN updated' /\ u \in NamedBy(updated'[n + 1])
            BY <2>1, <2>5
          <5>2. ~(n + 1 > i)
            BY <3>2, <5>1
          <5>3. QED
            BY <2>1, <5>2
        <4>2. QED
          BY <2>1, <2>5, <3>2, <4>1
      <3>3. UpdatesRight(u)'
        BY <3>2 DEF UpdatesRight
      <3>4. QED
        BY <3>1, <3>3 DEF Settles
    <2>6. QED
      BY <2>4, <2>5 DEF Fits
  <1>3. QED
    BY <1>1, <1>2

\* A step that leaves both topics and the index as they are.
LEMMA SilentFits ==
  ASSUME SearchTypeOK, NEW u \in Address, Fits(u), UNCHANGED <<updated, deleted, index>>,
         upset \subseteq upset',
         u \in upset' \/ (Expected(u)' = Expected(u) /\ (Owed(u) => Owed(u)'))
  PROVE  Fits(u)'
  <1>1. {} \in SUBSET Update /\ u \notin NamedBy({})
    BY DEF NamedBy
  <1>2. QED
    BY <1>1, AppendFits

\* Removals appended to theirs, of addresses that are now free.
LEMMA RemoveFits ==
  ASSUME SearchTypeOK, NEW u \in Address, Fits(u), NEW T \in SUBSET Address,
         deleted' = IF T = {} THEN deleted ELSE Append(deleted, T),
         upset \subseteq upset', UNCHANGED <<updated, index>>,
         \/ u \in upset'
         \/ u \notin T /\ Expected(u)' = Expected(u) /\ (Owed(u) => Owed(u)')
         \/ u \in T \ NamedBy(PendingUpdates) /\ Expected(u)' = {}
  PROVE  Fits(u)'
  <1>0. deleted \in Seq(SUBSET Address) /\ PendingUpdates' = PendingUpdates
    BY DEF SearchTypeOK, PendingUpdates
  <1>1. PendingDeletes' = PendingDeletes \cup T
    <2>1. CASE T = {}
      BY <2>1 DEF PendingDeletes
    <2>2. CASE T # {}
      <3> DEFINE n == Len(deleted)
      <3>1. /\ n \in Nat /\ DOMAIN deleted = 1 .. n /\ DOMAIN deleted' = 1 .. n + 1
            /\ deleted'[n + 1] = T /\ \A i \in 1 .. n : deleted'[i] = deleted[i]
        BY <1>0, <2>2
      <3> HIDE DEF n
      <3>2. n + 1 \in DOMAIN deleted'
        BY <3>1
      <3>3. \A i \in DOMAIN deleted' : deleted'[i] \subseteq PendingDeletes \cup T
        <4>1. ASSUME NEW i \in DOMAIN deleted'
              PROVE  deleted'[i] \subseteq PendingDeletes \cup T
          <5>1. i = n + 1 \/ i \in 1 .. n
            BY <3>1
          <5>2. QED
            BY <3>1, <5>1 DEF PendingDeletes
        <4>2. QED
          BY <4>1
      <3>4. \A i \in DOMAIN deleted : deleted[i] \subseteq PendingDeletes'
        <4>1. ASSUME NEW i \in DOMAIN deleted
              PROVE  i \in DOMAIN deleted' /\ deleted'[i] = deleted[i]
          BY <3>1
        <4>2. QED
          BY <4>1 DEF PendingDeletes
      <3>5. T \subseteq PendingDeletes'
        BY <3>1, <3>2 DEF PendingDeletes
      <3>6. QED
        BY <3>3, <3>4, <3>5 DEF PendingDeletes
    <2>3. QED
      BY <2>1, <2>2
  <1>2. ASSUME u \notin T, Expected(u)' = Expected(u), Settles(u)
        PROVE  Settles(u)'
    BY <1>0, <1>1, <1>2 DEF Settles, RemovalsRight, UpdatesRight, IndexRight, Wanted, Word
  <1>3. ASSUME u \in T \ NamedBy(PendingUpdates), Expected(u)' = {}
        PROVE  Settles(u)'
    <2>1. ASSUME NEW i \in DOMAIN updated', NEW m \in updated'[i]
          PROVE  u \notin Named(m)
      BY <1>3, <2>1 DEF NamedBy, PendingUpdates
    <2>2. QED
      BY <1>0, <1>1, <1>3, <2>1 DEF Settles, RemovalsRight, UpdatesRight, IndexRight
  <1>4. QED
    BY <1>2, <1>3 DEF Fits

\* Updates about the pages of F, where they now are and, it may be, where they
\* were, while the other pages stay where they are.
LEMMA TellingFits ==
  ASSUME SearchAssumption, TreeFacts, TreeFacts', NEW u \in Address, Fits(u),
         NEW S \in SUBSET Update, NEW untold, SendUpdates(S, untold),
         UNCHANGED <<deleted, index, held>>, toIndex \subseteq toIndex', u \notin untold,
         NEW F \in SUBSET SearchPage,
         \A x \in SearchPage \ F : x \in Expected(u)' <=> x \in Expected(u),
         \A q \in F : Exists(q) /\ q \in LivePages' /\ Indexable(q)',
         \A m \in S : /\ m.page \in F
                      /\ m.uri = AddressOf(m.page)'
                      /\ \/ m.uri_old = NoAddress
                         \/ /\ m.uri_old = AddressOf(m.page)
                            /\ \A r \in F : AddressOf(r)' # AddressOf(m.page),
         \A q \in F : /\ AddressOf(q)' \in NamedBy(S)
                      /\ AddressOf(q) = u => u \in NamedBy(S)
  PROVE  Fits(u)'
  <1>1. PICK sent \in SUBSET S :
          /\ updated' = IF sent = {} THEN updated ELSE Append(updated, sent)
          /\ upset' = upset \cup untold \cup NamedBy(S \ sent)
                            \cup (NamedBy(sent) \cap PendingDeletes)
    BY DEF SendUpdates
  <1>2. sent \in SUBSET Update /\ SearchTypeOK /\ upset \subseteq upset'
    BY <1>1 DEF TreeFacts
  <1>3. NamedBy(S) = NamedBy(sent) \cup NamedBy(S \ sent)
    BY DEF NamedBy
  <1>4. ASSUME u \notin NamedBy(S)
        PROVE  u \notin NamedBy(sent) /\ Expected(u)' = Expected(u) /\ (Owed(u) => Owed(u)')
    <2>1. \A x \in F : x \notin Expected(u) /\ x \notin Expected(u)'
      BY <1>4 DEF Expected
    <2>2. Expected(u) \subseteq SearchPage /\ Expected(u)' \subseteq SearchPage
      BY DEF Expected, LivePages
    <2>3. Expected(u)' = Expected(u)
      BY <2>1, <2>2
    <2>4. QED
      BY <1>3, <1>4, <2>3 DEF Owed
  <1>5. ASSUME NEW m \in S, u \in Named(m)
        PROVE  Wanted(Word(m, u), u)'
    <2>1. m.page \in SearchPage /\ m.page # NoEntry
      BY SearchAssumption DEF Update, SearchAssumption
    <2>2. CASE u = m.uri
      <3>1. m.page \in Expected(u)'
        BY <2>1, <2>2 DEF Expected
      <3>2. ASSUME NEW x \in Expected(u)'
            PROVE  x = m.page
        <4>1. x \in SearchPage /\ Exists(x)' /\ AddressOf(x)' = u
          BY DEF Expected, LivePages, Exists
        <4>2. Exists(m.page)' /\ AddressOf(m.page)' = u
          BY <3>1 DEF Expected, LivePages, Exists
        <4>3. QED
          BY <2>1, <4>1, <4>2 DEF TreeFacts, OnePageEach
      <3>3. Expected(u)' = {m.page}
        BY <3>1, <3>2
      <3>4. QED
        BY <2>1, <2>2, <3>3 DEF Wanted, Word
    <2>3. CASE u # m.uri
      <3>1. u = m.uri_old /\ u # NoAddress
        BY <1>5, <2>3 DEF Named
      <3>2. u = AddressOf(m.page) /\ (\A r \in F : AddressOf(r)' # AddressOf(m.page))
        BY <3>1
      <3>3. ASSUME NEW x \in Expected(u)'
            PROVE  FALSE
        <4>1. x \in SearchPage /\ AddressOf(x)' = u
          BY DEF Expected, LivePages
        <4>2. x \notin F
          BY <3>2, <4>1
        <4>3. x \in Expected(u)
          BY <4>1, <4>2
        <4>4. Exists(x) /\ AddressOf(x) = u
          BY <4>3 DEF Expected, LivePages, Exists
        <4>5. x = m.page
          BY <2>1, <3>2, <4>1, <4>4 DEF TreeFacts, OnePageEach
        <4>6. QED
          BY <4>2, <4>5
      <3>4. Expected(u)' = {}
        BY <3>3
      <3>5. QED
        BY <2>3, <3>4 DEF Wanted, Word
    <2>4. QED
      BY <2>2, <2>3
  <1>6. CASE u \notin NamedBy(S)
    BY <1>1, <1>2, <1>4, <1>6, AppendFits
  <1>7. CASE u \in NamedBy(S)
    <2>1. u \in upset' \/ u \in NamedBy(sent) \ PendingDeletes
      BY <1>1, <1>3, <1>7
    <2>2. \A m \in sent : u \in Named(m) => Wanted(Word(m, u), u)'
      BY <1>5
    <2>3. QED
      BY <1>1, <1>2, <2>1, <2>2, AppendFits
  <1>8. QED
    BY <1>6, <1>7

---------------------------------------------------------------------------
(* Moves and changes of slugs                                              *)

LEMMA RelocatedIs ==
  ASSUME NEW p \in SearchPage, NEW a, NEW s, NEW found, NEW m \in Relocated(p, a, s, found)
  PROVE  /\ m.page \in {p} \cup Children(p) /\ m.page \in found
         /\ ~Restricted(a, p) /\ IndexableUnder(a, m.page)
         /\ m.uri = AddressIn(a, s, m.page) /\ m.uri_old = AddressOf(m.page)
  <1>1. PICK q \in {p} \cup Children(p) :
          /\ ~Restricted(a, p) /\ q \in found /\ IndexableUnder(a, q)
          /\ m = [page |-> q, uri |-> AddressIn(a, s, q), uri_old |-> AddressOf(q)]
    BY DEF Relocated
  <1>2. m.page = q /\ m.uri = AddressIn(a, s, q) /\ m.uri_old = AddressOf(q)
    BY <1>1
  <1>3. QED
    BY <1>1, <1>2

LEMMA RelocatedHas ==
  ASSUME NEW p \in SearchPage, NEW a, NEW s, NEW found, NEW q \in {p} \cup Children(p),
         ~Restricted(a, p), q \in found, IndexableUnder(a, q)
  PROVE  \E m \in Relocated(p, a, s, found) :
           m.uri = AddressIn(a, s, q) /\ m.uri_old = AddressOf(q)
  <1>1. PICK m : m = [page |-> q, uri |-> AddressIn(a, s, q), uri_old |-> AddressOf(q)]
    OBVIOUS
  <1>2. m.uri = AddressIn(a, s, q) /\ m.uri_old = AddressOf(q)
    BY <1>1
  <1>3. m \in Relocated(p, a, s, found)
    BY <1>1 DEF Relocated
  <1>4. QED
    BY <1>2, <1>3

LEMMA NamedIn ==
  ASSUME NEW S, NEW m \in S
  PROVE  /\ m.uri # NoAddress => m.uri \in NamedBy(S)
         /\ m.uri_old # NoAddress => m.uri_old \in NamedBy(S)
  BY DEF NamedBy, Named

LEMMA MoveRight ==
  ASSUME SearchAssumption, TreeFacts, TreeFacts', RightInv, NEW p \in SearchPage,
         NEW a \in SearchPage \cup {Home}, Move(p, a)
  PROVE  RightInv'
  <1>1. SUFFICES ASSUME NEW u \in Address
                 PROVE  Fits(u)'
    BY DEF RightInv
  <1>2. /\ Exists(p) /\ above' = [above EXCEPT ![p] = a]
        /\ UNCHANGED <<status, slug, hidden, toIndex, held, deleted, index, wasLive>>
        /\ SendUpdates(Relocated(p, above', slug, LivePages), Concealed(p, above'))
    BY DEF Move, Edit
  <1>3. SearchTypeOK /\ TreeInv /\ SearchTypeOK' /\ Fits(u)
    BY DEF TreeFacts, RightInv
  <1>4. Children(p) = {}
    BY <1>3, MovesAlone
  <1>5. PICK S : S = Relocated(p, above', slug, LivePages)
    OBVIOUS
  <1>6. S \in SUBSET Update
    <2>1. above' \in [SearchPage -> SearchPage \cup {Home}] /\ slug \in [SearchPage -> Slug]
      BY <1>3 DEF SearchTypeOK
    <2>2. QED
      BY <1>3, <1>5, <2>1, RelocatedType
  <1>7. PICK F : F = {q \in {p} : ~Restricted(above', p) /\ p \in LivePages /\ Indexable(p)'}
    OBVIOUS
  <1>8. LivePages' = LivePages
    BY <1>2 DEF LivePages
  <1>9. /\ \A q : Indexable(q)' <=> IndexableUnder(above', q)
        /\ \A q : AddressOf(q)' = AddressIn(above', slug, q)
        /\ \A q : Restricted(above, q)' <=> Restricted(above', q)
    BY <1>2 DEF Indexable, IndexableUnder, Restricted, AddressOf, AddressIn
  <1>10. CASE u \in Concealed(p, above')
    <2>1. u \in upset'
      BY <1>2, <1>10 DEF SendUpdates
    <2>2. QED
      BY <2>1 DEF Fits
  <1>11. CASE u \notin Concealed(p, above')
    <2>1. \A m \in S : /\ m.page = p /\ p \in F
                       /\ m.uri = AddressOf(p)' /\ m.uri_old = AddressOf(p)
      BY <1>4, <1>5, <1>7, <1>9, RelocatedIs
    <2>2. p \in F => \E m \in S : m.uri = AddressOf(p)' /\ m.uri_old = AddressOf(p)
      BY <1>4, <1>5, <1>7, <1>9, RelocatedHas
    <2>3. AddressOf(p)' # NoAddress /\ AddressOf(p) # NoAddress
      <3>1. AddressOf(p) \in Address /\ AddressOf(p)' \in Address
        BY <1>3, PageAddressType, AddressType DEF SearchTypeOK, AddressOf
      <3>2. QED
        BY <3>1, AddressIsSome
    <2>4. \A x \in SearchPage \ F : x \in Expected(u)' <=> x \in Expected(u)
      <3>1. ASSUME NEW x \in SearchPage \ F
            PROVE  x \in Expected(u)' <=> x \in Expected(u)
        <4>1. CASE x = p
          <5>1. x \notin Expected(u)'
            BY <1>7, <1>8, <3>1, <4>1, <1>9 DEF Expected, IndexableUnder
          <5>2. x \in Expected(u) => Restricted(above', p)
            BY <1>7, <1>9, <3>1, <4>1 DEF Expected, Indexable, IndexableUnder
          <5>3. Restricted(above', p) => AddressOf(p) \in Concealed(p, above')
            BY DEF Concealed
          <5>4. x \in Expected(u) => AddressOf(p) = u
            BY <4>1 DEF Expected
          <5>5. QED
            BY <1>11, <5>1, <5>2, <5>3, <5>4
        <4>2. CASE x # p
          <5>1. above'[x] = above[x]
            BY <1>2, <3>1, <4>2, <1>3 DEF SearchTypeOK
          <5>2. Indexable(x)' <=> Indexable(x)
            BY <1>2, <5>1 DEF Indexable, IndexableUnder, Restricted
          <5>3. AddressOf(x)' = AddressOf(x)
            BY <1>2, <5>1 DEF AddressOf, AddressIn
          <5>4. QED
            BY <1>8, <5>2, <5>3 DEF Expected
        <4>3. QED
          BY <4>1, <4>2
      <3>2. QED
        BY <3>1
    <2>5. \A q \in F : Exists(q) /\ q \in LivePages' /\ Indexable(q)'
      BY <1>2, <1>7, <1>8
    <2>6. CASE AddressOf(p)' # AddressOf(p)
      <3>1. \A m \in S : /\ m.page \in F
                         /\ m.uri = AddressOf(m.page)'
                         /\ \/ m.uri_old = NoAddress
                            \/ /\ m.uri_old = AddressOf(m.page)
                               /\ \A r \in F : AddressOf(r)' # AddressOf(m.page)
        BY <1>7, <2>1, <2>6
      <3>2. \A q \in F : /\ AddressOf(q)' \in NamedBy(S)
                         /\ AddressOf(q) = u => u \in NamedBy(S)
        BY <1>7, <2>2, <2>3, NamedIn
      <3>3. F \in SUBSET SearchPage
        BY <1>7
      <3>4. SendUpdates(S, Concealed(p, above')) /\ toIndex \subseteq toIndex'
            /\ UNCHANGED <<deleted, index, held>>
        BY <1>2, <1>5
      <3>5. QED
        BY <1>3, <1>6, <1>11, <2>4, <2>5, <3>1, <3>2, <3>3, <3>4, TellingFits
    <2>7. CASE AddressOf(p)' = AddressOf(p)
      <3>1. /\ above'[p] = a /\ slug' = slug /\ a # above[p]
            /\ a # Home => a \in SearchPage /\ Exists(a) /\ above[a] = Home
        BY <1>2, <1>3 DEF Move, SearchTypeOK
      <3>2. /\ a = Home <=> above[p] = Home
            /\ a # Home => slug[a] = slug[above[p]]
        BY <2>7, <3>1 DEF AddressOf, AddressIn
      <3>3. a # Home
        BY <3>1, <3>2
      <3>4. above[p] \in SearchPage /\ Exists(above[p]) /\ above[above[p]] = Home
        BY <1>2, <1>3, <3>2, <3>3 DEF TreeInv, Rooted, SearchTypeOK
      <3>5. FreeUnder(Home, slug[a], a)
        BY <1>3, <3>1, <3>3 DEF TreeInv, Distinct
      <3>6. QED
        BY <3>1, <3>2, <3>3, <3>4, <3>5 DEF FreeUnder
    <2>8. QED
      BY <2>6, <2>7
  <1>12. QED
    BY <1>10, <1>11

\* The page p, of the family at and below it, takes the slug s and is, or not, live.
Renames(p, s) ==
  /\ Exists(p)
  /\ UNCHANGED <<above, hidden, held, deleted, index>>
  /\ slug' = [slug EXCEPT ![p] = s]
  /\ LivePages \subseteq LivePages' /\ LivePages' \subseteq LivePages \cup {p}
  /\ toIndex \subseteq toIndex'

LEMMA RenameApart ==
  ASSUME SearchAssumption, SearchTypeOK, TreeInv, NEW p \in SearchPage, NEW s \in Slug,
         Renames(p, s)
  PROVE  /\ \A x \in SearchPage : Indexable(x)' <=> Indexable(x)
         /\ \A x \in SearchPage : AddressOf(x)' = AddressIn(above, slug', x)
         /\ \A x \in SearchPage : Exists(x) /\ x \notin {p} \cup Children(p)
                                  => AddressOf(x)' = AddressOf(x)
         /\ s # slug[p] => \A q, r \in {p} \cup Children(p) : AddressOf(r)' # AddressOf(q)
  <1>1. \A x \in SearchPage : Indexable(x)' <=> Indexable(x)
    BY DEF Renames, Indexable, IndexableUnder, Restricted
  <1>2. \A x \in SearchPage : AddressOf(x)' = AddressIn(above, slug', x)
    BY DEF Renames, AddressOf, AddressIn
  <1>3. ASSUME NEW x \in SearchPage, Exists(x), x \notin {p} \cup Children(p)
        PROVE  AddressOf(x)' = AddressOf(x)
    <2>1. above[x] # p /\ above[x] \in SearchPage \cup {Home} /\ slug'[x] = slug[x]
      BY <1>3 DEF Children, Renames, SearchTypeOK
    <2>2. above[x] # Home => slug'[above[x]] = slug[above[x]]
      BY <2>1 DEF Renames, SearchTypeOK
    <2>3. QED
      BY <1>2, <2>1, <2>2 DEF AddressOf, AddressIn
  <1>4. ASSUME s # slug[p], NEW q \in {p} \cup Children(p), NEW r \in {p} \cup Children(p)
        PROVE  AddressOf(r)' # AddressOf(q)
    <2>1. SUFFICES ASSUME AddressOf(r)' = AddressOf(q)
                   PROVE  FALSE
      OBVIOUS
    <2>2. slug'[p] = s /\ p # Home
      BY DEF Renames, SearchTypeOK, SearchAssumption
    <2>3. /\ above[r] = Home <=> above[q] = Home
          /\ slug'[r] = slug[q]
          /\ above[r] # Home => slug'[above[r]] = slug[above[q]]
      BY <1>2, <2>1, ChildrenType, SameAddress DEF AddressOf
    <2>4. \A x \in Children(p) : above[x] = p
      BY DEF Children
    <2>5. CASE q = p /\ r = p
      BY <1>4, <2>2, <2>3, <2>5
    <2>6. CASE q \in Children(p) /\ r \in Children(p)
      BY <1>4, <2>2, <2>3, <2>4, <2>6
    <2>7. CASE Children(p) # {}
      <3>1. above[p] = Home
        BY <2>7, ParentIsAtTop
      <3>2. QED
        BY <1>4, <2>2, <2>3, <2>4, <2>5, <2>6, <3>1
    <2>8. QED
      BY <1>4, <2>5, <2>7
  <1>5. QED
    BY <1>1, <1>2, <1>3, <1>4

LEMMA RenamedFits ==
  ASSUME SearchAssumption, TreeFacts, TreeFacts', NEW u \in Address, Fits(u),
         NEW p \in SearchPage, NEW s \in Slug, Renames(p, s), s # slug[p],
         NEW fresh \in SUBSET {Refreshed(p, above, slug')},
         fresh # {} => p \in LivePages' /\ Indexable(p),
         SendUpdates(Relocated(p, above, slug', LivePages') \cup fresh, {})
  PROVE  Fits(u)'
  <1>1. SearchTypeOK /\ SearchTypeOK' /\ TreeInv /\ above' = above /\ hidden' = hidden
    BY DEF TreeFacts, Renames
  <1>2. PICK S : S = Relocated(p, above, slug', LivePages') \cup fresh
    OBVIOUS
  <1>3. S \in SUBSET Update
    <2>1. above \in [SearchPage -> SearchPage \cup {Home}] /\ slug' \in [SearchPage -> Slug]
      BY <1>1 DEF SearchTypeOK
    <2>2. QED
      BY <1>1, <1>2, <2>1, RelocatedType, RefreshedType
  <1>4. PICK F : F = {q \in {p} \cup Children(p) :
                        ~Restricted(above, p) /\ q \in LivePages' /\ Indexable(q)}
    OBVIOUS
  <1>5. F \in SUBSET SearchPage
    BY <1>4, ChildrenType
  <1>6. /\ \A x \in SearchPage : Indexable(x)' <=> Indexable(x)
        /\ \A x \in SearchPage : AddressOf(x)' = AddressIn(above, slug', x)
        /\ \A x \in SearchPage : Exists(x) /\ x \notin {p} \cup Children(p)
                                 => AddressOf(x)' = AddressOf(x)
        /\ \A q, r \in {p} \cup Children(p) : AddressOf(r)' # AddressOf(q)
    BY <1>1, RenameApart
  <1>7. \A q \in {p} \cup Children(p) : Exists(q) /\ q \in SearchPage
    BY DEF Children, Renames
  <1>8. ASSUME NEW m \in S
        PROVE  /\ m.page \in F
               /\ m.uri = AddressOf(m.page)'
               /\ \/ m.uri_old = NoAddress
                  \/ /\ m.uri_old = AddressOf(m.page)
                     /\ \A r \in F : AddressOf(r)' # AddressOf(m.page)
    <2>1. CASE m \in Relocated(p, above, slug', LivePages')
      <3>1. /\ m.page \in {p} \cup Children(p) /\ m.page \in LivePages'
            /\ ~Restricted(above, p) /\ IndexableUnder(above, m.page)
            /\ m.uri = AddressIn(above, slug', m.page) /\ m.uri_old = AddressOf(m.page)
        BY <2>1, RelocatedIs
      <3>2. m.page \in F
        BY <1>4, <3>1 DEF Indexable
      <3>3. QED
        BY <1>4, <1>6, <1>7, <3>1, <3>2
    <2>2. CASE m \in fresh
      <3>1. m.page = p /\ m.uri = AddressOf(p)' /\ m.uri_old = NoAddress
        BY <1>6, <2>2 DEF Refreshed
      <3>2. p \in F
        BY <1>4, <2>2 DEF Indexable, IndexableUnder
      <3>3. QED
        BY <3>1, <3>2
    <2>3. QED
      BY <1>2, <2>1, <2>2
  <1>9. ASSUME NEW q \in F
        PROVE  /\ AddressOf(q)' \in NamedBy(S)
               /\ AddressOf(q) = u => u \in NamedBy(S)
    <2>1. q \in {p} \cup Children(p) /\ q \in SearchPage /\ IndexableUnder(above, q)
      BY <1>4, <1>7 DEF Indexable
    <2>2. PICK m \in Relocated(p, above, slug', LivePages') :
            m.uri = AddressIn(above, slug', q) /\ m.uri_old = AddressOf(q)
      BY <1>4, <2>1, RelocatedHas
    <2>3. m \in S /\ m.uri = AddressOf(q)' /\ m.uri_old = AddressOf(q)
      BY <1>2, <1>6, <2>1, <2>2
    <2>4. AddressOf(q)' # NoAddress
      <3>1. AddressIn(above, slug', q) \in Address
        BY <1>1, <2>1, AddressType DEF SearchTypeOK
      <3>2. QED
        BY <1>6, <2>1, <3>1, AddressIsSome
    <2>5. u # NoAddress
      BY AddressIsSome
    <2>6. QED
      BY <2>3, <2>4, <2>5, NamedIn
  <1>10. ASSUME NEW x \in SearchPage \ F
         PROVE  x \in Expected(u)' <=> x \in Expected(u)
    <2>1. CASE x \in {p} \cup Children(p)
      <3>1. Restricted(above, p) => ~Indexable(x)
        <4>1. CASE x = p
          BY <4>1 DEF Indexable, IndexableUnder
        <4>2. CASE x \in Children(p)
          <5>1. above[p] = Home /\ above[x] = p
            BY <1>1, <4>2, ParentIsAtTop DEF Children
          <5>2. Home \notin hidden
            BY <1>1 DEF SearchAssumption, SearchTypeOK
          <5>3. QED
            BY <5>1, <5>2 DEF Indexable, IndexableUnder, Restricted
        <4>3. QED
          BY <2>1, <4>1, <4>2
      <3>2. x \notin LivePages' \/ ~Indexable(x)
        BY <1>4, <1>10, <2>1, <3>1
      <3>3. QED
        BY <1>6, <3>2 DEF Expected, Renames
    <2>2. CASE x \notin {p} \cup Children(p)
      <3>1. x \in LivePages' <=> x \in LivePages
        BY <2>2 DEF Renames
      <3>2. x \in LivePages => AddressOf(x)' = AddressOf(x)
        BY <1>6, <2>2 DEF LivePages, Exists
      <3>3. QED
        BY <1>6, <3>1, <3>2 DEF Expected
    <2>3. QED
      BY <2>1, <2>2
  <1>11. \A q \in F : Exists(q) /\ q \in LivePages' /\ Indexable(q)'
    BY <1>4, <1>5, <1>6, <1>7
  <1>12. SendUpdates(S, {}) /\ toIndex \subseteq toIndex' /\ UNCHANGED <<deleted, index, held>>
         /\ u \notin {}
    BY <1>2 DEF Renames
  <1>13. QED
    BY <1>3, <1>5, <1>8, <1>9, <1>10, <1>11, <1>12, TellingFits

LEMMA PublishRight ==
  ASSUME SearchAssumption, TreeFacts, TreeFacts', RightInv, NEW p \in SearchPage,
         NEW s \in Slug, NEW future \in BOOLEAN, Publish(p, s, future)
  PROVE  RightInv'
  <1>1. SUFFICES ASSUME NEW u \in Address
                 PROVE  Fits(u)'
    BY DEF RightInv
  <1>2. SearchTypeOK /\ SearchTypeOK' /\ TreeInv /\ Fits(u)
    BY DEF TreeFacts, RightInv
  <1>3. LivePages' = LiveAfter(p, future)
    BY <1>2 DEF Publish, LivePages, LiveAfter, SearchTypeOK
  <1>4. Renames(p, s)
    BY <1>3 DEF Publish, Edit, Renames, LiveAfter
  <1>5. PICK fresh : fresh = {Refreshed(q, above, slug') : q \in {r \in {p} \cap LivePages' : Indexable(r)}}
    OBVIOUS
  <1>6. SendUpdates(SlugChanged(p, s, LivePages') \cup fresh, {})
    BY <1>3, <1>5 DEF Publish
  <1>7. /\ fresh \in SUBSET {Refreshed(p, above, slug')}
        /\ fresh # {} <=> p \in LivePages' /\ Indexable(p)
    BY <1>5
  <1>8. CASE s # slug[p]
    <2>1. SlugChanged(p, s, LivePages') = Relocated(p, above, slug', LivePages')
      BY <1>4, <1>8 DEF SlugChanged, Renames
    <2>2. QED
      BY <1>2, <1>4, <1>6, <1>7, <1>8, <2>1, RenamedFits
  <1>9. CASE s = slug[p]
    <2>1. slug' = slug
      BY <1>2, <1>4, <1>9 DEF Renames, SearchTypeOK
    <2>2. SendUpdates(fresh, {})
      BY <1>6, <1>9 DEF SlugChanged
    <2>3. /\ \A x : AddressOf(x)' = AddressOf(x)
          /\ \A x : Indexable(x)' <=> Indexable(x)
      BY <1>4, <2>1 DEF Renames, AddressOf, AddressIn, Indexable, IndexableUnder, Restricted
    <2>4. PICK F : F = {q \in {p} : q \in LivePages' /\ Indexable(q)}
      OBVIOUS
    <2>5. \A m \in fresh : m.page = p /\ p \in F /\ m.uri = AddressOf(p)' /\ m.uri_old = NoAddress
      BY <1>7, <2>1, <2>3, <2>4 DEF Refreshed, AddressOf
    <2>6. AddressOf(p)' # NoAddress
      BY <1>2, <2>3, PageAddressType, AddressIsSome
    <2>7. \A q \in F : AddressOf(q)' \in NamedBy(fresh) /\ (AddressOf(q) = u => u \in NamedBy(fresh))
      <3>1. ASSUME p \in F
            PROVE  AddressOf(p)' \in NamedBy(fresh)
        <4>1. PICK m : m \in fresh
          BY <1>7, <2>4, <3>1
        <4>2. m.uri = AddressOf(p)'
          BY <2>5, <4>1
        <4>3. QED
          BY <2>6, <4>1, <4>2, NamedIn
      <3>2. QED
        BY <2>3, <2>4, <3>1
    <2>8. \A x \in SearchPage \ F : x \in Expected(u)' <=> x \in Expected(u)
      BY <1>4, <2>3, <2>4 DEF Expected, Renames
    <2>9. \A q \in F : Exists(q) /\ q \in LivePages' /\ Indexable(q)'
      BY <1>4, <2>3, <2>4 DEF Renames
    <2>10. F \in SUBSET SearchPage /\ fresh \in SUBSET Update /\ u \notin {}
      <3>1. above \in [SearchPage -> SearchPage \cup {Home}] /\ slug' \in [SearchPage -> Slug]
        BY <1>2, <2>1 DEF SearchTypeOK
      <3>2. QED
        BY <1>7, <2>4, <3>1, RefreshedType
    <2>11. \A m \in fresh : /\ m.page \in F
                            /\ m.uri = AddressOf(m.page)'
                            /\ \/ m.uri_old = NoAddress
                               \/ /\ m.uri_old = AddressOf(m.page)
                                  /\ \A r \in F : AddressOf(r)' # AddressOf(m.page)
      BY <2>5
    <2>12. UNCHANGED <<deleted, index, held>> /\ toIndex \subseteq toIndex'
      BY <1>4 DEF Renames
    <2>13. QED
      BY <1>2, <2>2, <2>7, <2>8, <2>9, <2>10, <2>11, <2>12, TellingFits
  <1>10. QED
    BY <1>8, <1>9

LEMMA BundleRight ==
  ASSUME SearchAssumption, TreeFacts, TreeFacts', RightInv, NEW p \in SearchPage,
         NEW s \in Slug, PublishFromBundle(p, s)
  PROVE  RightInv'
  <1>1. SUFFICES ASSUME NEW u \in Address
                 PROVE  Fits(u)'
    BY DEF RightInv
  <1>2. SearchTypeOK /\ SearchTypeOK' /\ TreeInv /\ Fits(u)
    BY DEF TreeFacts, RightInv
  <1>3. LivePages' = LivePages \cup {p}
    BY <1>2 DEF PublishFromBundle, LivePages, SearchTypeOK
  <1>4. Renames(p, s)
    BY <1>3 DEF PublishFromBundle, Edit, Renames
  <1>5. SendUpdates(SlugChanged(p, s, LivePages'), {}) /\ toIndex' = toIndex \cup {p}
    BY <1>3 DEF PublishFromBundle
  <1>6. CASE s # slug[p]
    <2>1. SlugChanged(p, s, LivePages') = Relocated(p, above, slug', LivePages') \cup {}
      BY <1>4, <1>6 DEF SlugChanged, Renames
    <2>2. {} \in SUBSET {Refreshed(p, above, slug')}
      OBVIOUS
    <2>3. QED
      BY <1>2, <1>4, <1>5, <1>6, <2>1, <2>2, RenamedFits
  <1>7. CASE s = slug[p]
    <2>1. slug' = slug
      BY <1>2, <1>4, <1>7 DEF Renames, SearchTypeOK
    <2>2. SendUpdates({}, {})
      BY <1>5, <1>7 DEF SlugChanged
    <2>3. /\ \A x : AddressOf(x)' = AddressOf(x)
          /\ \A x : Indexable(x)' <=> Indexable(x)
      BY <1>4, <2>1 DEF Renames, AddressOf, AddressIn, Indexable, IndexableUnder, Restricted
    <2>4. updated' = updated /\ upset \subseteq upset' /\ UNCHANGED <<deleted, index>>
      BY <1>4, <2>2 DEF SendUpdates, Renames
    <2>5. CASE p \in Expected(u)'
      <3>1. Owed(u)'
        BY <1>5, <2>5 DEF Owed
      <3>2. QED
        BY <3>1 DEF Fits
    <2>6. CASE p \notin Expected(u)'
      <3>1. Expected(u)' = Expected(u)
        BY <1>3, <2>3, <2>6 DEF Expected
      <3>2. Owed(u) => Owed(u)'
        BY <1>4, <3>1 DEF Owed, Renames
      <3>3. QED
        BY <1>2, <2>4, <3>1, <3>2, SilentFits
    <2>7. QED
      BY <2>5, <2>6
  <1>8. QED
    BY <1>6, <1>7

---------------------------------------------------------------------------
(* Removals, restrictions, actions and the service                         *)

\* Where the pages of G were live, and where they were expected.
LiveAddresses(G) == {AddressOf(q) : q \in {r \in G : status[r] = "live"}}
ExpectedAddresses(G) == {AddressOf(q) : q \in {r \in G : status[r] = "live" /\ Indexable(r)}}

\* Who is expected where, when the pages of G stop being live and no page moves.
LEMMA GoneLeave ==
  ASSUME TreeFacts, NEW u \in Address, UNCHANGED <<above, slug, hidden>>, NEW G \in SUBSET SearchPage,
         LivePages' = LivePages \ G
  PROVE  /\ u \notin ExpectedAddresses(G) => Expected(u)' = Expected(u)
         /\ u \in LiveAddresses(G) => Expected(u)' = {}
  <1>1. Expected(u)' = Expected(u) \ G
    BY DEF Expected, Indexable, IndexableUnder, Restricted, AddressOf, AddressIn
  <1>2. ASSUME NEW x \in Expected(u), x \in G
        PROVE  u \in ExpectedAddresses(G)
    BY <1>2 DEF Expected, ExpectedAddresses, LivePages
  <1>3. ASSUME u \in LiveAddresses(G), NEW x \in Expected(u)
        PROVE  x \in G
    <2>1. PICK q \in G : status[q] = "live" /\ AddressOf(q) = u
      BY <1>3 DEF LiveAddresses
    <2>2. x \in SearchPage /\ status[x] = "live" /\ AddressOf(x) = u
      BY DEF Expected, LivePages
    <2>3. x = q
      BY <2>1, <2>2 DEF TreeFacts, OnePageEach, Exists
    <2>4. QED
      BY <2>1, <2>3
  <1>4. QED
    BY <1>1, <1>2, <1>3

LEMMA UnpublishRight ==
  ASSUME TreeFacts, RightInv, NEW p \in SearchPage, Unpublish(p)
  PROVE  RightInv'
  <1>1. SUFFICES ASSUME NEW u \in Address
                 PROVE  Fits(u)'
    BY DEF RightInv
  <1>2. SearchTypeOK /\ Fits(u)
    BY DEF TreeFacts, RightInv
  <1>3. ExpectedAddresses({p}) = {AddressOf(q) : q \in {r \in {p} : Indexable(r)}}
    BY DEF ExpectedAddresses, Unpublish
  <1>4. PICK sent \in SUBSET ExpectedAddresses({p}) :
          /\ deleted' = IF sent = {} THEN deleted ELSE Append(deleted, sent)
          /\ upset' = upset \cup (ExpectedAddresses({p}) \ sent) \cup (sent \cap NamedBy(PendingUpdates))
    BY <1>3 DEF Unpublish, SendDeletes
  <1>5. sent \in SUBSET Address
    BY <1>2, <1>3, PageAddressType
  <1>6. LivePages' = LivePages \ {p} /\ UNCHANGED <<above, slug, hidden>>
    BY <1>2 DEF Unpublish, LivePages, SearchTypeOK
  <1>7. /\ u \notin ExpectedAddresses({p}) => Expected(u)' = Expected(u)
        /\ u \in ExpectedAddresses({p}) => Expected(u)' = {}
    BY <1>6, GoneLeave DEF ExpectedAddresses, LiveAddresses
  <1>8. UNCHANGED <<updated, index, toIndex, held>>
    BY DEF Unpublish
  <1>9. Expected(u)' = Expected(u) => (Owed(u) => Owed(u)')
    BY <1>8 DEF Owed
  <1>10. \/ u \in upset'
         \/ u \notin sent /\ Expected(u)' = Expected(u) /\ (Owed(u) => Owed(u)')
         \/ u \in sent \ NamedBy(PendingUpdates) /\ Expected(u)' = {}
    BY <1>4, <1>7, <1>9
  <1>11. QED
    BY <1>2, <1>4, <1>5, <1>8, <1>10, RemoveFits

LEMMA DeleteRight ==
  ASSUME TreeFacts, RightInv, NEW p \in SearchPage, Delete(p)
  PROVE  RightInv'
  <1>1. SUFFICES ASSUME NEW u \in Address
                 PROVE  Fits(u)'
    BY DEF RightInv
  <1>2. SearchTypeOK /\ Fits(u)
    BY DEF TreeFacts, RightInv
  <1>3. PICK G : G = {p} \cup Children(p)
    OBVIOUS
  <1>4. /\ deleted' = (IF GoneAddresses(G) = {} THEN deleted ELSE Append(deleted, GoneAddresses(G)))
        /\ upset' = upset \cup (GoneAddresses(G) \cap NamedBy(PendingUpdates))
    BY <1>3 DEF Delete
  <1>5. GoneAddresses(G) \in SUBSET Address /\ G \in SUBSET SearchPage
    BY <1>2, <1>3, GoneType, ChildrenType
  <1>6. LivePages' = LivePages \ G /\ UNCHANGED <<above, slug, hidden>>
    BY <1>2, <1>3 DEF Delete, LivePages, SearchTypeOK
  <1>7. /\ u \notin GoneAddresses(G) => Expected(u)' = Expected(u)
        /\ u \in GoneAddresses(G) => Expected(u)' = {}
    <2>1. ExpectedAddresses(G) \subseteq GoneAddresses(G)
      BY <1>5 DEF ExpectedAddresses, GoneAddresses, Indexable, IndexableUnder, Restricted
    <2>2. GoneAddresses(G) \subseteq LiveAddresses(G)
      BY DEF GoneAddresses, LiveAddresses
    <2>3. QED
      BY <1>5, <1>6, <2>1, <2>2, GoneLeave
  <1>8. UNCHANGED <<updated, index, held>> /\ toIndex' = toIndex \ G
    BY <1>3 DEF Delete
  <1>9. Expected(u)' = Expected(u) => (Owed(u) => Owed(u)')
    <2>1. Expected(u)' \cap G = {}
      BY <1>6 DEF Expected
    <2>2. QED
      BY <1>8, <2>1 DEF Owed
  <1>10. \/ u \in upset'
         \/ u \notin GoneAddresses(G) /\ Expected(u)' = Expected(u) /\ (Owed(u) => Owed(u)')
         \/ u \in GoneAddresses(G) \ NamedBy(PendingUpdates) /\ Expected(u)' = {}
    BY <1>4, <1>7, <1>9
  <1>11. UNCHANGED <<updated, index>> /\ upset \subseteq upset'
    BY <1>4, <1>8
  <1>12. QED
    BY <1>2, <1>4, <1>5, <1>10, <1>11, RemoveFits

LEMMA DeleteFailsRight ==
  ASSUME TreeFacts, RightInv, NEW p \in SearchPage, DeleteFails(p)
  PROVE  RightInv'
  <1>1. SUFFICES ASSUME NEW u \in Address
                 PROVE  Fits(u)'
    BY DEF RightInv
  <1>2. SearchTypeOK /\ Fits(u)
    BY DEF TreeFacts, RightInv
  <1>3. PICK sent \in SUBSET GoneAddresses({p} \cup Children(p)) :
          /\ deleted' = IF sent = {} THEN deleted ELSE Append(deleted, sent)
          /\ upset' = upset \cup sent
    BY DEF DeleteFails
  <1>4. sent \in SUBSET Address
    BY <1>2, GoneType
  <1>5. UNCHANGED <<status, above, slug, hidden, toIndex, held, updated, index>>
    BY DEF DeleteFails
  <1>6. Expected(u)' = Expected(u) /\ (Owed(u) => Owed(u)')
    BY <1>5 DEF Owed, Expected, LivePages, Indexable, IndexableUnder, Restricted, AddressOf, AddressIn
  <1>7. u \in upset' \/ u \notin sent
    BY <1>3
  <1>8. QED
    BY <1>2, <1>3, <1>4, <1>5, <1>6, <1>7, RemoveFits

LEMMA PrivacyRight ==
  ASSUME TreeFacts, RightInv, NEW p \in SearchPage, ChangePrivacy(p)
  PROVE  RightInv'
  <1>1. SUFFICES ASSUME NEW u \in Address
                 PROVE  Fits(u)'
    BY DEF RightInv
  <1>2. SearchTypeOK /\ Fits(u)
    BY DEF TreeFacts, RightInv
  <1>3. /\ UNCHANGED <<status, above, slug, toIndex, held, updated, deleted, index>>
        /\ hidden' = (hidden \ {p}) \cup ({p} \ hidden)
        /\ upset' = upset \cup {AddressOf(q) : q \in {p} \cup Children(p)}
    BY DEF ChangePrivacy
  <1>4. /\ LivePages' = LivePages
        /\ \A x : AddressOf(x)' = AddressOf(x)
    BY <1>3 DEF LivePages, AddressOf, AddressIn
  <1>5. ASSUME u \notin upset', NEW x \in LivePages, AddressOf(x) = u
        PROVE  Indexable(x)' <=> Indexable(x)
    <2>1. x # p /\ above[x] # p
      BY <1>3, <1>5 DEF Children, LivePages, Exists
    <2>2. QED
      BY <1>3, <2>1 DEF Indexable, IndexableUnder, Restricted
  <1>6. u \notin upset' => Expected(u)' = Expected(u)
    BY <1>4, <1>5 DEF Expected
  <1>7. u \notin upset' => (Owed(u) => Owed(u)')
    BY <1>3, <1>6 DEF Owed
  <1>8. QED
    BY <1>2, <1>3, <1>6, <1>7, SilentFits

LEMMA ReadRight ==
  ASSUME TreeFacts, RightInv, NEW p \in SearchPage, ActionRead(p)
  PROVE  RightInv'
  <1>1. SUFFICES ASSUME NEW u \in Address
                 PROVE  Fits(u)'
    BY DEF RightInv
  <1>2. SearchTypeOK /\ Fits(u)
    BY DEF TreeFacts, RightInv
  <1>3. /\ UNCHANGED <<status, above, slug, hidden, updated, deleted, index, upset>>
        /\ toIndex' = toIndex \ {p} /\ held \subseteq held'
        /\ Indexable(p) => Refreshed(p, above, slug) \in held'
    BY DEF ActionRead
  <1>4. Expected(u)' = Expected(u)
    BY <1>3 DEF Expected, LivePages, Indexable, IndexableUnder, Restricted, AddressOf, AddressIn
  <1>5. Owed(u) => Owed(u)'
    <2>1. SUFFICES ASSUME NEW x \in Expected(u), x \in toIndex \/ \E m \in held : m.page = x /\ m.uri = u
                   PROVE  x \in toIndex' \/ \E m \in held' : m.page = x /\ m.uri = u
      BY <1>4 DEF Owed
    <2>2. CASE x = p
      <3>1. Refreshed(p, above, slug) \in held'
        BY <1>3, <2>2 DEF Expected
      <3>2. Refreshed(p, above, slug).page = x /\ Refreshed(p, above, slug).uri = u
        BY <2>2 DEF Expected, AddressOf, Refreshed
      <3>3. QED
        BY <3>1, <3>2
    <2>3. CASE x # p
      BY <1>3, <2>1, <2>3
    <2>4. QED
      BY <2>2, <2>3
  <1>6. QED
    BY <1>2, <1>3, <1>4, <1>5, SilentFits

LEMMA ActionSendRight ==
  ASSUME SearchAssumption, TreeFacts, RightInv, NEW m \in held, NEW arrives \in BOOLEAN,
         NEW again \in BOOLEAN, ActionSend(m, arrives, again)
  PROVE  RightInv'
  <1>1. SUFFICES ASSUME NEW u \in Address
                 PROVE  Fits(u)'
    BY DEF RightInv
  <1>2. SearchTypeOK /\ Fits(u)
    BY DEF TreeFacts, RightInv
  <1>3. m \in Update /\ m.uri \in Address /\ m.page \in SearchPage /\ m.page # NoEntry
        /\ Named(m) = {m.uri}
    <2>1. m \in Update /\ m.uri_old = NoAddress
      BY <1>2 DEF TreeFacts, SearchTypeOK, HeldIsPlain
    <2>2. m.uri \in Address /\ m.uri # NoAddress /\ m.page \in SearchPage
      BY <2>1, AddressIsSome DEF Update
    <2>3. QED
      BY <2>1, <2>2 DEF Named, SearchAssumption
  <1>4. /\ UNCHANGED <<status, above, slug, hidden, deleted, index>>
        /\ held' = held \ {m} /\ toIndex \subseteq toIndex'
        /\ again /\ Exists(m.page) => m.page \in toIndex'
        /\ updated' = (IF arrives THEN Append(updated, {m}) ELSE updated)
        /\ upset \subseteq upset'
    BY DEF ActionSend
  <1>5. Expected(u)' = Expected(u)
    BY <1>4 DEF Expected, LivePages, Indexable, IndexableUnder, Restricted, AddressOf, AddressIn
  <1>6. ASSUME u # m.uri
        PROVE  Owed(u) => Owed(u)'
    BY <1>4, <1>5, <1>6 DEF Owed
  <1>7. CASE arrives
    <2>1. {m} \in SUBSET Update /\ NamedBy({m}) = {m.uri}
      BY <1>3 DEF NamedBy
    <2>2. updated' = IF {m} = {} THEN updated ELSE Append(updated, {m})
      BY <1>4, <1>7
    <2>3. CASE u = m.uri
      <3>1. (Current(m) /\ u \notin PendingDeletes) \/ u \in upset'
        BY <1>3, <1>7, <2>3 DEF ActionSend
      <3>2. ASSUME Current(m)
            PROVE  Wanted(Word(m, u), u)'
        <4>1. m.page \in Expected(u)
          BY <1>3, <2>3, <3>2 DEF Current, Expected, LivePages
        <4>2. \A x \in Expected(u) : x = m.page
          BY <1>3, <4>1 DEF TreeFacts, OnePageEach, Expected, LivePages, Exists
        <4>3. Expected(u)' = {m.page}
          BY <1>5, <4>1, <4>2
        <4>4. QED
          BY <1>3, <2>3, <4>3 DEF Wanted, Word
      <3>3. \/ u \in upset'
            \/ /\ u \in NamedBy({m}) \ PendingDeletes
               /\ \A n \in {m} : u \in Named(n) => Wanted(Word(n, u), u)'
        BY <2>1, <2>3, <3>1, <3>2
      <3>4. QED
        BY <1>2, <1>4, <2>1, <2>2, <3>3, AppendFits
    <2>4. CASE u # m.uri
      BY <1>2, <1>4, <1>5, <1>6, <2>1, <2>2, <2>4, AppendFits
    <2>5. QED
      BY <2>3, <2>4
  <1>8. CASE ~arrives
    <2>1. u = m.uri => u \in upset' \/ again
      BY <1>3, <1>8 DEF ActionSend
    <2>2. ASSUME again, Owed(u)
          PROVE  Owed(u)'
      <3>1. PICK x \in Expected(u) : x \in toIndex \/ \E n \in held : n.page = x /\ n.uri = u
        BY <2>2 DEF Owed
      <3>2. Exists(x)
        BY DEF Expected, LivePages, Exists
      <3>3. x \in toIndex' \/ \E n \in held' : n.page = x /\ n.uri = u
        BY <1>4, <2>2, <3>1, <3>2
      <3>4. QED
        BY <1>5, <3>3 DEF Owed
    <2>3. u \in upset' \/ (Expected(u)' = Expected(u) /\ (Owed(u) => Owed(u)'))
      BY <1>5, <1>6, <2>1, <2>2
    <2>4. UNCHANGED <<updated, deleted, index>>
      BY <1>4, <1>8
    <2>5. QED
      BY <1>2, <1>4, <2>3, <2>4, SilentFits
  <1>9. QED
    BY <1>7, <1>8

LEMMA TakeUpdateRight ==
  ASSUME SearchAssumption, TreeFacts, RightInv, NEW m \in PendingUpdates, TakeUpdate(m)
  PROVE  RightInv'
  <1>1. SUFFICES ASSUME NEW u \in Address
                 PROVE  Fits(u)'
    BY DEF RightInv
  <1>2. SearchTypeOK /\ Fits(u) /\ updated \in Seq(SUBSET Update) /\ updated # <<>>
    BY DEF TreeFacts, RightInv, SearchTypeOK, TakeUpdate
  <1>3. /\ UNCHANGED <<status, above, slug, hidden, toIndex, held, deleted, upset>>
        /\ m \in updated[1]
        /\ index' = [v \in Address |-> IF v = m.uri THEN m.page
                                       ELSE IF v = m.uri_old THEN NoEntry ELSE index[v]]
    BY <1>2 DEF TakeUpdate
  <1>4. Expected(u)' = Expected(u) /\ (Owed(u)' <=> Owed(u)) /\ PendingDeletes' = PendingDeletes
    BY <1>3 DEF Expected, LivePages, Indexable, IndexableUnder, Restricted, AddressOf, AddressIn,
                Owed, PendingDeletes
  <1>5. PICK k \in {0, 1} :
          /\ \A i \in DOMAIN updated' : i + k \in DOMAIN updated /\ updated'[i] \subseteq updated[i + k]
          /\ \A j \in DOMAIN updated : j > 1 => j - k \in DOMAIN updated' /\ updated'[j - k] = updated[j]
          /\ \A n \in updated[1] : n = m \/ (1 \in DOMAIN updated' /\ k = 0 /\ n \in updated'[1])
    <2>1. CASE Head(updated) = {m}
      <3>1. updated' = Tail(updated)
        BY <2>1 DEF TakeUpdate
      <3>2. \A i \in DOMAIN updated' : i + 1 \in DOMAIN updated /\ updated'[i] \subseteq updated[i + 1]
        BY <1>2, <3>1
      <3>3. \A j \in DOMAIN updated : j > 1 => j - 1 \in DOMAIN updated' /\ updated'[j - 1] = updated[j]
        BY <1>2, <3>1
      <3>4. \A n \in updated[1] : n = m
        BY <1>2, <2>1
      <3>5. QED
        BY <3>2, <3>3, <3>4
    <2>2. CASE Head(updated) # {m}
      <3>1. updated' = [updated EXCEPT ![1] = @ \ {m}]
        BY <2>2 DEF TakeUpdate
      <3>2. DOMAIN updated' = DOMAIN updated /\ DOMAIN updated = 1 .. Len(updated) /\ 1 \in DOMAIN updated
        BY <1>2, <3>1
      <3>3. \A i \in DOMAIN updated : i \in Nat /\ i + 0 = i /\ i - 0 = i
        BY <1>2
      <3>4. updated'[1] = updated[1] \ {m} /\ \A i \in DOMAIN updated : i # 1 => updated'[i] = updated[i]
        BY <3>1, <3>2
      <3>5. QED
        BY <3>2, <3>3, <3>4
    <2>3. QED
      BY <2>1, <2>2
  <1>6. DOMAIN updated = 1 .. Len(updated) /\ Len(updated) \in Nat /\ 1 \in DOMAIN updated
        /\ \A i \in DOMAIN updated' : i \in Nat
    <2>1. DOMAIN updated = 1 .. Len(updated) /\ Len(updated) \in Nat /\ 1 \in DOMAIN updated
      BY <1>2
    <2>2. updated' \in Seq(SUBSET Update)
      BY <1>2, TakeTypes DEF SearchTypeOK
    <2>3. QED
      BY <2>1, <2>2
  <1>7. PendingUpdates' \subseteq PendingUpdates
    BY <1>5 DEF PendingUpdates
  <1>8. PendingUpdates \subseteq PendingUpdates' \cup {m}
    <2>1. SUFFICES ASSUME NEW j \in DOMAIN updated, NEW n \in updated[j], n # m
                   PROVE  n \in PendingUpdates'
      BY DEF PendingUpdates
    <2>2. CASE j = 1
      BY <1>5, <2>1, <2>2 DEF PendingUpdates
    <2>3. CASE j > 1
      BY <1>5, <2>1, <2>3 DEF PendingUpdates
    <2>4. QED
      BY <1>6, <2>2, <2>3
  <1>9. u \in NamedBy(PendingUpdates') => u \in NamedBy(PendingUpdates)
    BY <1>7 DEF NamedBy
  <1>10. ASSUME Settles(u)
         PROVE  RemovalsRight(u)'
    BY <1>4, <1>9, <1>10 DEF Settles, RemovalsRight
  <1>11. ASSUME Settles(u)
         PROVE  UpdatesRight(u)'
    <2>1. SUFFICES ASSUME NEW i \in DOMAIN updated', NEW n \in updated'[i], u \in Named(n),
                          \A j \in DOMAIN updated' : j > i => u \notin NamedBy(updated'[j])
                   PROVE  Wanted(Word(n, u), u)'
      BY DEF UpdatesRight
    <2>2. i + k \in DOMAIN updated /\ n \in updated[i + k]
      BY <1>5, <2>1
    <2>3. ASSUME NEW j \in DOMAIN updated, j > i + k
          PROVE  u \notin NamedBy(updated[j])
      <3>1. j > 1
        BY <1>5, <1>6, <2>2, <2>3
      <3>2. j - k \in DOMAIN updated' /\ updated'[j - k] = updated[j]
        BY <1>5, <3>1
      <3>3. j - k > i
        BY <1>6, <2>3
      <3>4. QED
        BY <2>1, <3>2, <3>3
    <2>4. Wanted(Word(n, u), u)
      BY <1>11, <2>1, <2>2, <2>3 DEF Settles, UpdatesRight
    <2>5. QED
      BY <1>4, <2>4 DEF Wanted, Word
  <1>12. ASSUME Settles(u)
         PROVE  IndexRight(u)'
    <2>1. SUFFICES ASSUME u \notin PendingDeletes', u \notin NamedBy(PendingUpdates')
                   PROVE  Wanted(index[u], u)'
      BY DEF IndexRight
    <2>2. CASE u \in Named(m)
      <3>1. ASSUME NEW j \in DOMAIN updated, j > 1
            PROVE  u \notin NamedBy(updated[j])
        <4>1. updated[j] \subseteq PendingUpdates'
          BY <1>5, <3>1 DEF PendingUpdates
        <4>2. QED
          BY <2>1, <4>1 DEF NamedBy
      <3>2. Wanted(Word(m, u), u)
        BY <1>3, <1>6, <1>12, <2>2, <3>1 DEF Settles, UpdatesRight
      <3>3. index'[u] = Word(m, u)
        BY <1>3, <2>2 DEF Word, Named
      <3>4. QED
        BY <1>4, <3>2, <3>3 DEF Wanted
    <2>3. CASE u \notin Named(m)
      <3>1. u \notin NamedBy(PendingUpdates)
        BY <1>8, <2>1, <2>3 DEF NamedBy
      <3>2. Wanted(index[u], u)
        BY <1>4, <1>12, <2>1, <3>1 DEF Settles, IndexRight
      <3>3. u # m.uri /\ u # m.uri_old
        BY <2>3, AddressIsSome DEF Named
      <3>4. index'[u] = index[u]
        BY <1>3, <3>3
      <3>5. QED
        BY <1>4, <3>2, <3>4 DEF Wanted
    <2>4. QED
      BY <2>2, <2>3
  <1>13. QED
    BY <1>2, <1>3, <1>4, <1>10, <1>11, <1>12 DEF Fits, Settles

LEMMA TakeDeleteRight ==
  ASSUME TreeFacts, RightInv, TakeDelete
  PROVE  RightInv'
  <1>1. SUFFICES ASSUME NEW u \in Address
                 PROVE  Fits(u)'
    BY DEF RightInv
  <1>2. SearchTypeOK /\ Fits(u) /\ deleted \in Seq(SUBSET Address) /\ deleted # <<>>
    BY DEF TreeFacts, RightInv, SearchTypeOK, TakeDelete
  <1>3. /\ UNCHANGED <<status, above, slug, hidden, toIndex, held, updated, upset>>
        /\ deleted' = Tail(deleted)
        /\ index' = [v \in Address |-> IF v \in Head(deleted) THEN NoEntry ELSE index[v]]
    BY DEF TakeDelete
  <1>4. Expected(u)' = Expected(u) /\ (Owed(u)' <=> Owed(u)) /\ PendingUpdates' = PendingUpdates
    BY <1>3 DEF Expected, LivePages, Indexable, IndexableUnder, Restricted, AddressOf, AddressIn,
                Owed, PendingUpdates
  <1>5. PendingDeletes' \subseteq PendingDeletes /\ PendingDeletes \subseteq PendingDeletes' \cup Head(deleted)
        /\ Head(deleted) \subseteq PendingDeletes
    <2>1. \A i \in DOMAIN deleted' : i + 1 \in DOMAIN deleted /\ deleted'[i] = deleted[i + 1]
      BY <1>2, <1>3
    <2>2. \A j \in DOMAIN deleted : j = 1 \/ (j - 1 \in DOMAIN deleted' /\ deleted'[j - 1] = deleted[j])
      BY <1>2, <1>3
    <2>3. Head(deleted) = deleted[1] /\ 1 \in DOMAIN deleted
      BY <1>2
    <2>4. PendingDeletes' \subseteq PendingDeletes
      BY <2>1 DEF PendingDeletes
    <2>5. PendingDeletes \subseteq PendingDeletes' \cup Head(deleted)
      <3>1. ASSUME NEW j \in DOMAIN deleted
            PROVE  deleted[j] \subseteq PendingDeletes' \cup Head(deleted)
        BY <2>2, <2>3 DEF PendingDeletes
      <3>2. QED
        BY <3>1 DEF PendingDeletes
    <2>6. Head(deleted) \subseteq PendingDeletes
      BY <2>3 DEF PendingDeletes
    <2>7. QED
      BY <2>4, <2>5, <2>6
  <1>6. ASSUME Settles(u)
        PROVE  Settles(u)'
    <2>1. RemovalsRight(u)' /\ UpdatesRight(u)'
      BY <1>3, <1>4, <1>5, <1>6 DEF Settles, RemovalsRight, UpdatesRight, Wanted, Word
    <2>2. SUFFICES ASSUME u \notin PendingDeletes', u \notin NamedBy(PendingUpdates)
                   PROVE  Wanted(index[u], u)'
      BY <1>4, <2>1 DEF Settles, IndexRight
    <2>3. CASE u \in Head(deleted)
      <3>1. Expected(u) = {}
        BY <1>5, <1>6, <2>3 DEF Settles, RemovalsRight
      <3>2. index'[u] = NoEntry
        BY <1>3, <2>3
      <3>3. QED
        BY <1>4, <3>1, <3>2 DEF Wanted
    <2>4. CASE u \notin Head(deleted)
      <3>1. Wanted(index[u], u) /\ index'[u] = index[u]
        BY <1>3, <1>5, <1>6, <2>2, <2>4 DEF Settles, IndexRight
      <3>2. QED
        BY <1>4, <3>1 DEF Wanted
    <2>5. QED
      BY <2>3, <2>4
  <1>7. QED
    BY <1>2, <1>3, <1>4, <1>6 DEF Fits

LEMMA RightKept ==
  ASSUME SearchAssumption, TreeFacts, TreeFacts', RightInv, [SearchNext]_searchVars
  PROVE  RightInv'
  <1>1. CASE UNCHANGED searchVars
    <2>1. UNCHANGED <<status, above, slug, hidden, toIndex, held, updated, deleted, index, upset>>
      BY <1>1 DEF searchVars
    <2>2. QED
      BY <2>1 DEF RightInv, Fits, Settles, RemovalsRight, UpdatesRight, IndexRight, Wanted, Word,
                  Owed, Expected, LivePages, Indexable, IndexableUnder, Restricted, AddressOf,
                  AddressIn, PendingUpdates, PendingDeletes
  <1>2. QED
    BY <1>1, PublishRight, BundleRight, MoveRight, UnpublishRight, DeleteRight, DeleteFailsRight,
       PrivacyRight, ReadRight, ActionSendRight, TakeUpdateRight, TakeDeleteRight
       DEF SearchNext

\* When nothing about an address is on its way, the service holds there just the
\* live page that has it, for any tree, through moves of branches, changes of
\* slugs, deletions and addresses given to other pages, unless a message about the
\* address was lost, was late or crossed one of the other topic: what counts is the
\* last word of a topic about an address, and an action yet to run owes the page
\* (cms/search/signal_handlers.py).
THEOREM QuietAddressesAreRight ==
  ASSUME SearchAssumption
  PROVE  SearchSpec => []QuietIndexIsRight
  <1>1. SearchInit => TreeFacts /\ RightInv
    <2>1. SUFFICES ASSUME SearchInit
                   PROVE  TreeFacts /\ RightInv
      OBVIOUS
    <2>2. SearchTypeOK
      BY <2>1, SearchAssumption DEF SearchInit, SearchTypeOK, LivePages
    <2>3. TreeInv
      BY <2>1 DEF SearchInit, TreeInv, Rooted, Distinct, Exists
    <2>4. TreeFacts
      BY <2>1, <2>2, <2>3, TreeGivesOne DEF TreeFacts, HeldIsPlain, SearchInit
    <2>5. DOMAIN updated = {} /\ DOMAIN deleted = {}
      BY <2>1 DEF SearchInit
    <2>6. ASSUME NEW u \in Address
          PROVE  Fits(u)
      <3>1. PendingDeletes = {} /\ PendingUpdates = {} /\ Wanted(index[u], u)
        BY <2>1, <2>5 DEF PendingDeletes, PendingUpdates, Wanted, SearchInit
      <3>2. QED
        BY <2>5, <3>1 DEF Fits, Settles, RemovalsRight, UpdatesRight, IndexRight
    <2>7. QED
      BY <2>4, <2>6 DEF RightInv
  <1>2. ASSUME TreeFacts, RightInv, [SearchNext]_searchVars
        PROVE  TreeFacts' /\ RightInv'
    <2>1. SearchTypeOK' /\ TreeInv' /\ HeldIsPlain'
      BY <1>2, SearchTypesKept, TreeKept, PlainKept DEF TreeFacts
    <2>2. OnePageEach'
      BY <2>1, TreeGivesOne, PTL
    <2>3. QED
      BY <1>2, <2>1, <2>2, RightKept DEF TreeFacts
  <1>3. ASSUME TreeFacts, RightInv
        PROVE  QuietIndexIsRight
    <2>1. SUFFICES ASSUME NEW u \in Address \ upset, Quiet(u)
                   PROVE  {index[u]} \ {NoEntry} = Expected(u)
      BY DEF QuietIndexIsRight
    <2>2. u \notin PendingDeletes /\ u \notin NamedBy(PendingUpdates)
          /\ \A m \in held : u \notin Named(m)
      BY <2>1 DEF Quiet, NamedBy
    <2>3. ~Owed(u)
      <3>1. \A m \in held : m.uri # u
        BY <2>2, AddressIsSome DEF Named
      <3>2. \A p \in Expected(u) : p \notin toIndex
        BY <2>1 DEF Quiet, Expected
      <3>3. QED
        BY <3>1, <3>2 DEF Owed
    <2>4. IndexRight(u)
      BY <1>3, <2>1, <2>3 DEF RightInv, Fits, Settles
    <2>5. QED
      BY <2>2, <2>4 DEF IndexRight, Wanted
  <1>4. QED
    BY <1>1, <1>2, <1>3, PTL DEF SearchSpec
=============================================================================
