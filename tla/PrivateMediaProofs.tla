-------------------------- MODULE PrivateMediaProofs --------------------------
(* Proofs about PrivateMedia, for any number of pages, items and processes: *)
(* types; nothing is public before a page is live with it; the edge keeps   *)
(* no private item; what live pages use is public; rows say of the files'   *)
(* permissions what is so.                                                  *)
EXTENDS PrivateMedia, TLAPS

---------------------------------------------------------------------------
(* Types                                                                   *)

\* What an operation holds in memory has a row: media are not deleted.
HeldIsUploaded == \A w \in Process : \A m \in Loaded(w) : Uploaded(m)

TypeInv == MediaTypeOK /\ HeldIsUploaded

LEMMA FilesType ==
  ASSUME NEW S \in SUBSET Item
  PROVE  FilesOf(S) \subseteq Item \X File
  BY DEF FilesOf

LEMMA RowType ==
  ASSUME TypeInv, NEW m \in Item, Uploaded(m)
  PROVE  media[m] \in MediaRow
  BY DEF TypeInv, MediaTypeOK, Uploaded

LEMMA WorkType ==
  ASSUME TypeInv, NEW w \in Process
  PROVE  /\ work[w] \in Work
         /\ Loaded(w) \subseteq Item
         /\ InHand(w) \subseteq Item \X File
         /\ \A m \in Loaded(w) : work[w].loaded[m] \in MediaRow /\ Uploaded(m)
  <1>1. work[w] \in Work
    BY DEF TypeInv, MediaTypeOK
  <1>2. InHand(w) \subseteq Item \X File
    BY <1>1 DEF InHand, Work
  <1>3. \A m \in Loaded(w) : work[w].loaded[m] \in MediaRow
    BY <1>1 DEF Loaded, Work
  <1>4. QED
    BY <1>1, <1>2, <1>3 DEF TypeInv, HeldIsUploaded, Loaded

LEMMA IdleType == AtRest \in Work /\ AtRest.loaded = NothingLoaded
  BY DEF AtRest, Work, Steps, Privacy, NothingLoaded

\* A row stays, and what one process comes to hold has one.
LEMMA HeldStays ==
  ASSUME TypeInv, NEW w \in Process, NEW new \in Work,
         work' = [work EXCEPT ![w] = new],
         media' \in [Item -> MediaRow \cup {NoMedia}],
         \A m \in Item : Uploaded(m) => media'[m] # NoMedia,
         \A m \in Item : new.loaded[m] # NoMedia => media'[m] # NoMedia
  PROVE  HeldIsUploaded' /\ work' \in [Process -> Work]
  <1>1. work \in [Process -> Work]
    BY DEF TypeInv, MediaTypeOK
  <1>2. ASSUME NEW v \in Process, NEW m \in Loaded(v)'
        PROVE  Uploaded(m)'
    <2>1. CASE v = w
      BY <1>1, <1>2, <2>1 DEF Loaded, Uploaded
    <2>2. CASE v # w
      BY <1>1, <1>2, <2>2 DEF Loaded, Uploaded, TypeInv, HeldIsUploaded
    <2>3. QED
      BY <2>1, <2>2
  <1>3. QED
    BY <1>1, <1>2 DEF HeldIsUploaded

LEMMA RacedType ==
  ASSUME TypeInv, NEW w \in Process, NEW T \in SUBSET Item, Touching(w, T)
  PROVE  raced' \subseteq Item
  BY DEF Touching, TypeInv, MediaTypeOK

LEMMA StoreType ==
  ASSUME TypeInv, NEW w \in Process, NEW applied \in SUBSET InHand(w), Calls(w, applied)
  PROVE  acl' \in [Item -> [File -> Privacy]]
  BY WorkType DEF Calls, TypeInv, MediaTypeOK, Work

LEMMA ReprivatisedType ==
  ASSUME TypeInv, NEW S \in SUBSET Item, \A m \in S : Uploaded(m), NEW privacy \in Privacy,
         clock < MaxChanges
  PROVE  Reprivatised(S, privacy) \in [Item -> MediaRow \cup {NoMedia}]
  <1>1. clock + 1 \in Instant
    BY MediaAssumption DEF TypeInv, MediaTypeOK, Instant
  <1>2. ASSUME NEW m \in S
        PROVE  [media[m] EXCEPT !.privacy = privacy, !.changed = clock + 1] \in MediaRow
    BY <1>1, RowType DEF MediaRow
  <1>3. QED
    BY <1>2 DEF Reprivatised

\* The beginning of an operation on pages or in bulk.
LEMMA BulkTypes ==
  ASSUME TypeInv, NEW w \in Process, NEW T \in SUBSET Item, NEW S \in SUBSET T,
         \A m \in S : Uploaded(m), NEW privacy \in Privacy,
         BeginBulk(w, T, S, privacy), UNCHANGED <<media, acl, renditions, cached, unheard>>
  PROVE  /\ HeldIsUploaded'
         /\ work' \in [Process -> Work]
         /\ raced' \subseteq Item
         /\ clock' \in Instant
  <1>1. raced' \subseteq Item
    BY RacedType DEF BeginBulk
  <1>2. media' \in [Item -> MediaRow \cup {NoMedia}] /\ work \in [Process -> Work]
    BY DEF TypeInv, MediaTypeOK
  <1>3. CASE S = {}
    BY <1>1, <1>2, <1>3 DEF BeginBulk, TypeInv, MediaTypeOK, HeldIsUploaded, Loaded, Uploaded
  <1>4. CASE S # {}
    <2> DEFINE new == [AtRest EXCEPT !.step = "acl", !.privacy = privacy, !.touch = T,
                                     !.loaded = Reprivatised(S, privacy), !.listed = FilesOf(S)]
    <2>1. work' = [work EXCEPT ![w] = new] /\ clock < MaxChanges /\ clock' = clock + 1
      BY <1>4 DEF BeginBulk
    <2>2. clock' \in Instant
      BY <2>1, MediaAssumption DEF TypeInv, MediaTypeOK, Instant
    <2>3. Reprivatised(S, privacy) \in [Item -> MediaRow \cup {NoMedia}]
      BY <2>1, ReprivatisedType
    <2>4. new \in Work
      BY <2>3, IdleType, FilesType DEF Work, Steps
    <2>5. new.loaded = Reprivatised(S, privacy)
      BY DEF AtRest
    <2>6. \A m \in Item : new.loaded[m] # NoMedia => media'[m] # NoMedia
      BY <2>5 DEF Reprivatised, Uploaded
    <2>7. \A m \in Item : Uploaded(m) => media'[m] # NoMedia
      BY DEF Uploaded
    <2> HIDE DEF new
    <2>8. HeldIsUploaded' /\ work' \in [Process -> Work]
      BY <1>2, <2>1, <2>4, <2>6, <2>7, HeldStays
    <2>9. QED
      BY <1>1, <2>2, <2>8
  <1>5. QED
    BY <1>3, <1>4

LEMMA PageTypes ==
  ASSUME TypeInv, NEW w \in Editing, NEW p \in MediaPage, NEW R \in SUBSET Item,
         NEW future \in BOOLEAN,
         PublishPage(w, p, R, future) \/ RunAction(w, p) \/ UnpublishPage(w, p)
  PROVE  TypeInv'
  <1>w. w \in Process
    BY DEF Process
  <1>1. CASE PublishPage(w, p, R, future)
    <2>1. /\ UNCHANGED <<cached, media, acl, renditions, due, unheard>>
          /\ uses' \in [MediaPage -> SUBSET Item]
          /\ live' \subseteq MediaPage
          /\ released' \subseteq Item
      BY <1>1 DEF PublishPage, TypeInv, MediaTypeOK
    <2>2. CASE UNCHANGED <<work, clock, raced>>
      BY <2>1, <2>2 DEF TypeInv, MediaTypeOK, HeldIsUploaded, Loaded, Uploaded
    <2>3. CASE PublishMedia(w, R)
      <3>1. HeldIsUploaded' /\ work' \in [Process -> Work] /\ raced' \subseteq Item /\ clock' \in Instant
        BY <1>w, <2>1, <2>3, BulkTypes DEF PublishMedia, Is, Privacy
      <3>2. QED
        BY <2>1, <3>1 DEF TypeInv, MediaTypeOK
    <2>4. QED
      BY <1>1, <2>2, <2>3 DEF PublishPage
  <1>2. CASE RunAction(w, p)
    <2>1. /\ UNCHANGED <<live, uses, released, cached, media, acl, renditions, unheard>>
          /\ due' \subseteq MediaPage
          /\ PublishMedia(w, uses[p])
          /\ uses[p] \in SUBSET Item
      BY <1>2 DEF RunAction, TypeInv, MediaTypeOK
    <2>2. HeldIsUploaded' /\ work' \in [Process -> Work] /\ raced' \subseteq Item /\ clock' \in Instant
      BY <1>w, <2>1, BulkTypes DEF PublishMedia, Is, Privacy
    <2>3. QED
      BY <2>1, <2>2 DEF TypeInv, MediaTypeOK
  <1>3. CASE UnpublishPage(w, p)
    <2> DEFINE S == {m \in OnlyUsedBy(p) : Is(m, "public")}
    <2>1. /\ UNCHANGED <<uses, due, released, cached, media, acl, renditions, unheard>>
          /\ live' \subseteq MediaPage
          /\ BeginBulk(w, uses[p], S, "private")
          /\ uses[p] \in SUBSET Item
      BY <1>3 DEF UnpublishPage, TypeInv, MediaTypeOK
    <2>2. S \subseteq uses[p] /\ \A m \in S : Uploaded(m)
      BY DEF OnlyUsedBy, Is
    <2>3. HeldIsUploaded' /\ work' \in [Process -> Work] /\ raced' \subseteq Item /\ clock' \in Instant
      BY <1>w, <2>1, <2>2, BulkTypes DEF Privacy
    <2>4. QED
      BY <2>1, <2>3 DEF TypeInv, MediaTypeOK
  <1>4. QED
    BY <1>1, <1>2, <1>3

\* What Hold takes up.
HeldWork(m, r, step) ==
  [AtRest EXCEPT !.step = step, !.privacy = r.privacy, !.touch = {m},
                 !.loaded = [NothingLoaded EXCEPT ![m] = r], !.listed = FilesOf({m})]

LEMMA HeldWorkType ==
  ASSUME NEW m \in Item, NEW r \in MediaRow, NEW step \in Steps
  PROVE  /\ HeldWork(m, r, step) \in Work
         /\ HeldWork(m, r, step).loaded = [NothingLoaded EXCEPT ![m] = r]
  <1>1. [NothingLoaded EXCEPT ![m] = r] \in [Item -> MediaRow \cup {NoMedia}]
    BY DEF NothingLoaded
  <1>2. FilesOf({m}) \subseteq Item \X File /\ r.privacy \in Privacy
    BY FilesType DEF MediaRow
  <1>3. QED
    BY <1>1, <1>2, IdleType DEF HeldWork, Work, AtRest

LEMMA HoldTypes ==
  ASSUME TypeInv, NEW w \in Editing, NEW m \in Item,
         Upload(w, m) \/ EditLoad(w, m) \/ RenditionLoad(w, m)
  PROVE  TypeInv'
  <1>w. w \in Process
    BY DEF Process
  <1>steps. {"save_acl", "edit", "rendition"} \subseteq Steps
    BY DEF Steps
  <1>1. ASSUME NEW r \in MediaRow, NEW step \in Steps, Hold(w, m, r, step),
               media' \in [Item -> MediaRow \cup {NoMedia}], media'[m] # NoMedia,
               \A n \in Item : Uploaded(n) => media'[n] # NoMedia,
               UNCHANGED <<pages, cached, acl, renditions, clock, unheard>>
        PROVE  TypeInv'
    <2>1. work' = [work EXCEPT ![w] = HeldWork(m, r, step)] /\ Touching(w, {m})
      BY <1>1 DEF Hold, HeldWork
    <2>2. raced' \subseteq Item
      BY <1>w, <2>1, RacedType
    <2>3. ASSUME NEW n \in Item, HeldWork(m, r, step).loaded[n] # NoMedia
          PROVE  media'[n] # NoMedia
      <3>1. [NothingLoaded EXCEPT ![m] = r][n] # NoMedia
        BY <1>1, <2>3, HeldWorkType
      <3>2. n = m
        BY <3>1 DEF NothingLoaded
      <3>3. QED
        BY <1>1, <3>2
    <2>4. HeldIsUploaded' /\ work' \in [Process -> Work]
      BY <1>w, <1>1, <2>1, <2>3, HeldWorkType, HeldStays
    <2>5. QED
      BY <1>1, <2>2, <2>4 DEF TypeInv, MediaTypeOK, pages
  <1>2. CASE Upload(w, m)
    <2> DEFINE r == [privacy |-> "private", changed |-> clock, set |-> Never]
    <2>1. r \in MediaRow /\ r # NoMedia
      BY MediaAssumption DEF TypeInv, MediaTypeOK, MediaRow, NoMedia, Privacy, Never, Instant
    <2>2. media' = [media EXCEPT ![m] = r] /\ Hold(w, m, r, "save_acl")
          /\ UNCHANGED <<pages, cached, acl, renditions, clock, unheard>>
      BY <1>2 DEF Upload
    <2> HIDE DEF r
    <2>3. QED
      BY <1>1, <1>steps, <2>1, <2>2 DEF TypeInv, MediaTypeOK, Uploaded
  <1>3. CASE EditLoad(w, m)
    BY <1>1, <1>3, <1>steps, RowType DEF EditLoad, TypeInv, MediaTypeOK, Uploaded
  <1>4. CASE RenditionLoad(w, m)
    BY <1>1, <1>4, <1>steps, RowType DEF RenditionLoad, TypeInv, MediaTypeOK, Uploaded
  <1>5. QED
    BY <1>2, <1>3, <1>4

\* Of what a process held, it goes on to hold nothing new.
LEMMA SheddingTypes ==
  ASSUME TypeInv, NEW w \in Process, NEW new \in Work, work' = [work EXCEPT ![w] = new],
         media' \in [Item -> MediaRow \cup {NoMedia}],
         \A m \in Item : Uploaded(m) => media'[m] # NoMedia,
         \A m \in Item : new.loaded[m] # NoMedia => m \in Loaded(w)
  PROVE  HeldIsUploaded' /\ work' \in [Process -> Work]
  <1>1. \A m \in Item : new.loaded[m] # NoMedia => media'[m] # NoMedia
    BY WorkType
  <1>2. QED
    BY <1>1, HeldStays

LEMMA RowsKept ==
  ASSUME TypeInv
  PROVE  /\ media \in [Item -> MediaRow \cup {NoMedia}]
         /\ \A m \in Item : Uploaded(m) => media[m] # NoMedia
  BY DEF TypeInv, MediaTypeOK, Uploaded

LEMMA AtRestSheds ==
  AtRest \in Work /\ \A m \in Item : AtRest.loaded[m] = NoMedia
  BY IdleType DEF NothingLoaded

\* The same instances in memory, at another step.
LEMMA GoType ==
  ASSUME TypeInv, NEW w \in Process, NEW step \in Steps
  PROVE  /\ [work[w] EXCEPT !.step = step] \in Work
         /\ [work[w] EXCEPT !.step = step].loaded = work[w].loaded
  BY WorkType DEF Work

LEMMA GoOnTypes ==
  ASSUME TypeInv, NEW w \in Process, NEW step \in Steps, Go(w, step) \/ Done(w),
         media' \in [Item -> MediaRow \cup {NoMedia}],
         \A m \in Item : Uploaded(m) => media'[m] # NoMedia
  PROVE  HeldIsUploaded' /\ work' \in [Process -> Work]
  <1>1. CASE Go(w, step)
    <2>1. work' = [work EXCEPT ![w] = [work[w] EXCEPT !.step = step]]
      BY <1>1 DEF Go, TypeInv, MediaTypeOK
    <2>2. \A m \in Item : [work[w] EXCEPT !.step = step].loaded[m] # NoMedia => m \in Loaded(w)
      BY GoType DEF Loaded
    <2>3. QED
      BY <2>1, <2>2, GoType, SheddingTypes
  <1>2. CASE Done(w)
    BY <1>2, AtRestSheds, SheddingTypes DEF Done
  <1>3. QED
    BY <1>1, <1>2

LEMMA BulkPermissionsTypes ==
  ASSUME TypeInv, NEW w \in Process, NEW applied \in SUBSET InHand(w),
         NEW reported \in SUBSET InHand(w), BulkPermissions(w, applied, reported)
  PROVE  TypeInv'
  <1> DEFINE stamped == [m \in Item |->
               IF m \in Loaded(w) \ work[w].left /\ AllReported(w, m, reported)
               THEN [work[w].loaded[m] EXCEPT !.set = clock] ELSE work[w].loaded[m]]
             new == [work[w] EXCEPT !.step = "write", !.loaded = stamped]
  <1>1. work' = [work EXCEPT ![w] = new]
    BY WorkType DEF BulkPermissions, TypeInv, MediaTypeOK, Work
  <1>2. \A m \in Loaded(w) : [work[w].loaded[m] EXCEPT !.set = clock] \in MediaRow
    BY WorkType DEF MediaRow, TypeInv, MediaTypeOK
  <1>3. stamped \in [Item -> MediaRow \cup {NoMedia}]
    BY <1>2, WorkType DEF Work
  <1>4. new \in Work /\ new.loaded = stamped
    BY <1>3, WorkType DEF Work, Steps
  <1>5. \A m \in Item : new.loaded[m] # NoMedia => m \in Loaded(w)
    BY <1>4 DEF Loaded
  <1> HIDE DEF new
  <1>6. UNCHANGED <<pages, cached, media, renditions, clock, raced, unheard>> /\ Calls(w, applied)
    BY DEF BulkPermissions
  <1>7. HeldIsUploaded' /\ work' \in [Process -> Work]
    BY <1>1, <1>4, <1>5, <1>6, RowsKept, SheddingTypes
  <1>8. acl' \in [Item -> [File -> Privacy]]
    BY <1>6, StoreType
  <1>9. QED
    BY <1>6, <1>7, <1>8 DEF TypeInv, MediaTypeOK, pages

LEMMA OtherCallsTypes ==
  ASSUME TypeInv, NEW w \in Process, NEW applied \in SUBSET InHand(w), NEW raised \in BOOLEAN,
         \/ SavePermissions(w, applied, raised)
         \/ SavePermissionsFails(w, applied)
         \/ RenditionPermissions(w, applied)
  PROVE  TypeInv'
  <1>1. /\ UNCHANGED <<pages, cached, media, renditions, clock, raced>>
        /\ Calls(w, applied)
        /\ Go(w, "stamp") \/ Done(w)
        /\ unheard' \subseteq Item
    BY WorkType DEF SavePermissions, SavePermissionsFails, RenditionPermissions, TypeInv, MediaTypeOK
  <1>2. "stamp" \in Steps
    BY DEF Steps
  <1>3. HeldIsUploaded' /\ work' \in [Process -> Work]
    BY <1>1, <1>2, RowsKept, GoOnTypes
  <1>4. acl' \in [Item -> [File -> Privacy]]
    BY <1>1, StoreType
  <1>5. QED
    BY <1>1, <1>3, <1>4 DEF TypeInv, MediaTypeOK, pages

LEMMA WriteTypes ==
  ASSUME TypeInv, NEW w \in Process,
         BulkWrite(w) \/ BulkPurge(w) \/ EditSave(w) \/ SaveStamp(w) \/ RenditionCreate(w)
  PROVE  TypeInv'
  <1>steps. {"purge", "save_acl", "rendition_acl"} \subseteq Steps
    BY DEF Steps
  <1>1. CASE BulkWrite(w)
    <2>1. UNCHANGED <<pages, cached, acl, renditions, clock, raced, unheard>> /\ Go(w, "purge")
          /\ media' = [m \in Item |-> IF m \in Loaded(w) THEN work[w].loaded[m] ELSE media[m]]
      BY <1>1 DEF BulkWrite
    <2>2. media' \in [Item -> MediaRow \cup {NoMedia}] /\ \A m \in Item : Uploaded(m) => media'[m] # NoMedia
      BY <2>1, WorkType, RowsKept DEF Loaded
    <2>3. HeldIsUploaded' /\ work' \in [Process -> Work]
      BY <1>steps, <2>1, <2>2, GoOnTypes
    <2>4. QED
      BY <2>1, <2>2, <2>3 DEF TypeInv, MediaTypeOK, pages
  <1>2. CASE BulkPurge(w)
    <2>1. HeldIsUploaded' /\ work' \in [Process -> Work]
      BY <1>steps, <1>2, RowsKept, GoOnTypes DEF BulkPurge
    <2>2. QED
      BY <1>2, <2>1 DEF BulkPurge, TypeInv, MediaTypeOK, pages
  <1>3. CASE EditSave(w)
    <2>1. PICK m \in Loaded(w) :
            /\ media' = [media EXCEPT ![m] = work[w].loaded[m]]
            /\ work' = [work EXCEPT ![w] =
                 IF Outdated(work[w].loaded[m])
                 THEN [@ EXCEPT !.step = "save_acl", !.listed = FilesOf({m})] ELSE AtRest]
      BY <1>3 DEF EditSave
    <2>2. m \in Item /\ work[w].loaded[m] \in MediaRow /\ work[w].loaded[m] # NoMedia
      BY WorkType DEF Loaded
    <2>3. media' \in [Item -> MediaRow \cup {NoMedia}] /\ \A n \in Item : Uploaded(n) => media'[n] # NoMedia
      BY <2>1, <2>2, RowsKept
    <2> DEFINE new == IF Outdated(work[w].loaded[m])
                      THEN [work[w] EXCEPT !.step = "save_acl", !.listed = FilesOf({m})] ELSE AtRest
    <2>4. work' = [work EXCEPT ![w] = new]
      BY <2>1 DEF TypeInv, MediaTypeOK
    <2>5. FilesOf({m}) \subseteq Item \X File
      BY <2>2, FilesType
    <2>6. /\ [work[w] EXCEPT !.step = "save_acl", !.listed = FilesOf({m})] \in Work
          /\ [work[w] EXCEPT !.step = "save_acl", !.listed = FilesOf({m})].loaded = work[w].loaded
      BY <1>steps, <2>5, WorkType DEF Work
    <2>7. new \in Work /\ \A n \in Item : new.loaded[n] # NoMedia => n \in Loaded(w)
      BY <2>6, AtRestSheds DEF Loaded
    <2> HIDE DEF new
    <2>8. HeldIsUploaded' /\ work' \in [Process -> Work]
      BY <2>3, <2>4, <2>7, SheddingTypes
    <2>9. QED
      BY <1>3, <2>3, <2>8 DEF EditSave, TypeInv, MediaTypeOK, pages
  <1>4. CASE SaveStamp(w)
    <2>1. PICK m \in Loaded(w) : media' = [media EXCEPT ![m].set = clock]
      BY <1>4 DEF SaveStamp
    <2>2. m \in Item /\ media[m] \in MediaRow
      BY WorkType, RowType
    <2>3. [media[m] EXCEPT !.set = clock] \in MediaRow
      BY <2>2 DEF MediaRow, TypeInv, MediaTypeOK
    <2>4. \A r \in MediaRow : r # NoMedia
      BY DEF MediaRow, NoMedia, Privacy
    <2>5. media' = [media EXCEPT ![m] = [media[m] EXCEPT !.set = clock]]
      BY <2>1
    <2>6. media' \in [Item -> MediaRow \cup {NoMedia}] /\ \A n \in Item : Uploaded(n) => media'[n] # NoMedia
      BY <2>2, <2>3, <2>4, <2>5, RowsKept
    <2>7. HeldIsUploaded' /\ work' \in [Process -> Work]
      BY <1>steps, <1>4, <2>6, GoOnTypes DEF SaveStamp
    <2>8. QED
      BY <1>4, <2>6, <2>7 DEF SaveStamp, TypeInv, MediaTypeOK, pages
  <1>5. CASE RenditionCreate(w)
    <2> DEFINE new == IF Loaded(w) \subseteq renditions THEN AtRest
                      ELSE [work[w] EXCEPT !.step = "rendition_acl",
                                           !.listed = Loaded(w) \X {"rendition"}]
    <2>1. work' = [work EXCEPT ![w] = new]
      BY <1>5 DEF RenditionCreate, TypeInv, MediaTypeOK
    <2>2. Loaded(w) \X {"rendition"} \subseteq Item \X File
      BY WorkType DEF File
    <2>3. LET going == [work[w] EXCEPT !.step = "rendition_acl", !.listed = Loaded(w) \X {"rendition"}]
          IN  going \in Work /\ going.loaded = work[w].loaded
      BY <1>steps, <2>2, WorkType DEF Work
    <2>4. new \in Work /\ \A n \in Item : new.loaded[n] # NoMedia => n \in Loaded(w)
      BY <2>3, AtRestSheds DEF Loaded
    <2> HIDE DEF new
    <2>5. HeldIsUploaded' /\ work' \in [Process -> Work] /\ renditions' \subseteq Item
      BY <1>5, <2>1, <2>4, RowsKept, SheddingTypes, WorkType DEF RenditionCreate, TypeInv, MediaTypeOK
    <2>6. QED
      BY <1>5, <2>5 DEF RenditionCreate, TypeInv, MediaTypeOK, pages
  <1>6. QED
    BY <1>1, <1>2, <1>3, <1>4, <1>5

LEMMA RetryTypes ==
  ASSUME TypeInv, NEW w \in Process, RetryLoad(w) \/ RetryWrite(w)
  PROVE  TypeInv'
  <1>1. CASE RetryLoad(w)
    <2> DEFINE S == RetriedItems
               private == {m \in S : Is(m, "private")}
               rows == [m \in Item |-> IF m \in S THEN media[m] ELSE NoMedia]
               new == [AtRest EXCEPT !.step = "acl",
                         !.privacy = IF private # {} THEN "private" ELSE "public",
                         !.touch = S, !.left = S \ (IF private # {} THEN private ELSE S),
                         !.loaded = rows, !.listed = FilesOf(S)]
    <2>1. work' = [work EXCEPT ![w] = new] /\ Touching(w, S)
          /\ UNCHANGED <<pages, cached, media, acl, renditions, clock, unheard>>
      BY <1>1 DEF RetryLoad
    <2>2. S \subseteq Item /\ \A m \in S : Uploaded(m)
      BY DEF RetriedItems
    <2>3. rows \in [Item -> MediaRow \cup {NoMedia}]
      BY RowsKept
    <2>4. FilesOf(S) \subseteq Item \X File
      BY <2>2, FilesType
    <2>5. new \in Work /\ new.loaded = rows
      BY <2>2, <2>3, <2>4, IdleType DEF Work, Steps, Privacy, AtRest
    <2>6. \A m \in Item : new.loaded[m] # NoMedia => media'[m] # NoMedia
      BY <2>1, <2>2, <2>5 DEF Uploaded
    <2>7. raced' \subseteq Item
      BY <2>1, <2>2, RacedType
    <2> HIDE DEF new
    <2>8. HeldIsUploaded' /\ work' \in [Process -> Work]
      BY <2>1, <2>5, <2>6, RowsKept, HeldStays
    <2>9. QED
      BY <2>1, <2>7, <2>8 DEF TypeInv, MediaTypeOK, pages
  <1>2. CASE RetryWrite(w)
    <2> DEFINE group == Loaded(w) \ work[w].left
               rest == [m \in Item |-> IF m \in group THEN NoMedia ELSE work[w].loaded[m]]
               files == {mf \in work[w].listed : mf[1] \in work[w].left}
               on == [work[w] EXCEPT !.step = "acl", !.privacy = "public", !.left = {},
                                     !.loaded = rest, !.listed = files]
               new == IF work[w].left = {} THEN AtRest ELSE on
    <2>1. work' = [work EXCEPT ![w] = new]
      BY <1>2 DEF RetryWrite
    <2>2. media' = [m \in Item |-> IF m \in group
                                   THEN [media[m] EXCEPT !.set = work[w].loaded[m].set] ELSE media[m]]
      BY <1>2 DEF RetryWrite
    <2>3. ASSUME NEW m \in group
          PROVE  [media[m] EXCEPT !.set = work[w].loaded[m].set] \in MediaRow
      <3>1. work[w].loaded[m] \in MediaRow /\ media[m] \in MediaRow
        BY WorkType, RowType
      <3>2. QED
        BY <3>1 DEF MediaRow
    <2>4. \A r \in MediaRow : r # NoMedia
      BY DEF MediaRow, NoMedia, Privacy
    <2>5. media' \in [Item -> MediaRow \cup {NoMedia}] /\ \A m \in Item : Uploaded(m) => media'[m] # NoMedia
      BY <2>2, <2>3, <2>4, RowsKept
    <2>6. rest \in [Item -> MediaRow \cup {NoMedia}] /\ files \subseteq Item \X File
      BY WorkType DEF Work
    <2>7. on \in Work /\ on.loaded = rest
      BY <2>6, WorkType DEF Work, Steps, Privacy
    <2>8. new \in Work /\ \A n \in Item : new.loaded[n] # NoMedia => n \in Loaded(w)
      BY <2>7, AtRestSheds DEF Loaded
    <2> HIDE DEF new
    <2>9. HeldIsUploaded' /\ work' \in [Process -> Work]
      BY <2>1, <2>5, <2>8, SheddingTypes
    <2>10. QED
      BY <1>2, <2>5, <2>9 DEF RetryWrite, TypeInv, MediaTypeOK, pages
  <1>3. QED
    BY <1>1, <1>2

LEMMA OtherTypes ==
  ASSUME TypeInv,
         \/ \E p \in MediaPage, R \in SUBSET Item : PublishInBundle(p, R)
         \/ \E m \in Item : Serve(m)
         \/ UNCHANGED mediaVars
  PROVE  TypeInv'
  <1>1. UNCHANGED <<media, acl, renditions, work, clock, raced, unheard>>
    BY DEF PublishInBundle, Serve, mediaVars
  <1>2. HeldIsUploaded'
    BY <1>1 DEF TypeInv, HeldIsUploaded, Loaded, Uploaded
  <1>3. uses' \in [MediaPage -> SUBSET Item] /\ live' \subseteq MediaPage /\ released' \subseteq Item
        /\ due' \subseteq MediaPage /\ cached' \subseteq Item
    BY DEF PublishInBundle, Serve, mediaVars, pages, TypeInv, MediaTypeOK
  <1>4. QED
    BY <1>1, <1>2, <1>3 DEF TypeInv, MediaTypeOK

LEMMA TypesInitially ==
  ASSUME MediaInit
  PROVE  TypeInv
  <1>1. MediaTypeOK
    BY IdleType, MediaAssumption DEF MediaInit, MediaTypeOK, File, Privacy, Instant
  <1>2. HeldIsUploaded
    BY IdleType DEF MediaInit, HeldIsUploaded, Loaded, NothingLoaded
  <1>3. QED
    BY <1>1, <1>2 DEF TypeInv

LEMMA TypesKept ==
  ASSUME TypeInv, [MediaNext]_mediaVars
  PROVE  TypeInv'
  <1>1. ASSUME NEW w \in Editing, Request(w)
        PROVE  TypeInv'
    BY <1>1, PageTypes, HoldTypes DEF Request
  <1>2. ASSUME NEW w \in Process, Continue(w)
        PROVE  TypeInv'
    <2>1. CASE \E applied \in SUBSET InHand(w), reported \in SUBSET InHand(w) :
                 BulkPermissions(w, applied, reported)
      BY <2>1, BulkPermissionsTypes
    <2>2. CASE \E applied \in SUBSET InHand(w), raised \in BOOLEAN :
                 \/ SavePermissions(w, applied, raised)
                 \/ SavePermissionsFails(w, applied)
                 \/ RenditionPermissions(w, applied)
      BY <2>2, OtherCallsTypes
    <2>3. CASE BulkWrite(w) \/ BulkPurge(w) \/ EditSave(w) \/ SaveStamp(w) \/ RenditionCreate(w)
      BY <2>3, WriteTypes
    <2>4. CASE RetryWrite(w)
      BY <2>4, RetryTypes
    <2>5. QED
      BY <1>2, <2>1, <2>2, <2>3, <2>4 DEF Continue
  <1>3. ASSUME NEW w \in Retrying, RetryLoad(w)
        PROVE  TypeInv'
    BY <1>3, RetryTypes DEF Process
  <1>4. QED
    BY <1>1, <1>2, <1>3, OtherTypes DEF MediaNext

\* Every row, file permission and process of the media stays one there can be,
\* and no process ends up with an item that has no row (cms/private_media).
THEOREM MediaTypes == ASSUME MediaAssumption PROVE MediaSpec => []MediaTypeOK
  <1>1. TypeInv => MediaTypeOK
    BY DEF TypeInv
  <1>2. QED
    BY <1>1, TypesInitially, TypesKept, PTL DEF MediaSpec

---------------------------------------------------------------------------
(* Nothing is public early                                                 *)

\* An operation whose instances and files in hand give away only items of S.
Discreet(k, S) ==
  /\ \A m \in Item : k.loaded[m] # NoMedia /\ m \notin S => k.loaded[m].privacy = "private"
  /\ k.left \subseteq S
  /\ k.privacy = "public" => /\ \A m \in Item : k.loaded[m] # NoMedia => m \in S
                             /\ \A mf \in k.listed : mf[1] \in S

AllDiscreet == \A w \in Process : Discreet(work[w], released)

\* A page whose action is due is still live, so that what it uses now was released.
PagesReleased ==
  /\ \A p \in live : uses[p] \subseteq released
  /\ due \subseteq live

SecretInv == TypeInv /\ PagesReleased /\ AllDiscreet /\ NoEarlyLeak

LEMMA DiscreetGrows ==
  ASSUME NEW k, NEW S, NEW T, S \subseteq T, Discreet(k, S)
  PROVE  Discreet(k, T)
  BY DEF Discreet

LEMMA AllDiscreetKept ==
  ASSUME SecretInv, NEW w \in Process, NEW new, work' = [work EXCEPT ![w] = new],
         released \subseteq released', Discreet(new, released')
  PROVE  AllDiscreet'
  <1>1. work \in [Process -> Work]
    BY DEF SecretInv, TypeInv, MediaTypeOK
  <1>2. ASSUME NEW v \in Process
        PROVE  Discreet(work'[v], released')
    <2>1. CASE v = w
      BY <1>1, <2>1
    <2>2. CASE v # w
      <3>1. work'[v] = work[v] /\ Discreet(work[v], released)
        BY <1>1, <2>2 DEF SecretInv, AllDiscreet
      <3>2. QED
        BY <3>1, DiscreetGrows
    <2>3. QED
      BY <2>1, <2>2
  <1>3. QED
    BY <1>2 DEF AllDiscreet

LEMMA AtRestIsDiscreet ==
  ASSUME NEW S
  PROVE  Discreet(AtRest, S)
  BY DEF AtRest, Discreet, NothingLoaded

LEMMA FilesOfItems ==
  ASSUME NEW S \in SUBSET Item
  PROVE  \A mf \in FilesOf(S) : mf[1] \in S
  BY DEF FilesOf

\* Publishing makes public what is released, unpublishing nothing.
LEMMA BulkIsDiscreet ==
  ASSUME SecretInv, NEW w \in Process, NEW T \in SUBSET Item, NEW S \in SUBSET T,
         \A m \in S : Uploaded(m), NEW privacy \in Privacy, BeginBulk(w, T, S, privacy),
         released \subseteq released', privacy = "public" => S \subseteq released'
  PROVE  AllDiscreet'
  <1>1. CASE S = {}
    BY <1>1, DiscreetGrows DEF BeginBulk, SecretInv, AllDiscreet
  <1>2. CASE S # {}
    <2> DEFINE new == [AtRest EXCEPT !.step = "acl", !.privacy = privacy, !.touch = T,
                                     !.loaded = Reprivatised(S, privacy), !.listed = FilesOf(S)]
    <2>1. work' = [work EXCEPT ![w] = new]
      BY <1>2 DEF BeginBulk
    <2>2. new.loaded = Reprivatised(S, privacy) /\ new.left = {} /\ new.privacy = privacy
          /\ new.listed = FilesOf(S)
      BY DEF AtRest
    <2>3. ASSUME NEW m \in Item, new.loaded[m] # NoMedia
          PROVE  m \in S /\ new.loaded[m].privacy = privacy
      <3>1. m \in S
        BY <2>2, <2>3 DEF Reprivatised
      <3>2. media[m] \in MediaRow /\ new.loaded[m] = [media[m] EXCEPT !.privacy = privacy, !.changed = clock + 1]
        BY <2>2, <3>1, RowType DEF Reprivatised, SecretInv
      <3>3. QED
        BY <3>1, <3>2 DEF MediaRow
    <2> HIDE DEF new
    <2>4. Discreet(new, released')
      BY <2>2, <2>3, FilesOfItems DEF Discreet, Privacy
    <2>5. QED
      BY <2>1, <2>4, AllDiscreetKept
  <1>3. QED
    BY <1>1, <1>2

LEMMA LeakKept ==
  ASSUME SecretInv, UNCHANGED <<media, acl, cached>>, released \subseteq released'
  PROVE  NoEarlyLeak'
  BY DEF SecretInv, NoEarlyLeak, Is, Uploaded

\* A page that becomes live releases what it uses with the same step.
LEMMA PagesSecret ==
  ASSUME SecretInv, ~LateActions, NEW w \in Editing, NEW p \in MediaPage, NEW R \in SUBSET Item,
         NEW future \in BOOLEAN,
         PublishPage(w, p, R, future) \/ RunAction(w, p) \/ UnpublishPage(w, p)
  PROVE  PagesReleased' /\ AllDiscreet' /\ NoEarlyLeak'
  <1>w. w \in Process
    BY DEF Process
  <1>t. uses \in [MediaPage -> SUBSET Item] /\ live \subseteq MediaPage
    BY DEF SecretInv, TypeInv, MediaTypeOK
  <1>1. CASE PublishPage(w, p, R, future)
    <2>1. NoEarlyLeak'
      BY <1>1, LeakKept DEF PublishPage
    <2>2. PagesReleased'
      BY <1>t, <1>1 DEF PublishPage, PagesReleased, SecretInv
    <2>3. ASSUME future PROVE AllDiscreet'
      <3>1. work' = work /\ released' = released
        BY <1>1, <2>3 DEF PublishPage, HandlersRun
      <3>2. QED
        BY <3>1 DEF SecretInv, AllDiscreet
    <2>4. ASSUME ~future PROVE AllDiscreet'
      <3>1. released' = released \cup R /\ BeginBulk(w, R, {m \in R : Is(m, "private")}, "public")
        BY <1>1, <2>4 DEF PublishPage, HandlersRun, PublishMedia
      <3>2. QED
        BY <1>w, <3>1, BulkIsDiscreet DEF Is, Privacy
    <2>5. QED
      BY <2>1, <2>2, <2>3, <2>4
  <1>2. CASE RunAction(w, p)
    <2>1. NoEarlyLeak' /\ PagesReleased'
      BY <1>2, LeakKept DEF RunAction, PagesReleased, SecretInv
    <2>2. p \in live /\ uses[p] \subseteq released /\ uses[p] \in SUBSET Item
      BY <1>t, <1>2 DEF RunAction, PagesReleased, SecretInv
    <2>3. BeginBulk(w, uses[p], {m \in uses[p] : Is(m, "private")}, "public") /\ released' = released
      BY <1>2 DEF RunAction, PublishMedia
    <2>4. AllDiscreet'
      BY <1>w, <2>2, <2>3, BulkIsDiscreet DEF Is, Privacy
    <2>5. QED
      BY <2>1, <2>4
  <1>3. CASE UnpublishPage(w, p)
    <2> DEFINE S == {m \in OnlyUsedBy(p) : Is(m, "public")}
    <2>1. NoEarlyLeak' /\ PagesReleased'
      BY <1>3, LeakKept DEF UnpublishPage, PagesReleased, SecretInv
    <2>2. BeginBulk(w, uses[p], S, "private") /\ released' = released /\ uses[p] \in SUBSET Item
      BY <1>t, <1>3 DEF UnpublishPage
    <2>3. S \subseteq uses[p] /\ \A m \in S : Uploaded(m)
      BY DEF OnlyUsedBy, Is
    <2>4. AllDiscreet'
      BY <1>w, <2>2, <2>3, BulkIsDiscreet DEF Privacy
    <2>5. QED
      BY <2>1, <2>4
  <1>4. QED
    BY <1>1, <1>2, <1>3

LEMMA HoldSecret ==
  ASSUME SecretInv, NEW w \in Editing, NEW m \in Item,
         Upload(w, m) \/ EditLoad(w, m) \/ RenditionLoad(w, m)
  PROVE  PagesReleased' /\ AllDiscreet' /\ NoEarlyLeak'
  <1>w. w \in Process
    BY DEF Process
  <1>1. UNCHANGED <<pages, cached, acl, renditions>> /\ released' = released
    BY DEF Upload, EditLoad, RenditionLoad, pages
  <1>2. PagesReleased'
    BY <1>1 DEF pages, PagesReleased, SecretInv
  <1>3. ASSUME NEW r \in MediaRow, NEW step \in Steps, Hold(w, m, r, step),
               m \notin released => r.privacy = "private"
        PROVE  AllDiscreet'
    <2>1. work' = [work EXCEPT ![w] = HeldWork(m, r, step)]
      BY <1>3 DEF Hold, HeldWork
    <2>2. LET k == HeldWork(m, r, step)
          IN  k.privacy = r.privacy /\ k.left = {} /\ k.listed = FilesOf({m})
              /\ k.loaded = [NothingLoaded EXCEPT ![m] = r]
      BY HeldWorkType DEF HeldWork, AtRest
    <2>3. \A n \in Item : [NothingLoaded EXCEPT ![m] = r][n] # NoMedia
                          => n = m /\ [NothingLoaded EXCEPT ![m] = r][n] = r
      BY DEF NothingLoaded
    <2>4. \A mf \in FilesOf({m}) : mf[1] = m
      BY FilesOfItems
    <2>5. Discreet(HeldWork(m, r, step), released)
      BY <1>3, <2>2, <2>3, <2>4 DEF Discreet
    <2>6. QED
      BY <1>w, <1>1, <2>1, <2>5, AllDiscreetKept
  <1>steps. {"save_acl", "edit", "rendition"} \subseteq Steps
    BY DEF Steps
  <1>4. CASE Upload(w, m)
    <2> DEFINE r == [privacy |-> "private", changed |-> clock, set |-> Never]
    <2>1. r \in MediaRow /\ r.privacy = "private"
      BY MediaAssumption DEF SecretInv, TypeInv, MediaTypeOK, MediaRow, Privacy, Never, Instant
    <2>2. media' = [media EXCEPT ![m] = r] /\ Hold(w, m, r, "save_acl")
      BY <1>4 DEF Upload
    <2> HIDE DEF r
    <2>3. AllDiscreet'
      BY <1>3, <1>steps, <2>1, <2>2
    <2>4. NoEarlyLeak'
      BY <1>1, <2>1, <2>2 DEF NoEarlyLeak, Is, Uploaded, SecretInv, TypeInv, MediaTypeOK
    <2>5. QED
      BY <1>2, <2>3, <2>4
  <1>5. CASE EditLoad(w, m) \/ RenditionLoad(w, m)
    <2>1. Hold(w, m, media[m], "edit") \/ Hold(w, m, media[m], "rendition")
      BY <1>5 DEF EditLoad, RenditionLoad
    <2>2. media[m] \in MediaRow /\ (m \notin released => media[m].privacy = "private")
      BY <1>5, RowType DEF EditLoad, RenditionLoad, SecretInv, NoEarlyLeak, Is, MediaRow, Privacy
    <2>3. UNCHANGED media
      BY <1>5 DEF EditLoad, RenditionLoad
    <2>4. AllDiscreet'
      BY <1>3, <1>steps, <2>1, <2>2
    <2>5. NoEarlyLeak'
      BY <1>1, <2>3, LeakKept
    <2>6. QED
      BY <1>2, <2>4, <2>5
  <1>6. QED
    BY <1>4, <1>5

\* Only files that may be given away are made public.
LEMMA StoreSecret ==
  ASSUME SecretInv, NEW w \in Process, NEW applied \in SUBSET InHand(w), Calls(w, applied),
         UNCHANGED <<media, cached, released>>
  PROVE  NoEarlyLeak'
  <1>1. ASSUME NEW m \in Item \ released, NEW f \in File
        PROVE  acl'[m][f] = "private"
    <2>1. acl'[m][f] = IF <<m, f>> \in applied THEN work[w].privacy ELSE acl[m][f]
      BY <1>1 DEF Calls
    <2>2. acl[m][f] = "private"
      BY <1>1 DEF SecretInv, NoEarlyLeak
    <2>3. <<m, f>> \in applied => work[w].privacy # "public"
      BY <1>1 DEF SecretInv, AllDiscreet, Discreet, InHand
    <2>4. work[w].privacy \in Privacy
      BY WorkType DEF SecretInv, Work
    <2>5. QED
      BY <2>1, <2>2, <2>3, <2>4 DEF Privacy
  <1>2. QED
    BY <1>1 DEF SecretInv, NoEarlyLeak, Is, Uploaded

LEMMA DoneIsDiscreet ==
  ASSUME SecretInv, NEW w \in Process, Done(w), UNCHANGED released
  PROVE  AllDiscreet'
  BY AtRestIsDiscreet, AllDiscreetKept DEF Done

LEMMA GoIsDiscreet ==
  ASSUME SecretInv, NEW w \in Process, NEW step \in Steps, Go(w, step), UNCHANGED released
  PROVE  AllDiscreet'
  <1> DEFINE new == [work[w] EXCEPT !.step = step]
  <1>1. work' = [work EXCEPT ![w] = new]
    BY DEF Go, SecretInv, TypeInv, MediaTypeOK
  <1>2. new.loaded = work[w].loaded /\ new.left = work[w].left /\ new.privacy = work[w].privacy
        /\ new.listed = work[w].listed
    BY WorkType DEF SecretInv, Work
  <1>3. Discreet(work[w], released)
    BY DEF SecretInv, AllDiscreet
  <1> HIDE DEF new
  <1>4. Discreet(new, released')
    BY <1>2, <1>3 DEF Discreet
  <1>5. QED
    BY <1>1, <1>4, AllDiscreetKept

LEMMA PagesUntouched ==
  ASSUME SecretInv, UNCHANGED pages
  PROVE  PagesReleased' /\ released' = released
  BY DEF SecretInv, PagesReleased, pages

LEMMA CallsSecret ==
  ASSUME SecretInv, NEW w \in Process, NEW applied \in SUBSET InHand(w),
         NEW reported \in SUBSET InHand(w), NEW raised \in BOOLEAN,
         \/ BulkPermissions(w, applied, reported)
         \/ SavePermissions(w, applied, raised)
         \/ SavePermissionsFails(w, applied)
         \/ RenditionPermissions(w, applied)
  PROVE  PagesReleased' /\ AllDiscreet' /\ NoEarlyLeak'
  <1>1. UNCHANGED <<pages, cached, media>> /\ Calls(w, applied)
    BY DEF BulkPermissions, SavePermissions, SavePermissionsFails, RenditionPermissions
  <1>2. PagesReleased' /\ released' = released
    BY <1>1, PagesUntouched
  <1>3. NoEarlyLeak'
    BY <1>1, <1>2, StoreSecret
  <1>4. CASE SavePermissions(w, applied, raised) \/ SavePermissionsFails(w, applied)
             \/ RenditionPermissions(w, applied)
    <2>1. Go(w, "stamp") \/ Done(w)
      BY <1>4 DEF SavePermissions, SavePermissionsFails, RenditionPermissions
    <2>2. "stamp" \in Steps
      BY DEF Steps
    <2>3. QED
      BY <1>2, <1>3, <2>1, <2>2, DoneIsDiscreet, GoIsDiscreet
  <1>5. CASE BulkPermissions(w, applied, reported)
    <2> DEFINE stamped == [m \in Item |->
                 IF m \in Loaded(w) \ work[w].left /\ AllReported(w, m, reported)
                 THEN [work[w].loaded[m] EXCEPT !.set = clock] ELSE work[w].loaded[m]]
               new == [work[w] EXCEPT !.step = "write", !.loaded = stamped]
    <2>1. work' = [work EXCEPT ![w] = new]
      BY <1>5, WorkType DEF BulkPermissions, SecretInv, TypeInv, MediaTypeOK, Work
    <2>2. new.loaded = stamped /\ new.left = work[w].left /\ new.privacy = work[w].privacy
          /\ new.listed = work[w].listed
      BY WorkType DEF SecretInv, Work
    <2>3. ASSUME NEW m \in Item, stamped[m] # NoMedia
          PROVE  m \in Loaded(w) /\ stamped[m].privacy = work[w].loaded[m].privacy
      <3>1. m \in Loaded(w)
        BY <2>3 DEF Loaded
      <3>2. work[w].loaded[m] \in MediaRow
        BY <3>1, WorkType DEF SecretInv
      <3>3. QED
        BY <3>1, <3>2 DEF MediaRow
    <2>4. Discreet(work[w], released)
      BY DEF SecretInv, AllDiscreet
    <2> HIDE DEF new, stamped
    <2>5. Discreet(new, released')
      BY <1>2, <2>2, <2>3, <2>4 DEF Discreet, Loaded
    <2>6. QED
      BY <1>2, <1>3, <2>1, <2>5, AllDiscreetKept
  <1>6. QED
    BY <1>4, <1>5

\* What is written from memory is public only if it was released.
LEMMA WriteSecret ==
  ASSUME SecretInv, NEW w \in Process,
         BulkWrite(w) \/ BulkPurge(w) \/ EditSave(w) \/ SaveStamp(w) \/ RenditionCreate(w)
  PROVE  PagesReleased' /\ AllDiscreet' /\ NoEarlyLeak'
  <1>1. UNCHANGED <<pages, acl>>
    BY DEF BulkWrite, BulkPurge, EditSave, SaveStamp, RenditionCreate
  <1>2. PagesReleased' /\ released' = released
    BY <1>1, PagesUntouched
  <1>3. Discreet(work[w], released) /\ TypeInv
    BY DEF SecretInv, AllDiscreet
  <1>steps. {"purge", "save_acl", "rendition_acl"} \subseteq Steps
    BY DEF Steps
  <1>4. CASE BulkWrite(w)
    <2>1. AllDiscreet'
      BY <1>2, <1>4, <1>steps, GoIsDiscreet DEF BulkWrite
    <2>2. NoEarlyLeak'
      BY <1>1, <1>2, <1>3, <1>4 DEF BulkWrite, NoEarlyLeak, SecretInv, Is, Uploaded, Discreet, Loaded
    <2>3. QED
      BY <1>2, <2>1, <2>2
  <1>5. CASE BulkPurge(w)
    <2>1. NoEarlyLeak'
      BY <1>1, <1>2, <1>5 DEF BulkPurge, NoEarlyLeak, SecretInv, Is, Uploaded
    <2>2. QED
      BY <1>2, <1>5, <2>1, DoneIsDiscreet DEF BulkPurge
  <1>6. CASE EditSave(w)
    <2>1. PICK m \in Loaded(w) :
            /\ media' = [media EXCEPT ![m] = work[w].loaded[m]]
            /\ work' = [work EXCEPT ![w] =
                 IF Outdated(work[w].loaded[m])
                 THEN [@ EXCEPT !.step = "save_acl", !.listed = FilesOf({m})] ELSE AtRest]
      BY <1>6 DEF EditSave
    <2>2. m \in Item /\ work[w].loaded[m] # NoMedia /\ UNCHANGED cached
      BY <1>6 DEF Loaded, EditSave
    <2>3. NoEarlyLeak'
      BY <1>1, <1>2, <1>3, <2>1, <2>2
         DEF NoEarlyLeak, SecretInv, TypeInv, MediaTypeOK, Is, Uploaded, Discreet
    <2> DEFINE on == [work[w] EXCEPT !.step = "save_acl", !.listed = FilesOf({m})]
               new == IF Outdated(work[w].loaded[m]) THEN on ELSE AtRest
    <2>4. work' = [work EXCEPT ![w] = new]
      BY <2>1 DEF SecretInv, TypeInv, MediaTypeOK
    <2>5. on.loaded = work[w].loaded /\ on.left = work[w].left /\ on.privacy = work[w].privacy
          /\ on.listed = FilesOf({m})
      BY <1>3, WorkType DEF Work
    <2>6. \A mf \in FilesOf({m}) : mf[1] = m
      BY <2>2, FilesOfItems
    <2> HIDE DEF on
    <2>7. Discreet(on, released')
      BY <1>2, <1>3, <2>2, <2>5, <2>6 DEF Discreet
    <2>8. QED
      BY <1>2, <2>3, <2>4, <2>7, AtRestIsDiscreet, AllDiscreetKept
  <1>7. CASE SaveStamp(w)
    <2>1. PICK m \in Loaded(w) : media' = [media EXCEPT ![m].set = clock]
      BY <1>7 DEF SaveStamp
    <2>2. m \in Item /\ media[m] \in MediaRow /\ media \in [Item -> MediaRow \cup {NoMedia}]
      BY <1>3, WorkType, RowType DEF TypeInv, MediaTypeOK
    <2>3. \A n \in Item : n = m \/ media'[n] = media[n]
      BY <2>1, <2>2
    <2>4. media'[m] = [media[m] EXCEPT !.set = clock]
      BY <2>1, <2>2
    <2>5. media'[m].privacy = media[m].privacy
      BY <2>2, <2>4 DEF MediaRow
    <2>6. m \notin released => media[m].privacy # "public"
      BY <1>3, <2>2, WorkType DEF SecretInv, NoEarlyLeak, Is
    <2>7. NoEarlyLeak'
      BY <1>1, <1>2, <1>7, <2>3, <2>5, <2>6 DEF SaveStamp, NoEarlyLeak, SecretInv, Is, Uploaded
    <2>8. QED
      BY <1>2, <1>7, <2>7, DoneIsDiscreet DEF SaveStamp
  <1>8. CASE RenditionCreate(w)
    <2>1. NoEarlyLeak'
      BY <1>1, <1>2, <1>8, LeakKept DEF RenditionCreate
    <2> DEFINE on == [work[w] EXCEPT !.step = "rendition_acl", !.listed = Loaded(w) \X {"rendition"}]
               new == IF Loaded(w) \subseteq renditions THEN AtRest ELSE on
    <2>2. work' = [work EXCEPT ![w] = new]
      BY <1>8 DEF RenditionCreate, SecretInv, TypeInv, MediaTypeOK
    <2>3. on.loaded = work[w].loaded /\ on.left = work[w].left /\ on.privacy = work[w].privacy
          /\ on.listed = Loaded(w) \X {"rendition"}
      BY <1>3, WorkType DEF Work
    <2> HIDE DEF on
    <2>4. Discreet(on, released')
      BY <1>2, <1>3, <2>3 DEF Discreet, Loaded
    <2>5. QED
      BY <1>2, <2>1, <2>2, <2>4, AtRestIsDiscreet, AllDiscreetKept
  <1>9. QED
    BY <1>4, <1>5, <1>6, <1>7, <1>8

\* The retry repeats what the rows say, the private items first.
LEMMA RetrySecret ==
  ASSUME SecretInv, NEW w \in Process, RetryLoad(w) \/ RetryWrite(w)
  PROVE  PagesReleased' /\ AllDiscreet' /\ NoEarlyLeak'
  <1>1. UNCHANGED <<pages, cached, acl>>
    BY DEF RetryLoad, RetryWrite
  <1>2. PagesReleased' /\ released' = released
    BY <1>1, PagesUntouched
  <1>3. Discreet(work[w], released) /\ TypeInv /\ NoEarlyLeak
    BY DEF SecretInv, AllDiscreet
  <1>4. CASE RetryLoad(w)
    <2> DEFINE S == RetriedItems
               private == {m \in S : Is(m, "private")}
               rows == [m \in Item |-> IF m \in S THEN media[m] ELSE NoMedia]
               goal == IF private # {} THEN "private" ELSE "public"
               others == S \ (IF private # {} THEN private ELSE S)
               new == [AtRest EXCEPT !.step = "acl", !.privacy = goal, !.touch = S,
                                     !.left = others, !.loaded = rows, !.listed = FilesOf(S)]
    <2>1. work' = [work EXCEPT ![w] = new] /\ UNCHANGED media
      BY <1>4 DEF RetryLoad
    <2>2. NoEarlyLeak'
      BY <1>1, <1>2, <2>1, LeakKept
    <2>3. S \subseteq Item /\ \A m \in S : Uploaded(m)
      BY DEF RetriedItems
    <2>4. ASSUME NEW m \in S
          PROVE  media[m].privacy \in Privacy /\ (media[m].privacy = "public" => m \in released)
      <3>1. media[m] \in MediaRow
        BY <1>3, <2>3, RowType
      <3>2. QED
        BY <1>3, <2>3, <3>1 DEF MediaRow, NoEarlyLeak, Is
    <2>5. \A m \in S \ private : m \in released
      BY <2>3, <2>4 DEF Is, Privacy
    <2>6. new.privacy = goal /\ new.left = others /\ new.loaded = rows /\ new.listed = FilesOf(S)
      BY DEF AtRest
    <2>7. \A m \in Item : rows[m] # NoMedia => m \in S /\ rows[m] = media[m]
      OBVIOUS
    <2>8. \A mf \in FilesOf(S) : mf[1] \in S
      BY <2>3, FilesOfItems
    <2>9. goal = "public" => S \subseteq released
      BY <2>5
    <2>10. others \subseteq released
      BY <2>5
    <2> HIDE DEF new, rows, goal, others, private, S
    <2>11. Discreet(new, released')
      BY <1>2, <2>4, <2>6, <2>7, <2>8, <2>9, <2>10 DEF Discreet, Privacy
    <2>12. QED
      BY <1>2, <2>1, <2>2, <2>11, AllDiscreetKept
  <1>5. CASE RetryWrite(w)
    <2> DEFINE group == Loaded(w) \ work[w].left
               rest == [m \in Item |-> IF m \in group THEN NoMedia ELSE work[w].loaded[m]]
               files == {mf \in work[w].listed : mf[1] \in work[w].left}
               on == [work[w] EXCEPT !.step = "acl", !.privacy = "public", !.left = {},
                                     !.loaded = rest, !.listed = files]
               new == IF work[w].left = {} THEN AtRest ELSE on
    <2>1. work' = [work EXCEPT ![w] = new]
      BY <1>5 DEF RetryWrite
    <2>2. media' = [m \in Item |-> IF m \in group
                                   THEN [media[m] EXCEPT !.set = work[w].loaded[m].set] ELSE media[m]]
      BY <1>5 DEF RetryWrite
    <2>3. ASSUME NEW m \in Item \ released
          PROVE  ~Is(m, "public")'
      <3>1. CASE m \in group
        <4>1. media[m] \in MediaRow /\ media[m].privacy # "public"
          BY <1>3, <2>3, <3>1, WorkType, RowType DEF NoEarlyLeak, Is
        <4>2. media'[m] = [media[m] EXCEPT !.set = work[w].loaded[m].set]
          BY <2>2, <3>1
        <4>3. media'[m].privacy = media[m].privacy
          BY <4>1, <4>2 DEF MediaRow
        <4>4. QED
          BY <4>1, <4>3 DEF Is
      <3>2. CASE m \notin group
        BY <1>3, <2>2, <2>3, <3>2 DEF NoEarlyLeak, Is, Uploaded
      <3>3. QED
        BY <3>1, <3>2
    <2>4. NoEarlyLeak'
      BY <1>1, <1>2, <1>3, <2>3 DEF NoEarlyLeak
    <2>5. on.loaded = rest /\ on.left = {} /\ on.listed = files
      BY <1>3, WorkType DEF Work
    <2>6. \A m \in Item : rest[m] # NoMedia => m \in work[w].left
      BY DEF Loaded
    <2>7. work[w].left \subseteq released
      BY <1>3 DEF Discreet
    <2> HIDE DEF on, rest
    <2>8. Discreet(on, released')
      BY <1>2, <2>5, <2>6, <2>7 DEF Discreet
    <2>9. QED
      BY <1>2, <2>1, <2>4, <2>8, AtRestIsDiscreet, AllDiscreetKept
  <1>6. QED
    BY <1>4, <1>5

LEMMA OtherSecret ==
  ASSUME SecretInv,
         \/ \E p \in MediaPage, R \in SUBSET Item : PublishInBundle(p, R)
         \/ \E m \in Item : Serve(m)
         \/ UNCHANGED mediaVars
  PROVE  PagesReleased' /\ AllDiscreet' /\ NoEarlyLeak'
  <1>1. UNCHANGED <<work, media, acl>> /\ released \subseteq released'
    BY DEF PublishInBundle, Serve, mediaVars, pages
  <1>2. AllDiscreet'
    BY <1>1, DiscreetGrows DEF SecretInv, AllDiscreet
  <1>3. ASSUME NEW p \in MediaPage, NEW R \in SUBSET Item, PublishInBundle(p, R)
        PROVE  PagesReleased' /\ NoEarlyLeak'
    <2>1. NoEarlyLeak'
      BY <1>1, <1>3, LeakKept DEF PublishInBundle
    <2>2. PagesReleased'
      BY <1>3 DEF PublishInBundle, PagesReleased, SecretInv, TypeInv, MediaTypeOK
    <2>3. QED
      BY <2>1, <2>2
  <1>4. ASSUME NEW m \in Item, Serve(m)
        PROVE  PagesReleased' /\ NoEarlyLeak'
    <2>1. UNCHANGED pages
      BY <1>4 DEF Serve
    <2>2. PagesReleased' /\ released' = released
      BY <2>1, PagesUntouched
    <2>3. NoEarlyLeak'
      BY <1>1, <1>4, <2>2 DEF Serve, NoEarlyLeak, SecretInv, Is, Uploaded
    <2>4. QED
      BY <2>2, <2>3
  <1>5. ASSUME UNCHANGED mediaVars
        PROVE  PagesReleased' /\ NoEarlyLeak'
    <2>1. UNCHANGED pages /\ UNCHANGED <<media, acl, cached>>
      BY <1>5 DEF mediaVars, pages
    <2>2. QED
      BY <2>1, <1>1, PagesUntouched, LeakKept
  <1>6. QED
    BY <1>2, <1>3, <1>4, <1>5

LEMMA SecretInitially ==
  ASSUME MediaInit
  PROVE  SecretInv
  <1>1. TypeInv
    BY TypesInitially
  <1>2. AllDiscreet
    BY AtRestIsDiscreet DEF MediaInit, AllDiscreet
  <1>3. PagesReleased /\ NoEarlyLeak
    BY DEF MediaInit, PagesReleased, NoEarlyLeak, Is, Uploaded
  <1>4. QED
    BY <1>1, <1>2, <1>3 DEF SecretInv

LEMMA SecretKept ==
  ASSUME SecretInv, ~LateActions, [MediaNext]_mediaVars
  PROVE  SecretInv'
  <1>1. TypeInv'
    BY TypesKept DEF SecretInv
  <1>2. ASSUME NEW w \in Editing, Request(w)
        PROVE  PagesReleased' /\ AllDiscreet' /\ NoEarlyLeak'
    BY <1>2, PagesSecret, HoldSecret DEF Request
  <1>3. ASSUME NEW w \in Process, Continue(w)
        PROVE  PagesReleased' /\ AllDiscreet' /\ NoEarlyLeak'
    <2>1. CASE \E applied \in SUBSET InHand(w), reported \in SUBSET InHand(w), raised \in BOOLEAN :
                 \/ BulkPermissions(w, applied, reported)
                 \/ SavePermissions(w, applied, raised)
                 \/ SavePermissionsFails(w, applied)
                 \/ RenditionPermissions(w, applied)
      BY <2>1, CallsSecret
    <2>2. CASE BulkWrite(w) \/ BulkPurge(w) \/ EditSave(w) \/ SaveStamp(w) \/ RenditionCreate(w)
      BY <2>2, WriteSecret
    <2>3. CASE RetryWrite(w)
      BY <2>3, RetrySecret
    <2>4. QED
      BY <1>3, <2>1, <2>2, <2>3 DEF Continue
  <1>4. ASSUME NEW w \in Retrying, RetryLoad(w)
        PROVE  PagesReleased' /\ AllDiscreet' /\ NoEarlyLeak'
    BY <1>4, RetrySecret DEF Process
  <1>5. QED
    BY <1>1, <1>2, <1>3, <1>4, OtherSecret DEF MediaNext, SecretInv

\* As long as no page is unpublished while its action is outstanding, nothing is
\* public in its row, its files or at the edge before a page was live with it,
\* whatever calls fail and whatever saves, publications and retries cross: the
\* row that is written back late was read from a row, and a file is opened only
\* by an operation that holds a released item (cms/private_media).
THEOREM NothingLeaksEarly ==
  ASSUME MediaAssumption, ~LateActions
  PROVE  MediaSpec => []NoEarlyLeak
  <1>1. SecretInv => NoEarlyLeak
    BY DEF SecretInv
  <1>2. QED
    BY <1>1, SecretInitially, SecretKept, PTL DEF MediaSpec
---------------------------------------------------------------------------
(* What a step makes of the process that takes it                          *)

Becomes(w, step, privacy, touch, left, loaded, listed) ==
  /\ \A v \in Process : v # w => work'[v] = work[v]
  /\ work'[w].step = step /\ work'[w].privacy = privacy /\ work'[w].touch = touch
  /\ work'[w].left = left /\ work'[w].loaded = loaded /\ work'[w].listed = listed

GoesTo(w, step) ==
  Becomes(w, step, work[w].privacy, work[w].touch, work[w].left, work[w].loaded, work[w].listed)
GoesToRest(w) == Becomes(w, "idle", "private", {}, {}, NothingLoaded, {})

\* The instances after the calls.
Stamped(w, reported) ==
  [m \in Item |-> IF m \in Loaded(w) \ work[w].left /\ AllReported(w, m, reported)
                  THEN [work[w].loaded[m] EXCEPT !.set = clock] ELSE work[w].loaded[m]]

LEMMA WorkStep ==
  ASSUME TypeInv, NEW w \in Process, NEW new \in Work, work' = [work EXCEPT ![w] = new]
  PROVE  Becomes(w, new.step, new.privacy, new.touch, new.left, new.loaded, new.listed)
  BY DEF Becomes, TypeInv, MediaTypeOK

LEMMA DoneStep ==
  ASSUME TypeInv, NEW w \in Process, work' = [work EXCEPT ![w] = AtRest]
  PROVE  GoesToRest(w)
  BY IdleType DEF GoesToRest, Becomes, AtRest, TypeInv, MediaTypeOK

LEMMA GoStep ==
  ASSUME TypeInv, NEW w \in Process, NEW step \in Steps, Go(w, step)
  PROVE  GoesTo(w, step)
  BY WorkType DEF Go, GoesTo, Becomes, TypeInv, MediaTypeOK, Work

LEMMA BulkStep ==
  ASSUME TypeInv, NEW w \in Process, NEW T \in SUBSET Item, NEW S, NEW privacy \in Privacy,
         BeginBulk(w, T, S, privacy), S # {}
  PROVE  Becomes(w, "acl", privacy, T, {}, Reprivatised(S, privacy), FilesOf(S))
         /\ clock' = clock + 1
  BY DEF BeginBulk, Becomes, AtRest, TypeInv, MediaTypeOK

\* A step on a page begins to change the privacy of some items, if of any.
LEMMA PageStep ==
  ASSUME TypeInv, NEW w \in Editing, NEW p \in MediaPage, NEW R \in SUBSET Item,
         NEW future \in BOOLEAN,
         PublishPage(w, p, R, future) \/ RunAction(w, p) \/ UnpublishPage(w, p)
  PROVE  /\ UNCHANGED <<cached, media, acl, renditions, unheard>> /\ At(w, "idle")
         /\ \/ UNCHANGED <<work, clock>>
            \/ \E S \in SUBSET Item, T \in SUBSET Item, privacy \in Privacy :
                 /\ \A m \in S : Uploaded(m)
                 /\ Becomes(w, "acl", privacy, T, {}, Reprivatised(S, privacy), FilesOf(S))
                 /\ clock' = clock + 1
  <1>w. w \in Process
    BY DEF Process
  <1>t. uses[p] \in SUBSET Item
    BY DEF TypeInv, MediaTypeOK
  <1>1. UNCHANGED <<cached, media, acl, renditions, unheard>> /\ At(w, "idle")
    BY DEF PublishPage, RunAction, UnpublishPage
  <1>2. ASSUME NEW T \in SUBSET Item, NEW S \in SUBSET T, NEW privacy \in Privacy,
               \A m \in S : Uploaded(m), BeginBulk(w, T, S, privacy), ~UNCHANGED <<work, clock>>
        PROVE  \E U, V \in SUBSET Item, goal \in Privacy :
                 /\ \A m \in U : Uploaded(m)
                 /\ Becomes(w, "acl", goal, V, {}, Reprivatised(U, goal), FilesOf(U))
                 /\ clock' = clock + 1
    <2>1. S # {}
      BY <1>2 DEF BeginBulk
    <2>2. Becomes(w, "acl", privacy, T, {}, Reprivatised(S, privacy), FilesOf(S))
          /\ clock' = clock + 1
      BY <1>w, <1>2, <2>1, BulkStep
    <2>3. QED
      BY <1>2, <2>2
  <1>3. ASSUME NEW T \in SUBSET Item
        PROVE  /\ {m \in T : Is(m, "private")} \in SUBSET T
               /\ \A m \in {n \in T : Is(n, "private")} : Uploaded(m)
               /\ "public" \in Privacy
    BY DEF Is, Privacy
  <1>4. CASE PublishPage(w, p, R, future)
    <2>1. UNCHANGED <<work, clock>> \/ BeginBulk(w, R, {m \in R : Is(m, "private")}, "public")
      BY <1>4 DEF PublishPage, PublishMedia
    <2>2. QED
      BY <1>1, <1>2, <1>3, <2>1
  <1>5. CASE RunAction(w, p)
    <2>1. BeginBulk(w, uses[p], {m \in uses[p] : Is(m, "private")}, "public")
      BY <1>5 DEF RunAction, PublishMedia
    <2>2. QED
      BY <1>t, <1>1, <1>2, <1>3, <2>1
  <1>6. CASE UnpublishPage(w, p)
    <2>1. BeginBulk(w, uses[p], {m \in OnlyUsedBy(p) : Is(m, "public")}, "private")
      BY <1>6 DEF UnpublishPage
    <2>2. QED
      BY <1>t, <1>1, <1>2, <2>1 DEF Is, Privacy, OnlyUsedBy
  <1>7. QED
    BY <1>4, <1>5, <1>6

LEMMA HoldStep ==
  ASSUME TypeInv, NEW w \in Process, NEW m \in Item, NEW r \in MediaRow, NEW step \in Steps,
         Hold(w, m, r, step)
  PROVE  Becomes(w, step, r.privacy, {m}, {}, [NothingLoaded EXCEPT ![m] = r], FilesOf({m}))
  BY DEF Hold, Becomes, AtRest, TypeInv, MediaTypeOK

LEMMA CallsStep ==
  ASSUME TypeInv, NEW w \in Process, NEW applied \in SUBSET InHand(w),
         NEW reported \in SUBSET InHand(w), BulkPermissions(w, applied, reported)
  PROVE  Becomes(w, "write", work[w].privacy, work[w].touch, work[w].left,
                 Stamped(w, reported), work[w].listed)
  <1>1. work' = [work EXCEPT ![w] = [work[w] EXCEPT !.step = "write", !.loaded = Stamped(w, reported)]]
    BY WorkType DEF BulkPermissions, TypeInv, MediaTypeOK, Work, Stamped
  <1>2. QED
    BY <1>1, WorkType DEF Becomes, TypeInv, MediaTypeOK, Work

LEMMA EditSaveStep ==
  ASSUME TypeInv, NEW w \in Process, EditSave(w)
  PROVE  \E m \in Loaded(w) :
           /\ media' = [media EXCEPT ![m] = work[w].loaded[m]]
           /\ IF Outdated(work[w].loaded[m])
              THEN Becomes(w, "save_acl", work[w].privacy, work[w].touch, work[w].left,
                           work[w].loaded, FilesOf({m}))
              ELSE GoesToRest(w)
  <1>1. PICK m \in Loaded(w) :
          /\ media' = [media EXCEPT ![m] = work[w].loaded[m]]
          /\ work' = [work EXCEPT ![w] =
               IF Outdated(work[w].loaded[m])
               THEN [@ EXCEPT !.step = "save_acl", !.listed = FilesOf({m})] ELSE AtRest]
    BY DEF EditSave
  <1>2. CASE Outdated(work[w].loaded[m])
    <2>1. work' = [work EXCEPT ![w] = [work[w] EXCEPT !.step = "save_acl", !.listed = FilesOf({m})]]
      BY <1>1, <1>2 DEF TypeInv, MediaTypeOK
    <2>2. Becomes(w, "save_acl", work[w].privacy, work[w].touch, work[w].left,
                  work[w].loaded, FilesOf({m}))
      BY <2>1, WorkType DEF Becomes, TypeInv, MediaTypeOK, Work
    <2>3. QED
      BY <1>1, <1>2, <2>2
  <1>3. CASE ~Outdated(work[w].loaded[m])
    <2>1. work' = [work EXCEPT ![w] = AtRest]
      BY <1>1, <1>3
    <2>2. QED
      BY <1>1, <1>3, <2>1, DoneStep
  <1>4. QED
    BY <1>2, <1>3

LEMMA RenditionStep ==
  ASSUME TypeInv, NEW w \in Process, RenditionCreate(w)
  PROVE  IF Loaded(w) \subseteq renditions THEN GoesToRest(w)
         ELSE Becomes(w, "rendition_acl", work[w].privacy, work[w].touch, work[w].left,
                      work[w].loaded, Loaded(w) \X {"rendition"})
  <1>1. CASE Loaded(w) \subseteq renditions
    BY <1>1, DoneStep DEF RenditionCreate
  <1>2. CASE ~(Loaded(w) \subseteq renditions)
    <2>1. work' = [work EXCEPT ![w] = [work[w] EXCEPT !.step = "rendition_acl",
                                                      !.listed = Loaded(w) \X {"rendition"}]]
      BY <1>2 DEF RenditionCreate, TypeInv, MediaTypeOK
    <2>2. QED
      BY <1>2, <2>1, WorkType DEF Becomes, TypeInv, MediaTypeOK, Work
  <1>3. QED
    BY <1>1, <1>2

\* The group the retry has in hand is done with.
InGroup(w) == Loaded(w) \ work[w].left
WithoutGroup(w) == [m \in Item |-> IF m \in InGroup(w) THEN NoMedia ELSE work[w].loaded[m]]

LEMMA RetryWriteStep ==
  ASSUME TypeInv, NEW w \in Process, RetryWrite(w)
  PROVE  IF work[w].left = {} THEN GoesToRest(w)
         ELSE Becomes(w, "acl", "public", work[w].touch, {}, WithoutGroup(w),
                      {mf \in work[w].listed : mf[1] \in work[w].left})
  <1>1. CASE work[w].left = {}
    BY <1>1, DoneStep DEF RetryWrite
  <1>2. CASE work[w].left # {}
    <2>1. work' = [work EXCEPT ![w] = [work[w] EXCEPT !.step = "acl", !.privacy = "public", !.left = {},
                                  !.loaded = WithoutGroup(w),
                                  !.listed = {mf \in work[w].listed : mf[1] \in work[w].left}]]
      BY <1>2 DEF RetryWrite, WithoutGroup, InGroup
    <2>2. QED
      BY <1>2, <2>1, WorkType DEF Becomes, TypeInv, MediaTypeOK, Work
  <1>3. QED
    BY <1>1, <1>2

LEMMA RetryLoadStep ==
  ASSUME TypeInv, NEW w \in Process, RetryLoad(w)
  PROVE  \E left \in SUBSET RetriedItems, privacy \in Privacy :
           /\ \A m \in RetriedItems :
                media[m].privacy = IF m \in left THEN "public" ELSE privacy
           /\ Becomes(w, "acl", privacy, RetriedItems, left,
                      [m \in Item |-> IF m \in RetriedItems THEN media[m] ELSE NoMedia],
                      FilesOf(RetriedItems))
  <1> DEFINE S == RetriedItems
             private == {m \in S : Is(m, "private")}
             goal == IF private # {} THEN "private" ELSE "public"
             others == S \ (IF private # {} THEN private ELSE S)
             rows == [m \in Item |-> IF m \in S THEN media[m] ELSE NoMedia]
             new == [AtRest EXCEPT !.step = "acl", !.privacy = goal, !.touch = S,
                                   !.left = others, !.loaded = rows, !.listed = FilesOf(S)]
  <1>1. work' = [work EXCEPT ![w] = new]
    BY DEF RetryLoad
  <1>2. new.step = "acl" /\ new.privacy = goal /\ new.touch = S /\ new.left = others
        /\ new.loaded = rows /\ new.listed = FilesOf(S)
    BY DEF AtRest
  <1>3. \A m \in S : Uploaded(m) /\ media[m].privacy \in Privacy
    BY RowType DEF RetriedItems, MediaRow
  <1>4. \A m \in S : media[m].privacy = IF m \in others THEN "public" ELSE goal
    BY <1>3 DEF Is, Privacy
  <1>5. others \in SUBSET S /\ goal \in Privacy
    BY DEF Privacy
  <1> HIDE DEF new
  <1>6. Becomes(w, "acl", goal, S, others, rows, FilesOf(S))
    BY <1>1, <1>2 DEF Becomes, TypeInv, MediaTypeOK
  <1>7. QED
    BY <1>4, <1>5, <1>6

---------------------------------------------------------------------------
(* Where each process is with an item                                      *)

\* The steps about one item, whose row the process has read.
HoldSteps == {"edit", "save_acl", "stamp", "rendition", "rendition_acl"}

\* What the process w may be doing at the step it is at.
Orderly(w, k) ==
  /\ k.step = "idle" => \A m \in Item : k.loaded[m] = NoMedia
  /\ w \in Retrying => k.step \in {"idle", "acl", "write"}
  /\ w \in Editing => k.left = {}
  /\ \A m \in Item : k.loaded[m] # NoMedia => m \in k.touch
  /\ \A mf \in k.listed : k.loaded[mf[1]] # NoMedia
  /\ k.step \in HoldSteps =>
       \A m, n \in Item : k.loaded[m] # NoMedia /\ k.loaded[n] # NoMedia => m = n
  /\ \A m \in Item : k.loaded[m] # NoMedia =>
       k.loaded[m].privacy = IF m \in k.left THEN "public" ELSE k.privacy

AllOrderly == \A w \in Process : Orderly(w, work[w])

\* An item that was never worked on twice at once is worked on once now.
Alone ==
  \A m \in Item \ raced : \A v, w \in Process :
    m \in work[v].touch /\ m \in work[w].touch => v = w

\* Its row is still as the process has read it, but for what a retry has stamped.
AsTheRow ==
  \A w \in Process : \A m \in Loaded(w) \ raced :
    /\ work[w].step \in HoldSteps => work[w].loaded[m] = media[m]
    /\ w \in Retrying => /\ work[w].loaded[m].privacy = media[m].privacy
                         /\ work[w].loaded[m].changed = media[m].changed

CourseInv == TypeInv /\ AllOrderly /\ Alone /\ AsTheRow

LEMMA OrderKept ==
  ASSUME TypeInv, AllOrderly, Alone, NEW w \in Process,
         \A v \in Process : v # w => work'[v] = work[v],
         Orderly(w, work'[w]), raced \subseteq raced',
         \A m \in work'[w].touch \ raced' :
            m \in work[w].touch \/ \A v \in Process : v # w => m \notin work[v].touch
  PROVE  AllOrderly' /\ Alone'
  <1>1. AllOrderly'
    BY DEF AllOrderly
  <1>2. ASSUME NEW m \in Item \ raced', NEW v \in Process, NEW u \in Process,
               m \in work'[v].touch, m \in work'[u].touch
        PROVE  v = u
    BY <1>2 DEF Alone
  <1>3. QED
    BY <1>1, <1>2 DEF Alone

LEMMA RestKeepsOrder ==
  ASSUME TypeInv, AllOrderly, Alone, NEW w \in Process, GoesToRest(w), UNCHANGED raced
  PROVE  AllOrderly' /\ Alone'
  <1>1. Orderly(w, work'[w])
    BY DEF GoesToRest, Becomes, Orderly, NothingLoaded, HoldSteps
  <1>2. QED
    BY <1>1, OrderKept DEF GoesToRest, Becomes

LEMMA GoKeepsOrder ==
  ASSUME TypeInv, AllOrderly, Alone, NEW w \in Process, NEW step, GoesTo(w, step), UNCHANGED raced,
         step # "idle", w \in Retrying => step \in {"acl", "write"},
         step \in HoldSteps => work[w].step \in HoldSteps
  PROVE  AllOrderly' /\ Alone'
  <1>1. Orderly(w, work'[w])
    BY DEF GoesTo, Becomes, Orderly, AllOrderly
  <1>2. QED
    BY <1>1, OrderKept DEF GoesTo, Becomes

LEMMA TouchingAlone ==
  ASSUME TypeInv, NEW w \in Process, NEW T \in SUBSET Item, Touching(w, T)
  PROVE  /\ raced \subseteq raced'
         /\ \A m \in T \ raced' : \A v \in Process : v # w => m \notin work[v].touch
  BY DEF Touching

LEMMA BulkOrder ==
  ASSUME TypeInv, AllOrderly, Alone, NEW w \in Editing, NEW T \in SUBSET Item, NEW S \in SUBSET T,
         \A m \in S : Uploaded(m), NEW privacy \in Privacy, BeginBulk(w, T, S, privacy)
  PROVE  AllOrderly' /\ Alone'
  <1>w. w \in Process /\ w \notin Retrying
    BY MediaAssumption DEF Process
  <1>1. CASE S = {}
    BY <1>w, <1>1, TouchingAlone DEF BeginBulk, AllOrderly, Alone
  <1>2. CASE S # {}
    <2>1. Becomes(w, "acl", privacy, T, {}, Reprivatised(S, privacy), FilesOf(S))
      BY <1>w, <1>2, BulkStep
    <2>2. ASSUME NEW m \in Item
          PROVE  /\ Reprivatised(S, privacy)[m] # NoMedia => m \in S
                 /\ m \in S => Reprivatised(S, privacy)[m].privacy = privacy
      BY <2>2, RowType DEF Reprivatised, MediaRow
    <2>3. \A mf \in FilesOf(S) : Reprivatised(S, privacy)[mf[1]] # NoMedia
      <3>1. \A m \in S : Reprivatised(S, privacy)[m] # NoMedia
        BY <2>2, MediaAssumption DEF Privacy, NoMedia
      <3>2. QED
        BY <3>1, FilesOfItems
    <2>4. Orderly(w, work'[w])
      BY <1>w, <2>1, <2>2, <2>3 DEF Becomes, Orderly, HoldSteps
    <2>5. QED
      BY <1>w, <2>1, <2>4, TouchingAlone, OrderKept DEF BeginBulk, Becomes
  <1>3. QED
    BY <1>1, <1>2

LEMMA PagesOrder ==
  ASSUME TypeInv, AllOrderly, Alone, NEW w \in Editing, NEW p \in MediaPage, NEW R \in SUBSET Item,
         NEW future \in BOOLEAN,
         PublishPage(w, p, R, future) \/ RunAction(w, p) \/ UnpublishPage(w, p)
  PROVE  AllOrderly' /\ Alone'
  <1>t. uses[p] \in SUBSET Item
    BY DEF TypeInv, MediaTypeOK
  <1>1. CASE PublishPage(w, p, R, future)
    <2>1. CASE UNCHANGED <<work, clock, raced>>
      BY <2>1 DEF AllOrderly, Alone
    <2>2. CASE PublishMedia(w, R)
      BY <2>2, BulkOrder DEF PublishMedia, Is, Privacy
    <2>3. QED
      BY <1>1, <2>1, <2>2 DEF PublishPage
  <1>2. CASE RunAction(w, p)
    BY <1>t, <1>2, BulkOrder DEF RunAction, PublishMedia, Is, Privacy
  <1>3. CASE UnpublishPage(w, p)
    <2> DEFINE S == {m \in OnlyUsedBy(p) : Is(m, "public")}
    <2>1. S \subseteq uses[p] /\ \A m \in S : Uploaded(m)
      BY DEF OnlyUsedBy, Is
    <2>2. BeginBulk(w, uses[p], S, "private")
      BY <1>3 DEF UnpublishPage
    <2>3. QED
      BY <1>t, <2>1, <2>2, BulkOrder DEF Privacy
  <1>4. QED
    BY <1>1, <1>2, <1>3

LEMMA HoldOrder ==
  ASSUME TypeInv, AllOrderly, Alone, NEW w \in Editing, NEW m \in Item,
         Upload(w, m) \/ EditLoad(w, m) \/ RenditionLoad(w, m)
  PROVE  AllOrderly' /\ Alone'
  <1>w. w \in Process /\ w \notin Retrying
    BY MediaAssumption DEF Process
  <1>1. ASSUME NEW r \in MediaRow, NEW step \in HoldSteps, Hold(w, m, r, step)
        PROVE  AllOrderly' /\ Alone'
    <2>1. Becomes(w, step, r.privacy, {m}, {}, [NothingLoaded EXCEPT ![m] = r], FilesOf({m}))
      BY <1>w, <1>1, HoldStep DEF HoldSteps, Steps
    <2>2. \A n \in Item : [NothingLoaded EXCEPT ![m] = r][n] = IF n = m THEN r ELSE NoMedia
      BY DEF NothingLoaded
    <2>3. r # NoMedia
      BY <1>1 DEF MediaRow, NoMedia, Privacy
    <2>4. \A mf \in FilesOf({m}) : mf[1] = m
      BY FilesOfItems
    <2>5. Orderly(w, work'[w])
      <3>1. PICK k : k = work'[w]
        OBVIOUS
      <3>2. /\ k.step = step /\ k.privacy = r.privacy /\ k.touch = {m} /\ k.left = {}
            /\ k.listed = FilesOf({m})
            /\ k.loaded = [NothingLoaded EXCEPT ![m] = r]
        BY <2>1, <3>1 DEF Becomes
      <3>3. \A n \in Item : k.loaded[n] = IF n = m THEN r ELSE NoMedia
        BY <2>2, <3>2
      <3>4. k.loaded[m] = r /\ \A n \in Item : k.loaded[n] # NoMedia => n = m
        BY <3>3
      <3>5. step # "idle"
        BY DEF HoldSteps
      <3>6. \A mf \in k.listed : k.loaded[mf[1]] # NoMedia
        BY <2>3, <2>4, <3>2, <3>4
      <3>7. \A n \in Item : k.loaded[n] # NoMedia => n \in k.touch /\ n \notin k.left
                                                   /\ k.loaded[n].privacy = k.privacy
        BY <3>2, <3>4
      <3>8. Orderly(w, k)
        BY <1>w, <3>2, <3>4, <3>5, <3>6, <3>7 DEF Orderly
      <3>9. QED
        BY <3>1, <3>8
    <2>6. QED
      BY <1>w, <1>1, <2>1, <2>5, TouchingAlone, OrderKept DEF Hold, Becomes
  <1>2. CASE Upload(w, m)
    <2>1. [privacy |-> "private", changed |-> clock, set |-> Never] \in MediaRow
      BY MediaAssumption DEF TypeInv, MediaTypeOK, MediaRow, Privacy, Never, Instant
    <2>2. QED
      BY <1>1, <1>2, <2>1 DEF Upload, HoldSteps
  <1>3. CASE EditLoad(w, m)
    BY <1>1, <1>3, RowType DEF EditLoad, HoldSteps
  <1>4. CASE RenditionLoad(w, m)
    BY <1>1, <1>4, RowType DEF RenditionLoad, HoldSteps
  <1>5. QED
    BY <1>2, <1>3, <1>4

\* The retry is at no step of an editor's.
LEMMA StepsOfEditing ==
  ASSUME AllOrderly, NEW w \in Process
  PROVE  work[w].step \in HoldSteps \cup {"purge"} => w \notin Retrying
  BY DEF AllOrderly, Orderly, HoldSteps

\* A stamp changes nothing but the time of the stamp.
LEMMA StampedIs ==
  ASSUME TypeInv, NEW w \in Process, NEW reported, NEW m \in Item
  PROVE  /\ Stamped(w, reported)[m] # NoMedia <=> m \in Loaded(w)
         /\ m \in Loaded(w) => /\ Stamped(w, reported)[m].privacy = work[w].loaded[m].privacy
                               /\ Stamped(w, reported)[m].changed = work[w].loaded[m].changed
         /\ m \in Loaded(w) \ work[w].left /\ AllReported(w, m, reported)
              => Stamped(w, reported)[m].set = clock
         /\ ~(m \in Loaded(w) \ work[w].left /\ AllReported(w, m, reported))
              => Stamped(w, reported)[m] = work[w].loaded[m]
  <1>1. m \in Loaded(w) <=> work[w].loaded[m] # NoMedia
    BY DEF Loaded
  <1>2. CASE m \in Loaded(w) \ work[w].left /\ AllReported(w, m, reported)
    <2>1. Stamped(w, reported)[m] = [work[w].loaded[m] EXCEPT !.set = clock]
      BY <1>2 DEF Stamped
    <2>2. work[w].loaded[m] \in MediaRow
      BY <1>2, WorkType
    <2>3. [work[w].loaded[m] EXCEPT !.set = clock] \in MediaRow
      BY <2>2 DEF MediaRow, TypeInv, MediaTypeOK
    <2>4. \A r \in MediaRow : r # NoMedia
      BY DEF MediaRow, NoMedia, Privacy
    <2>5. QED
      BY <1>2, <2>1, <2>2, <2>3, <2>4 DEF MediaRow
  <1>3. CASE ~(m \in Loaded(w) \ work[w].left /\ AllReported(w, m, reported))
    BY <1>1, <1>3 DEF Stamped
  <1>4. QED
    BY <1>2, <1>3

LEMMA CallsOrder ==
  ASSUME TypeInv, AllOrderly, Alone, NEW w \in Process, NEW applied \in SUBSET InHand(w),
         NEW reported \in SUBSET InHand(w), NEW raised \in BOOLEAN,
         \/ BulkPermissions(w, applied, reported)
         \/ SavePermissions(w, applied, raised)
         \/ SavePermissionsFails(w, applied)
         \/ RenditionPermissions(w, applied)
  PROVE  AllOrderly' /\ Alone'
  <1>r. UNCHANGED raced
    BY DEF BulkPermissions, SavePermissions, SavePermissionsFails, RenditionPermissions
  <1>o. Orderly(w, work[w])
    BY DEF AllOrderly
  <1>1. CASE BulkPermissions(w, applied, reported)
    <2>1. Becomes(w, "write", work[w].privacy, work[w].touch, work[w].left,
                  Stamped(w, reported), work[w].listed)
      BY <1>1, CallsStep
    <2>2. \A mf \in work[w].listed : mf[1] \in Item
      BY WorkType DEF Work
    <2>3. \A m \in Item : m \in Loaded(w) <=> work[w].loaded[m] # NoMedia
      BY DEF Loaded
    <2>4. Orderly(w, work'[w])
      BY <1>o, <2>1, <2>2, <2>3, StampedIs DEF Becomes, Orderly, HoldSteps
    <2>5. QED
      BY <1>r, <2>1, <2>4, OrderKept DEF Becomes
  <1>2. CASE SavePermissions(w, applied, raised)
    <2>1. GoesTo(w, "stamp")
      BY <1>2, GoStep DEF SavePermissions, Steps
    <2>2. work[w].step \in HoldSteps /\ w \notin Retrying
      BY <1>2, StepsOfEditing DEF SavePermissions, At, HoldSteps
    <2>3. QED
      BY <1>r, <2>1, <2>2, GoKeepsOrder
  <1>3. CASE SavePermissionsFails(w, applied) \/ RenditionPermissions(w, applied)
    BY <1>r, <1>3, DoneStep, RestKeepsOrder DEF SavePermissionsFails, RenditionPermissions, Done
  <1>4. QED
    BY <1>1, <1>2, <1>3

LEMMA WriteOrder ==
  ASSUME TypeInv, AllOrderly, Alone, NEW w \in Process,
         BulkWrite(w) \/ BulkPurge(w) \/ EditSave(w) \/ SaveStamp(w) \/ RenditionCreate(w)
  PROVE  AllOrderly' /\ Alone'
  <1>r. UNCHANGED raced
    BY DEF BulkWrite, BulkPurge, EditSave, SaveStamp, RenditionCreate
  <1>o. Orderly(w, work[w]) /\ \A m \in Item : m \in Loaded(w) <=> work[w].loaded[m] # NoMedia
    BY DEF AllOrderly, Loaded
  <1>1. CASE BulkWrite(w)
    <2>1. GoesTo(w, "purge") /\ w \notin Retrying
      BY <1>1, GoStep, MediaAssumption DEF BulkWrite, Steps
    <2>2. QED
      BY <1>r, <2>1, GoKeepsOrder DEF HoldSteps
  <1>2. CASE BulkPurge(w) \/ SaveStamp(w)
    BY <1>r, <1>2, DoneStep, RestKeepsOrder DEF BulkPurge, SaveStamp, Done
  <1>3. CASE EditSave(w)
    <2>1. PICK m \in Loaded(w) :
            IF Outdated(work[w].loaded[m])
            THEN Becomes(w, "save_acl", work[w].privacy, work[w].touch, work[w].left,
                         work[w].loaded, FilesOf({m}))
            ELSE GoesToRest(w)
      BY <1>3, EditSaveStep
    <2>2. CASE GoesToRest(w)
      BY <1>r, <2>2, RestKeepsOrder
    <2>3. CASE Becomes(w, "save_acl", work[w].privacy, work[w].touch, work[w].left,
                       work[w].loaded, FilesOf({m}))
      <3>1. w \notin Retrying /\ work[w].step \in HoldSteps
        BY <1>3, StepsOfEditing DEF EditSave, At, HoldSteps
      <3>2. \A mf \in FilesOf({m}) : mf[1] = m
        BY FilesOfItems DEF Loaded
      <3>m. m \in Item /\ work[w].loaded[m] # NoMedia
        BY DEF Loaded
      <3>k. /\ work'[w].step = "save_acl" /\ work'[w].listed = FilesOf({m})
            /\ work'[w].privacy = work[w].privacy /\ work'[w].touch = work[w].touch
            /\ work'[w].left = work[w].left /\ work'[w].loaded = work[w].loaded
        BY <2>3 DEF Becomes
      <3>3. Orderly(w, work'[w])
        BY <1>o, <3>1, <3>2, <3>k, <3>m DEF Orderly, HoldSteps
      <3>4. QED
        BY <1>r, <2>3, <3>3, OrderKept DEF Becomes
    <2>4. QED
      BY <2>1, <2>2, <2>3
  <1>4. CASE RenditionCreate(w)
    <2>1. CASE GoesToRest(w)
      BY <1>r, <2>1, RestKeepsOrder
    <2>2. CASE Becomes(w, "rendition_acl", work[w].privacy, work[w].touch, work[w].left,
                       work[w].loaded, Loaded(w) \X {"rendition"})
      <3>1. w \notin Retrying /\ work[w].step \in HoldSteps
        BY <1>4, StepsOfEditing DEF RenditionCreate, At, HoldSteps
      <3>2. \A mf \in Loaded(w) \X {"rendition"} : mf[1] \in Loaded(w)
        OBVIOUS
      <3>3. Orderly(w, work'[w])
        BY <1>o, <2>2, <3>1, <3>2 DEF Becomes, Orderly, HoldSteps, Loaded
      <3>4. QED
        BY <1>r, <2>2, <3>3, OrderKept DEF Becomes
    <2>3. QED
      BY <1>4, <2>1, <2>2, RenditionStep
  <1>5. QED
    BY <1>1, <1>2, <1>3, <1>4

LEMMA RetryOrder ==
  ASSUME TypeInv, AllOrderly, Alone, NEW w \in Retrying, RetryLoad(w) \/ RetryWrite(w)
  PROVE  AllOrderly' /\ Alone'
  <1>w. w \in Process /\ w \notin Editing
    BY MediaAssumption DEF Process
  <1>o. Orderly(w, work[w]) /\ \A m \in Item : m \in Loaded(w) <=> work[w].loaded[m] # NoMedia
    BY <1>w DEF AllOrderly, Loaded
  <1>1. CASE RetryLoad(w)
    <2> DEFINE S == RetriedItems
               rows == [m \in Item |-> IF m \in RetriedItems THEN media[m] ELSE NoMedia]
    <2>1. PICK left \in SUBSET RetriedItems, privacy \in Privacy :
            /\ \A m \in RetriedItems : media[m].privacy = IF m \in left THEN "public" ELSE privacy
            /\ Becomes(w, "acl", privacy, RetriedItems, left, rows, FilesOf(RetriedItems))
      BY <1>w, <1>1, RetryLoadStep
    <2>2. S \subseteq Item /\ \A m \in S : media[m] # NoMedia
      BY DEF RetriedItems, Uploaded
    <2>3. \A mf \in FilesOf(S) : mf[1] \in S
      BY <2>2, FilesOfItems
    <2>4. \A m \in Item : /\ rows[m] # NoMedia <=> m \in S
                          /\ m \in S => rows[m] = media[m]
      BY <2>2
    <2> HIDE DEF S, rows
    <2>5. Orderly(w, work'[w])
      BY <1>w, <2>1, <2>2, <2>3, <2>4 DEF S, Becomes, Orderly, HoldSteps
    <2>6. Touching(w, S)
      BY <1>1 DEF RetryLoad, S
    <2>7. QED
      BY <1>w, <2>1, <2>2, <2>5, <2>6, TouchingAlone, OrderKept DEF Becomes, S
  <1>2. CASE RetryWrite(w)
    <2>r. UNCHANGED raced
      BY <1>2 DEF RetryWrite
    <2>1. CASE GoesToRest(w)
      BY <1>w, <2>r, <2>1, RestKeepsOrder
    <2>2. CASE Becomes(w, "acl", "public", work[w].touch, {}, WithoutGroup(w),
                       {mf \in work[w].listed : mf[1] \in work[w].left})
      <3>1. \A m \in Item : /\ WithoutGroup(w)[m] # NoMedia <=> m \in Loaded(w) /\ m \in work[w].left
                            /\ WithoutGroup(w)[m] # NoMedia => WithoutGroup(w)[m] = work[w].loaded[m]
        BY <1>o DEF WithoutGroup, InGroup
      <3>2. \A mf \in work[w].listed : mf[1] \in Item
        BY <1>w, WorkType DEF Work
      <3>3. Orderly(w, work'[w])
        BY <1>w, <1>o, <2>2, <3>1, <3>2 DEF Becomes, Orderly, HoldSteps
      <3>4. QED
        BY <1>w, <2>r, <2>2, <3>3, OrderKept DEF Becomes
    <2>3. QED
      BY <1>w, <1>2, <2>1, <2>2, RetryWriteStep
  <1>3. QED
    BY <1>1, <1>2

\* What one process does.
StepOf(w) ==
  \/ w \in Editing /\ Request(w)
  \/ Continue(w)
  \/ w \in Retrying /\ RetryLoad(w)

LEMMA NextIsAStep ==
  ASSUME MediaNext
  PROVE  \/ \E w \in Process : StepOf(w)
         \/ \E p \in MediaPage, R \in SUBSET Item : PublishInBundle(p, R)
         \/ \E m \in Item : Serve(m)
  BY DEF MediaNext, StepOf, Process

LEMMA OrderStep ==
  ASSUME TypeInv, AllOrderly, Alone, NEW w \in Process, StepOf(w)
  PROVE  AllOrderly' /\ Alone'
  <1>1. CASE w \in Editing /\ Request(w)
    BY <1>1, PagesOrder, HoldOrder DEF Request
  <1>2. CASE Continue(w)
    <2>1. CASE \E applied \in SUBSET InHand(w), reported \in SUBSET InHand(w), raised \in BOOLEAN :
                 \/ BulkPermissions(w, applied, reported)
                 \/ SavePermissions(w, applied, raised)
                 \/ SavePermissionsFails(w, applied)
                 \/ RenditionPermissions(w, applied)
      BY <2>1, CallsOrder
    <2>2. CASE BulkWrite(w) \/ BulkPurge(w) \/ EditSave(w) \/ SaveStamp(w) \/ RenditionCreate(w)
      BY <2>2, WriteOrder
    <2>3. CASE RetryWrite(w)
      BY <2>3, RetryOrder DEF RetryWrite
    <2>4. QED
      BY <1>2, <2>1, <2>2, <2>3 DEF Continue
  <1>3. CASE w \in Retrying /\ RetryLoad(w)
    BY <1>3, RetryOrder
  <1>4. QED
    BY <1>1, <1>2, <1>3 DEF StepOf

\* An item that the process has in memory neither before nor after is left alone.
Aside(m) ==
  /\ media'[m] = media[m] /\ acl'[m] = acl[m]
  /\ m \in renditions' <=> m \in renditions
  /\ m \in cached' <=> m \in cached
  /\ m \in unheard' <=> m \in unheard

LEMMA CallsAside ==
  ASSUME TypeInv, AllOrderly, NEW w \in Process, NEW applied \in SUBSET InHand(w),
         NEW m \in Item, m \notin Loaded(w), Calls(w, applied)
  PROVE  acl'[m] = acl[m]
  <1>1. \A f \in File : <<m, f>> \notin applied
    BY DEF InHand, AllOrderly, Orderly, Loaded
  <1>2. acl'[m] = [f \in File |-> IF <<m, f>> \in applied THEN work[w].privacy ELSE acl[m][f]]
    BY DEF Calls
  <1>3. acl'[m] = [f \in File |-> acl[m][f]]
    BY <1>1, <1>2
  <1>4. acl[m] \in [File -> Privacy]
    BY DEF TypeInv, MediaTypeOK
  <1>5. QED
    BY <1>3, <1>4

LEMMA Elsewhere ==
  ASSUME TypeInv, AllOrderly, NEW w \in Process, StepOf(w),
         NEW m \in Item, m \notin Loaded(w), m \notin Loaded(w)'
  PROVE  Aside(m)
  <1>t. media \in [Item -> MediaRow \cup {NoMedia}]
    BY DEF TypeInv, MediaTypeOK
  <1>1. ASSUME NEW p \in MediaPage, NEW R \in SUBSET Item, NEW future \in BOOLEAN,
               PublishPage(w, p, R, future) \/ RunAction(w, p) \/ UnpublishPage(w, p)
        PROVE  Aside(m)
    BY <1>1 DEF PublishPage, RunAction, UnpublishPage, Aside
  <1>2. ASSUME NEW n \in Item, Upload(w, n)
        PROVE  Aside(m)
    <2> DEFINE r == [privacy |-> "private", changed |-> clock, set |-> Never]
    <2>1. r \in MediaRow /\ r # NoMedia
      BY MediaAssumption DEF TypeInv, MediaTypeOK, MediaRow, NoMedia, Privacy, Never, Instant
    <2>2. Hold(w, n, r, "save_acl") /\ media' = [media EXCEPT ![n] = r]
          /\ UNCHANGED <<pages, cached, acl, renditions, clock, unheard>>
      BY <1>2 DEF Upload
    <2> HIDE DEF r
    <2>3. work'[w].loaded = [NothingLoaded EXCEPT ![n] = r]
      <3>1. "save_acl" \in Steps
        BY DEF Steps
      <3>2. Becomes(w, "save_acl", r.privacy, {n}, {}, [NothingLoaded EXCEPT ![n] = r], FilesOf({n}))
        BY <2>1, <2>2, <3>1, HoldStep
      <3>3. QED
        BY <3>2 DEF Becomes
    <2>4. n \in Loaded(w)'
      BY <2>1, <2>3 DEF Loaded, NothingLoaded
    <2>5. m # n
      BY <2>4
    <2>6. QED
      BY <1>t, <2>2, <2>5 DEF Aside
  <1>3. ASSUME NEW n \in Item, EditLoad(w, n) \/ RenditionLoad(w, n)
        PROVE  Aside(m)
    BY <1>3 DEF EditLoad, RenditionLoad, Aside
  <1>4. ASSUME NEW applied \in SUBSET InHand(w), NEW reported \in SUBSET InHand(w), NEW raised \in BOOLEAN,
               \/ BulkPermissions(w, applied, reported)
               \/ SavePermissions(w, applied, raised)
               \/ SavePermissionsFails(w, applied)
               \/ RenditionPermissions(w, applied)
        PROVE  Aside(m)
    <2>1. Calls(w, applied) /\ UNCHANGED <<cached, media, renditions>>
          /\ unheard' \in {unheard, unheard \cup Loaded(w)}
      BY <1>4 DEF BulkPermissions, SavePermissions, SavePermissionsFails, RenditionPermissions
    <2>2. acl'[m] = acl[m]
      BY <2>1, CallsAside
    <2>3. QED
      BY <2>1, <2>2 DEF Aside
  <1>5. CASE BulkWrite(w) \/ BulkPurge(w)
    BY <1>5 DEF BulkWrite, BulkPurge, Purged, Aside
  <1>6. CASE EditSave(w) \/ SaveStamp(w) \/ RenditionCreate(w)
    BY <1>t, <1>6 DEF EditSave, SaveStamp, RenditionCreate, Aside
  <1>7. CASE RetryWrite(w)
    BY <1>7 DEF RetryWrite, Aside
  <1>8. CASE RetryLoad(w)
    BY <1>8 DEF RetryLoad, Aside
  <1>9. QED
    BY <1>1, <1>2, <1>3, <1>4, <1>5, <1>6, <1>7, <1>8 DEF StepOf, Request, Continue

\* The other processes stay where they are.
LEMMA OthersRest ==
  ASSUME TypeInv, NEW w \in Process, StepOf(w)
  PROVE  raced \subseteq raced' /\ \A v \in Process : v # w => work'[v] = work[v]
  <1>t. work \in [Process -> Work]
    BY DEF TypeInv, MediaTypeOK
  <1>1. ASSUME NEW p \in MediaPage, NEW R \in SUBSET Item, NEW future \in BOOLEAN,
               PublishPage(w, p, R, future) \/ RunAction(w, p) \/ UnpublishPage(w, p)
        PROVE  raced \subseteq raced' /\ \A v \in Process : v # w => work'[v] = work[v]
    BY <1>t, <1>1 DEF PublishPage, RunAction, UnpublishPage, PublishMedia, BeginBulk, Touching
  <1>2. ASSUME NEW n \in Item, Upload(w, n) \/ EditLoad(w, n) \/ RenditionLoad(w, n)
        PROVE  raced \subseteq raced' /\ \A v \in Process : v # w => work'[v] = work[v]
    BY <1>t, <1>2 DEF Upload, EditLoad, RenditionLoad, Hold, Touching
  <1>3. ASSUME NEW applied \in SUBSET InHand(w), NEW reported \in SUBSET InHand(w), NEW raised \in BOOLEAN,
               \/ BulkPermissions(w, applied, reported)
               \/ SavePermissions(w, applied, raised)
               \/ SavePermissionsFails(w, applied)
               \/ RenditionPermissions(w, applied)
        PROVE  raced \subseteq raced' /\ \A v \in Process : v # w => work'[v] = work[v]
    BY <1>t, <1>3 DEF BulkPermissions, SavePermissions, SavePermissionsFails, RenditionPermissions, Go, Done
  <1>4. CASE BulkWrite(w) \/ BulkPurge(w) \/ EditSave(w) \/ SaveStamp(w) \/ RenditionCreate(w)
    BY <1>t, <1>4 DEF BulkWrite, BulkPurge, EditSave, SaveStamp, RenditionCreate, Go, Done
  <1>5. CASE RetryWrite(w) \/ RetryLoad(w)
    BY <1>t, <1>5 DEF RetryWrite, RetryLoad, Touching
  <1>6. QED
    BY <1>1, <1>2, <1>3, <1>4, <1>5 DEF StepOf, Request, Continue

\* What another process has in memory is left alone, and so is that process.
LEMMA OthersAside ==
  ASSUME TypeInv, AllOrderly, Alone, NEW w \in Process, StepOf(w), AllOrderly', Alone',
         NEW v \in Process, v # w, NEW m \in Item, m \notin raced',
         m \in Loaded(v) \/ m \in Loaded(v)'
  PROVE  Aside(m) /\ work'[v] = work[v] /\ m \notin Loaded(w) /\ m \notin Loaded(w)'
  <1>1. raced \subseteq raced' /\ work'[v] = work[v]
    BY OthersRest
  <1>2. m \in Loaded(v) /\ m \in work[v].touch /\ m \in work'[v].touch
    BY <1>1 DEF AllOrderly, Orderly, Loaded
  <1>3. m \notin work[w].touch /\ m \notin work'[w].touch
    BY <1>1, <1>2 DEF Alone
  <1>4. m \notin Loaded(w) /\ m \notin Loaded(w)'
    BY <1>3 DEF AllOrderly, Orderly, Loaded
  <1>5. QED
    BY <1>1, <1>4, Elsewhere

\* While its own row stays, so does what the process knows of it.
LEMMA AsTheRowStep ==
  ASSUME CourseInv, NEW w \in Process, StepOf(w), TypeInv', AllOrderly', Alone'
  PROVE  AsTheRow'
  <1>c. TypeInv /\ AllOrderly /\ Alone /\ AsTheRow
    BY DEF CourseInv
  <1>r. raced \subseteq raced'
    BY <1>c, OthersRest
  <1>o. Orderly(w, work[w]) /\ Orderly(w, work'[w])
    BY <1>c DEF AllOrderly
  <1> DEFINE Kept(v, m) ==
               /\ work'[v].step \in HoldSteps => work'[v].loaded[m] = media'[m]
               /\ v \in Retrying => /\ work'[v].loaded[m].privacy = media'[m].privacy
                                    /\ work'[v].loaded[m].changed = media'[m].changed
  <1>others. ASSUME NEW v \in Process, v # w, NEW m \in Loaded(v)' \ raced'
             PROVE  Kept(v, m)
    <2>1. m \in Item /\ Aside(m) /\ work'[v] = work[v]
      BY <1>c, <1>others, OthersAside DEF Loaded
    <2>2. m \in Loaded(v) \ raced
      BY <1>r, <1>others, <2>1 DEF Loaded
    <2>3. QED
      BY <1>c, <2>1, <2>2 DEF AsTheRow, Aside
  <1>own. ASSUME NEW m \in Loaded(w)' \ raced'
          PROVE  Kept(w, m)
    <2>m. m \in Item /\ m \notin raced /\ work'[w].loaded[m] # NoMedia
      BY <1>r DEF Loaded
    <2>old. m \in Loaded(w) =>
              /\ work[w].step \in HoldSteps => work[w].loaded[m] = media[m]
              /\ w \in Retrying => /\ work[w].loaded[m].privacy = media[m].privacy
                                   /\ work[w].loaded[m].changed = media[m].changed
      BY <1>c, <2>m DEF AsTheRow
    <2>same. ASSUME work'[w].loaded = work[w].loaded, media'[m] = media[m],
                    work'[w].step \in HoldSteps => work[w].step \in HoldSteps
             PROVE  Kept(w, m)
      BY <2>m, <2>old, <2>same DEF Loaded
    <2>rest. GoesToRest(w) => FALSE
      BY <2>m DEF GoesToRest, Becomes, NothingLoaded
    <2>1. ASSUME NEW p \in MediaPage, NEW R \in SUBSET Item, NEW future \in BOOLEAN, w \in Editing,
                 PublishPage(w, p, R, future) \/ RunAction(w, p) \/ UnpublishPage(w, p)
          PROVE  Kept(w, m)
      <3>1. media' = media /\ At(w, "idle")
        BY <2>1 DEF PublishPage, RunAction, UnpublishPage
      <3>2. work'[w].step \notin HoldSteps
        <4>1. work'[w].step = "acl" \/ work' = work
          BY <1>c, <2>1, PageStep DEF Becomes
        <4>2. QED
          BY <3>1, <4>1 DEF At, HoldSteps
      <3>3. QED
        BY <2>1, <3>2, MediaAssumption
    <2>2. ASSUME NEW n \in Item, w \in Editing, Upload(w, n) \/ EditLoad(w, n) \/ RenditionLoad(w, n)
          PROVE  Kept(w, m)
      <3>1. ASSUME NEW r \in MediaRow, NEW step \in Steps, Hold(w, n, r, step), media'[n] = r
            PROVE  Kept(w, m)
        <4>1. Becomes(w, step, r.privacy, {n}, {}, [NothingLoaded EXCEPT ![n] = r], FilesOf({n}))
          BY <1>c, <3>1, HoldStep
        <4>2. work'[w].loaded = [NothingLoaded EXCEPT ![n] = r]
          BY <4>1 DEF Becomes
        <4>3. m = n /\ work'[w].loaded[m] = r
          BY <2>m, <4>2 DEF NothingLoaded
        <4>4. QED
          BY <2>2, <3>1, <4>3, MediaAssumption
      <3>2. {"save_acl", "edit", "rendition"} \subseteq Steps
        BY DEF Steps
      <3>3. CASE Upload(w, n)
        <4>1. [privacy |-> "private", changed |-> clock, set |-> Never] \in MediaRow
          BY <1>c, MediaAssumption DEF TypeInv, MediaTypeOK, MediaRow, Privacy, Never, Instant
        <4>2. QED
          BY <1>c, <3>1, <3>2, <3>3, <4>1 DEF Upload, TypeInv, MediaTypeOK
      <3>4. CASE EditLoad(w, n) \/ RenditionLoad(w, n)
        BY <1>c, <3>1, <3>2, <3>4, RowType DEF EditLoad, RenditionLoad
      <3>5. QED
        BY <2>2, <3>3, <3>4
    <2>3. ASSUME NEW applied \in SUBSET InHand(w), NEW reported \in SUBSET InHand(w),
                 BulkPermissions(w, applied, reported)
          PROVE  Kept(w, m)
      <3>1. Becomes(w, "write", work[w].privacy, work[w].touch, work[w].left,
                    Stamped(w, reported), work[w].listed)
        BY <1>c, <2>3, CallsStep
      <3>2. work'[w].step = "write" /\ work'[w].loaded = Stamped(w, reported)
        BY <3>1 DEF Becomes
      <3>3. m \in Loaded(w) /\ work'[w].loaded[m].privacy = work[w].loaded[m].privacy
            /\ work'[w].loaded[m].changed = work[w].loaded[m].changed
        BY <1>c, <2>m, <3>2, StampedIs
      <3>4. media' = media
        BY <2>3 DEF BulkPermissions
      <3>5. QED
        BY <2>old, <3>2, <3>3, <3>4 DEF HoldSteps
    <2>4. ASSUME NEW applied \in SUBSET InHand(w), NEW raised \in BOOLEAN,
                 \/ SavePermissions(w, applied, raised)
                 \/ SavePermissionsFails(w, applied)
                 \/ RenditionPermissions(w, applied)
          PROVE  Kept(w, m)
      <3>1. CASE SavePermissions(w, applied, raised)
        <4>1. GoesTo(w, "stamp") /\ media' = media /\ work[w].step \in HoldSteps
          BY <1>c, <3>1, GoStep DEF SavePermissions, At, Steps, HoldSteps
        <4>2. QED
          BY <2>same, <4>1 DEF GoesTo, Becomes
      <3>2. CASE SavePermissionsFails(w, applied) \/ RenditionPermissions(w, applied)
        BY <1>c, <2>rest, <3>2, DoneStep DEF SavePermissionsFails, RenditionPermissions, Done
      <3>3. QED
        BY <2>4, <3>1, <3>2
    <2>5. CASE BulkWrite(w)
      <3>1. GoesTo(w, "purge") /\ w \notin Retrying
        BY <1>c, <2>5, GoStep, MediaAssumption DEF BulkWrite, Steps
      <3>2. work'[w].step = "purge"
        BY <3>1 DEF GoesTo, Becomes
      <3>3. QED
        BY <3>1, <3>2 DEF HoldSteps
    <2>6. CASE BulkPurge(w) \/ SaveStamp(w)
      BY <1>c, <2>6, <2>rest, DoneStep DEF BulkPurge, SaveStamp, Done
    <2>7. CASE EditSave(w)
      <3>1. PICK n \in Loaded(w) :
              /\ media' = [media EXCEPT ![n] = work[w].loaded[n]]
              /\ IF Outdated(work[w].loaded[n])
                 THEN Becomes(w, "save_acl", work[w].privacy, work[w].touch, work[w].left,
                              work[w].loaded, FilesOf({n}))
                 ELSE GoesToRest(w)
        BY <1>c, <2>7, EditSaveStep
      <3>2. Becomes(w, "save_acl", work[w].privacy, work[w].touch, work[w].left,
                    work[w].loaded, FilesOf({n}))
        BY <2>rest, <3>1
      <3>3. work'[w].loaded = work[w].loaded /\ work[w].step \in HoldSteps
        BY <2>7, <3>2 DEF Becomes, EditSave, At, HoldSteps
      <3>4. m \in Loaded(w)
        BY <2>m, <3>3 DEF Loaded
      <3>5. media'[m] = media[m]
        BY <1>c, <2>m, <2>old, <3>1, <3>3, <3>4 DEF TypeInv, MediaTypeOK
      <3>6. QED
        BY <2>same, <3>3, <3>5
    <2>8. CASE RenditionCreate(w)
      <3>1. Becomes(w, "rendition_acl", work[w].privacy, work[w].touch, work[w].left,
                    work[w].loaded, Loaded(w) \X {"rendition"})
        BY <1>c, <2>8, <2>rest, RenditionStep
      <3>2. media' = media /\ work[w].step \in HoldSteps
        BY <2>8 DEF RenditionCreate, At, HoldSteps
      <3>3. QED
        BY <2>same, <3>1, <3>2 DEF Becomes
    <2>9. CASE RetryWrite(w)
      <3>1. Becomes(w, "acl", "public", work[w].touch, {}, WithoutGroup(w),
                    {mf \in work[w].listed : mf[1] \in work[w].left})
        BY <1>c, <2>9, <2>rest, RetryWriteStep
      <3>2. work'[w].loaded = WithoutGroup(w) /\ work'[w].step = "acl"
        BY <3>1 DEF Becomes
      <3>3. m \in Loaded(w) /\ m \notin InGroup(w) /\ work'[w].loaded[m] = work[w].loaded[m]
        BY <2>m, <3>2 DEF WithoutGroup, Loaded
      <3>4. media'[m] = media[m]
        BY <2>9, <2>m, <3>3 DEF RetryWrite, InGroup
      <3>5. QED
        BY <2>old, <3>2, <3>3, <3>4 DEF HoldSteps
    <2>10. CASE RetryLoad(w)
      <3>1. PICK left \in SUBSET RetriedItems, privacy \in Privacy :
              Becomes(w, "acl", privacy, RetriedItems, left,
                      [n \in Item |-> IF n \in RetriedItems THEN media[n] ELSE NoMedia],
                      FilesOf(RetriedItems))
        BY <1>c, <2>10, RetryLoadStep
      <3>2. work'[w].step = "acl" /\ work'[w].loaded[m] = media[m]
        BY <2>m, <3>1 DEF Becomes
      <3>3. media' = media
        BY <2>10 DEF RetryLoad
      <3>4. QED
        BY <3>2, <3>3 DEF HoldSteps
    <2>11. QED
      BY <2>1, <2>2, <2>3, <2>4, <2>5, <2>6, <2>7, <2>8, <2>9, <2>10 DEF StepOf, Request, Continue
  <1>q. QED
    BY <1>others, <1>own DEF AsTheRow

LEMMA CourseInitially ==
  ASSUME MediaInit
  PROVE  CourseInv
  <1>1. TypeInv
    BY TypesInitially
  <1>2. AllOrderly /\ Alone
    BY DEF MediaInit, AllOrderly, Alone, Orderly, AtRest, NothingLoaded, HoldSteps
  <1>3. AsTheRow
    BY IdleType DEF MediaInit, AsTheRow, Loaded, NothingLoaded
  <1>4. QED
    BY <1>1, <1>2, <1>3 DEF CourseInv

\* Publications in bundles, the views and stuttering leave rows and processes alone.
LEMMA OtherSteps ==
  ASSUME \/ \E p \in MediaPage, R \in SUBSET Item : PublishInBundle(p, R)
         \/ \E m \in Item : Serve(m)
         \/ UNCHANGED mediaVars
  PROVE  UNCHANGED <<media, acl, renditions, work, clock, raced, unheard>>
  BY DEF PublishInBundle, Serve, mediaVars

LEMMA CourseStep ==
  ASSUME CourseInv, NEW w \in Process, StepOf(w), MediaNext
  PROVE  CourseInv'
  <1>1. TypeInv'
    BY TypesKept DEF CourseInv
  <1>2. AllOrderly' /\ Alone'
    BY OrderStep DEF CourseInv
  <1>3. AsTheRow'
    BY <1>1, <1>2, AsTheRowStep
  <1>4. QED
    BY <1>1, <1>2, <1>3 DEF CourseInv

LEMMA CourseKept ==
  ASSUME CourseInv, [MediaNext]_mediaVars
  PROVE  CourseInv'
  <1>1. TypeInv'
    BY TypesKept DEF CourseInv
  <1>2. CASE UNCHANGED <<media, acl, renditions, work, clock, raced, unheard>>
    BY <1>1, <1>2 DEF CourseInv, AllOrderly, Alone, AsTheRow, Loaded
  <1>3. CASE \E w \in Process : StepOf(w)
    <2>1. MediaNext \/ UNCHANGED <<media, acl, renditions, work, clock, raced, unheard>>
      BY OtherSteps
    <2>2. QED
      BY <1>2, <1>3, <2>1, CourseStep
  <1>4. QED
    BY <1>2, <1>3, NextIsAStep, OtherSteps

LEMMA RowStays ==
  ASSUME TypeInv, NEW w \in Process, StepOf(w), NEW m \in Item, Uploaded(m)
  PROVE  Uploaded(m)'
  <1>t. media \in [Item -> MediaRow \cup {NoMedia}] /\ media[m] \in MediaRow /\ media[m] # NoMedia
    BY RowType DEF TypeInv, MediaTypeOK, Uploaded
  <1>r. \A r \in MediaRow : r # NoMedia
    BY DEF MediaRow, NoMedia, Privacy
  <1>k. \A n \in Loaded(w) : n \in Item /\ work[w].loaded[n] \in MediaRow /\ Uploaded(n)
    BY WorkType
  <1>1. CASE UNCHANGED media
    BY <1>1 DEF Uploaded
  <1>2. ASSUME NEW n \in Item, Upload(w, n)
        PROVE  Uploaded(m)'
    BY <1>t, <1>2 DEF Upload, Uploaded
  <1>3. CASE BulkWrite(w)
    BY <1>t, <1>r, <1>k, <1>3 DEF BulkWrite, Uploaded
  <1>4. CASE EditSave(w)
    BY <1>t, <1>r, <1>k, <1>4 DEF EditSave, Uploaded
  <1>5. CASE SaveStamp(w)
    <2>1. PICK n \in Loaded(w) : media' = [media EXCEPT ![n] = [media[n] EXCEPT !.set = clock]]
      BY <1>5 DEF SaveStamp
    <2>2. media[n] \in MediaRow
      BY <1>k, RowType
    <2>3. [media[n] EXCEPT !.set = clock] \in MediaRow
      BY <2>2 DEF MediaRow, TypeInv, MediaTypeOK
    <2>4. QED
      BY <1>t, <1>r, <2>1, <2>3 DEF Uploaded
  <1>6. CASE RetryWrite(w)
    <2>1. media'[m] \in {media[m], [media[m] EXCEPT !.set = work[w].loaded[m].set]}
          /\ (media'[m] # media[m] => m \in Loaded(w))
      BY <1>6 DEF RetryWrite
    <2>2. m \in Loaded(w) => [media[m] EXCEPT !.set = work[w].loaded[m].set] \in MediaRow
      BY <1>t, <1>k DEF MediaRow
    <2>3. QED
      BY <1>t, <1>r, <2>1, <2>2 DEF Uploaded
  <1>7. QED
    BY <1>1, <1>2, <1>3, <1>4, <1>5, <1>6
       DEF StepOf, Request, Continue, PublishPage, RunAction, UnpublishPage, EditLoad, RenditionLoad,
           BulkPermissions, SavePermissions, SavePermissionsFails, RenditionPermissions,
           BulkPurge, RenditionCreate, RetryLoad

\* Only a bulk operation changes what an undisturbed item is.
LEMMA PrivacyStep ==
  ASSUME CourseInv, NEW w \in Process, StepOf(w), NEW m \in Item \ raced, Uploaded(m)
  PROVE  \/ media'[m].privacy = media[m].privacy
         \/ BulkWrite(w) /\ m \in Loaded(w) /\ media'[m] = work[w].loaded[m]
  <1>t. media \in [Item -> MediaRow \cup {NoMedia}] /\ media[m] \in MediaRow
    BY RowType DEF CourseInv, TypeInv, MediaTypeOK
  <1>1. CASE UNCHANGED media
    BY <1>1
  <1>2. ASSUME NEW n \in Item, Upload(w, n)
        PROVE  media'[m] = media[m]
    BY <1>t, <1>2 DEF Upload, Uploaded
  <1>3. CASE BulkWrite(w)
    BY <1>3 DEF BulkWrite
  <1>4. CASE EditSave(w)
    <2>1. PICK n \in Loaded(w) : media' = [media EXCEPT ![n] = work[w].loaded[n]]
      BY <1>4 DEF EditSave
    <2>2. n = m => work[w].loaded[n] = media[n]
      BY <1>4 DEF EditSave, At, HoldSteps, CourseInv, AsTheRow
    <2>3. QED
      BY <1>t, <2>1, <2>2
  <1>5. CASE SaveStamp(w)
    <2>1. PICK n \in Loaded(w) : media' = [media EXCEPT ![n] = [media[n] EXCEPT !.set = clock]]
      BY <1>5 DEF SaveStamp
    <2>2. CASE n = m
      <3>1. media'[m] = [media[m] EXCEPT !.set = clock]
        BY <1>t, <2>1, <2>2
      <3>2. QED
        BY <1>t, <3>1 DEF MediaRow
    <2>3. CASE n # m
      BY <1>t, <2>1, <2>3
    <2>4. QED
      BY <2>2, <2>3
  <1>6. CASE RetryWrite(w)
    <2>1. media'[m] \in {media[m], [media[m] EXCEPT !.set = work[w].loaded[m].set]}
      BY <1>6 DEF RetryWrite
    <2>2. QED
      BY <1>t, <2>1 DEF MediaRow
  <1>7. QED
    BY <1>1, <1>2, <1>3, <1>4, <1>5, <1>6
       DEF StepOf, Request, Continue, PublishPage, RunAction, UnpublishPage, EditLoad, RenditionLoad,
           BulkPermissions, SavePermissions, SavePermissionsFails, RenditionPermissions,
           BulkPurge, RenditionCreate, RetryLoad

---------------------------------------------------------------------------
(* The edge                                                                *)

PurgeDue(m) == \E w \in Process : At(w, "purge") /\ m \in Loaded(w)

\* A copy of an item that has become private is about to be purged.
CachedInv ==
  \A m \in cached : Uploaded(m) /\ (m \notin raced /\ Is(m, "private") => PurgeDue(m))

PurgeInv == CourseInv /\ CachedInv

LEMMA CachedStep ==
  ASSUME PurgeInv, NEW w \in Process, StepOf(w), CourseInv'
  PROVE  CachedInv'
  <1>c. CourseInv /\ TypeInv
    BY DEF PurgeInv, CourseInv
  <1>r. raced \subseteq raced' /\ \A v \in Process : v # w => work'[v] = work[v]
    BY <1>c, OthersRest
  <1>1. cached' \subseteq cached /\ (cached' # cached => BulkPurge(w))
    BY DEF StepOf, Request, Continue, PublishPage, RunAction, UnpublishPage, Upload, EditLoad, RenditionLoad,
           BulkPermissions, SavePermissions, SavePermissionsFails, RenditionPermissions, BulkWrite,
           BulkPurge, EditSave, SaveStamp, RenditionCreate, RetryLoad, RetryWrite
  <1>2. At(w, "purge") => BulkPurge(w)
    BY DEF At, StepOf, Request, Continue, PublishPage, RunAction, UnpublishPage, Upload, EditLoad, RenditionLoad,
           BulkPermissions, SavePermissions, SavePermissionsFails, RenditionPermissions, BulkWrite,
           BulkPurge, EditSave, SaveStamp, RenditionCreate, RetryLoad, RetryWrite
  <1>3. ASSUME NEW m \in cached'
        PROVE  Uploaded(m)' /\ (m \notin raced' /\ Is(m, "private")' => PurgeDue(m)')
    <2>1. m \in Item /\ m \in cached /\ Uploaded(m)
      BY <1>1, <1>3, <1>c DEF PurgeInv, CachedInv, TypeInv, MediaTypeOK
    <2>2. Uploaded(m)'
      BY <1>c, <2>1, RowStays
    <2>3. ASSUME m \notin raced', Is(m, "private")'
          PROVE  PurgeDue(m)'
      <3>1. m \notin raced
        BY <1>r, <2>3
      <3>2. CASE BulkWrite(w) /\ m \in Loaded(w)
        <4>1. GoesTo(w, "purge")
          BY <1>c, <3>2, GoStep DEF BulkWrite, Steps
        <4>2. At(w, "purge")' /\ m \in Loaded(w)'
          BY <3>2, <4>1 DEF GoesTo, Becomes, At, Loaded
        <4>3. QED
          BY <4>2 DEF PurgeDue
      <3>3. CASE media'[m].privacy = media[m].privacy
        <4>1. PICK v \in Process : At(v, "purge") /\ m \in Loaded(v)
          BY <2>1, <2>3, <3>1, <3>3 DEF PurgeInv, CachedInv, Is, PurgeDue
        <4>2. CASE v = w
          <5>1. cached' = cached \ Loaded(w)
            BY <1>2, <4>1, <4>2 DEF BulkPurge, Purged
          <5>2. QED
            BY <1>3, <4>1, <4>2, <5>1
        <4>3. CASE v # w
          <5>1. At(v, "purge")' /\ m \in Loaded(v)'
            BY <1>r, <4>1, <4>3 DEF At, Loaded
          <5>2. QED
            BY <5>1 DEF PurgeDue
        <4>4. QED
          BY <4>2, <4>3
      <3>4. QED
        BY <1>c, <2>1, <3>1, <3>2, <3>3, PrivacyStep
    <2>4. QED
      BY <2>2, <2>3
  <1>4. QED
    BY <1>3 DEF CachedInv

LEMMA PurgeKept ==
  ASSUME PurgeInv, [MediaNext]_mediaVars
  PROVE  PurgeInv'
  <1>1. CourseInv'
    BY CourseKept DEF PurgeInv
  <1>2. CASE \E w \in Process : StepOf(w)
    BY <1>1, <1>2, CachedStep DEF PurgeInv
  <1>3. ASSUME UNCHANGED <<media, work, raced>>,
               cached' = cached \/ \E m \in Item : Is(m, "public") /\ cached' = cached \cup {m}
        PROVE  PurgeInv'
    <2>1. \A m \in cached' : m \in cached \/ Is(m, "public")
      BY <1>3
    <2>2. ASSUME NEW m \in cached'
          PROVE  Uploaded(m)' /\ (m \notin raced' /\ Is(m, "private")' => PurgeDue(m)')
      <3>1. Uploaded(m) /\ (m \notin raced /\ Is(m, "private") => PurgeDue(m))
        BY <2>1 DEF PurgeInv, CachedInv, Is
      <3>2. QED
        BY <1>3, <3>1 DEF Uploaded, Is, PurgeDue, At, Loaded
    <2>3. QED
      BY <1>1, <2>2 DEF PurgeInv, CachedInv
  <1>4. CASE \E p \in MediaPage, R \in SUBSET Item : PublishInBundle(p, R)
    BY <1>3, <1>4 DEF PublishInBundle
  <1>5. CASE \E m \in Item : Serve(m)
    BY <1>3, <1>5 DEF Serve
  <1>6. CASE UNCHANGED mediaVars
    BY <1>3, <1>6 DEF mediaVars
  <1>7. QED
    BY <1>2, <1>4, <1>5, <1>6, NextIsAStep

\* When nothing is at work on an item, and nothing ever was twice at once, the edge
\* has no copy of it unless it is public: between the write that makes it private
\* and the purge a copy may be there, and bulk_set_privacy still holds the item
\* (bulk_operations.py).
THEOREM PrivateArePurged == ASSUME MediaAssumption PROVE MediaSpec => []PrivateIsPurged
  <1>1. MediaInit => PurgeInv
    BY CourseInitially DEF PurgeInv, CachedInv, MediaInit
  <1>2. PurgeInv => PrivateIsPurged
    BY DEF PurgeInv, CachedInv, PrivateIsPurged, Undisturbed, PurgeDue, CourseInv, AllOrderly, Orderly,
           Loaded
  <1>3. QED
    BY <1>1, <1>2, PurgeKept, PTL DEF MediaSpec

---------------------------------------------------------------------------
(* What live pages use                                                     *)

\* The process is about to write that the item is private, or public.
Bulk(w, m, privacy) ==
  w \in Editing /\ work[w].step \in {"acl", "write"} /\ m \in Loaded(w) /\ work[w].privacy = privacy

UsesUploaded == \A p \in MediaPage : \A m \in uses[p] : Uploaded(m)

\* Nothing is about to take away from a live page what it uses, and what is not
\* public yet is about to be.
Provided(m) ==
  /\ \A w \in Process : ~Bulk(w, m, "private")
  /\ Is(m, "public") \/ \E w \in Process : Bulk(w, m, "public")

UsesProvided == \A p \in live \ due : \A m \in uses[p] \ raced : Provided(m)

UseInv == CourseInv /\ UsesUploaded /\ UsesProvided

LEMMA BulkBegunOwn ==
  ASSUME CourseInv, NEW w \in Editing, At(w, "idle"), NEW T \in SUBSET Item, NEW S \in SUBSET T,
         \A m \in S : Uploaded(m), NEW goal \in Privacy, BeginBulk(w, T, S, goal),
         NEW m \in Item, NEW privacy \in Privacy
  PROVE  Bulk(w, m, privacy)' <=> m \in S /\ goal = privacy
  <1>w. w \in Process /\ TypeInv
    BY DEF Process, CourseInv
  <1>1. CASE S = {}
    BY <1>1 DEF BeginBulk, Bulk, Loaded, At
  <1>2. CASE S # {}
    <2>1. Becomes(w, "acl", goal, T, {}, Reprivatised(S, goal), FilesOf(S))
      BY <1>w, <1>2, BulkStep
    <2>2. m \in S <=> Reprivatised(S, goal)[m] # NoMedia
      <3>1. m \in S => [media[m] EXCEPT !.privacy = goal, !.changed = clock + 1].privacy = goal
        BY <1>w, RowType DEF MediaRow
      <3>2. NoMedia.privacy # goal
        BY DEF NoMedia, Privacy
      <3>3. QED
        BY <3>1, <3>2 DEF Reprivatised
    <2>3. QED
      BY <2>1, <2>2 DEF Becomes, Bulk, Loaded
  <1>3. QED
    BY <1>1, <1>2

LEMMA BulkBegunOthers ==
  ASSUME CourseInv, NEW w \in Editing, At(w, "idle"), NEW T \in SUBSET Item, NEW S \in SUBSET T,
         \A m \in S : Uploaded(m), NEW goal \in Privacy, BeginBulk(w, T, S, goal),
         NEW m \in Item, NEW privacy \in Privacy
  PROVE  /\ ~Bulk(w, m, privacy)
         /\ \A v \in Process : v # w => (Bulk(v, m, privacy)' <=> Bulk(v, m, privacy))
         /\ \A v \in Process : v # w /\ m \in T /\ m \notin raced' => ~Bulk(v, m, privacy)
  <1>w. w \in Process /\ TypeInv
    BY DEF Process, CourseInv
  <1>1. ~Bulk(w, m, privacy)
    BY DEF At, Bulk
  <1>2. \A v \in Process : v # w /\ m \in T /\ m \notin raced' => ~Bulk(v, m, privacy)
    BY <1>w, TouchingAlone DEF BeginBulk, Bulk, CourseInv, AllOrderly, Orderly, Loaded
  <1>3. \A v \in Process : v # w => work'[v] = work[v]
    BY <1>w DEF BeginBulk, TypeInv, MediaTypeOK
  <1>4. \A v \in Process : v # w => (Bulk(v, m, privacy)' <=> Bulk(v, m, privacy))
    BY <1>3 DEF Bulk, Loaded
  <1>5. QED
    BY <1>1, <1>2, <1>4

LEMMA PublishProvides ==
  ASSUME CourseInv, UsesUploaded, NEW w \in Editing, At(w, "idle"), NEW T \in SUBSET Item,
         \A m \in T : Uploaded(m), PublishMedia(w, T), media' = media,
         NEW m \in Item \ raced', m \in T \/ Provided(m)
  PROVE  Provided(m)'
  <1> DEFINE closed == {n \in T : Is(n, "private")}
  <1>1. closed \in SUBSET T /\ (\A n \in closed : Uploaded(n)) /\ BeginBulk(w, T, closed, "public")
    BY DEF PublishMedia, Is
  <1>p. "public" \in Privacy /\ "private" \in Privacy
    BY DEF Privacy
  <1>w. w \in Process /\ m \in Item /\ m \notin raced'
    BY DEF Process
  <1>s. m \in T => m \in closed \/ Is(m, "public")
    BY RowType DEF Is, MediaRow, Privacy, CourseInv
  <1> HIDE DEF closed
  <1>b. ASSUME NEW privacy \in Privacy
        PROVE  /\ \A v \in Process : v # w => (Bulk(v, m, privacy)' <=> Bulk(v, m, privacy))
               /\ ~Bulk(w, m, privacy)
               /\ Bulk(w, m, privacy)' <=> m \in closed /\ "public" = privacy
               /\ m \in T \ raced' => \A v \in Process : v # w => ~Bulk(v, m, privacy)
    <2>1. "public" \in Privacy /\ privacy \in Privacy /\ closed \in SUBSET T
      BY <1>1, <1>p
    <2>2. (\A n \in closed : Uploaded(n)) /\ BeginBulk(w, T, closed, "public")
      BY <1>1
    <2>3. /\ ~Bulk(w, m, privacy)
          /\ \A v \in Process : v # w => (Bulk(v, m, privacy)' <=> Bulk(v, m, privacy))
          /\ \A v \in Process : v # w /\ m \in T /\ m \notin raced' => ~Bulk(v, m, privacy)
      BY <1>w, <2>1, <2>2, BulkBegunOthers
    <2>4. Bulk(w, m, privacy)' <=> m \in closed /\ "public" = privacy
      BY <1>w, <2>1, <2>2, BulkBegunOwn
    <2>5. QED
      BY <2>3, <2>4
  <1>2. /\ \A v \in Process : v # w => (Bulk(v, m, "private")' <=> Bulk(v, m, "private"))
        /\ ~Bulk(w, m, "private")'
        /\ m \in T => \A v \in Process : v # w => ~Bulk(v, m, "private")
    BY <1>b, <1>p, <1>w
  <1>3. /\ \A v \in Process : v # w => (Bulk(v, m, "public")' <=> Bulk(v, m, "public"))
        /\ ~Bulk(w, m, "public")
        /\ Bulk(w, m, "public")' <=> m \in closed
    BY <1>b, <1>p, <1>w
  <1>4. \A v \in Process : ~Bulk(v, m, "private")'
    BY <1>w, <1>2 DEF Provided
  <1>5. Is(m, "public")' <=> Is(m, "public")
    BY DEF Is, Uploaded
  <1>6. CASE m \in T
    BY <1>w, <1>s, <1>3, <1>4, <1>5, <1>6 DEF Provided
  <1>7. CASE Provided(m)
    BY <1>w, <1>3, <1>4, <1>5, <1>7 DEF Provided
  <1>8. QED
    BY <1>6, <1>7

LEMMA PagesProvided ==
  ASSUME UseInv, NEW w \in Editing, NEW q \in MediaPage, NEW R \in SUBSET Item,
         NEW future \in BOOLEAN,
         PublishPage(w, q, R, future) \/ RunAction(w, q) \/ UnpublishPage(w, q),
         raced \subseteq raced'
  PROVE  UsesUploaded' /\ UsesProvided'
  <1>c. CourseInv /\ TypeInv /\ UsesUploaded /\ uses \in [MediaPage -> SUBSET Item] /\ live \subseteq MediaPage
    BY DEF UseInv, CourseInv, TypeInv, MediaTypeOK
  <1>i. At(w, "idle") /\ media' = media
    BY DEF PublishPage, RunAction, UnpublishPage
  <1>1. CASE PublishPage(w, q, R, future)
    <2>1. uses' = [uses EXCEPT ![q] = R] /\ due' = due /\ \A m \in R : Uploaded(m)
      BY <1>1 DEF PublishPage
    <2>2. UsesUploaded'
      BY <1>c, <1>i, <2>1 DEF UsesUploaded, Uploaded
    <2>3. ASSUME future
          PROVE  UsesProvided'
      <3>1. UNCHANGED <<work, live, due, media, raced>> /\ q \notin live
        BY <1>1, <2>3 DEF PublishPage, HandlersRun
      <3>2. QED
        BY <1>c, <2>1, <3>1 DEF UseInv, UsesProvided, Provided, Is, Uploaded, Bulk, Loaded
    <2>4. ASSUME ~future, NEW p \in live' \ due', NEW m \in uses'[p] \ raced'
          PROVE  Provided(m)'
      <3>1. live' = live \cup {q} /\ PublishMedia(w, R)
        BY <1>1, <2>4 DEF PublishPage, HandlersRun
      <3>2. m \in Item /\ (m \in R \/ (p \in live \ due /\ m \in uses[p] \ raced))
        BY <1>c, <2>1, <2>4, <3>1
      <3>3. m \in R \/ Provided(m)
        BY <3>2 DEF UseInv, UsesProvided
      <3>4. QED
        BY <1>c, <1>i, <2>1, <2>4, <3>1, <3>2, <3>3, PublishProvides
    <2>5. QED
      BY <2>2, <2>3, <2>4 DEF UsesProvided
  <1>2. CASE RunAction(w, q)
    <2>1. UNCHANGED <<uses, live>> /\ due' \in {due, due \ {q}} /\ PublishMedia(w, uses[q])
          /\ \A m \in uses[q] : Uploaded(m)
      BY <1>c, <1>2 DEF RunAction, UsesUploaded
    <2>2. UsesUploaded'
      BY <1>c, <1>i, <2>1 DEF UsesUploaded, Uploaded
    <2>3. ASSUME NEW p \in live' \ due', NEW m \in uses'[p] \ raced'
          PROVE  Provided(m)'
      <3>1. m \in Item /\ (m \in uses[q] \/ (p \in live \ due /\ m \in uses[p] \ raced))
        BY <1>c, <2>1, <2>3
      <3>2. m \in uses[q] \/ Provided(m)
        BY <3>1 DEF UseInv, UsesProvided
      <3>3. QED
        BY <1>c, <1>i, <2>1, <2>3, <3>1, <3>2, PublishProvides
    <2>4. QED
      BY <2>2, <2>3 DEF UsesProvided
  <1>3. CASE UnpublishPage(w, q)
    <2> DEFINE S == {m \in OnlyUsedBy(q) : Is(m, "public")}
    <2>1. UNCHANGED <<uses, due>> /\ live' = live \ {q} /\ BeginBulk(w, uses[q], S, "private")
          /\ uses[q] \in SUBSET Item
      BY <1>c, <1>3 DEF UnpublishPage
    <2>2. S \in SUBSET uses[q] /\ \A m \in S : Uploaded(m)
      BY DEF OnlyUsedBy, Is
    <2>3. UsesUploaded'
      BY <1>c, <1>i, <2>1 DEF UsesUploaded, Uploaded
    <2>4. ASSUME NEW p \in live' \ due', NEW m \in uses'[p] \ raced'
          PROVE  Provided(m)'
      <3>1. m \in Item /\ p \in live /\ p # q /\ Provided(m) /\ m \notin S
        BY <1>c, <2>1, <2>4 DEF UseInv, UsesProvided, OnlyUsedBy
      <3>p. "public" \in Privacy /\ "private" \in Privacy
        BY DEF Privacy
      <3> HIDE DEF S
      <3>2. /\ \A v \in Process : v # w => (Bulk(v, m, "private")' <=> Bulk(v, m, "private"))
            /\ ~Bulk(w, m, "private")'
        BY <1>c, <1>i, <2>1, <2>2, <3>1, <3>p, BulkBegunOwn, BulkBegunOthers
      <3>3. /\ \A v \in Process : v # w => (Bulk(v, m, "public")' <=> Bulk(v, m, "public"))
            /\ ~Bulk(w, m, "public")
        BY <1>c, <1>i, <2>1, <2>2, <3>1, <3>p, BulkBegunOwn, BulkBegunOthers
      <3>4. Is(m, "public")' <=> Is(m, "public")
        BY <1>i DEF Is, Uploaded
      <3>5. QED
        BY <3>1, <3>2, <3>3, <3>4 DEF Provided
    <2>5. QED
      BY <2>3, <2>4 DEF UsesProvided
  <1>4. QED
    BY <1>1, <1>2, <1>3

\* What an editor does to a page.
PageStepOf(w) ==
  /\ w \in Editing
  /\ \E p \in MediaPage, R \in SUBSET Item, future \in BOOLEAN :
       PublishPage(w, p, R, future) \/ RunAction(w, p) \/ UnpublishPage(w, p)

\* Between the beginning and the write a bulk operation goes on to the same end.
LEMMA BulkGoesOn ==
  ASSUME CourseInv, NEW w \in Process, StepOf(w), UNCHANGED <<live, uses, due>>,
         ~PageStepOf(w),
         NEW m \in Item, NEW privacy \in Privacy
  PROVE  /\ Bulk(w, m, privacy)' => Bulk(w, m, privacy)
         /\ Bulk(w, m, privacy) => Bulk(w, m, privacy)' \/ BulkWrite(w)
  <1>c. TypeInv /\ AllOrderly
    BY DEF CourseInv
  <1>e. Editing \cap Retrying = {}
    BY MediaAssumption
  <1>1. ASSUME NEW n \in Item, w \in Editing, Upload(w, n) \/ EditLoad(w, n) \/ RenditionLoad(w, n)
        PROVE  ~Bulk(w, m, privacy) /\ ~Bulk(w, m, privacy)'
    <2>1. At(w, "idle")
      BY <1>1 DEF Upload, EditLoad, RenditionLoad
    <2>2. ASSUME NEW r, NEW step \in HoldSteps, Hold(w, n, r, step)
          PROVE  work'[w].step \in HoldSteps
      BY <1>c, <2>2 DEF Hold, TypeInv, MediaTypeOK, AtRest
    <2>3. CASE Upload(w, n)
      BY <2>1, <2>2, <2>3 DEF Upload, At, Bulk, HoldSteps
    <2>4. CASE EditLoad(w, n)
      BY <2>1, <2>2, <2>4 DEF EditLoad, At, Bulk, HoldSteps
    <2>5. CASE RenditionLoad(w, n)
      BY <2>1, <2>2, <2>5 DEF RenditionLoad, At, Bulk, HoldSteps
    <2>6. QED
      BY <1>1, <2>3, <2>4, <2>5
  <1>2. ASSUME NEW applied \in SUBSET InHand(w), NEW reported \in SUBSET InHand(w),
               BulkPermissions(w, applied, reported)
        PROVE  Bulk(w, m, privacy)' <=> Bulk(w, m, privacy)
    <2>1. Becomes(w, "write", work[w].privacy, work[w].touch, work[w].left,
                  Stamped(w, reported), work[w].listed) /\ work[w].step = "acl"
      BY <1>c, <1>2, CallsStep DEF BulkPermissions, At
    <2>2. m \in Loaded(w)' <=> m \in Loaded(w)
      BY <1>c, <2>1, StampedIs DEF Becomes, Loaded
    <2>3. QED
      BY <2>1, <2>2 DEF Becomes, Bulk
  <1>3. ASSUME NEW step \in {"idle", "save_acl", "stamp", "rendition", "rendition_acl", "purge", "edit"},
               work[w].step \in HoldSteps \cup {"purge"}, work'[w].step = step
        PROVE  ~Bulk(w, m, privacy) /\ ~Bulk(w, m, privacy)'
    BY <1>3 DEF Bulk, HoldSteps
  <1>4. ASSUME NEW applied \in SUBSET InHand(w), NEW raised \in BOOLEAN,
               \/ SavePermissions(w, applied, raised)
               \/ SavePermissionsFails(w, applied)
               \/ RenditionPermissions(w, applied)
        PROVE  ~Bulk(w, m, privacy) /\ ~Bulk(w, m, privacy)'
    <2>1. work[w].step \in HoldSteps
      BY <1>4 DEF SavePermissions, SavePermissionsFails, RenditionPermissions, At, HoldSteps
    <2>2. GoesTo(w, "stamp") \/ GoesToRest(w)
      BY <1>c, <1>4, GoStep, DoneStep
         DEF SavePermissions, SavePermissionsFails, RenditionPermissions, Done, Steps
    <2>3. work'[w].step \in {"idle", "stamp"}
      BY <2>2 DEF GoesTo, GoesToRest, Becomes
    <2>4. QED
      BY <1>3, <2>1, <2>3
  <1>5. CASE BulkWrite(w)
    <2>1. work'[w].step = "purge"
      BY <1>c, <1>5, GoStep DEF BulkWrite, Steps, GoesTo, Becomes
    <2>2. QED
      BY <1>5, <2>1 DEF Bulk
  <1>6. CASE BulkPurge(w) \/ SaveStamp(w)
    BY <1>c, <1>3, <1>6 DEF BulkPurge, SaveStamp, At, HoldSteps, Done, AtRest, TypeInv, MediaTypeOK
  <1>7. CASE EditSave(w)
    BY <1>c, <1>3, <1>7, EditSaveStep DEF EditSave, At, HoldSteps, GoesToRest, Becomes
  <1>8. CASE RenditionCreate(w)
    BY <1>c, <1>3, <1>8, RenditionStep DEF RenditionCreate, At, HoldSteps, GoesToRest, Becomes
  <1>9. CASE RetryWrite(w) \/ (w \in Retrying /\ RetryLoad(w))
    BY <1>e, <1>9 DEF Bulk, RetryWrite
  <1>10. QED
    BY <1>1, <1>2, <1>4, <1>5, <1>6, <1>7, <1>8, <1>9 DEF PageStepOf, StepOf, Request, Continue

LEMMA ProvidedStep ==
  ASSUME UseInv, NEW w \in Process, StepOf(w)
  PROVE  UsesUploaded' /\ UsesProvided'
  <1>c. CourseInv /\ TypeInv /\ AllOrderly /\ uses \in [MediaPage -> SUBSET Item] /\ live \subseteq MediaPage
    BY DEF UseInv, CourseInv, TypeInv, MediaTypeOK
  <1>r. raced \subseteq raced' /\ \A v \in Process : v # w => work'[v] = work[v]
    BY <1>c, OthersRest
  <1>1. CASE PageStepOf(w)
    BY <1>1, <1>r, PagesProvided DEF PageStepOf
  <1>2. CASE ~PageStepOf(w)
    <2>1. UNCHANGED <<live, uses, due>>
      BY <1>2 DEF PageStepOf, StepOf, Request, Continue, Upload, EditLoad, RenditionLoad,
           BulkPermissions, SavePermissions, SavePermissionsFails, RenditionPermissions, BulkWrite,
           BulkPurge, EditSave, SaveStamp, RenditionCreate, RetryLoad, RetryWrite, pages
    <2>2. UsesUploaded'
      BY <1>c, <2>1, RowStays DEF UseInv, UsesUploaded
    <2>3. ASSUME NEW p \in live' \ due', NEW m \in uses'[p] \ raced'
          PROVE  Provided(m)'
      <3>1. m \in Item /\ m \notin raced /\ Uploaded(m) /\ Provided(m)
        BY <1>c, <1>r, <2>1, <2>3 DEF UseInv, UsesProvided, UsesUploaded
      <3>p. "public" \in Privacy /\ "private" \in Privacy
        BY DEF Privacy
      <3>2. \A v \in Process : ~Bulk(v, m, "private")'
        <4>1. ASSUME NEW v \in Process, v # w PROVE ~Bulk(v, m, "private")'
          BY <1>r, <3>1, <4>1 DEF Provided, Bulk, Loaded
        <4>2. ~Bulk(w, m, "private")'
          BY <1>c, <1>2, <2>1, <3>1, <3>p, BulkGoesOn DEF Provided
        <4>3. QED
          BY <4>1, <4>2
      <3>3. CASE BulkWrite(w) /\ m \in Loaded(w) /\ media'[m] = work[w].loaded[m]
        <4>1. w \in Editing /\ work[w].step = "write" /\ work[w].privacy # "private"
          BY <3>1, <3>3 DEF BulkWrite, At, Provided, Bulk
        <4>2. work[w].loaded[m].privacy = work[w].privacy
          BY <1>c, <3>1, <3>3, <4>1 DEF AllOrderly, Orderly, Loaded
        <4>3. work[w].privacy \in Privacy
          BY <1>c, WorkType DEF Work
        <4>4. Is(m, "public")'
          BY <1>c, <3>1, <3>3, <4>1, <4>2, <4>3, RowStays DEF Is, Privacy
        <4>5. QED
          BY <3>2, <4>4 DEF Provided
      <3>4. CASE media'[m].privacy = media[m].privacy /\ ~(BulkWrite(w) /\ m \in Loaded(w))
        <4>1. CASE Is(m, "public")
          <5>1. Is(m, "public")'
            BY <1>c, <3>1, <3>4, <4>1, RowStays DEF Is
          <5>2. QED
            BY <3>2, <5>1 DEF Provided
        <4>2. ASSUME NEW v \in Process, Bulk(v, m, "public")
              PROVE  Provided(m)'
          <5>1. CASE v # w
            <6>1. Bulk(v, m, "public")'
              BY <1>r, <4>2, <5>1 DEF Bulk, Loaded
            <6>2. QED
              BY <3>2, <6>1 DEF Provided
          <5>2. CASE v = w
            <6>1. Bulk(w, m, "public")' \/ BulkWrite(w)
              BY <1>c, <1>2, <2>1, <3>1, <3>p, <4>2, <5>2, BulkGoesOn
            <6>2. ~BulkWrite(w)
              BY <3>4, <4>2, <5>2 DEF Bulk
            <6>3. QED
              BY <3>2, <6>1, <6>2 DEF Provided
          <5>3. QED
            BY <5>1, <5>2
        <4>3. QED
          BY <3>1, <4>1, <4>2 DEF Provided
      <3>5. CASE BulkWrite(w) /\ m \in Loaded(w)
        <4>1. media'[m] = work[w].loaded[m]
          BY <3>1, <3>5 DEF BulkWrite
        <4>2. QED
          BY <3>3, <3>5, <4>1
      <3>6. QED
        BY <1>c, <3>1, <3>3, <3>4, <3>5, PrivacyStep
    <2>4. QED
      BY <2>2, <2>3 DEF UsesProvided
  <1>3. QED
    BY <1>1, <1>2

LEMMA UseKept ==
  ASSUME UseInv, [MediaNext]_mediaVars
  PROVE  UseInv'
  <1>1. CourseInv'
    BY CourseKept DEF UseInv
  <1>2. CASE \E w \in Process : StepOf(w)
    BY <1>1, <1>2, ProvidedStep DEF UseInv
  <1>3. UNCHANGED <<media, work, raced>> => \A m \in Item : Provided(m) => Provided(m)'
    BY DEF Provided, Is, Uploaded, Bulk, Loaded
  <1>t. uses \in [MediaPage -> SUBSET Item] /\ live \subseteq MediaPage
    BY DEF UseInv, CourseInv, TypeInv, MediaTypeOK
  <1>4. ASSUME NEW p \in MediaPage, NEW R \in SUBSET Item, PublishInBundle(p, R)
        PROVE  UseInv'
    <2>1. UNCHANGED <<media, work, raced>> /\ uses' = [uses EXCEPT ![p] = R] /\ live' = live \cup {p}
          /\ due' = due \cup {p} /\ \A m \in R : Uploaded(m)
      BY <1>4 DEF PublishInBundle
    <2>2. UsesUploaded'
      BY <1>t, <2>1 DEF UseInv, UsesUploaded, Uploaded
    <2>3. ASSUME NEW q \in live' \ due', NEW m \in uses'[q] \ raced'
          PROVE  Provided(m)'
      <3>1. q \in live \ due /\ m \in uses[q] \ raced /\ m \in Item
        BY <1>t, <2>1, <2>3
      <3>2. QED
        BY <1>3, <2>1, <3>1 DEF UseInv, UsesProvided
    <2>4. QED
      BY <1>1, <2>2, <2>3 DEF UseInv, UsesProvided
  <1>5. CASE UNCHANGED <<media, work, raced, live, uses, due>>
    <2>1. UsesUploaded' /\ UsesProvided'
      BY <1>t, <1>3, <1>5 DEF UseInv, UsesUploaded, UsesProvided, Uploaded
    <2>2. QED
      BY <1>1, <2>1 DEF UseInv
  <1>6. QED
    BY <1>2, <1>4, <1>5, NextIsAStep DEF Serve, mediaVars, pages

\* Once its action has run, what a live page uses is public, whichever pages share
\* it: unpublishing takes only what no other live page uses, and what crosses is
\* disturbed (signal_handlers.py, bulk_operations.py).
THEOREM LiveUsesPublic == ASSUME MediaAssumption PROVE MediaSpec => []LiveUsesArePublic
  <1>1. MediaInit => UseInv
    BY CourseInitially DEF UseInv, UsesUploaded, UsesProvided, MediaInit
  <1>2. ASSUME UseInv
        PROVE  LiveUsesArePublic
    <2>1. ASSUME NEW p \in live \ due, NEW m \in uses[p], Undisturbed(m)
          PROVE  Is(m, "public")
      <3>1. Provided(m) /\ m \in Item
        BY <1>2, <2>1 DEF UseInv, UsesProvided, Undisturbed, CourseInv, TypeInv, MediaTypeOK
      <3>2. \A w \in Process : ~Bulk(w, m, "public")
        BY <1>2, <2>1, <3>1 DEF Undisturbed, Bulk, UseInv, CourseInv, AllOrderly, Orderly, Loaded
      <3>3. QED
        BY <3>1, <3>2 DEF Provided
    <2>2. QED
      BY <2>1 DEF LiveUsesArePublic
  <1>3. QED
    BY <1>1, <1>2, UseKept, PTL DEF MediaSpec

---------------------------------------------------------------------------
(* The permissions of the files                                            *)

\* The files of an item, without their names.
HasFile(m, f) == f = "rendition" => m \in renditions

FilesMatch(m, privacy) == \A f \in File : HasFile(m, f) => acl[m][f] = privacy
Right(m) == ~Outdated(media[m]) => FilesMatch(m, media[m].privacy)

InTime(r) == r.changed <= clock /\ r.set <= clock

RowsInTime ==
  /\ clock >= 1
  /\ \A m \in Item : Uploaded(m) => InTime(media[m])
  /\ \A w \in Process : \A m \in Loaded(w) : InTime(work[w].loaded[m])

\* The process is to set the permissions of all files of the item.
ToBeSet(w, m) ==
  /\ Outdated(work[w].loaded[m])
  /\ \A f \in File : HasFile(m, f) => <<m, f>> \in work[w].listed

\* What is true of an item, once the process that has it in memory is where it is,
\* for its files to match its row in the end.
OnCourse(w, m) ==
  /\ At(w, "edit") \/ At(w, "rendition") \/ At(w, "purge") => Right(m)
  /\ At(w, "acl") \/ At(w, "save_acl") => ToBeSet(w, m)
  /\ At(w, "write") /\ m \in work[w].left => ToBeSet(w, m)
  /\ At(w, "write") /\ m \notin work[w].left =>
       (~Outdated(work[w].loaded[m]) => FilesMatch(m, work[w].loaded[m].privacy))
  /\ At(w, "stamp") => FilesMatch(m, work[w].loaded[m].privacy)
  /\ At(w, "rendition_acl") =>
       /\ work[w].listed = {<<m, "rendition">>}
       /\ ~Outdated(work[w].loaded[m]) => acl[m]["original"] = work[w].loaded[m].privacy

FilesFresh ==
  \A m \in Item \ (raced \cup unheard) : Uploaded(m) =>
    /\ (\A w \in Process : m \notin Loaded(w)) => Right(m)
    /\ \A w \in Process : m \in Loaded(w) => OnCourse(w, m)

FreshInv == CourseInv /\ RowsInTime /\ FilesFresh

LEMMA FilesOfHas ==
  ASSUME NEW S \in SUBSET Item, NEW m \in S, NEW f \in File
  PROVE  <<m, f>> \in FilesOf(S) <=> HasFile(m, f)
  BY DEF FilesOf, HasFile

LEMMA ClockStep ==
  ASSUME TypeInv, NEW w \in Process, StepOf(w)
  PROVE  /\ clock \in Nat /\ clock' \in {clock, clock + 1}
         /\ clock' = clock \/ PageStepOf(w)
  <1>1. clock \in Nat
    BY MediaAssumption DEF TypeInv, MediaTypeOK, Instant
  <1>2. ASSUME PageStepOf(w)
        PROVE  clock' \in {clock, clock + 1}
    BY <1>2, PageStep DEF PageStepOf
  <1>3. clock' = clock \/ PageStepOf(w)
    BY DEF PageStepOf, StepOf, Request, Continue, Upload, EditLoad, RenditionLoad,
           BulkPermissions, SavePermissions, SavePermissionsFails, RenditionPermissions, BulkWrite,
           BulkPurge, EditSave, SaveStamp, RenditionCreate, RetryLoad, RetryWrite
  <1>4. QED
    BY <1>1, <1>2, <1>3

LEMMA InstantsAreNat ==
  ASSUME NEW r \in MediaRow
  PROVE  r.changed \in Nat /\ r.set \in Nat /\ r.privacy \in Privacy
  BY MediaAssumption DEF MediaRow, Instant

\* No row is of the future.
LEMMA RowsTimeStep ==
  ASSUME CourseInv, RowsInTime, NEW w \in Process, StepOf(w), NEW m \in Item, Uploaded(m)'
  PROVE  InTime(media[m])'
  <1>c. TypeInv /\ media \in [Item -> MediaRow \cup {NoMedia}] /\ clock \in Nat /\ clock >= 1
    BY ClockStep DEF CourseInv, TypeInv, MediaTypeOK, RowsInTime
  <1>k. \A n \in Loaded(w) : n \in Item /\ Uploaded(n) /\ work[w].loaded[n] \in MediaRow /\ InTime(work[w].loaded[n])
    BY <1>c, WorkType DEF RowsInTime
  <1>u. \A n \in Item : Uploaded(n) => media[n] \in MediaRow /\ InTime(media[n])
    BY <1>c, RowType DEF RowsInTime
  <1>1. ASSUME NEW r \in MediaRow, InTime(r), media'[m] = r
        PROVE  InTime(media[m])'
    BY <1>c, <1>1, ClockStep, InstantsAreNat DEF InTime
  <1>2. CASE media'[m] = media[m]
    BY <1>1, <1>2, <1>u DEF Uploaded
  <1>3. ASSUME NEW n \in Item, Upload(w, n), media'[m] # media[m]
        PROVE  InTime(media[m])'
    <2>1. media'[m] = [privacy |-> "private", changed |-> clock, set |-> Never] /\ clock' = clock
      BY <1>c, <1>3 DEF Upload
    <2>2. QED
      BY <1>c, <2>1 DEF InTime, Never
  <1>4. CASE BulkWrite(w) /\ media'[m] # media[m]
    <2>1. m \in Loaded(w) /\ media'[m] = work[w].loaded[m]
      BY <1>4 DEF BulkWrite
    <2>2. QED
      BY <1>1, <1>k, <2>1
  <1>5. CASE EditSave(w) /\ media'[m] # media[m]
    <2>1. m \in Loaded(w) /\ media'[m] = work[w].loaded[m]
      BY <1>c, <1>5 DEF EditSave
    <2>2. QED
      BY <1>1, <1>k, <2>1
  <1>6. ASSUME NEW t \in Nat, t <= clock, media'[m] = [media[m] EXCEPT !.set = t], m \in Loaded(w), clock' = clock
        PROVE  InTime(media[m])'
    <2>1. media[m] \in MediaRow /\ InTime(media[m])
      BY <1>6, <1>k, <1>u
    <2>2. media'[m].changed = media[m].changed /\ media'[m].set = t
      BY <1>6, <2>1 DEF MediaRow
    <2>3. QED
      BY <1>6, <2>1, <2>2 DEF InTime
  <1>7. CASE SaveStamp(w) /\ media'[m] # media[m]
    <2>1. m \in Loaded(w) /\ media'[m] = [media[m] EXCEPT !.set = clock] /\ clock' = clock
      BY <1>c, <1>7 DEF SaveStamp
    <2>2. QED
      BY <1>c, <1>6, <2>1
  <1>8. CASE RetryWrite(w) /\ media'[m] # media[m]
    <2>1. m \in Loaded(w) /\ media'[m] = [media[m] EXCEPT !.set = work[w].loaded[m].set] /\ clock' = clock
      BY <1>8 DEF RetryWrite
    <2>2. work[w].loaded[m].set \in Nat /\ work[w].loaded[m].set <= clock
      BY <1>k, <2>1, InstantsAreNat DEF InTime
    <2>3. QED
      BY <1>6, <2>1, <2>2
  <1>9. QED
    BY <1>2, <1>3, <1>4, <1>5, <1>7, <1>8
       DEF StepOf, Request, Continue, PublishPage, RunAction, UnpublishPage, EditLoad, RenditionLoad,
           BulkPermissions, SavePermissions, SavePermissionsFails, RenditionPermissions,
           BulkPurge, RenditionCreate, RetryLoad

\* What a process has in memory afterwards it had before, or has read, or changed.
LEMMA LoadedStep ==
  ASSUME TypeInv, NEW w \in Process, StepOf(w), NEW m \in Loaded(w)'
  PROVE  \/ m \in Loaded(w) /\ work'[w].loaded[m] = work[w].loaded[m]
         \/ Uploaded(m)' /\ work'[w].loaded[m] = media'[m]
         \/ /\ Uploaded(m) /\ clock' = clock + 1
            /\ work'[w].loaded[m].set = media[m].set /\ work'[w].loaded[m].changed = clock + 1
         \/ /\ m \in Loaded(w)
            /\ work'[w].loaded[m].set = clock /\ work'[w].loaded[m].changed = work[w].loaded[m].changed
  <1>m. m \in Item /\ work'[w].loaded[m] # NoMedia
    BY DEF Loaded
  <1>same. work'[w].loaded = work[w].loaded => m \in Loaded(w)
    BY <1>m DEF Loaded
  <1>rest. GoesToRest(w) => FALSE
    BY <1>m DEF GoesToRest, Becomes, NothingLoaded
  <1>1. CASE PageStepOf(w)
    <2>1. CASE UNCHANGED work
      BY <2>1, <1>same
    <2>2. CASE ~UNCHANGED work
      <3>1. PICK S \in SUBSET Item, T \in SUBSET Item, privacy \in Privacy :
              /\ \A n \in S : Uploaded(n)
              /\ Becomes(w, "acl", privacy, T, {}, Reprivatised(S, privacy), FilesOf(S))
              /\ clock' = clock + 1
        BY <1>1, <2>2, PageStep DEF PageStepOf
      <3>2. work'[w].loaded = Reprivatised(S, privacy)
        BY <3>1 DEF Becomes
      <3>3. m \in S /\ work'[w].loaded[m] = [media[m] EXCEPT !.privacy = privacy, !.changed = clock + 1]
        BY <1>m, <3>2 DEF Reprivatised
      <3>4. media[m] \in MediaRow
        BY <3>1, <3>3, RowType
      <3>5. QED
        BY <3>1, <3>3, <3>4 DEF MediaRow
    <2>3. QED
      BY <2>1, <2>2
  <1>2. ASSUME NEW n \in Item, w \in Editing, Upload(w, n) \/ EditLoad(w, n) \/ RenditionLoad(w, n)
        PROVE  Uploaded(m)' /\ work'[w].loaded[m] = media'[m]
    <2>1. ASSUME NEW r \in MediaRow, NEW step \in Steps, Hold(w, n, r, step), media'[n] = r
          PROVE  Uploaded(m)' /\ work'[w].loaded[m] = media'[m]
      <3>1. Becomes(w, step, r.privacy, {n}, {}, [NothingLoaded EXCEPT ![n] = r], FilesOf({n}))
        BY <2>1, HoldStep
      <3>2. work'[w].loaded = [NothingLoaded EXCEPT ![n] = r]
        BY <3>1 DEF Becomes
      <3>3. m = n /\ work'[w].loaded[m] = r
        BY <1>m, <3>2 DEF NothingLoaded
      <3>4. QED
        BY <1>m, <2>1, <3>3 DEF Uploaded
    <2>2. {"save_acl", "edit", "rendition"} \subseteq Steps
      BY DEF Steps
    <2>3. CASE Upload(w, n)
      <3>1. [privacy |-> "private", changed |-> clock, set |-> Never] \in MediaRow
        BY MediaAssumption DEF TypeInv, MediaTypeOK, MediaRow, Privacy, Never, Instant
      <3>2. QED
        BY <2>1, <2>2, <2>3, <3>1 DEF Upload, TypeInv, MediaTypeOK
    <2>4. CASE EditLoad(w, n) \/ RenditionLoad(w, n)
      BY <2>1, <2>2, <2>4, RowType DEF EditLoad, RenditionLoad
    <2>5. QED
      BY <1>2, <2>3, <2>4
  <1>3. ASSUME NEW applied \in SUBSET InHand(w), NEW reported \in SUBSET InHand(w),
               BulkPermissions(w, applied, reported)
        PROVE  \/ m \in Loaded(w) /\ work'[w].loaded[m] = work[w].loaded[m]
               \/ /\ m \in Loaded(w)
                  /\ work'[w].loaded[m].set = clock /\ work'[w].loaded[m].changed = work[w].loaded[m].changed
    <2>1. work'[w].loaded = Stamped(w, reported)
      BY <1>3, CallsStep DEF Becomes
    <2>2. QED
      BY <1>m, <2>1, StampedIs
  <1>4. ASSUME NEW applied \in SUBSET InHand(w), NEW raised \in BOOLEAN,
               \/ SavePermissions(w, applied, raised)
               \/ SavePermissionsFails(w, applied)
               \/ RenditionPermissions(w, applied)
        PROVE  work'[w].loaded = work[w].loaded
    <2>1. GoesTo(w, "stamp") \/ GoesToRest(w)
      BY <1>4, GoStep, DoneStep DEF SavePermissions, SavePermissionsFails, RenditionPermissions, Done, Steps
    <2>2. QED
      BY <1>rest, <2>1 DEF GoesTo, Becomes
  <1>5. CASE BulkWrite(w)
    BY <1>5, <1>same, GoStep DEF BulkWrite, Steps, GoesTo, Becomes
  <1>6. CASE BulkPurge(w) \/ SaveStamp(w)
    BY <1>6, <1>rest, DoneStep DEF BulkPurge, SaveStamp, Done
  <1>7. CASE EditSave(w)
    BY <1>7, <1>rest, <1>same, EditSaveStep DEF Becomes
  <1>8. CASE RenditionCreate(w)
    BY <1>8, <1>rest, <1>same, RenditionStep DEF Becomes
  <1>9. CASE RetryWrite(w)
    <2>1. Becomes(w, "acl", "public", work[w].touch, {}, WithoutGroup(w),
                  {mf \in work[w].listed : mf[1] \in work[w].left})
      BY <1>9, <1>rest, RetryWriteStep
    <2>2. work'[w].loaded = WithoutGroup(w)
      BY <2>1 DEF Becomes
    <2>3. QED
      BY <1>m, <2>2 DEF WithoutGroup, Loaded
  <1>10. CASE RetryLoad(w)
    <2>1. PICK left \in SUBSET RetriedItems, privacy \in Privacy :
            Becomes(w, "acl", privacy, RetriedItems, left,
                    [n \in Item |-> IF n \in RetriedItems THEN media[n] ELSE NoMedia],
                    FilesOf(RetriedItems))
      BY <1>10, RetryLoadStep
    <2>2. work'[w].loaded[m] = media[m] /\ media[m] # NoMedia
      BY <1>m, <2>1 DEF Becomes
    <2>3. QED
      BY <1>10, <2>2 DEF RetryLoad, Uploaded
  <1>11. QED
    BY <1>1, <1>2, <1>3, <1>4, <1>5, <1>6, <1>7, <1>8, <1>9, <1>10, <1>same
       DEF PageStepOf, StepOf, Request, Continue

LEMMA TimeStep ==
  ASSUME CourseInv, RowsInTime, NEW w \in Process, StepOf(w), TypeInv'
  PROVE  RowsInTime'
  <1>c. TypeInv /\ clock \in Nat /\ clock' \in {clock, clock + 1}
    BY ClockStep DEF CourseInv
  <1>1. \A m \in Item : Uploaded(m)' => InTime(media[m])'
    BY RowsTimeStep
  <1>2. clock' >= 1
    BY <1>c DEF RowsInTime
  <1>3. ASSUME NEW v \in Process, NEW m \in Loaded(v)'
        PROVE  InTime(work[v].loaded[m])'
    <2>m. m \in Item /\ Uploaded(m)'
      BY <1>3 DEF Loaded, TypeInv, HeldIsUploaded
    <2>old. ASSUME NEW u \in Process, m \in Loaded(u)
            PROVE  /\ InTime(work[u].loaded[m]) /\ work[u].loaded[m].changed \in Nat
                   /\ work[u].loaded[m].set \in Nat
      BY <1>c, <2>old, WorkType, InstantsAreNat DEF RowsInTime
    <2>1. CASE v # w
      <3>1. work'[v] = work[v] /\ m \in Loaded(v)
        BY <1>c, <1>3, <2>1, OthersRest DEF Loaded
      <3>2. QED
        BY <1>c, <2>old, <3>1 DEF InTime
    <2>2. CASE v = w
      <3>1. CASE m \in Loaded(w) /\ work'[w].loaded[m] = work[w].loaded[m]
        BY <1>c, <2>old, <2>2, <3>1 DEF InTime
      <3>2. CASE work'[w].loaded[m] = media'[m]
        BY <1>1, <2>m, <2>2, <3>2 DEF InTime
      <3>3. CASE /\ Uploaded(m) /\ clock' = clock + 1
                 /\ work'[w].loaded[m].set = media[m].set /\ work'[w].loaded[m].changed = clock + 1
        <4>1. media[m].set \in Nat /\ media[m].set <= clock
          BY <1>c, <2>m, <3>3, RowType, InstantsAreNat DEF RowsInTime, InTime
        <4>2. QED
          BY <1>c, <2>2, <3>3, <4>1 DEF InTime
      <3>4. CASE /\ m \in Loaded(w)
                 /\ work'[w].loaded[m].set = clock /\ work'[w].loaded[m].changed = work[w].loaded[m].changed
        BY <1>c, <2>old, <2>2, <3>4 DEF InTime
      <3>5. QED
        BY <1>c, <1>3, <2>2, <3>1, <3>2, <3>3, <3>4, LoadedStep
    <2>3. QED
      BY <2>1, <2>2
  <1>4. QED
    BY <1>1, <1>2, <1>3 DEF RowsInTime

\* What a call does to the files of one item.
LEMMA CallsSet ==
  ASSUME TypeInv, NEW w \in Process, NEW applied \in SUBSET InHand(w), Calls(w, applied),
         NEW m \in Item, NEW f \in File
  PROVE  acl'[m][f] = IF <<m, f>> \in applied THEN work[w].privacy ELSE acl[m][f]
  BY DEF Calls

\* An item and its files being as they were, so is what is true of them.
LEMMA AsideKeeps ==
  ASSUME NEW m \in Item, Aside(m), NEW v \in Process, work'[v] = work[v]
  PROVE  /\ Right(m) => Right(m)'
         /\ OnCourse(v, m) => OnCourse(v, m)'
         /\ Uploaded(m)' => Uploaded(m)
  <1>1. /\ media'[m] = media[m] /\ acl'[m] = acl[m] /\ (m \in renditions' <=> m \in renditions)
    BY DEF Aside
  <1>2. Right(m) => Right(m)'
    BY <1>1 DEF Right, FilesMatch, HasFile, Outdated
  <1>3. OnCourse(v, m) => OnCourse(v, m)'
    BY <1>1, <1>2 DEF OnCourse, ToBeSet, FilesMatch, HasFile, Outdated, At
  <1>4. QED
    BY <1>1, <1>2, <1>3 DEF Uploaded

\* What there is to show of a step that has to do with an item.
InOrder(w, m) == IF m \in Loaded(w) THEN OnCourse(w, m) ELSE Right(m)

\* What is known before such a step.
Before(w, m) ==
  /\ m \in Loaded(w) => /\ m \in Item /\ Uploaded(m) /\ media[m] \in MediaRow
                        /\ work[w].loaded[m] \in MediaRow /\ OnCourse(w, m)
                        /\ work[w].step \in HoldSteps => work[w].loaded[m] = media[m]
                        /\ work[w].loaded[m].privacy
                             = IF m \in work[w].left THEN "public" ELSE work[w].privacy
  /\ m \notin Loaded(w) /\ Uploaded(m) => media[m] \in MediaRow /\ Right(m)

LEMMA RestInOrder ==
  ASSUME TypeInv, NEW w \in Process, NEW m \in Item, GoesToRest(w), Right(m)'
  PROVE  InOrder(w, m)'
  BY DEF GoesToRest, Becomes, InOrder, Loaded, NothingLoaded

LEMMA PagesFresh ==
  ASSUME CourseInv, RowsInTime, NEW w \in Process, PageStepOf(w),
         NEW m \in Item, m \in Loaded(w) \/ m \in Loaded(w)'
  PROVE  InOrder(w, m)'
  <1>c. TypeInv /\ AllOrderly /\ clock \in Nat
    BY MediaAssumption DEF CourseInv, TypeInv, MediaTypeOK, Instant
  <1>1. At(w, "idle") /\ UNCHANGED <<media, acl, renditions>>
    BY <1>c, PageStep DEF PageStepOf
  <1>2. m \notin Loaded(w)
    BY <1>c, <1>1 DEF AllOrderly, Orderly, At, Loaded
  <1>3. ~UNCHANGED work
    BY <1>2 DEF Loaded
  <1>4. PICK S \in SUBSET Item, T \in SUBSET Item, privacy \in Privacy :
          /\ \A n \in S : Uploaded(n)
          /\ Becomes(w, "acl", privacy, T, {}, Reprivatised(S, privacy), FilesOf(S))
          /\ clock' = clock + 1
    BY <1>c, <1>3, PageStep DEF PageStepOf
  <1>5. work'[w].step = "acl" /\ work'[w].loaded = Reprivatised(S, privacy) /\ work'[w].listed = FilesOf(S)
    BY <1>4 DEF Becomes
  <1>6. m \in S /\ work'[w].loaded[m] = [media[m] EXCEPT !.privacy = privacy, !.changed = clock + 1]
    BY <1>2, <1>5 DEF Loaded, Reprivatised
  <1>7. media[m] \in MediaRow /\ media[m].set <= clock /\ media[m].set \in Nat
    BY <1>c, <1>4, <1>6, RowType, InstantsAreNat DEF RowsInTime, InTime
  <1>8. work'[w].loaded[m].set = media[m].set /\ work'[w].loaded[m].changed = clock + 1
    BY <1>6, <1>7 DEF MediaRow
  <1>9. Outdated(work'[w].loaded[m])
    BY <1>c, <1>7, <1>8 DEF Outdated
  <1>10. \A f \in File : HasFile(m, f)' => <<m, f>> \in work'[w].listed
    BY <1>1, <1>5, <1>6, FilesOfHas DEF HasFile
  <1>11. OnCourse(w, m)' /\ m \in Loaded(w)'
    BY <1>2, <1>5, <1>9, <1>10 DEF OnCourse, ToBeSet, At
  <1>12. QED
    BY <1>11 DEF InOrder

LEMMA HoldFresh ==
  ASSUME CourseInv, RowsInTime, NEW w \in Editing, NEW n \in Item,
         Upload(w, n) \/ EditLoad(w, n) \/ RenditionLoad(w, n),
         NEW m \in Item, m \in Loaded(w) \/ m \in Loaded(w)', Before(w, m)
  PROVE  InOrder(w, m)'
  <1>c. TypeInv /\ AllOrderly /\ clock \in Nat /\ clock >= 1 /\ w \in Process
    BY MediaAssumption DEF CourseInv, TypeInv, MediaTypeOK, Instant, RowsInTime, Process
  <1>i. At(w, "idle")
    BY DEF Upload, EditLoad, RenditionLoad
  <1>n. m \notin Loaded(w)
    BY <1>c, <1>i DEF AllOrderly, Orderly, At, Loaded
  <1>s. {"save_acl", "edit", "rendition"} \subseteq Steps
    BY DEF Steps
  <1>1. ASSUME NEW r \in MediaRow, NEW step \in Steps, Hold(w, n, r, step), UNCHANGED renditions
        PROVE  /\ m = n /\ work'[w].step = step /\ work'[w].loaded[m] = r /\ m \in Loaded(w)'
               /\ \A f \in File : HasFile(m, f)' => <<m, f>> \in work'[w].listed
    <2>1. Becomes(w, step, r.privacy, {n}, {}, [NothingLoaded EXCEPT ![n] = r], FilesOf({n}))
      BY <1>c, <1>1, HoldStep
    <2>2. work'[w].step = step /\ work'[w].loaded = [NothingLoaded EXCEPT ![n] = r]
          /\ work'[w].listed = FilesOf({n})
      BY <2>1 DEF Becomes
    <2>3. m = n /\ work'[w].loaded[m] = r /\ m \in Loaded(w)'
      BY <1>n, <2>2 DEF NothingLoaded, Loaded
    <2>4. \A f \in File : HasFile(m, f)' => <<m, f>> \in FilesOf({n})
      BY <1>1, <2>3, FilesOfHas DEF HasFile
    <2>5. QED
      BY <2>2, <2>3, <2>4
  <1>2. CASE Upload(w, n)
    <2> DEFINE r == [privacy |-> "private", changed |-> clock, set |-> Never]
    <2>1. r \in MediaRow /\ Outdated(r)
      BY <1>c, MediaAssumption DEF TypeInv, MediaTypeOK, MediaRow, Privacy, Never, Instant, Outdated
    <2>2. Hold(w, n, r, "save_acl") /\ UNCHANGED renditions
      BY <1>2 DEF Upload
    <2> HIDE DEF r
    <2>3. OnCourse(w, m)' /\ m \in Loaded(w)'
      BY <1>1, <1>s, <2>1, <2>2 DEF OnCourse, ToBeSet, At
    <2>4. QED
      BY <2>3 DEF InOrder
  <1>3. CASE EditLoad(w, n) \/ RenditionLoad(w, n)
    <2>1. Hold(w, n, media[n], "edit") \/ Hold(w, n, media[n], "rendition")
      BY <1>3 DEF EditLoad, RenditionLoad
    <2>2. media[n] \in MediaRow /\ Uploaded(n) /\ UNCHANGED <<media, acl, renditions>>
      BY <1>c, <1>3, RowType DEF EditLoad, RenditionLoad
    <2>3. m = n /\ m \in Loaded(w)' /\ (At(w, "edit")' \/ At(w, "rendition")')
      BY <1>1, <1>s, <2>1, <2>2 DEF At
    <2>4. Right(m)
      BY <1>n, <2>2, <2>3 DEF Before
    <2>5. Right(m)'
      BY <2>2, <2>4 DEF Right, FilesMatch, HasFile, Outdated
    <2>6. OnCourse(w, m)'
      BY <2>3, <2>5 DEF OnCourse, At
    <2>7. QED
      BY <2>3, <2>6 DEF InOrder
  <1>4. QED
    BY <1>2, <1>3

LEMMA CallsFresh ==
  ASSUME CourseInv, RowsInTime, NEW w \in Process, NEW applied \in SUBSET InHand(w),
         NEW reported \in SUBSET InHand(w), NEW raised \in BOOLEAN,
         \/ BulkPermissions(w, applied, reported)
         \/ SavePermissions(w, applied, raised)
         \/ SavePermissionsFails(w, applied)
         \/ RenditionPermissions(w, applied),
         NEW m \in Item \ unheard', m \in Loaded(w) \/ m \in Loaded(w)', Before(w, m)
  PROVE  InOrder(w, m)'
  <1>c. TypeInv /\ AllOrderly /\ clock \in Nat /\ Orderly(w, work[w])
    BY MediaAssumption DEF CourseInv, TypeInv, MediaTypeOK, Instant, AllOrderly
  <1>u. UNCHANGED <<media, renditions>> /\ Calls(w, applied)
    BY DEF BulkPermissions, SavePermissions, SavePermissionsFails, RenditionPermissions
  <1>h. \A f : HasFile(m, f)' <=> HasFile(m, f)
    BY <1>u DEF HasFile
  <1>1. CASE BulkPermissions(w, applied, reported)
    <2>1. Becomes(w, "write", work[w].privacy, work[w].touch, work[w].left,
                  Stamped(w, reported), work[w].listed)
      BY <1>c, <1>1, CallsStep
    <2>2. work'[w].step = "write" /\ work'[w].left = work[w].left /\ work'[w].loaded = Stamped(w, reported)
          /\ work'[w].listed = work[w].listed
      BY <2>1 DEF Becomes
    <2>3. m \in Loaded(w) /\ m \in Loaded(w)'
      BY <1>c, <2>2, StampedIs DEF Loaded
    <2>4. ToBeSet(w, m)
      BY <1>1, <2>3 DEF Before, OnCourse, BulkPermissions, At
    <2>5. CASE m \in work[w].left
      <3>1. work'[w].loaded[m] = work[w].loaded[m]
        BY <1>c, <2>2, <2>5, StampedIs
      <3>2. ToBeSet(w, m)'
        BY <1>h, <2>2, <2>4, <3>1 DEF ToBeSet, Outdated
      <3>3. OnCourse(w, m)'
        BY <2>2, <2>5, <3>2 DEF OnCourse, At
      <3>4. QED
        BY <2>3, <3>3 DEF InOrder
    <2>6. CASE m \notin work[w].left
      <3>1. ASSUME ~Outdated(work'[w].loaded[m]), NEW f \in File, HasFile(m, f)
            PROVE  acl'[m][f] = work'[w].loaded[m].privacy
        <4>1. AllReported(w, m, reported)
          BY <1>c, <2>2, <2>4, <3>1, StampedIs DEF ToBeSet
        <4>2. <<m, f>> \in InHand(w)
          BY <2>4, <2>6, <3>1 DEF ToBeSet, InHand
        <4>3. <<m, f>> \in applied
          BY <1>1, <3>1, <4>1, <4>2 DEF AllReported, BulkPermissions
        <4>4. work'[w].loaded[m].privacy = work[w].privacy
          BY <1>c, <2>2, <2>3, <2>6, StampedIs DEF Before
        <4>5. QED
          BY <1>c, <1>u, <3>1, <4>3, <4>4, CallsSet
      <3>2. ~Outdated(work'[w].loaded[m]) => FilesMatch(m, work[w].loaded[m].privacy)'
        BY <1>c, <1>h, <2>2, <2>3, <3>1, StampedIs DEF FilesMatch
      <3>3. ~Outdated(work'[w].loaded[m]) => \A f \in File : HasFile(m, f)' => acl'[m][f] = work'[w].loaded[m].privacy
        BY <1>h, <3>1
      <3>4. OnCourse(w, m)'
        BY <2>2, <2>6, <3>3 DEF OnCourse, At, FilesMatch, Outdated
      <3>5. QED
        BY <2>3, <3>4 DEF InOrder
    <2>7. QED
      BY <2>5, <2>6
  <1>2. CASE SavePermissions(w, applied, raised)
    <2>1. GoesTo(w, "stamp")
      BY <1>c, <1>2, GoStep DEF SavePermissions, Steps
    <2>2. work'[w].step = "stamp" /\ work'[w].loaded = work[w].loaded /\ work[w].step = "save_acl"
      BY <1>2, <2>1 DEF GoesTo, Becomes, SavePermissions, At
    <2>3. m \in Loaded(w) /\ m \in Loaded(w)'
      BY <2>2 DEF Loaded
    <2>4. ~raised /\ applied = InHand(w)
      BY <1>2, <2>3 DEF SavePermissions
    <2>5. work[w].left = {} /\ work[w].loaded[m].privacy = work[w].privacy
      <3>1. w \in Editing
        BY <1>c, <2>2 DEF Orderly, Process
      <3>2. work[w].left = {}
        BY <1>c, <3>1 DEF Orderly
      <3>3. QED
        BY <2>3, <3>2 DEF Before
    <2>6. ToBeSet(w, m)
      BY <2>2, <2>3 DEF Before, OnCourse, At
    <2>7. \A f \in File : HasFile(m, f) => acl'[m][f] = work[w].loaded[m].privacy
      BY <1>c, <1>u, <2>4, <2>5, <2>6, CallsSet DEF ToBeSet, InHand
    <2>8. OnCourse(w, m)'
      BY <1>h, <2>2, <2>7 DEF OnCourse, At, FilesMatch
    <2>9. QED
      BY <2>3, <2>8 DEF InOrder
  <1>3. CASE SavePermissionsFails(w, applied)
    <2>1. GoesToRest(w) /\ work[w].step = "save_acl"
      BY <1>c, <1>3, DoneStep DEF SavePermissionsFails, Done, At
    <2>2. m \in Loaded(w)
      BY <2>1 DEF GoesToRest, Becomes, Loaded, NothingLoaded
    <2>3. Outdated(media[m])
      BY <2>1, <2>2 DEF Before, OnCourse, At, ToBeSet, HoldSteps
    <2>4. Right(m)'
      BY <1>u, <2>3 DEF Right, Outdated
    <2>5. QED
      BY <1>c, <2>1, <2>4, RestInOrder
  <1>4. CASE RenditionPermissions(w, applied)
    <2>1. GoesToRest(w) /\ work[w].step = "rendition_acl"
      BY <1>c, <1>4, DoneStep DEF RenditionPermissions, Done, At
    <2>2. m \in Loaded(w)
      BY <2>1 DEF GoesToRest, Becomes, Loaded, NothingLoaded
    <2>3. work[w].listed = {<<m, "rendition">>} /\ work[w].loaded[m] = media[m]
          /\ (~Outdated(media[m]) => acl[m]["original"] = media[m].privacy)
      BY <2>1, <2>2 DEF Before, OnCourse, At, HoldSteps
    <2>4. applied # {}
      BY <1>4, <2>2 DEF RenditionPermissions
    <2>5. <<m, "rendition">> \in applied /\ <<m, "original">> \notin applied
      BY <2>3, <2>4 DEF InHand
    <2>6. work[w].left = {} /\ media[m].privacy = work[w].privacy
      <3>1. w \in Editing
        BY <1>c, <2>1 DEF Orderly, Process
      <3>2. work[w].left = {}
        BY <1>c, <3>1 DEF Orderly
      <3>3. QED
        BY <2>2, <2>3, <3>2 DEF Before
    <2>7. acl'[m]["rendition"] = media[m].privacy /\ acl'[m]["original"] = acl[m]["original"]
      BY <1>c, <1>u, <2>5, <2>6, CallsSet DEF File
    <2>8. Right(m)'
      BY <1>u, <2>3, <2>7 DEF Right, FilesMatch, File, Outdated
    <2>9. QED
      BY <1>c, <2>1, <2>8, RestInOrder
  <1>5. QED
    BY <1>1, <1>2, <1>3, <1>4

LEMMA WriteFresh ==
  ASSUME CourseInv, NEW w \in Process, NEW m \in Item, m \in Loaded(w) \/ m \in Loaded(w)', Before(w, m),
         BulkWrite(w) \/ BulkPurge(w) \/ EditSave(w) \/ SaveStamp(w) \/ RenditionCreate(w)
  PROVE  InOrder(w, m)'
  <1>c. TypeInv /\ Orderly(w, work[w]) /\ media \in [Item -> MediaRow \cup {NoMedia}]
    BY DEF CourseInv, TypeInv, MediaTypeOK, AllOrderly
  <1>m. m \in Loaded(w)
    <2>1. ASSUME work'[w].loaded = work[w].loaded \/ GoesToRest(w)
          PROVE  m \in Loaded(w)
      BY <2>1 DEF GoesToRest, Becomes, Loaded, NothingLoaded
    <2>2. CASE BulkWrite(w)
      BY <1>c, <2>1, <2>2, GoStep DEF BulkWrite, Steps, GoesTo, Becomes
    <2>3. CASE BulkPurge(w) \/ SaveStamp(w)
      BY <1>c, <2>1, <2>3, DoneStep DEF BulkPurge, SaveStamp, Done
    <2>4. CASE EditSave(w)
      BY <1>c, <2>1, <2>4, EditSaveStep DEF Becomes
    <2>5. CASE RenditionCreate(w)
      BY <1>c, <2>1, <2>5, RenditionStep DEF Becomes
    <2>6. QED
      BY <2>2, <2>3, <2>4, <2>5
  <1>b. /\ Uploaded(m) /\ media[m] \in MediaRow /\ work[w].loaded[m] \in MediaRow /\ OnCourse(w, m)
        /\ work[w].step \in HoldSteps => work[w].loaded[m] = media[m]
    BY <1>m DEF Before
  <1>one. ASSUME work[w].step \in HoldSteps, NEW n \in Loaded(w)
          PROVE  n = m
    BY <1>c, <1>m, <1>one DEF Orderly, Loaded
  <1>1. CASE BulkWrite(w)
    <2>1. GoesTo(w, "purge") /\ work[w].left = {} /\ work[w].step = "write"
      BY <1>c, <1>1, GoStep DEF BulkWrite, Steps, Orderly, At
    <2>2. work'[w].step = "purge" /\ work'[w].loaded = work[w].loaded
      BY <2>1 DEF GoesTo, Becomes
    <2>3. media'[m] = work[w].loaded[m] /\ UNCHANGED <<acl, renditions>>
      BY <1>1, <1>m DEF BulkWrite
    <2>4. ~Outdated(work[w].loaded[m]) => FilesMatch(m, work[w].loaded[m].privacy)
      BY <1>b, <2>1 DEF OnCourse, At
    <2>5. Right(m)'
      BY <2>3, <2>4 DEF Right, FilesMatch, HasFile, Outdated
    <2>6. OnCourse(w, m)' /\ m \in Loaded(w)'
      BY <1>m, <2>2, <2>5 DEF OnCourse, At, Loaded
    <2>7. QED
      BY <2>6 DEF InOrder
  <1>2. CASE BulkPurge(w)
    <2>1. GoesToRest(w) /\ Right(m) /\ UNCHANGED <<media, acl, renditions>>
      BY <1>b, <1>c, <1>2, DoneStep DEF BulkPurge, Done, OnCourse
    <2>2. Right(m)'
      BY <2>1 DEF Right, FilesMatch, HasFile, Outdated
    <2>3. QED
      BY <1>c, <2>1, <2>2, RestInOrder
  <1>3. CASE EditSave(w)
    <2>1. work[w].step \in HoldSteps /\ Right(m) /\ UNCHANGED <<acl, renditions>>
      BY <1>b, <1>3 DEF EditSave, At, HoldSteps, OnCourse
    <2>2. PICK n \in Loaded(w) :
            /\ media' = [media EXCEPT ![n] = work[w].loaded[n]]
            /\ IF Outdated(work[w].loaded[n])
               THEN Becomes(w, "save_acl", work[w].privacy, work[w].touch, work[w].left,
                            work[w].loaded, FilesOf({n}))
               ELSE GoesToRest(w)
      BY <1>c, <1>3, EditSaveStep
    <2>3. n = m /\ work[w].loaded[m] = media[m]
      BY <1>b, <1>one, <2>1
    <2>4. media' = [media EXCEPT ![m] = media[m]]
      BY <2>2, <2>3
    <2>5. media'[m] = media[m]
      BY <1>c, <2>4
    <2>6. Right(m)'
      BY <2>1, <2>5 DEF Right, FilesMatch, HasFile, Outdated
    <2>7. CASE Outdated(media[m])
      <3>1. Becomes(w, "save_acl", work[w].privacy, work[w].touch, work[w].left,
                    work[w].loaded, FilesOf({m}))
        BY <2>2, <2>3, <2>7
      <3>2. work'[w].step = "save_acl" /\ work'[w].loaded = work[w].loaded /\ work'[w].listed = FilesOf({m})
        BY <3>1 DEF Becomes
      <3>3. \A f \in File : HasFile(m, f)' => <<m, f>> \in FilesOf({m})
        BY <2>1, FilesOfHas DEF HasFile
      <3>4. ToBeSet(w, m)'
        BY <2>3, <2>7, <3>2, <3>3 DEF ToBeSet, Outdated
      <3>5. OnCourse(w, m)' /\ m \in Loaded(w)'
        BY <1>m, <3>2, <3>4 DEF OnCourse, At, Loaded
      <3>6. QED
        BY <3>5 DEF InOrder
    <2>8. CASE ~Outdated(media[m])
      <3>1. GoesToRest(w)
        BY <2>2, <2>3, <2>8
      <3>2. QED
        BY <1>c, <2>6, <3>1, RestInOrder
    <2>9. QED
      BY <2>7, <2>8
  <1>4. CASE SaveStamp(w)
    <2>1. /\ work[w].step \in HoldSteps /\ GoesToRest(w) /\ UNCHANGED <<acl, renditions>>
          /\ FilesMatch(m, work[w].loaded[m].privacy)
      BY <1>b, <1>c, <1>4, DoneStep DEF SaveStamp, Done, At, HoldSteps, OnCourse
    <2>2. FilesMatch(m, media[m].privacy)
      BY <1>b, <2>1
    <2>3. PICK n \in Loaded(w) : media' = [media EXCEPT ![n] = [media[n] EXCEPT !.set = clock]]
      BY <1>4 DEF SaveStamp
    <2>4. media' = [media EXCEPT ![m] = [media[m] EXCEPT !.set = clock]]
      BY <1>one, <2>1, <2>3
    <2>5. media'[m] = [media[m] EXCEPT !.set = clock]
      BY <1>c, <2>4
    <2>6. media'[m].privacy = media[m].privacy
      BY <1>b, <2>5 DEF MediaRow
    <2>7. Right(m)'
      BY <2>1, <2>2, <2>6 DEF Right, FilesMatch, HasFile
    <2>8. QED
      BY <1>c, <2>1, <2>7, RestInOrder
  <1>5. CASE RenditionCreate(w)
    <2>1. /\ work[w].step \in HoldSteps /\ Right(m) /\ UNCHANGED <<media, acl>>
          /\ renditions' = renditions \cup Loaded(w)
      BY <1>b, <1>5 DEF RenditionCreate, At, HoldSteps, OnCourse
    <2>2. Loaded(w) = {m}
      BY <1>m, <1>one, <2>1
    <2>3. CASE m \in renditions
      <3>1. GoesToRest(w)
        BY <1>c, <1>5, <2>2, <2>3, RenditionStep
      <3>2. renditions' = renditions
        BY <2>1, <2>2, <2>3
      <3>3. Right(m)'
        BY <2>1, <3>2 DEF Right, FilesMatch, HasFile, Outdated
      <3>4. QED
        BY <1>c, <3>1, <3>3, RestInOrder
    <2>4. CASE m \notin renditions
      <3>1. Becomes(w, "rendition_acl", work[w].privacy, work[w].touch, work[w].left,
                    work[w].loaded, Loaded(w) \X {"rendition"})
        BY <1>c, <1>5, <2>2, <2>4, RenditionStep
      <3>2. work'[w].step = "rendition_acl" /\ work'[w].loaded = work[w].loaded
            /\ work'[w].listed = Loaded(w) \X {"rendition"}
        BY <3>1 DEF Becomes
      <3>3. work'[w].listed = {<<m, "rendition">>}
        BY <2>2, <3>2
      <3>4. ~Outdated(media[m]) => acl[m]["original"] = media[m].privacy
        BY <2>1 DEF Right, FilesMatch, HasFile, File
      <3>5. ~Outdated(work'[w].loaded[m]) => acl'[m]["original"] = work'[w].loaded[m].privacy
        BY <1>b, <2>1, <3>2, <3>4
      <3>6. OnCourse(w, m)' /\ m \in Loaded(w)'
        BY <1>m, <3>2, <3>3, <3>5 DEF OnCourse, At, Loaded, Outdated
      <3>7. QED
        BY <3>6 DEF InOrder
    <2>5. QED
      BY <2>3, <2>4
  <1>6. QED
    BY <1>1, <1>2, <1>3, <1>4, <1>5

LEMMA RetryFresh ==
  ASSUME CourseInv, NEW w \in Retrying, NEW m \in Item \ raced, m \in Loaded(w) \/ m \in Loaded(w)',
         Before(w, m), RetryLoad(w) \/ RetryWrite(w)
  PROVE  InOrder(w, m)'
  <1>c. w \in Process /\ TypeInv /\ Orderly(w, work[w]) /\ RetriedItems \subseteq Item
    BY DEF CourseInv, AllOrderly, Process, RetriedItems
  <1>1. CASE RetryLoad(w)
    <2>1. m \notin Loaded(w)
      BY <1>c, <1>1 DEF RetryLoad, Orderly, At, Loaded
    <2>2. PICK left \in SUBSET RetriedItems, privacy \in Privacy :
            Becomes(w, "acl", privacy, RetriedItems, left,
                    [n \in Item |-> IF n \in RetriedItems THEN media[n] ELSE NoMedia],
                    FilesOf(RetriedItems))
      BY <1>c, <1>1, RetryLoadStep
    <2>3. work'[w].step = "acl" /\ work'[w].listed = FilesOf(RetriedItems)
          /\ work'[w].loaded = [n \in Item |-> IF n \in RetriedItems THEN media[n] ELSE NoMedia]
      BY <2>2 DEF Becomes
    <2>4. m \in RetriedItems /\ work'[w].loaded[m] = media[m] /\ m \in Loaded(w)'
      BY <2>1, <2>3 DEF Loaded
    <2>5. Outdated(work'[w].loaded[m])
      BY <2>4 DEF RetriedItems
    <2>6. \A f \in File : HasFile(m, f)' => <<m, f>> \in FilesOf(RetriedItems)
      BY <1>c, <1>1, <2>4, FilesOfHas DEF HasFile, RetryLoad
    <2>7. OnCourse(w, m)'
      BY <2>3, <2>5, <2>6 DEF OnCourse, At, ToBeSet, Outdated
    <2>8. QED
      BY <2>4, <2>7 DEF InOrder
  <1>2. CASE RetryWrite(w)
    <2>1. work[w].step = "write" /\ UNCHANGED <<acl, renditions>>
      BY <1>2 DEF RetryWrite, At
    <2>2. media'[m] = IF m \in InGroup(w) THEN [media[m] EXCEPT !.set = work[w].loaded[m].set] ELSE media[m]
      BY <1>2 DEF RetryWrite, InGroup
    <2>3. m \in Loaded(w)
      <3>1. CASE work[w].left = {}
        BY <1>c, <1>2, <3>1, RetryWriteStep DEF GoesToRest, Becomes, Loaded, NothingLoaded
      <3>2. CASE work[w].left # {}
        <4>1. work'[w].loaded = WithoutGroup(w)
          BY <1>c, <1>2, <3>2, RetryWriteStep DEF Becomes
        <4>2. QED
          BY <4>1 DEF WithoutGroup, Loaded
      <3>3. QED
        BY <3>1, <3>2
    <2>b. media[m] \in MediaRow /\ work[w].loaded[m] \in MediaRow /\ OnCourse(w, m)
          /\ work[w].loaded[m].privacy = media[m].privacy /\ work[w].loaded[m].changed = media[m].changed
      BY <2>3 DEF Before, CourseInv, AsTheRow, Process
    <2>4. CASE m \in InGroup(w)
      <3>1. media'[m] = [media[m] EXCEPT !.set = work[w].loaded[m].set]
        BY <2>2, <2>4
      <3>2. media'[m].privacy = media[m].privacy /\ media'[m].changed = media[m].changed
            /\ media'[m].set = work[w].loaded[m].set
        BY <2>b, <3>1 DEF MediaRow
      <3>3. ~Outdated(work[w].loaded[m]) => FilesMatch(m, work[w].loaded[m].privacy)
        BY <2>1, <2>4, <2>b DEF OnCourse, At, InGroup
      <3>4. Right(m)'
        BY <2>1, <2>b, <3>2, <3>3 DEF Right, FilesMatch, HasFile, Outdated
      <3>5. m \notin Loaded(w)'
        <4>1. CASE work[w].left = {}
          BY <1>c, <1>2, <4>1, RetryWriteStep DEF GoesToRest, Becomes, Loaded, NothingLoaded
        <4>2. CASE work[w].left # {}
          <5>1. work'[w].loaded = WithoutGroup(w)
            BY <1>c, <1>2, <4>2, RetryWriteStep DEF Becomes
          <5>2. QED
            BY <2>4, <5>1 DEF WithoutGroup, Loaded
        <4>3. QED
          BY <4>1, <4>2
      <3>6. QED
        BY <3>4, <3>5 DEF InOrder
    <2>5. CASE m \notin InGroup(w)
      <3>1. m \in work[w].left
        BY <2>3, <2>5 DEF InGroup
      <3>2. Becomes(w, "acl", "public", work[w].touch, {}, WithoutGroup(w),
                    {mf \in work[w].listed : mf[1] \in work[w].left})
        BY <1>c, <1>2, <3>1, RetryWriteStep
      <3>3. work'[w].step = "acl" /\ work'[w].loaded = WithoutGroup(w)
            /\ work'[w].listed = {mf \in work[w].listed : mf[1] \in work[w].left}
        BY <3>2 DEF Becomes
      <3>4. ToBeSet(w, m)
        BY <2>1, <2>b, <3>1 DEF OnCourse, At
      <3>5. work'[w].loaded[m] = work[w].loaded[m]
        BY <2>5, <3>3 DEF WithoutGroup
      <3>6. ToBeSet(w, m)'
        BY <2>1, <3>1, <3>3, <3>4, <3>5 DEF ToBeSet, HasFile, Outdated
      <3>7. OnCourse(w, m)' /\ m \in Loaded(w)'
        BY <2>3, <3>3, <3>5, <3>6 DEF OnCourse, At, Loaded
      <3>8. QED
        BY <3>7 DEF InOrder
    <2>6. QED
      BY <2>4, <2>5
  <1>3. QED
    BY <1>1, <1>2

\* A step of a process that has the item in memory before or after it.
LEMMA OwnFresh ==
  ASSUME CourseInv, RowsInTime, NEW w \in Process, StepOf(w), NEW m \in Item \ (raced \cup unheard'),
         m \in Loaded(w) \/ m \in Loaded(w)', Before(w, m)
  PROVE  InOrder(w, m)'
  <1>1. CASE w \in Editing /\ Request(w)
    BY <1>1, PagesFresh, HoldFresh DEF Request, PageStepOf
  <1>2. CASE Continue(w)
    <2>1. CASE \E applied \in SUBSET InHand(w), reported \in SUBSET InHand(w), raised \in BOOLEAN :
                 \/ BulkPermissions(w, applied, reported)
                 \/ SavePermissions(w, applied, raised)
                 \/ SavePermissionsFails(w, applied)
                 \/ RenditionPermissions(w, applied)
      BY <2>1, CallsFresh
    <2>2. CASE BulkWrite(w) \/ BulkPurge(w) \/ EditSave(w) \/ SaveStamp(w) \/ RenditionCreate(w)
      BY <2>2, WriteFresh
    <2>3. CASE RetryWrite(w)
      BY <2>3, RetryFresh DEF RetryWrite
    <2>4. QED
      BY <1>2, <2>1, <2>2, <2>3 DEF Continue
  <1>3. CASE w \in Retrying /\ RetryLoad(w)
    BY <1>3, RetryFresh
  <1>4. QED
    BY <1>1, <1>2, <1>3 DEF StepOf

LEMMA HeardOf ==
  ASSUME NEW w \in Process, StepOf(w)
  PROVE  unheard \subseteq unheard'
  BY DEF StepOf, Request, Continue, PublishPage, RunAction, UnpublishPage, Upload, EditLoad,
         RenditionLoad, BulkPermissions, SavePermissions, SavePermissionsFails, RenditionPermissions,
         BulkWrite, BulkPurge, EditSave, SaveStamp, RenditionCreate, RetryLoad, RetryWrite

LEMMA FilesFreshStep ==
  ASSUME FreshInv, NEW w \in Process, StepOf(w), CourseInv'
  PROVE  FilesFresh'
  <1>c. /\ CourseInv /\ RowsInTime /\ FilesFresh
        /\ TypeInv /\ AllOrderly /\ Alone /\ AllOrderly' /\ Alone'
    BY DEF FreshInv, CourseInv
  <1>1. raced \subseteq raced' /\ unheard \subseteq unheard' /\ \A v \in Process : v # w => work'[v] = work[v]
    BY <1>c, OthersRest, HeardOf
  <1>2. ASSUME NEW m \in Item \ (raced' \cup unheard'), Uploaded(m)'
        PROVE  /\ (\A v \in Process : m \notin Loaded(v)') => Right(m)'
               /\ \A v \in Process : m \in Loaded(v)' => OnCourse(v, m)'
    <2>1. m \in Item \ (raced \cup unheard)
      BY <1>1
    <2>f. Uploaded(m) => /\ (\A v \in Process : m \notin Loaded(v)) => Right(m)
                         /\ \A v \in Process : m \in Loaded(v) => OnCourse(v, m)
      BY <1>c, <2>1 DEF FilesFresh
    <2>2. ASSUME NEW v \in Process, v # w, m \in Loaded(v) \/ m \in Loaded(v)'
          PROVE  /\ m \in Loaded(v) /\ m \in Loaded(v)' /\ OnCourse(v, m)'
                 /\ m \notin Loaded(w) /\ m \notin Loaded(w)'
      <3>1. Aside(m) /\ work'[v] = work[v] /\ m \notin Loaded(w) /\ m \notin Loaded(w)'
        BY <1>c, <2>2, OthersAside
      <3>2. m \in Loaded(v) /\ m \in Loaded(v)'
        BY <2>2, <3>1 DEF Loaded
      <3>3. OnCourse(v, m)
        BY <1>2, <2>f, <3>1, <3>2, AsideKeeps
      <3>4. QED
        BY <3>1, <3>2, <3>3, AsideKeeps
    <2>3. CASE \E v \in Process : v # w /\ (m \in Loaded(v) \/ m \in Loaded(v)')
      BY <2>2, <2>3
    <2>4. CASE \A v \in Process : v # w => m \notin Loaded(v) /\ m \notin Loaded(v)'
      <3>1. CASE m \notin Loaded(w) /\ m \notin Loaded(w)'
        <4>1. Aside(m)
          BY <1>c, <3>1, Elsewhere
        <4>2. Uploaded(m)
          BY <1>2, <4>1 DEF Aside, Uploaded
        <4>3. Right(m)
          BY <2>4, <2>f, <3>1, <4>2
        <4>4. Right(m)'
          BY <4>1, <4>3 DEF Aside, Right, FilesMatch, HasFile, Outdated
        <4>5. QED
          BY <2>4, <3>1, <4>4
      <3>2. CASE m \in Loaded(w) \/ m \in Loaded(w)'
        <4>1. m \in Loaded(w) =>
                /\ Uploaded(m) /\ work[w].loaded[m] \in MediaRow /\ m \in Item
                /\ work[w].loaded[m].privacy = IF m \in work[w].left THEN "public" ELSE work[w].privacy
                /\ work[w].step \in HoldSteps => work[w].loaded[m] = media[m]
          BY <1>c, <2>1, WorkType DEF AllOrderly, Orderly, Loaded, CourseInv, AsTheRow
        <4>2. Uploaded(m) => media[m] \in MediaRow
          BY <1>c, RowType
        <4>3. m \in Loaded(w) => OnCourse(w, m)
          BY <2>f, <4>1
        <4>4. m \notin Loaded(w) /\ Uploaded(m) => Right(m)
          BY <2>4, <2>f
        <4>5. Before(w, m)
          BY <4>1, <4>2, <4>3, <4>4 DEF Before
        <4>6. m \in Item \ (raced \cup unheard')
          BY <2>1
        <4>7. InOrder(w, m)'
          BY <1>c, <3>2, <4>5, <4>6, OwnFresh
        <4>8. QED
          BY <2>4, <4>7 DEF InOrder
      <3>3. QED
        BY <3>1, <3>2
    <2>5. QED
      BY <2>3, <2>4
  <1>3. QED
    BY <1>2 DEF FilesFresh

LEMMA FreshKept ==
  ASSUME FreshInv, [MediaNext]_mediaVars
  PROVE  FreshInv'
  <1>1. CourseInv'
    BY CourseKept DEF FreshInv
  <1>2. CASE UNCHANGED <<media, acl, renditions, work, clock, raced, unheard>>
    <2>1. RowsInTime'
      BY <1>2 DEF FreshInv, RowsInTime, Uploaded, InTime, Loaded
    <2>2. FilesFresh'
      BY <1>2 DEF FreshInv, FilesFresh, Uploaded, Loaded, Right, OnCourse, ToBeSet, FilesMatch,
                  HasFile, Outdated, At
    <2>3. QED
      BY <1>1, <2>1, <2>2 DEF FreshInv
  <1>3. ASSUME NEW w \in Process, StepOf(w)
        PROVE  FreshInv'
    <2>1. RowsInTime'
      BY <1>1, <1>3, TimeStep DEF FreshInv, CourseInv
    <2>2. FilesFresh'
      BY <1>1, <1>3, FilesFreshStep
    <2>3. QED
      BY <1>1, <2>1, <2>2 DEF FreshInv
  <1>4. QED
    BY <1>2, <1>3, NextIsAStep, OtherSteps

\* An item whose row says that its permissions are set has its files as private or
\* public as the row says, once nothing is at work on it, unless two operations
\* were at work on it at once or a call that failed was not taken note of: whether
\* an item is saved, gets a rendition, is used by a page that is published or
\* unpublished or is retried, its row is stamped only after all its calls succeeded
\* (has_outdated_file_permissions).
THEOREM FreshAreSet == ASSUME MediaAssumption PROVE MediaSpec => []FreshMeansSet
  <1>1. MediaInit => FreshInv
    <2> SUFFICES ASSUME MediaInit PROVE FreshInv
      OBVIOUS
    <2>1. CourseInv
      BY CourseInitially
    <2>2. RowsInTime
      BY IdleType DEF MediaInit, RowsInTime, Uploaded, Loaded, NothingLoaded
    <2>3. FilesFresh
      BY DEF MediaInit, FilesFresh, Uploaded
    <2>4. QED
      BY <2>1, <2>2, <2>3 DEF FreshInv
  <1>2. ASSUME FreshInv
        PROVE  FreshMeansSet
    <2>1. ASSUME NEW m \in Item \ unheard, Uploaded(m), Undisturbed(m), ~Outdated(media[m]),
                 NEW mf \in FilesOf({m})
          PROVE  acl[m][mf[2]] = media[m].privacy
      <3>1. m \notin raced /\ \A w \in Process : m \notin Loaded(w)
        BY <1>2, <2>1 DEF Undisturbed, FreshInv, CourseInv, AllOrderly, Orderly, Loaded
      <3>2. FilesMatch(m, media[m].privacy)
        BY <1>2, <2>1, <3>1 DEF FreshInv, FilesFresh, Right
      <3>3. mf[2] \in File /\ HasFile(m, mf[2])
        BY DEF FilesOf, HasFile
      <3>4. QED
        BY <3>2, <3>3 DEF FilesMatch
    <2>2. QED
      BY <2>1 DEF FreshMeansSet
  <1>3. QED
    BY <1>1, <1>2, FreshKept, PTL DEF MediaSpec

=============================================================================
