---------------------------- MODULE PrivateMedia ----------------------------
(***************************************************************************)
(* The privacy of images and documents. A row says whether an item is      *)
(* private or public, when that last changed and when the permissions of   *)
(* its files were last set; the files are in a store of their own, where   *)
(* each call may fail, may raise, or may take effect and still be reported *)
(* as failed. Publishing a page makes what it uses public, unpublishing it *)
(* makes private what no other live page uses; saving an item, making a    *)
(* rendition and a command run by cron also set permissions. Each of these *)
(* reads rows, then calls the store, then writes what it read back, and    *)
(* several may be at work on the same item.                                *)
(***************************************************************************)
EXTENDS Naturals, FiniteSets

CONSTANTS
  MediaPage,    \* pages that may use media
  InBundle,     \* those that a bundle may publish
  Item,         \* images and documents
  Editing,      \* requests and jobs that may be at work at once
  Retrying,     \* retry_file_permission_set_attempts processes
  MaxChanges,   \* bound: changes of privacy
  LateActions   \* a page may be unpublished while its S3_ACL action is outstanding

ASSUME MediaAssumption ==
  /\ InBundle \subseteq MediaPage
  /\ Editing \cap Retrying = {}
  /\ MaxChanges \in Nat \ {0}
  /\ LateActions \in BOOLEAN

VARIABLES
  live,        \* the live pages
  uses,        \* the reference index: the items each page's row uses
  media,       \* the row of each item
  acl,         \* the permission of each file in the store
  renditions,  \* images that have a rendition
  work,        \* what each process is doing
  due,         \* pages of bundles whose S3_ACL action is to be run
  cached,      \* items the edge holds a public copy of
  clock,       \* the time: changes of privacy so far
  released,    \* history: items a page has been live with
  raced,       \* history: items two processes have worked on at once
  unheard      \* history: items with a failed call nothing took note of

mediaVars == <<live, uses, media, acl, renditions, work, due, cached,
               clock, released, raced, unheard>>
pages   == <<live, uses, due, released>>

---------------------------------------------------------------------------

Privacy == {"private", "public"}
File    == {"original", "rendition"}
Process == Editing \cup Retrying
Instant == 0 .. MaxChanges
Never   == 0     \* file_permissions_last_set is NULL

MediaRow == [privacy : Privacy, changed : Instant, set : Instant]
NoMedia  == [privacy |-> "none"]

\* loaded: the instances in memory; listed: their files when they were read;
\* touch: all items the operation is about; left: the retry's second group.
Steps == {"idle", "edit", "save_acl", "stamp", "rendition", "rendition_acl",
          "acl", "write", "purge"}
Work == [step : Steps, privacy : Privacy, touch : SUBSET Item, left : SUBSET Item,
         loaded : [Item -> MediaRow \cup {NoMedia}], listed : SUBSET (Item \X File)]
NothingLoaded == [m \in Item |-> NoMedia]
AtRest == [step |-> "idle", privacy |-> "private", touch |-> {}, left |-> {},
           loaded |-> NothingLoaded, listed |-> {}]

MediaTypeOK ==
  /\ live \subseteq MediaPage
  /\ uses \in [MediaPage -> SUBSET Item]
  /\ media \in [Item -> MediaRow \cup {NoMedia}]
  /\ acl \in [Item -> [File -> Privacy]]
  /\ renditions \subseteq Item
  /\ work \in [Process -> Work]
  /\ due \subseteq MediaPage
  /\ cached \subseteq Item
  /\ clock \in Instant
  /\ released \subseteq Item
  /\ raced \subseteq Item
  /\ unheard \subseteq Item

---------------------------------------------------------------------------
(* Rows, files and instances                                               *)

Uploaded(m) == media[m] # NoMedia
Is(m, privacy) == Uploaded(m) /\ media[m].privacy = privacy

\* has_outdated_file_permissions: NULL is outdated, too.
Outdated(r) == r.set < r.changed

\* get_privacy_controlled_files
FilesOf(S) ==
  {mf \in S \X File : mf[2] = "rendition" => mf[1] \in renditions}

At(w, step) == work[w].step = step
Loaded(w) == {m \in Item : work[w].loaded[m] # NoMedia}

\* The process w takes up an operation about the items T.
Touching(w, T) ==
  raced' = raced \cup {m \in T : \E v \in Process \ {w} : m \in work[v].touch}

Done(w) == work' = [work EXCEPT ![w] = AtRest]
Go(w, step) == work' = [work EXCEPT ![w].step = step]

\* The files an operation is to see to now.
InHand(w) == {mf \in work[w].listed : mf[1] \notin work[w].left}

\* The calls to the store; these take effect.
Calls(w, applied) ==
  acl' = [m \in Item |-> [f \in File |->
            IF <<m, f>> \in applied THEN work[w].privacy ELSE acl[m][f]]]

---------------------------------------------------------------------------
(* bulk_set_privacy                                                        *)

\* The instances are read and changed in memory: the setter takes the time.
Reprivatised(S, privacy) ==
  [m \in Item |-> IF m \in S
                  THEN [media[m] EXCEPT !.privacy = privacy, !.changed = clock + 1]
                  ELSE NoMedia]

BeginBulk(w, T, S, privacy) ==
  /\ Touching(w, T)
  /\ IF S = {}
     THEN UNCHANGED <<work, clock>>
     ELSE /\ clock < MaxChanges
          /\ clock' = clock + 1
          /\ work' = [work EXCEPT ![w] =
               [AtRest EXCEPT !.step = "acl", !.privacy = privacy, !.touch = T,
                              !.loaded = Reprivatised(S, privacy), !.listed = FilesOf(S)]]

\* Mutant: one successful file is enough.
AllReported_Any(w, m, reported) == \E f \in File : <<m, f>> \in reported

\* A call that raised has left no result, and counts as failed.
AllReported(w, m, reported) ==
  \A f \in File : <<m, f>> \in InHand(w) => <<m, f>> \in reported

\* Of the items in hand, those whose calls all succeeded are stamped, in memory.
BulkPermissions(w, applied, reported) ==
  /\ At(w, "acl")
  /\ reported \subseteq applied
  /\ Calls(w, applied)
  /\ work' = [work EXCEPT ![w].step = "write",
       ![w].loaded = [m \in Item |->
          IF m \in Loaded(w) \ work[w].left /\ AllReported(w, m, reported)
          THEN [@[m] EXCEPT !.set = clock] ELSE @[m]]]
  /\ UNCHANGED <<pages, cached, media, renditions, clock, raced, unheard>>

\* bulk_update of the three columns.
BulkWrite(w) ==
  /\ w \in Editing
  /\ At(w, "write")
  /\ media' = [m \in Item |-> IF m \in Loaded(w) THEN work[w].loaded[m] ELSE media[m]]
  /\ Go(w, "purge")
  /\ UNCHANGED <<pages, cached, acl, renditions, clock, raced, unheard>>

\* Mutant: only items that have become public are purged.
Purged_PublicOnly(w) == IF work[w].privacy = "public" THEN Loaded(w) ELSE {}

Purged(w) == Loaded(w)

BulkPurge(w) ==
  /\ At(w, "purge")
  /\ cached' = cached \ Purged(w)
  /\ Done(w)
  /\ UNCHANGED <<pages, media, acl, renditions, clock, raced, unheard>>

---------------------------------------------------------------------------
(* Pages                                                                   *)

\* Mutant: a page scheduled for later is treated as live.
HandlersRun_Always(isLive) == TRUE

\* run_post_publish_actions_handler
HandlersRun(isLive) == isLive

\* _publish_media
PublishMedia(w, T) == BeginBulk(w, T, {m \in T : Is(m, "private")}, "public")

\* A page is published by hand, now or for a later time; its row, and with it
\* the reference index, is written in both cases.
PublishPage(w, p, R, future) ==
  /\ At(w, "idle")
  /\ \A m \in R : Uploaded(m)
  /\ future => p \notin live
  /\ uses' = [uses EXCEPT ![p] = R]
  /\ live' = IF future THEN live ELSE live \cup {p}
  /\ released' = IF future THEN released ELSE released \cup R
  /\ IF HandlersRun(~future) THEN PublishMedia(w, R) ELSE UNCHANGED <<work, clock, raced>>
  /\ UNCHANGED <<cached, media, acl, renditions, due, unheard>>

\* A page of a bundle: its action is enqueued as the page is committed.
PublishInBundle(p, R) ==
  /\ p \in InBundle
  /\ \A m \in R : Uploaded(m)
  /\ uses' = [uses EXCEPT ![p] = R]
  /\ live' = live \cup {p}
  /\ released' = released \cup R
  /\ due' = due \cup {p}
  /\ UNCHANGED <<cached, media, acl, renditions, work, clock, raced, unheard>>

\* The action is run, for the first time or again; it may have to be retried.
RunAction(w, p) ==
  /\ At(w, "idle")
  /\ p \in due
  /\ due' \in {due, due \ {p}}
  /\ PublishMedia(w, uses[p])
  /\ UNCHANGED <<live, uses, released, cached, media, acl, renditions, unheard>>

\* Mutant: other pages are not asked.
OnlyUsedBy_Alone(p) == uses[p]

\* The items of p that no other live page uses.
OnlyUsedBy(p) ==
  {m \in uses[p] : \A q \in live \ {p} : m \notin uses[q]}

UnpublishPage(w, p) ==
  /\ At(w, "idle")
  /\ p \in live
  /\ LateActions \/ p \notin due
  /\ live' = live \ {p}
  /\ BeginBulk(w, uses[p], {m \in OnlyUsedBy(p) : Is(m, "public")}, "private")
  /\ UNCHANGED <<uses, due, released, cached, media, acl, renditions, unheard>>

---------------------------------------------------------------------------
(* PrivateMediaMixin.save                                                  *)

Hold(w, m, r, step) ==
  /\ Touching(w, {m})
  /\ work' = [work EXCEPT ![w] =
       [AtRest EXCEPT !.step = step, !.privacy = r.privacy, !.touch = {m},
                      !.loaded = [NothingLoaded EXCEPT ![m] = r], !.listed = FilesOf({m})]]

\* A new item: private, its permissions never set.
Upload(w, m) ==
  LET r == [privacy |-> "private", changed |-> clock, set |-> Never] IN
  /\ At(w, "idle")
  /\ ~Uploaded(m)
  /\ media' = [media EXCEPT ![m] = r]
  /\ Hold(w, m, r, "save_acl")
  /\ UNCHANGED <<pages, cached, acl, renditions, clock, unheard>>

\* An editor's form has read the item.
EditLoad(w, m) ==
  /\ At(w, "idle")
  /\ Uploaded(m)
  /\ Hold(w, m, media[m], "edit")
  /\ UNCHANGED <<pages, cached, media, acl, renditions, clock, unheard>>

\* super().save writes the whole row as it was read.
EditSave(w) ==
  /\ At(w, "edit")
  /\ \E m \in Loaded(w) :
       /\ media' = [media EXCEPT ![m] = work[w].loaded[m]]
       /\ work' = [work EXCEPT ![w] =
            IF Outdated(work[w].loaded[m])
            THEN [@ EXCEPT !.step = "save_acl", !.listed = FilesOf({m})] ELSE AtRest]
  /\ UNCHANGED <<pages, cached, acl, renditions, clock, raced, unheard>>

\* No call failed, one may have raised: it leaves no result, and so does not count.
SavePermissions(w, applied, raised) ==
  /\ At(w, "save_acl")
  /\ raised \/ applied = InHand(w)
  /\ Calls(w, applied)
  /\ Go(w, "stamp")
  /\ unheard' = IF raised THEN unheard \cup Loaded(w) ELSE unheard
  /\ UNCHANGED <<pages, cached, media, renditions, clock, raced>>

\* A call was reported as failed, whether it took effect or not.
SavePermissionsFails(w, applied) ==
  /\ At(w, "save_acl")
  /\ Calls(w, applied)
  /\ Done(w)
  /\ UNCHANGED <<pages, cached, media, renditions, clock, raced, unheard>>

SaveStamp(w) ==
  /\ At(w, "stamp")
  /\ \E m \in Loaded(w) : media' = [media EXCEPT ![m].set = clock]
  /\ Done(w)
  /\ UNCHANGED <<pages, cached, acl, renditions, clock, raced, unheard>>

---------------------------------------------------------------------------
(* create_renditions                                                       *)

RenditionLoad(w, m) ==
  /\ At(w, "idle")
  /\ Uploaded(m)
  /\ m \notin renditions
  /\ Hold(w, m, media[m], "rendition")
  /\ UNCHANGED <<pages, cached, media, acl, renditions, clock, unheard>>

\* The row of the rendition; its file is private to begin with.
RenditionCreate(w) ==
  /\ At(w, "rendition")
  /\ renditions' = renditions \cup Loaded(w)
  /\ work' = [work EXCEPT ![w] = IF Loaded(w) \subseteq renditions THEN AtRest
                ELSE [@ EXCEPT !.step = "rendition_acl", !.listed = Loaded(w) \X {"rendition"}]]
  /\ UNCHANGED <<pages, cached, media, acl, clock, raced, unheard>>

\* The outcome of the call is not looked at.
RenditionPermissions(w, applied) ==
  /\ At(w, "rendition_acl")
  /\ Calls(w, applied)
  /\ unheard' = IF applied = {} THEN unheard \cup Loaded(w) ELSE unheard
  /\ Done(w)
  /\ UNCHANGED <<pages, cached, media, renditions, clock, raced>>

---------------------------------------------------------------------------
(* retry_file_permission_set_attempts                                      *)

\* Mutant: only private items are retried.
Retried_PrivateOnly == {m \in Item : Is(m, "private") /\ media[m].set # Never /\ Outdated(media[m])}

\* file_permissions_last_set__lt: NULL is not less than anything.
RetriedItems == {m \in Item : Uploaded(m) /\ media[m].set # Never /\ Outdated(media[m])}

\* All are read at once; the private ones are seen to first.
RetryLoad(w) ==
  LET S == RetriedItems
      private == {m \in S : Is(m, "private")}
      group == IF private # {} THEN private ELSE S IN
  /\ w \in Retrying
  /\ At(w, "idle")
  /\ S # {}
  /\ Touching(w, S)
  /\ work' = [work EXCEPT ![w] =
       [AtRest EXCEPT !.step = "acl", !.privacy = IF private # {} THEN "private" ELSE "public",
                      !.touch = S, !.left = S \ group,
                      !.loaded = [m \in Item |-> IF m \in S THEN media[m] ELSE NoMedia],
                      !.listed = FilesOf(S)]]
  /\ UNCHANGED <<pages, cached, media, acl, renditions, clock, unheard>>

\* bulk_update of file_permissions_last_set, then the public items.
RetryWrite(w) ==
  LET group == Loaded(w) \ work[w].left IN
  /\ w \in Retrying
  /\ At(w, "write")
  /\ media' = [m \in Item |-> IF m \in group
                              THEN [media[m] EXCEPT !.set = work[w].loaded[m].set] ELSE media[m]]
  /\ work' = [work EXCEPT ![w] =
       IF work[w].left = {} THEN AtRest
       ELSE [work[w] EXCEPT
               !.step = "acl", !.privacy = "public", !.left = {},
               !.loaded = [m \in Item |-> IF m \in group THEN NoMedia ELSE work[w].loaded[m]],
               !.listed = {mf \in work[w].listed : mf[1] \in work[w].left}]]
  /\ UNCHANGED <<pages, cached, acl, renditions, clock, raced, unheard>>

---------------------------------------------------------------------------
(* The serve views                                                         *)

\* A public item is redirected to or served with max_age=3600, public, and the
\* edge, which asks when it has no copy, keeps the answer; that of a private one
\* must not be kept.
Serve(m) ==
  /\ Is(m, "public")
  /\ m \notin cached
  /\ cached' = cached \cup {m}
  /\ UNCHANGED <<pages, media, acl, renditions, work, clock, raced, unheard>>

---------------------------------------------------------------------------

MediaInit ==
  /\ live = {}
  /\ uses = [p \in MediaPage |-> {}]
  /\ media = [m \in Item |-> NoMedia]
  /\ acl = [m \in Item |-> [f \in File |-> "private"]]
  /\ renditions = {}
  /\ work = [w \in Process |-> AtRest]
  /\ due = {}
  /\ cached = {}
  /\ clock = 1
  /\ released = {}
  /\ raced = {}
  /\ unheard = {}

Request(w) ==
  \/ \E p \in MediaPage, R \in SUBSET Item, future \in BOOLEAN : PublishPage(w, p, R, future)
  \/ \E p \in MediaPage : RunAction(w, p) \/ UnpublishPage(w, p)
  \/ \E m \in Item : Upload(w, m) \/ EditLoad(w, m) \/ RenditionLoad(w, m)

Continue(w) ==
  \/ \E applied \in SUBSET InHand(w) :
       \/ \E reported \in SUBSET InHand(w) : BulkPermissions(w, applied, reported)
       \/ \E raised \in BOOLEAN : SavePermissions(w, applied, raised)
       \/ SavePermissionsFails(w, applied)
       \/ RenditionPermissions(w, applied)
  \/ BulkWrite(w) \/ BulkPurge(w) \/ EditSave(w) \/ SaveStamp(w) \/ RenditionCreate(w)
  \/ RetryWrite(w)

MediaNext ==
  \/ \E w \in Editing : Request(w)
  \/ \E w \in Process : Continue(w)
  \/ \E w \in Retrying : RetryLoad(w)
  \/ \E p \in MediaPage, R \in SUBSET Item : PublishInBundle(p, R)
  \/ \E m \in Item : Serve(m)

MediaSpec == MediaInit /\ [][MediaNext]_mediaVars

\* cron runs the command again and again, and the calls of a run that is tried
\* again and again succeed in the end.
MediaFairness ==
  \A w \in Retrying :
    /\ WF_mediaVars(RetryLoad(w) \/ RetryWrite(w))
    /\ SF_mediaVars(BulkPermissions(w, InHand(w), InHand(w)))

---------------------------------------------------------------------------
(* Properties                                                              *)

\* Nothing is at work on the item, and nothing ever was twice at once.
Undisturbed(m) == m \notin raced /\ \A w \in Process : m \notin work[w].touch

\* No image or document can be had by the public, from its row, its files or the
\* edge, before a page that uses it has been live (cms/private_media as a whole).
NoEarlyLeak ==
  \A m \in Item \ released :
    /\ ~Is(m, "public")
    /\ \A f \in File : acl[m][f] = "private"
    /\ m \notin cached

\* Permissions that are not outdated are those of the files, so a redirect to the
\* store works and a private file is closed: of all the calls that fail, only
\* those in unheard escape (has_outdated_file_permissions).
FreshMeansSet ==
  \A m \in Item \ unheard :
    Uploaded(m) /\ Undisturbed(m) /\ ~Outdated(media[m])
    => \A mf \in FilesOf({m}) : acl[m][mf[2]] = media[m].privacy

\* What a live page uses is public once its action has run, whichever of the
\* pages that share it have been unpublished (unpublish_media_on_unpublish).
LiveUsesArePublic ==
  \A p \in live \ due : \A m \in uses[p] : Undisturbed(m) => Is(m, "public")

\* The edge holds no copy of a private item (bulk_set_privacy purges after writing).
PrivateIsPurged == \A m \in cached : Is(m, "private") => ~Undisturbed(m)

\* Permissions that have been set before and are outdated are set in the end
\* (retry_file_permission_set_attempts).
Behind(m) == Uploaded(m) /\ media[m].set # Never /\ Outdated(media[m])

PermissionsSettle == \A m \in Item : []<>~Behind(m)
=============================================================================
