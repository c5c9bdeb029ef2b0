----------------------------- MODULE NetworkImage -----------------------------
(***************************************************************************)
(* A network image node: its URL, its image, and the lookups in the cache  *)
(* and downloads that are to bring the image of the URL.                   *)
(*                                                                         *)
(* The URL and the image are set on any thread; the node enters and leaves *)
(* the preload range on main; lookups and downloads answer on other        *)
(* threads.  Each of them holds the lock of the node only for a moment, so *)
(* that what was asked for may no longer be wanted when it arrives: an     *)
(* identifier tells downloads apart, and a sentinel lookups.               *)
(*                                                                         *)
(* The cache and the downloader are outside: a lookup hits or misses, a    *)
(* download brings an image or fails, perhaps even after it was cancelled. *)
(* Local files, animated images and the delegate are left out, and the     *)
(* default image counts as none.                                           *)
(***************************************************************************)
EXTENDS Naturals, FiniteSets

CONSTANTS URLs, NoURL,
          NamesDownloads,    \* does the downloader pass the identifier back
          RangeManaged,      \* is the node one of a range managed hierarchy
          MaxRequests,       \* bound: requests under way at a time
          MaxDownloads       \* bound: downloads under way at a time

NetworkImageAssumption ==
  /\ NoURL \notin URLs
  /\ NamesDownloads \in BOOLEAN /\ RangeManaged \in BOOLEAN
  /\ MaxRequests \in Nat \ {0} /\ MaxDownloads \in Nat \ {0}
ASSUME NetworkImageAssumption

VARIABLES
  cache,                \* is there a _cache
  url, imageWasSetExternally, imageLoaded, downloadIdentifier, preload,
  image,                \* where the image is from, and whose image it is
  currentLookup,        \* the request that took the _cacheSentinel of now
  main,                 \* what main is in the middle of, and the URL it read
  setter,               \* what another thread that sets the URL is about to do
  queued,               \* is a recursivelyPreload in main's queue
  requests, downloads,
  failed                \* the URL whose download failed

nodeVars == <<url, imageWasSetExternally, imageLoaded, image, preload, failed>>
loadVars == <<downloadIdentifier, currentLookup, downloads>>
mainVars == <<main, setter, queued>>
vars == <<cache, nodeVars, loadVars, mainVars, requests>>

None      == 0
Requests  == 1..MaxRequests
Downloads == 1..MaxDownloads

NoImage     == [by |-> "none", url |-> NoURL]
ClientImage == [by |-> "client", url |-> NoURL]
Free        == [at |-> "free", url |-> NoURL]
NoRequest   == [at |-> "none", url |-> NoURL, id |-> None]
BeginRequest == [NoRequest EXCEPT !.at = "begin"]
NoDownload  == [at |-> "none", url |-> NoURL]

TypeOK ==
  /\ cache \in BOOLEAN
  /\ imageWasSetExternally \in BOOLEAN
  /\ imageLoaded \in BOOLEAN /\ preload \in BOOLEAN /\ queued \in BOOLEAN
  /\ failed \in URLs \cup {NoURL}
  /\ url \in URLs \cup {NoURL}
  /\ downloadIdentifier \in Downloads \cup {None}
  /\ currentLookup \in Requests \cup {None}
  /\ image \in [by: {"none", "client", "download", "progress", "cache", "fetch"},
                url: URLs \cup {NoURL}]
  /\ main \in [at: {"free", "preload", "load", "exit", "clear"},
               url: URLs \cup {NoURL}]
  /\ setter \in {"idle", "needs preload"}
  /\ requests \in [Requests -> [at: {"none", "lookup", "found", "begin", "started"},
                                url: URLs \cup {NoURL},
                                id: Downloads \cup {None}]]
  /\ downloads \in [Downloads -> [at: {"none", "active", "cancelled"},
                                  url: URLs \cup {NoURL}]]

Init ==
  /\ cache \in BOOLEAN
  /\ url = NoURL /\ image = NoImage
  /\ imageWasSetExternally = FALSE /\ imageLoaded = FALSE /\ failed = NoURL
  /\ preload = FALSE
  /\ downloadIdentifier = None /\ currentLookup = None
  /\ main = Free /\ setter = "idle" /\ queued = FALSE
  /\ requests = [r \in Requests |-> NoRequest]
  /\ downloads = [d \in Downloads |-> NoDownload]

------------------------------------------------------------------------------
(* Cancelling.  Without an identifier, nothing is cancelled: the sentinel    *)
(* stays as it is, and so does a lookup, or a request that is to download.   *)

Cancelled(d) == IF d = None THEN downloads ELSE [downloads EXCEPT ![d] =
                  IF @.at = "active" THEN [@ EXCEPT !.at = "cancelled"] ELSE @]

\* Faulty variant: the identifier is not forgotten.
FaultyCancelImageDownload ==
  /\ downloads' = Cancelled(downloadIdentifier)
  /\ currentLookup' = IF downloadIdentifier = None THEN currentLookup ELSE None
  /\ UNCHANGED downloadIdentifier

\* _locked_cancelImageDownloadWithResumePossibility:.
CancelImageDownload ==
  /\ downloadIdentifier' = None
  /\ downloads' = Cancelled(downloadIdentifier)
  /\ currentLookup' = IF downloadIdentifier = None THEN currentLookup ELSE None

\* _cancelDownloadAndClearImageWithResumePossibility:.
CancelDownloadAndClearImage ==
  /\ CancelImageDownload
  /\ image' = NoImage
  /\ imageLoaded' = FALSE

------------------------------------------------------------------------------
(* What clients set. *)

\* setURL:resetToDefault:, up to setNeedsPreload.  The image must not have been
\* set by the client.  Without a reset the image of before is kept: it is of no
\* URL that the node has.
SetURL(u, reset) ==
  /\ u # url /\ ~imageWasSetExternally
  /\ url' = u
  /\ CancelImageDownload
  /\ imageLoaded' = FALSE /\ failed' = NoURL
  /\ image' = IF reset \/ u = NoURL THEN NoImage ELSE [image EXCEPT !.url = NoURL]
  /\ UNCHANGED <<cache, imageWasSetExternally, preload, requests>>

\* On main, setNeedsPreload goes on to didEnterPreloadState.
SetURLOnMain(u, reset) ==
  /\ main = Free
  /\ SetURL(u, reset)
  /\ main' = IF preload THEN [Free EXCEPT !.at = "preload"] ELSE Free
  /\ UNCHANGED <<setter, queued>>

SetURLOffMain(u, reset) ==
  /\ setter = "idle"
  /\ SetURL(u, reset)
  /\ setter' = "needs preload"
  /\ UNCHANGED <<main, queued>>

SetNeedsPreload ==
  /\ setter = "needs preload" /\ setter' = "idle"
  /\ queued' = (queued \/ preload)
  /\ UNCHANGED <<cache, nodeVars, loadVars, main, requests>>

\* setImage: with an image; the client has set the URL to nil.
SetImage ==
  /\ url = NoURL
  /\ image' = ClientImage
  /\ imageWasSetExternally' = TRUE
  /\ IF imageWasSetExternally THEN UNCHANGED <<imageLoaded, loadVars>>
     ELSE CancelImageDownload /\ imageLoaded' = FALSE
  /\ UNCHANGED <<cache, url, preload, failed, mainVars, requests>>

\* setImage: with nil.
ClearImage ==
  /\ image' = NoImage
  /\ imageWasSetExternally' = FALSE
  /\ UNCHANGED <<cache, url, imageLoaded, preload, failed, loadVars, mainVars,
                 requests>>

------------------------------------------------------------------------------
(* The preload range: the interface state is set first, then main calls out. *)

EnterPreload ==
  /\ main = Free /\ ~preload
  /\ preload' = TRUE
  /\ main' = [Free EXCEPT !.at = "preload"]
  /\ UNCHANGED <<cache, url, imageWasSetExternally, imageLoaded, image, failed,
                 loadVars, setter, queued, requests>>

\* Only a node that is managed is told.
ExitPreload ==
  /\ main = Free /\ preload
  /\ preload' = FALSE
  /\ main' = IF RangeManaged THEN [Free EXCEPT !.at = "exit"] ELSE Free
  /\ UNCHANGED <<cache, url, imageWasSetExternally, imageLoaded, image, failed,
                 loadVars, setter, queued, requests>>

\* An image the client has set stays ...
DidExitPreloadState ==
  /\ main.at = "exit"
  /\ main' = IF imageWasSetExternally THEN Free ELSE [Free EXCEPT !.at = "clear"]
  /\ UNCHANGED <<cache, nodeVars, loadVars, setter, queued, requests>>

\* ... if it was set by then: the lock was given up in between.
ClearOnExit ==
  /\ main.at = "clear" /\ main' = Free
  /\ CancelDownloadAndClearImage
  /\ UNCHANGED <<cache, url, imageWasSetExternally, preload, failed, setter,
                 queued, requests>>

RecursivelyPreload ==
  /\ main = Free /\ queued
  /\ queued' = FALSE
  /\ main' = [Free EXCEPT !.at = "preload"]
  /\ UNCHANGED <<cache, nodeVars, loadVars, setter, requests>>

------------------------------------------------------------------------------
(* Loading. *)

\* _lazilyLoadImageIfNecessary, with the lock: is it?
LazilyLoadImageIfNecessary ==
  /\ main.at = "preload"
  /\ main' = IF ~imageLoaded /\ url # NoURL /\ downloadIdentifier = None
             THEN [at |-> "load", url |-> url]
             ELSE Free
  /\ UNCHANGED <<cache, nodeVars, loadVars, setter, queued, requests>>

\* Then, for the URL it has read, a lookup or a block that downloads.
Load ==
  LET r == CHOOSE q \in Requests : requests[q] = NoRequest IN
  /\ main.at = "load" /\ main' = Free
  /\ \E q \in Requests : requests[q] = NoRequest
  /\ requests' = [requests EXCEPT
       ![r] = IF cache THEN [NoRequest EXCEPT !.at = "lookup", !.url = main.url]
              ELSE BeginRequest]
  /\ currentLookup' = IF cache THEN r ELSE currentLookup
  /\ failed' = NoURL
  /\ UNCHANGED <<cache, url, imageWasSetExternally, imageLoaded, image, preload,
                 downloadIdentifier, downloads, setter, queued>>

\* The cache answers.  If the sentinel has changed, nobody wants to know.
LookupAnswers(r, found) ==
  /\ requests[r].at = "lookup"
  /\ requests' = [requests EXCEPT
       ![r] = IF currentLookup # r THEN NoRequest
              ELSE IF found THEN [@ EXCEPT !.at = "found"] ELSE BeginRequest]
  /\ UNCHANGED <<cache, nodeVars, loadVars, mainVars>>

\* A display on the spot takes the image of a memory cache, in any range.
FetchSynchronously ==
  /\ cache /\ main = Free
  /\ ~imageLoaded /\ url # NoURL /\ downloadIdentifier = None
  /\ image' = [by |-> "fetch", url |-> url]
  /\ imageLoaded' = TRUE
  /\ UNCHANGED <<cache, url, imageWasSetExternally, preload, failed, loadVars,
                 mainVars, requests>>

\* The block reads the URL, and starts the download without the lock.
BeginDownload(r) ==
  LET isFree(d) == /\ downloads[d] = NoDownload /\ d # downloadIdentifier
                   /\ \A q \in Requests : requests[q].id # d
      d == CHOOSE e \in Downloads : isFree(e)
  IN
  /\ requests[r].at = "begin"
  /\ \E e \in Downloads : isFree(e)
  /\ downloads' = [downloads EXCEPT ![d] = [at |-> "active", url |-> url]]
  /\ requests' = [requests EXCEPT ![r] = [at |-> "started", url |-> url, id |-> d]]
  /\ UNCHANGED <<cache, nodeVars, downloadIdentifier, currentLookup, mainVars>>

\* Faulty variant: whatever the URL has become, the download is accepted.
FaultyStoreIdentifier(r) ==
  /\ requests[r].at = "started"
  /\ downloadIdentifier' = requests[r].id
  /\ requests' = [requests EXCEPT ![r] = NoRequest]
  /\ UNCHANGED <<cache, nodeVars, downloads, currentLookup, mainVars>>

\* With the lock again: if the URL has changed, the download is cancelled and
\* the block begins anew.
StoreIdentifier(r) ==
  /\ requests[r].at = "started"
  /\ IF requests[r].url = url
     THEN /\ downloadIdentifier' = requests[r].id
          /\ requests' = [requests EXCEPT ![r] = NoRequest]
          /\ UNCHANGED downloads
     ELSE /\ downloads' = Cancelled(requests[r].id)
          /\ requests' = [requests EXCEPT ![r] = BeginRequest]
          /\ UNCHANGED downloadIdentifier
  /\ UNCHANGED <<cache, nodeVars, currentLookup, mainVars>>

------------------------------------------------------------------------------
(* Results. *)

\* A result for another download than that of now is not wanted.
IsStale(id) == id # None /\ id # downloadIdentifier

\* Faulty variant: the image is taken wherever the node is.
FaultyAccept(img, u) ==
  /\ downloadIdentifier' = None
  /\ currentLookup' = None
  /\ IF img # NoImage
     THEN image' = img /\ imageLoaded' = TRUE
     ELSE UNCHANGED <<image, imageLoaded>>
  /\ failed' = IF img = NoImage THEN u ELSE failed
  /\ UNCHANGED <<url, imageWasSetExternally, preload>>

\* The part of the finished block that follows that check: img is the image or
\* NoImage, after an error, of what the URL u was asked for.
Accept(img, u) ==
  /\ downloadIdentifier' = None
  /\ currentLookup' = None
  /\ IF preload /\ img # NoImage
     THEN image' = img /\ imageLoaded' = TRUE
     ELSE UNCHANGED <<image, imageLoaded>>
  /\ failed' = IF preload /\ img = NoImage THEN u ELSE failed
  /\ UNCHANGED <<url, imageWasSetExternally, preload>>

\* A lookup that hit: it has no identifier.
FinishFromCache(r) ==
  /\ requests[r].at = "found"
  /\ Accept([by |-> "cache", url |-> requests[r].url], requests[r].url)
  /\ requests' = [requests EXCEPT ![r] = NoRequest]
  /\ UNCHANGED <<cache, downloads, mainVars>>

\* A download answers, cancelled or not, and perhaps before its identifier is
\* stored: then it is not wanted, and its identifier is stored all the same.
FinishDownload(d, succeeded) ==
  LET id == IF NamesDownloads THEN d ELSE None
      img == IF succeeded THEN [by |-> "download", url |-> downloads[d].url]
             ELSE NoImage
  IN
  /\ downloads[d].at \in {"active", "cancelled"}
  /\ succeeded => downloads[d].url # NoURL
  /\ IF IsStale(id) THEN UNCHANGED <<nodeVars, downloadIdentifier, currentLookup>>
     ELSE Accept(img, downloads[d].url)
  /\ downloads' = [downloads EXCEPT ![d] = NoDownload]
  /\ UNCHANGED <<cache, mainVars, requests>>

\* A cancelled download need not answer.
FallSilent(d) ==
  /\ downloads[d].at = "cancelled"
  /\ downloads' = [downloads EXCEPT ![d] = NoDownload]
  /\ UNCHANGED <<cache, nodeVars, downloadIdentifier, currentLookup, mainVars,
                 requests>>

\* A part of the image.  The downloader was asked for it while the node was
\* visible, and may bring it later.
HandleProgressImage(d) ==
  /\ downloads[d].at \in {"active", "cancelled"} /\ downloads[d].url # NoURL
  /\ ~IsStale(IF NamesDownloads THEN d ELSE None)
  /\ image' = [by |-> "progress", url |-> downloads[d].url]
  /\ UNCHANGED <<cache, url, imageWasSetExternally, imageLoaded, preload, failed,
                 loadVars, mainVars, requests>>

------------------------------------------------------------------------------
Client ==
  \/ \E u \in URLs \cup {NoURL}, reset \in BOOLEAN :
       SetURLOnMain(u, reset) \/ SetURLOffMain(u, reset)
  \/ SetImage \/ ClearImage
  \/ EnterPreload \/ ExitPreload

Main ==
  \/ DidExitPreloadState \/ ClearOnExit \/ RecursivelyPreload
  \/ LazilyLoadImageIfNecessary \/ Load
  \/ FetchSynchronously

Answers ==
  \/ \E r \in Requests :
       \/ \E found \in BOOLEAN : LookupAnswers(r, found)
       \/ FinishFromCache(r)
  \/ \E d \in Downloads :
       \/ \E succeeded \in BOOLEAN : FinishDownload(d, succeeded)
       \/ FallSilent(d) \/ HandleProgressImage(d)

Next ==
  \/ Client
  \/ Main
  \/ SetNeedsPreload
  \/ \E r \in Requests : BeginDownload(r) \/ StoreIdentifier(r)
  \/ Answers

Spec == Init /\ [][Next]_vars

------------------------------------------------------------------------------
(* Properties. *)

\* An image that was downloaded, whole or in part, is that of the URL of now, or
\* is one that the client has kept, however often the URL was set while downloads
\* were being started, cancelled and answered.
DownloadedImageIsOwn ==
  image.by \in {"download", "progress"} => image.url \in {url, NoURL}

\* Once a managed node has left the preload range, nothing is left of what the
\* answers of the cache and the downloader brought, and none that arrives late is
\* taken, as it would not be cleared any more (the comment at line 808).  Images
\* fetched for a display on the spot, and parts of images, are taken anywhere.
ClearedOutsidePreload ==
  /\ RangeManaged /\ ~preload /\ main.at \notin {"exit", "clear"}
  /\ ~imageWasSetExternally
  => image.by \notin {"download", "cache"}

\* The image of the URL was loaded, and is there unless the client took it away.
IsLoaded == imageLoaded /\ (image.url = url \/ image = NoImage)

IsDownloading(d) ==
  d = downloadIdentifier /\ downloads[d].at = "active" /\ downloads[d].url = url

\* A request reads the URL when it begins, and again when it has begun.
IsRequesting(r) ==
  \/ requests[r].at = "lookup" /\ currentLookup = r
  \/ requests[r].at \in {"found", "begin", "started"}

\* What the cache has for a URL of before is taken, as it has no identifier, or
\* was taken, and then the URL of now is not loaded.
CacheMisleads ==
  \/ \E r \in Requests :
       /\ requests[r].url # url
       /\ requests[r].at = "found" \/ (requests[r].at = "lookup" /\ currentLookup = r)
  \/ imageLoaded /\ image.by = "cache" /\ image.url # url

\* The identifier was stored after the download had answered (line 687): the node
\* waits for an answer that does not come.
AnswerMissed ==
  downloadIdentifier # None /\ downloads[downloadIdentifier].at = "none"

\* In the preload range, the image of the URL of now is loaded, has failed or is
\* under way, unless the cache answers for a URL of before, or a download before its
\* identifier is stored: no other order in which URLs are set, ranges left and
\* entered, and downloads started, cancelled and answered, forgets it.
ImageIsUnderWay ==
  /\ preload /\ url # NoURL /\ main = Free /\ setter = "idle" /\ ~queued
  /\ ~CacheMisleads /\ ~AnswerMissed
  => \/ IsLoaded \/ failed = url
     \/ \E r \in Requests : IsRequesting(r)
     \/ \E d \in Downloads : IsDownloading(d)

\* An image the client has set is displayed until the client says otherwise.
ClientImagesStay == imageWasSetExternally => image = ClientImage
===============================================================================
