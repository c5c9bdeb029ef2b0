-------------------------- MODULE NetworkImageProofs --------------------------
(* Proofs about a network image node whose downloader passes identifiers     *)
(* back, for any URLs and any number of requests and downloads under way.    *)
EXTENDS NetworkImage, TLAPS

AnyURL         == URLs \cup {NoURL}
RequestStates  == {"none", "lookup", "found", "begin", "started"}
DownloadStates == {"none", "active", "cancelled"}
Request        == [at: RequestStates, url: AnyURL, id: Downloads \cup {None}]
Download       == [at: DownloadStates, url: AnyURL]

LoadTypeOK ==
  /\ url \in AnyURL
  /\ downloadIdentifier \in Downloads \cup {None}
  /\ requests \in [Requests -> Request]
  /\ downloads \in [Downloads -> Download]

\* A download somebody is waiting for is of the URL u, if it has not answered yet.
Awaited(d, u) ==
  downloads[d].at # "none" => downloads[d].at = "active" /\ downloads[d].url = u

\* The download whose identifier is stored is of the URL of now.
StoredIsOwn == downloadIdentifier # None => Awaited(downloadIdentifier, url)

\* A request whose identifier has yet to be stored has a download of its own,
\* of the URL it has read.
StartedIsOwn ==
  \A r \in Requests :
    /\ requests[r].at = "started" <=> requests[r].id # None
    /\ requests[r].id # None =>
         /\ Awaited(requests[r].id, requests[r].url)
         /\ requests[r].id # downloadIdentifier
         /\ \A q \in Requests \ {r} : requests[q].id # requests[r].id

IInv == LoadTypeOK /\ DownloadedImageIsOwn /\ StoredIsOwn /\ StartedIsOwn

\* The URL that main has read, and the shape of an image.
URLsOK ==
  /\ url \in AnyURL /\ main.url \in AnyURL
  /\ image = [by |-> image.by, url |-> image.url]

LEMMA NoneIsNoDownload == None \notin Downloads
  BY DEF None, Downloads

LEMMA BeginIsRequest ==
  /\ BeginRequest \in Request /\ BeginRequest.id = None
  /\ BeginRequest.at = "begin"
  BY DEF BeginRequest, NoRequest, Request, RequestStates, AnyURL

LEMMA InitIInv == Init => IInv
<1> SUFFICES ASSUME Init PROVE IInv
  OBVIOUS
<1>1. NoRequest \in Request /\ NoDownload \in Download
  BY DEF NoRequest, NoDownload, Request, Download, RequestStates, DownloadStates,
         AnyURL
<1>2. LoadTypeOK
  BY <1>1 DEF Init, LoadTypeOK, AnyURL
<1>3. QED
  BY <1>2 DEF Init, IInv, DownloadedImageIsOwn, StoredIsOwn, StartedIsOwn, NoImage,
              NoRequest

\* Steps that leave the URL, the requests and the downloads alone, and take no
\* image from the downloader.
LEMMA Frame ==
  ASSUME IInv,
         UNCHANGED <<url, downloadIdentifier, downloads, requests>>,
         image' = image \/ image'.by \notin {"download", "progress"}
  PROVE  IInv'
  BY DEF IInv, LoadTypeOK, DownloadedImageIsOwn, StoredIsOwn, StartedIsOwn, Awaited

\* A request goes on that has no download before or after.
LEMMA RequestGoesOn ==
  ASSUME IInv,
         NEW r \in Requests, NEW req \in Request,
         requests[r].id = None, req.id = None, req.at # "started",
         requests' = [requests EXCEPT ![r] = req],
         downloadIdentifier' \in {downloadIdentifier, None},
         UNCHANGED <<url, downloads>>,
         image' = image \/ image'.by \notin {"download", "progress"}
  PROVE  IInv'
  BY DEF IInv, LoadTypeOK, DownloadedImageIsOwn, StoredIsOwn, StartedIsOwn, Awaited

\* The download that is stored is cancelled: no request has it.
LEMMA Cancelling ==
  ASSUME IInv,
         CancelImageDownload,
         url' \in AnyURL,
         \/ (image' = image /\ url' = url)
         \/ image'.by \notin {"download", "progress"} \/ image'.url = NoURL,
         UNCHANGED requests
  PROVE  IInv'
<1>1. downloadIdentifier' = None
  BY DEF CancelImageDownload
<1>2. CASE downloadIdentifier = None
  <2>1. UNCHANGED downloads
    BY <1>2 DEF CancelImageDownload, Cancelled
  <2>2. QED
    BY <1>1, <1>2, <2>1
    DEF IInv, LoadTypeOK, DownloadedImageIsOwn, StoredIsOwn, StartedIsOwn, Awaited
<1>3. CASE downloadIdentifier # None
  <2>1. downloadIdentifier \in Downloads
    BY <1>3 DEF IInv, LoadTypeOK
  <2>2. PICK dl \in Download : downloads' = [downloads EXCEPT ![downloadIdentifier] = dl]
    <3>1. downloads[downloadIdentifier] \in Download
      BY <2>1 DEF IInv, LoadTypeOK
    <3>2. [downloads[downloadIdentifier] EXCEPT !.at = "cancelled"] \in Download
      BY <3>1 DEF Download, DownloadStates
    <3>3. QED
      BY <1>3, <3>1, <3>2 DEF CancelImageDownload, Cancelled
  <2>3. LoadTypeOK'
    BY <1>1, <2>1, <2>2 DEF IInv, LoadTypeOK
  <2>4. \A r \in Requests : requests[r].id # None =>
          requests[r].id \in Downloads /\ downloads'[requests[r].id] = downloads[requests[r].id]
    BY <2>1, <2>2 DEF IInv, LoadTypeOK, StartedIsOwn, Request
  <2>5. QED
    BY <1>1, <2>3, <2>4
    DEF IInv, DownloadedImageIsOwn, StoredIsOwn, StartedIsOwn, Awaited
<1>4. QED
  BY <1>2, <1>3

\* The finished block gives up whatever download is stored.
LEMMA Accepting ==
  ASSUME IInv,
         NEW img, NEW u, Accept(img, u),
         img.by \notin {"download", "progress"},
         NEW r \in Requests, requests[r].id = None,
         requests' = requests \/ requests' = [requests EXCEPT ![r] = NoRequest],
         UNCHANGED downloads
  PROVE  IInv'
<1>1. /\ downloadIdentifier' = None /\ url' = url
      /\ image' = image \/ image' = img
  BY DEF Accept
<1>2. NoRequest \in Request /\ NoRequest.id = None /\ NoRequest.at # "started"
  BY DEF NoRequest, Request, RequestStates, AnyURL
<1>3. LoadTypeOK'
  BY <1>1, <1>2 DEF IInv, LoadTypeOK
<1>4. StartedIsOwn'
  BY <1>1, <1>2, NoneIsNoDownload
  DEF IInv, LoadTypeOK, StartedIsOwn, Awaited
<1>5. QED
  BY <1>1, <1>3, <1>4 DEF IInv, DownloadedImageIsOwn, StoredIsOwn

LEMMA ClientIInv == URLsOK /\ IInv /\ Client => IInv'
<1> SUFFICES ASSUME URLsOK, IInv, Client PROVE IInv'
  OBVIOUS
<1>1. ASSUME NEW u \in AnyURL, NEW reset \in BOOLEAN,
             SetURLOnMain(u, reset) \/ SetURLOffMain(u, reset)
      PROVE  IInv'
  <2>1. SetURL(u, reset)
    BY <1>1 DEF SetURLOnMain, SetURLOffMain
  <2>2. image'.url = NoURL
    <3>1. CASE reset \/ u = NoURL
      BY <2>1, <3>1 DEF SetURL, NoImage
    <3>2. CASE ~(reset \/ u = NoURL)
      <4>1. image' = [image EXCEPT !.url = NoURL]
        BY <2>1, <3>2, Zenon DEF SetURL
      <4>2. QED
        BY <4>1 DEF URLsOK
    <3>3. QED
      BY <3>1, <3>2
  <2>3. QED
    BY <2>1, <2>2, Cancelling DEF SetURL
<1>2. CASE SetImage
  <2>1. image'.by \notin {"download", "progress"}
    BY <1>2 DEF SetImage, ClientImage
  <2>2. CASE imageWasSetExternally
    BY <1>2, <2>1, <2>2, Frame DEF SetImage, loadVars
  <2>3. CASE ~imageWasSetExternally
    BY <1>2, <2>1, <2>3, Cancelling DEF SetImage, IInv, LoadTypeOK
  <2>4. QED
    BY <2>2, <2>3
<1>3. CASE ClearImage
  BY <1>3, Frame DEF ClearImage, NoImage, loadVars
<1>4. CASE EnterPreload \/ ExitPreload
  BY <1>4, Frame DEF EnterPreload, ExitPreload, loadVars
<1>5. QED
  BY <1>1, <1>2, <1>3, <1>4 DEF Client, AnyURL

LEMMA MainIInv == URLsOK /\ IInv /\ Main => IInv'
<1> SUFFICES ASSUME URLsOK, IInv, Main PROVE IInv'
  OBVIOUS
<1>1. CASE ClearOnExit
  BY <1>1, Cancelling
  DEF ClearOnExit, CancelDownloadAndClearImage, NoImage, IInv, LoadTypeOK
<1>2. CASE \/ DidExitPreloadState \/ RecursivelyPreload
           \/ LazilyLoadImageIfNecessary
  BY <1>2, Frame DEF DidExitPreloadState, RecursivelyPreload,
                     LazilyLoadImageIfNecessary, nodeVars, loadVars
<1>3. CASE Load
  <2> DEFINE r   == CHOOSE q \in Requests : requests[q] = NoRequest
             req == IF cache THEN [NoRequest EXCEPT !.at = "lookup", !.url = main.url]
                    ELSE BeginRequest
  <2>1. r \in Requests /\ requests[r].id = None
    <3>1. r \in Requests /\ requests[r] = NoRequest
      BY <1>3 DEF Load
    <3>2. QED
      BY <3>1 DEF NoRequest
  <2>2. req \in Request /\ req.id = None /\ req.at # "started"
    <3>1. CASE cache
      BY <3>1 DEF NoRequest, URLsOK, Request, RequestStates
    <3>2. CASE ~cache
      BY <3>2, BeginIsRequest
    <3>3. QED
      BY <3>1, <3>2
  <2>3. requests' = [requests EXCEPT ![r] = req]
    BY <1>3 DEF Load
  <2>4. UNCHANGED <<url, downloads, downloadIdentifier, image>>
    BY <1>3 DEF Load
  <2> HIDE DEF r, req
  <2>5. QED
    BY <2>1, <2>2, <2>3, <2>4, RequestGoesOn
<1>4. CASE FetchSynchronously
  BY <1>4, Frame DEF FetchSynchronously, loadVars
<1>5. QED
  BY <1>1, <1>2, <1>3, <1>4 DEF Main

LEMMA InitURLsOK == Init => URLsOK
  BY DEF Init, URLsOK, AnyURL, Free, NoImage

LEMMA NextURLsOK == URLsOK /\ [Next]_vars => URLsOK'
<1> SUFFICES ASSUME URLsOK, [Next]_vars PROVE URLsOK'
  OBVIOUS
<1> USE DEF URLsOK
<1>1. CASE UNCHANGED vars
  BY <1>1 DEF vars, nodeVars, mainVars
<1>2. CASE Client
  <2>1. \A at : [Free EXCEPT !.at = at].url \in AnyURL /\ Free.url \in AnyURL
    BY DEF Free, AnyURL
  <2>2. ASSUME NEW u \in AnyURL, NEW reset \in BOOLEAN,
               SetURLOnMain(u, reset) \/ SetURLOffMain(u, reset)
        PROVE  URLsOK'
    <3>1. url' = u /\ (image' = NoImage \/ image' = [image EXCEPT !.url = NoURL])
      BY <2>2, Zenon DEF SetURLOnMain, SetURLOffMain, SetURL
    <3>2. main' = main \/ main' = [Free EXCEPT !.at = "preload"] \/ main' = Free
      BY <2>2, Zenon DEF SetURLOnMain, SetURLOffMain
    <3>3. main'.url \in AnyURL
      BY <2>1, <3>2, Zenon
    <3>4. image' = [by |-> image'.by, url |-> image'.url]
      BY <3>1 DEF NoImage
    <3>5. QED
      BY <3>1, <3>3, <3>4
  <2>3. CASE SetImage \/ ClearImage
    BY <2>3 DEF SetImage, ClearImage, mainVars, NoImage, ClientImage
  <2>4. CASE EnterPreload \/ ExitPreload
    <3>1. /\ UNCHANGED <<url, image>>
          /\ main' = Free \/ \E at : main' = [Free EXCEPT !.at = at]
      BY <2>4, Zenon DEF EnterPreload, ExitPreload
    <3>2. QED
      BY <2>1, <3>1
  <2>5. QED
    BY <1>2, <2>2, <2>3, <2>4 DEF Client, AnyURL
<1>3. CASE Main
  <2>1. CASE \/ DidExitPreloadState \/ ClearOnExit \/ RecursivelyPreload
             \/ Load
    BY <2>1 DEF DidExitPreloadState, ClearOnExit, CancelDownloadAndClearImage,
                NoImage, RecursivelyPreload, Load, nodeVars, Free, AnyURL
  <2>2. CASE LazilyLoadImageIfNecessary
    BY <2>2 DEF LazilyLoadImageIfNecessary, nodeVars, Free, AnyURL, URLsOK
  <2>3. CASE FetchSynchronously
    BY <2>3 DEF FetchSynchronously, mainVars
  <2>4. QED
    BY <1>3, <2>1, <2>2, <2>3 DEF Main
<1>4. CASE SetNeedsPreload
  BY <1>4 DEF SetNeedsPreload, nodeVars
<1>5. ASSUME NEW r \in Requests, BeginDownload(r) \/ StoreIdentifier(r)
      PROVE  URLsOK'
  BY <1>5 DEF BeginDownload, StoreIdentifier, nodeVars, mainVars
<1>6. CASE Answers
  <2>1. UNCHANGED <<url, main>>
    BY <1>6 DEF Answers, LookupAnswers, FinishFromCache, FinishDownload, FallSilent,
                HandleProgressImage, Accept, nodeVars, mainVars
  <2>2. \/ image' = image \/ image' = NoImage
        \/ \E by, u : image' = [by |-> by, url |-> u]
    BY <1>6, Zenon
    DEF Answers, LookupAnswers, FinishFromCache, FinishDownload, FallSilent,
        HandleProgressImage, Accept, nodeVars
  <2>3. QED
    BY <2>1, <2>2 DEF NoImage
<1>7. QED
  BY <1>1, <1>2, <1>3, <1>4, <1>5, <1>6 DEF Next

LEMMA RequestIInv ==
  ASSUME URLsOK, IInv, NEW r \in Requests, BeginDownload(r) \/ StoreIdentifier(r)
  PROVE  IInv'
<1>1. CASE BeginDownload(r)
  <2> DEFINE isFree(d) == /\ downloads[d] = NoDownload /\ d # downloadIdentifier
                          /\ \A q \in Requests : requests[q].id # d
             d         == CHOOSE e \in Downloads : isFree(e)
  <2>1. d \in Downloads /\ isFree(d)
    BY <1>1 DEF BeginDownload
  <2>2. /\ downloads' = [downloads EXCEPT ![d] = [at |-> "active", url |-> url]]
        /\ requests' = [requests EXCEPT ![r] = [at |-> "started", url |-> url, id |-> d]]
        /\ UNCHANGED <<url, image, downloadIdentifier>>
    BY <1>1 DEF BeginDownload, nodeVars
  <2>3. requests[r].id = None
    BY <1>1 DEF BeginDownload, IInv, StartedIsOwn
  <2>4. /\ [at |-> "active", url |-> url] \in Download
        /\ [at |-> "started", url |-> url, id |-> d] \in Request
    BY <2>1 DEF URLsOK, Download, DownloadStates, Request, RequestStates
  <2> HIDE DEF d
  <2>5. LoadTypeOK'
    BY <2>1, <2>2, <2>4 DEF IInv, LoadTypeOK
  <2>6. StoredIsOwn'
    BY <2>1, <2>2 DEF IInv, LoadTypeOK, StoredIsOwn, Awaited
  <2>7. StartedIsOwn'
    BY <2>1, <2>2, <2>3, NoneIsNoDownload
    DEF IInv, LoadTypeOK, StartedIsOwn, Awaited, Request
  <2>8. QED
    BY <2>2, <2>5, <2>6, <2>7 DEF IInv, DownloadedImageIsOwn
<1>2. CASE StoreIdentifier(r)
  <2> DEFINE d == requests[r].id
  <2>1. d \in Downloads /\ Awaited(d, requests[r].url) /\ d # downloadIdentifier
    BY <1>2 DEF StoreIdentifier, IInv, LoadTypeOK, StartedIsOwn, Request
  <2>2. UNCHANGED <<url, image>>
    BY <1>2 DEF StoreIdentifier, nodeVars
  <2>3. CASE requests[r].url = url
    <3>1. /\ downloadIdentifier' = d /\ UNCHANGED downloads
          /\ requests' = [requests EXCEPT ![r] = NoRequest]
      BY <1>2, <2>3 DEF StoreIdentifier
    <3>2. NoRequest \in Request /\ NoRequest.id = None /\ NoRequest.at # "started"
      BY DEF NoRequest, Request, RequestStates, AnyURL
    <3>3. QED
      BY <2>1, <2>2, <2>3, <3>1, <3>2
      DEF IInv, LoadTypeOK, DownloadedImageIsOwn, StoredIsOwn, StartedIsOwn, Awaited
  <2>4. CASE requests[r].url # url
    <3>1. PICK dl \in Download : downloads' = [downloads EXCEPT ![d] = dl]
      <4>1. downloads[d] \in Download
        BY <2>1 DEF IInv, LoadTypeOK
      <4>2. [downloads[d] EXCEPT !.at = "cancelled"] \in Download
        BY <4>1 DEF Download, DownloadStates
      <4>3. QED
        BY <1>2, <2>1, <2>4, <4>1, <4>2, NoneIsNoDownload
        DEF StoreIdentifier, Cancelled
    <3>2. /\ UNCHANGED downloadIdentifier
          /\ requests' = [requests EXCEPT ![r] = BeginRequest]
      BY <1>2, <2>4 DEF StoreIdentifier
    <3>3. QED
      BY <2>1, <2>2, <3>1, <3>2, BeginIsRequest
      DEF IInv, LoadTypeOK, DownloadedImageIsOwn, StoredIsOwn, StartedIsOwn, Awaited
  <2>5. QED
    BY <2>3, <2>4
<1>3. QED
  BY <1>1, <1>2

\* Cancelled downloads, and those that have answered, are nobody's.
LEMMA AnswersIInv ==
  ASSUME NamesDownloads, URLsOK, IInv, Answers
  PROVE  IInv'
<1>1. ASSUME NEW r \in Requests, NEW found \in BOOLEAN, LookupAnswers(r, found)
      PROVE  IInv'
  <2>1. requests[r].id = None /\ requests[r] \in Request
    BY <1>1 DEF LookupAnswers, IInv, LoadTypeOK, StartedIsOwn
  <2>2. PICK req \in Request : /\ requests' = [requests EXCEPT ![r] = req]
                               /\ req.id = None /\ req.at # "started"
    <3>1. NoRequest \in Request /\ NoRequest.id = None /\ NoRequest.at # "started"
      BY DEF NoRequest, Request, RequestStates, AnyURL
    <3>2. LET hit == [requests[r] EXCEPT !.at = "found"] IN
          hit \in Request /\ hit.id = None /\ hit.at # "started"
      BY <2>1 DEF Request, RequestStates
    <3>3. \/ requests' = [requests EXCEPT ![r] = NoRequest]
          \/ requests' = [requests EXCEPT ![r] = BeginRequest]
          \/ requests' = [requests EXCEPT ![r] = [requests[r] EXCEPT !.at = "found"]]
      BY <1>1, Zenon DEF LookupAnswers
    <3>4. QED
      BY <3>1, <3>2, <3>3, BeginIsRequest
  <2>3. UNCHANGED <<url, downloads, downloadIdentifier, image>>
    BY <1>1 DEF LookupAnswers, nodeVars, loadVars
  <2>4. QED
    BY <2>1, <2>2, <2>3, RequestGoesOn
<1>2. ASSUME NEW r \in Requests, FinishFromCache(r)
      PROVE  IInv'
  <2>1. requests[r].id = None
    BY <1>2 DEF FinishFromCache, IInv, StartedIsOwn
  <2>2. QED
    BY <1>2, <2>1, Accepting DEF FinishFromCache
<1>3. ASSUME NEW d \in Downloads, NEW succeeded \in BOOLEAN,
             FinishDownload(d, succeeded)
      PROVE  IInv'
  <2> DEFINE img == IF succeeded
                    THEN [by |-> "download", url |-> downloads[d].url] ELSE NoImage
  <2>1. UNCHANGED <<url, requests>>
    BY <1>3 DEF FinishDownload, nodeVars, Accept
  <2>2. \/ UNCHANGED <<image, downloadIdentifier>> /\ d # downloadIdentifier
        \/ d = downloadIdentifier /\ Accept(img, downloads[d].url)
    BY <1>3, NoneIsNoDownload DEF FinishDownload, IsStale, nodeVars
  <2>3. DownloadedImageIsOwn'
    <3>1. CASE d # downloadIdentifier
      BY <2>1, <2>2, <3>1 DEF IInv, DownloadedImageIsOwn
    <3>2. CASE d = downloadIdentifier
      <4>1. downloads[d].url = url
        BY <1>3, <3>2, NoneIsNoDownload
        DEF FinishDownload, NoDownload, IInv, StoredIsOwn, Awaited
      <4>2. img.by = "download" => img.url = url
        BY <4>1 DEF NoImage
      <4>3. image' = image \/ image' = img
        BY <2>2, <3>2 DEF Accept
      <4>4. img.by # "progress"
        BY DEF NoImage
      <4> HIDE DEF img
      <4>5. QED
        BY <2>1, <4>2, <4>3, <4>4 DEF IInv, DownloadedImageIsOwn
    <3>3. QED
      BY <3>1, <3>2
  <2>4. downloadIdentifier' \in {downloadIdentifier, None} /\ downloadIdentifier' # d
    BY <2>2, NoneIsNoDownload DEF Accept
  <2>5. downloads' = [downloads EXCEPT ![d] = NoDownload] /\ NoDownload \in Download
    BY <1>3 DEF FinishDownload, NoDownload, Download, DownloadStates, AnyURL
  <2> HIDE DEF img
  <2>6. LoadTypeOK'
    BY <2>1, <2>4, <2>5 DEF IInv, LoadTypeOK
  <2>7. \A e \in Downloads, u \in AnyURL : Awaited(e, u) => Awaited(e, u)'
    BY <2>5 DEF IInv, LoadTypeOK, NoDownload, Awaited
  <2>8. StoredIsOwn' /\ StartedIsOwn'
    BY <2>1, <2>4, <2>7, NoneIsNoDownload
    DEF IInv, LoadTypeOK, StoredIsOwn, StartedIsOwn, Request
  <2>9. QED
    BY <2>3, <2>6, <2>8 DEF IInv
<1>4. ASSUME NEW d \in Downloads, FallSilent(d)
      PROVE  IInv'
  <2>1. NoDownload \in Download
    BY DEF NoDownload, Download, DownloadStates, AnyURL
  <2>2. QED
    BY <1>4, <2>1
    DEF FallSilent, nodeVars, IInv, LoadTypeOK, DownloadedImageIsOwn, StoredIsOwn,
        StartedIsOwn, Awaited
<1>5. ASSUME NEW d \in Downloads, HandleProgressImage(d)
      PROVE  IInv'
  <2>1. d = downloadIdentifier
    BY <1>5, NoneIsNoDownload DEF HandleProgressImage, IsStale
  <2>2. downloads[d].url = url
    BY <1>5, <2>1, NoneIsNoDownload
    DEF HandleProgressImage, NoDownload, IInv, StoredIsOwn, Awaited
  <2>3. QED
    BY <1>5, <2>2
    DEF HandleProgressImage, loadVars, IInv, LoadTypeOK, DownloadedImageIsOwn,
        StoredIsOwn, StartedIsOwn, Awaited
<1>6. QED
  BY <1>1, <1>2, <1>3, <1>4, <1>5 DEF Answers

LEMMA NextIInv ==
  ASSUME NamesDownloads, URLsOK, IInv, [Next]_vars
  PROVE  IInv'
<1>1. CASE UNCHANGED vars
  BY <1>1, Frame DEF vars, nodeVars, loadVars
<1>2. CASE SetNeedsPreload
  BY <1>2, Frame DEF SetNeedsPreload, nodeVars, loadVars
<1>3. CASE Client \/ Main
  BY <1>3, ClientIInv, MainIInv
<1>4. ASSUME NEW r \in Requests, BeginDownload(r) \/ StoreIdentifier(r)
      PROVE  IInv'
  BY <1>4, RequestIInv
<1>5. CASE Answers
  BY <1>5, AnswersIInv
<1>6. QED
  BY <1>1, <1>2, <1>3, <1>4, <1>5 DEF Next

\* The invariant holds throughout, if the downloader passes identifiers back.
THEOREM Invariance ==
  ASSUME NamesDownloads
  PROVE  Spec => []IInv
<1>1. Spec => []URLsOK
  BY InitURLsOK, NextURLsOK, PTL DEF Spec
<1>2. URLsOK /\ IInv /\ [Next]_vars => IInv'
  BY NextIInv
<1>3. QED
  BY <1>1, <1>2, InitIInv, PTL DEF Spec

\* With identifiers that come back, an image that was downloaded is that of the
\* URL of now.
THEOREM DownloadedImageIsAlwaysOwn ==
  ASSUME NamesDownloads
  PROVE  Spec => []DownloadedImageIsOwn
<1>1. IInv => DownloadedImageIsOwn
  BY DEF IInv
<1>2. QED
  BY Invariance, <1>1, PTL

-------------------------------------------------------------------------------
(* Outside the preload range.  While main is on its way out, what was taken   *)
(* will be cleared; afterwards nothing is taken any more.                     *)

\* What the finished block takes.
Taken == image.by \in {"download", "cache"}

\* Only a node outside the range is on its way out of it.
ExitIsOut == main.at \in {"exit", "clear"} => ~preload

ClearedInv == URLsOK /\ ExitIsOut /\ ClearedOutsidePreload

LEMMA InitCleared == Init => ClearedInv
  BY InitURLsOK DEF Init, ClearedInv, ExitIsOut, ClearedOutsidePreload, NoImage, Free

\* The same place, and nothing taken that was not there before.
LEMMA ClearedFrame ==
  ASSUME ClearedInv,
         UNCHANGED <<preload, main>>,
         imageWasSetExternally => imageWasSetExternally',
         Taken' => Taken \/ preload \/ imageWasSetExternally'
  PROVE  ExitIsOut' /\ ClearedOutsidePreload'
  BY DEF ClearedInv, ExitIsOut, ClearedOutsidePreload, Taken

LEMMA ClientCleared ==
  ASSUME ClearedInv, Client
  PROVE  ExitIsOut' /\ ClearedOutsidePreload'
<1> USE DEF ClearedInv, ExitIsOut, ClearedOutsidePreload
<1>1. ASSUME NEW u \in AnyURL, NEW reset \in BOOLEAN,
             SetURLOnMain(u, reset) \/ SetURLOffMain(u, reset)
      PROVE  ExitIsOut' /\ ClearedOutsidePreload'
  <2>1. /\ UNCHANGED <<preload, imageWasSetExternally>>
        /\ image' = NoImage \/ image' = [image EXCEPT !.url = NoURL]
    BY <1>1, Zenon DEF SetURLOnMain, SetURLOffMain, SetURL
  <2>2. image'.by \in {"none", image.by}
    BY <2>1 DEF NoImage, URLsOK
  <2>3. main' = main \/ (main = Free /\ main'.at \in {"free", "preload"})
    <3>1. \/ main' = main
          \/ main = Free /\ (main' = Free \/ main' = [Free EXCEPT !.at = "preload"])
      BY <1>1, Zenon DEF SetURLOnMain, SetURLOffMain
    <3>2. QED
      BY <3>1 DEF Free
  <2>4. QED
    BY <2>1, <2>2, <2>3 DEF Free
<1>2. CASE SetImage
  BY <1>2 DEF SetImage, mainVars
<1>3. CASE ClearImage
  BY <1>3 DEF ClearImage, NoImage, mainVars
<1>4. CASE EnterPreload \/ ExitPreload
  BY <1>4 DEF EnterPreload, ExitPreload, Free
<1>5. QED
  BY <1>1, <1>2, <1>3, <1>4 DEF Client, AnyURL

LEMMA NextCleared == ClearedInv /\ [Next]_vars => ClearedInv'
<1> SUFFICES ASSUME ClearedInv, [Next]_vars
             PROVE  ExitIsOut' /\ ClearedOutsidePreload'
  BY NextURLsOK DEF ClearedInv
<1>1. CASE UNCHANGED vars
  BY <1>1, ClearedFrame DEF vars, nodeVars, mainVars, Taken
<1>2. CASE Client
  BY <1>2, ClientCleared
<1>3. CASE DidExitPreloadState
  BY <1>3 DEF DidExitPreloadState, nodeVars, ClearedInv, ExitIsOut,
              ClearedOutsidePreload, Free
<1>4. CASE ClearOnExit
  BY <1>4 DEF ClearOnExit, CancelDownloadAndClearImage, NoImage, ClearedInv,
              ExitIsOut, ClearedOutsidePreload, Free
<1>5. CASE RecursivelyPreload \/ LazilyLoadImageIfNecessary \/ Load
  BY <1>5 DEF RecursivelyPreload, LazilyLoadImageIfNecessary, Load, nodeVars, Free,
              ClearedInv, ExitIsOut, ClearedOutsidePreload
<1>6. CASE FetchSynchronously
  BY <1>6, ClearedFrame DEF FetchSynchronously, mainVars, Taken
<1>7. CASE SetNeedsPreload
  BY <1>7, ClearedFrame DEF SetNeedsPreload, nodeVars, Taken
<1>8. ASSUME NEW r \in Requests, BeginDownload(r) \/ StoreIdentifier(r)
      PROVE  ExitIsOut' /\ ClearedOutsidePreload'
  BY <1>8, ClearedFrame DEF BeginDownload, StoreIdentifier, nodeVars, mainVars, Taken
<1>9. CASE Answers
  <2>1. UNCHANGED <<preload, main, imageWasSetExternally>>
    BY <1>9 DEF Answers, LookupAnswers, FinishFromCache, FinishDownload, FallSilent,
                HandleProgressImage, Accept, nodeVars, mainVars
  <2>2. preload \/ image' = image \/ image'.by = "progress"
    BY <1>9 DEF Answers, LookupAnswers, FinishFromCache, FinishDownload, FallSilent,
                HandleProgressImage, Accept, nodeVars
  <2>3. QED
    BY <2>1, <2>2, ClearedFrame DEF Taken
<1>10. QED
  BY <1>1, <1>2, <1>3, <1>4, <1>5, <1>6, <1>7, <1>8, <1>9 DEF Next, Main

\* Once a managed node is out of the preload range nothing is left of what the
\* answers of the cache and of the downloader brought, whichever way the downloader
\* answers, and however late.
THEOREM AlwaysClearedOutsidePreload == Spec => []ClearedOutsidePreload
<1>1. ClearedInv => ClearedOutsidePreload
  BY DEF ClearedInv
<1>2. QED
  BY <1>1, InitCleared, NextCleared, PTL DEF Spec

-------------------------------------------------------------------------------
(* In the preload range.  Somebody still looks for the image: main, which was *)
(* asked to, the request that it made, or the download that is stored.        *)

Asked == setter # "idle" \/ queued

\* Only the cache brings an image of another URL.
LoadedIsOwn ==
  imageLoaded => image.url = url \/ image = NoImage \/ image.by = "cache"

InSight ==
  \/ imageLoaded \/ failed = url
  \/ downloadIdentifier # None
  \/ \E r \in Requests : IsRequesting(r)
  \/ main.at \in {"preload", "load"}
  \/ Asked

SightInv == ExitIsOut /\ LoadedIsOwn /\ (preload /\ url # NoURL => InSight)

LEMMA InitSightInv == Init => SightInv
  BY DEF Init, SightInv, ExitIsOut, LoadedIsOwn, Free

\* Steps that leave alone what SightInv is about.
LEMMA SightFrame ==
  ASSUME SightInv,
         UNCHANGED <<url, image, imageLoaded, failed, preload, downloadIdentifier,
                     currentLookup, requests, main, setter, queued>>
  PROVE  SightInv'
  BY DEF SightInv, ExitIsOut, LoadedIsOwn, InSight, Asked, IsRequesting

LEMMA ClientSightInv == SightInv /\ Client => SightInv'
<1> SUFFICES ASSUME SightInv, Client PROVE SightInv'
  OBVIOUS
<1> USE DEF SightInv, ExitIsOut, LoadedIsOwn
<1>1. ASSUME NEW u \in AnyURL, NEW reset \in BOOLEAN, SetURLOnMain(u, reset)
      PROVE  SightInv'
  BY <1>1 DEF SetURLOnMain, SetURL, InSight, Free
<1>2. ASSUME NEW u \in AnyURL, NEW reset \in BOOLEAN, SetURLOffMain(u, reset)
      PROVE  SightInv'
  BY <1>2 DEF SetURLOffMain, SetURL, InSight, Asked
<1>3. CASE SetImage
  BY <1>3 DEF SetImage, ClientImage, mainVars, Asked
<1>4. CASE ClearImage
  BY <1>4 DEF ClearImage, loadVars, mainVars, InSight, Asked, IsRequesting
<1>5. CASE EnterPreload \/ ExitPreload
  BY <1>5 DEF EnterPreload, ExitPreload, InSight, Free
<1>6. QED
  BY <1>1, <1>2, <1>3, <1>4, <1>5 DEF Client, AnyURL

LEMMA MainSightInv == IInv /\ SightInv /\ Main => SightInv'
<1> SUFFICES ASSUME IInv, SightInv, Main PROVE SightInv'
  OBVIOUS
<1> USE DEF SightInv, ExitIsOut, LoadedIsOwn
<1>1. CASE DidExitPreloadState
  BY <1>1 DEF DidExitPreloadState, nodeVars, Free
<1>2. CASE ClearOnExit
  BY <1>2 DEF ClearOnExit, CancelDownloadAndClearImage, Free
<1>3. CASE RecursivelyPreload
  BY <1>3 DEF RecursivelyPreload, nodeVars, InSight, Free
<1>4. CASE LazilyLoadImageIfNecessary
  BY <1>4 DEF LazilyLoadImageIfNecessary, nodeVars, loadVars, InSight, Asked,
              IsRequesting, Free
<1>5. CASE Load
  <2> DEFINE free == CHOOSE q \in Requests : requests[q] = NoRequest
  <2>1. PICK r \in Requests : r = free
    BY <1>5 DEF Load
  <2>2. /\ requests' = [requests EXCEPT
             ![r] = IF cache THEN [NoRequest EXCEPT !.at = "lookup", !.url = main.url]
                    ELSE BeginRequest]
        /\ currentLookup' = IF cache THEN r ELSE currentLookup
        /\ main.at = "load" /\ main' = Free
        /\ UNCHANGED <<url, image, imageLoaded, preload, setter, queued>>
    BY <1>5, <2>1 DEF Load
  <2>3. IsRequesting(r)'
    <3>1. CASE cache
      <4>1. /\ requests'[r] = [NoRequest EXCEPT !.at = "lookup", !.url = main.url]
            /\ currentLookup' = r
        BY <2>2, <3>1 DEF IInv, LoadTypeOK
      <4>2. QED
        BY <4>1 DEF NoRequest, IsRequesting
    <3>2. CASE ~cache
      <4>1. requests'[r] = BeginRequest
        BY <2>2, <3>2 DEF IInv, LoadTypeOK
      <4>2. QED
        BY <4>1, BeginIsRequest DEF IsRequesting
    <3>3. QED
      BY <3>1, <3>2
  <2>4. QED
    BY <2>2, <2>3 DEF InSight, Free
<1>6. CASE FetchSynchronously
  BY <1>6 DEF FetchSynchronously, loadVars, mainVars, InSight, Asked
<1>7. QED
  BY <1>1, <1>2, <1>3, <1>4, <1>5, <1>6 DEF Main

\* A request goes on, until its download is stored.
LEMMA RequestSightInv ==
  ASSUME IInv, SightInv, NEW r \in Requests, BeginDownload(r) \/ StoreIdentifier(r)
  PROVE  SightInv'
<1> USE DEF SightInv, ExitIsOut, LoadedIsOwn
<1>1. UNCHANGED <<url, image, imageLoaded, failed, preload, currentLookup, main,
                  setter, queued>>
  BY DEF BeginDownload, StoreIdentifier, nodeVars, mainVars
<1>2. CASE downloadIdentifier' # None
  BY <1>1, <1>2 DEF InSight, Asked
<1>3. CASE downloadIdentifier' = None
  <2>1. downloadIdentifier = None
    BY <1>3, NoneIsNoDownload
    DEF BeginDownload, StoreIdentifier, IInv, StartedIsOwn
  <2>2. PICK req : requests' = [requests EXCEPT ![r] = req] /\ req.at \in {"begin", "started"}
    <3>1. CASE BeginDownload(r)
      <4>1. PICK id : requests' = [requests EXCEPT
                                     ![r] = [at |-> "started", url |-> url, id |-> id]]
        BY <3>1, Zenon DEF BeginDownload
      <4>2. [at |-> "started", url |-> url, id |-> id].at = "started"
        OBVIOUS
      <4>3. QED
        BY <4>1, <4>2, Zenon
    <3>2. CASE StoreIdentifier(r)
      <4>1. requests[r].id # None
        BY <3>2 DEF StoreIdentifier, IInv, StartedIsOwn
      <4>2. QED
        BY <1>3, <3>2, <4>1, BeginIsRequest DEF StoreIdentifier
    <3>3. QED
      BY <3>1, <3>2
  <2>3. \A q \in Requests : IsRequesting(q) => IsRequesting(q)'
    <3>1. \A q \in Requests : requests'[q] = IF q = r THEN req ELSE requests[q]
      BY <2>2 DEF IInv, LoadTypeOK
    <3>2. QED
      BY <1>1, <2>2, <3>1 DEF IsRequesting
  <2>4. QED
    BY <1>1, <2>1, <2>3 DEF InSight, Asked
<1>4. QED
  BY <1>2, <1>3

\* An answer that is taken shows the image or the failure.
LEMMA AcceptSightInv ==
  ASSUME SightInv,
         NEW img, NEW u, Accept(img, u), UNCHANGED mainVars,
         img = NoImage => u = url,
         img.url = url \/ img.by = "cache" \/ img = NoImage
  PROVE  SightInv'
BY DEF SightInv, ExitIsOut, LoadedIsOwn, InSight, Accept, Asked, mainVars

LEMMA AnswersSightInv ==
  ASSUME NamesDownloads, IInv, SightInv, Answers
  PROVE  SightInv'
<1>1. ASSUME NEW r \in Requests, NEW found \in BOOLEAN, LookupAnswers(r, found)
      PROVE  SightInv'
  <2>1. \A q \in Requests \ {r} : requests'[q] = requests[q]
    BY <1>1 DEF LookupAnswers, IInv, LoadTypeOK
  <2>2. IsRequesting(r) => IsRequesting(r)'
    <3>1. SUFFICES ASSUME currentLookup = r PROVE requests'[r].at \in {"found", "begin"}
      BY <1>1 DEF LookupAnswers, IsRequesting
    <3>2. requests[r] \in Request
      BY DEF IInv, LoadTypeOK
    <3>3. \/ requests' = [requests EXCEPT ![r] = BeginRequest]
          \/ requests' = [requests EXCEPT ![r] = [requests[r] EXCEPT !.at = "found"]]
      BY <1>1, <3>1, Zenon DEF LookupAnswers
    <3>4. QED
      BY <3>2, <3>3, BeginIsRequest DEF Request, IInv, LoadTypeOK
  <2>3. \A q \in Requests : IsRequesting(q) => IsRequesting(q)'
    BY <1>1, <2>1, <2>2 DEF LookupAnswers, nodeVars, loadVars, IsRequesting
  <2>4. QED
    BY <1>1, <2>3
    DEF LookupAnswers, nodeVars, loadVars, mainVars, SightInv, ExitIsOut,
        LoadedIsOwn, InSight, Asked
<1>2. ASSUME NEW r \in Requests, FinishFromCache(r)
      PROVE  SightInv'
  <2> DEFINE img == [by |-> "cache", url |-> requests[r].url]
  <2>1. img.by = "cache" /\ img # NoImage
    BY DEF NoImage
  <2>2. Accept(img, requests[r].url) /\ UNCHANGED mainVars
    BY <1>2 DEF FinishFromCache
  <2> HIDE DEF img
  <2>3. QED
    BY <2>1, <2>2, AcceptSightInv
<1>3. ASSUME NEW d \in Downloads, NEW succeeded \in BOOLEAN,
             FinishDownload(d, succeeded)
      PROVE  SightInv'
  <2> DEFINE img == IF succeeded
                    THEN [by |-> "download", url |-> downloads[d].url] ELSE NoImage
  <2>1. CASE d # downloadIdentifier
    <3>1. IsStale(d)
      BY <2>1, NoneIsNoDownload DEF IsStale
    <3>2. QED
      BY <1>3, <3>1, SightFrame DEF FinishDownload, nodeVars, mainVars
  <2>2. CASE d = downloadIdentifier
    <3>1. downloads[d].url = url
      BY <1>3, <2>2, NoneIsNoDownload
      DEF FinishDownload, NoDownload, IInv, StoredIsOwn, Awaited
    <3>2. Accept(img, url) /\ UNCHANGED mainVars
      BY <1>3, <2>2, <3>1 DEF FinishDownload, IsStale
    <3>3. img.url = url \/ img = NoImage
      BY <3>1
    <3> HIDE DEF img
    <3>4. QED
      BY <3>2, <3>3, AcceptSightInv
  <2>3. QED
    BY <2>1, <2>2
<1>4. ASSUME NEW d \in Downloads, FallSilent(d)
      PROVE  SightInv'
  BY <1>4, SightFrame DEF FallSilent, nodeVars, mainVars
<1>5. ASSUME NEW d \in Downloads, HandleProgressImage(d)
      PROVE  SightInv'
  <2>1. d = downloadIdentifier
    BY <1>5, NoneIsNoDownload DEF HandleProgressImage, IsStale
  <2>2. downloads[d].url = url
    BY <1>5, <2>1, NoneIsNoDownload
    DEF HandleProgressImage, NoDownload, IInv, StoredIsOwn, Awaited
  <2>3. QED
    BY <1>5, <2>1, <2>2, NoneIsNoDownload
    DEF HandleProgressImage, loadVars, mainVars, SightInv, ExitIsOut, LoadedIsOwn,
        InSight
<1>6. QED
  BY <1>1, <1>2, <1>3, <1>4, <1>5 DEF Answers

LEMMA NextSightInv ==
  ASSUME NamesDownloads
  PROVE  IInv /\ SightInv /\ [Next]_vars => SightInv'
<1> SUFFICES ASSUME IInv, SightInv, [Next]_vars PROVE SightInv'
  OBVIOUS
<1>1. CASE UNCHANGED vars
  BY <1>1, SightFrame DEF vars, nodeVars, loadVars, mainVars
<1>2. CASE SetNeedsPreload
  BY <1>2 DEF SetNeedsPreload, nodeVars, SightInv, ExitIsOut, LoadedIsOwn, InSight,
              Asked, loadVars, IsRequesting
<1>3. QED
  BY <1>1, <1>2, ClientSightInv, MainSightInv, RequestSightInv, AnswersSightInv
  DEF Next

\* In the preload range the image of the URL of now is there, has failed or is under
\* way, if the downloader passes its identifiers back, unless the cache answers for a
\* URL of before, or a download before its identifier is stored.
THEOREM ImageIsAlwaysUnderWay ==
  ASSUME NamesDownloads
  PROVE  Spec => []ImageIsUnderWay
<1>1. Spec => []IInv
  BY Invariance
<1>2. IInv /\ SightInv => ImageIsUnderWay
  <2> SUFFICES ASSUME IInv, SightInv,
                      preload, url # NoURL, main = Free, setter = "idle", ~queued,
                      ~CacheMisleads, ~AnswerMissed
               PROVE  \/ IsLoaded \/ failed = url
                      \/ \E r \in Requests : IsRequesting(r)
                      \/ \E d \in Downloads : IsDownloading(d)
    BY DEF ImageIsUnderWay
  <2>1. CASE imageLoaded
    BY <2>1 DEF SightInv, LoadedIsOwn, CacheMisleads, IsLoaded
  <2>2. CASE downloadIdentifier # None
    <3>1. downloadIdentifier \in Downloads /\ Awaited(downloadIdentifier, url)
      BY <2>2 DEF IInv, LoadTypeOK, StoredIsOwn
    <3>2. IsDownloading(downloadIdentifier)
      BY <2>2, <3>1 DEF Awaited, AnswerMissed, IsDownloading
    <3>3. QED
      BY <3>1, <3>2
  <2>3. QED
    BY <2>1, <2>2 DEF SightInv, InSight, Asked, Free
<1>3. QED
  BY <1>1, <1>2, InitSightInv, NextSightInv, PTL DEF Spec
===============================================================================
