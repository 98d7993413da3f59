------------------------------- MODULE HttpSite -------------------------------
(***************************************************************************)
(* The fallback site: what StaticSite::try_load makes of the files on disk *)
(* (src/route/fallback.rs), and what handle_http answers and counts for    *)
(* each request (src/route/serve.rs).                                      *)
(*                                                                         *)
(* The site is read once per start of the process, file by file, each      *)
(* file's bytes before its metadata, while whoever deploys it may still be *)
(* writing.  A content is its size and an identity.  A name is what stands *)
(* before a question mark, and whether there is one.  Two requests of one  *)
(* HTTP/2 connection, or of two connections, run at once and each counter  *)
(* is a step of its own.  (Relaxed atomics may show their increments to    *)
(* another thread in another order; the properties compare the counters    *)
(* as the requests made them, not as a scrape loads them.)  The walk into  *)
(* subdirectories, content types and the headers that every response has   *)
(* are left out.                                                           *)
(***************************************************************************)
EXTENDS Integers, FiniteSets, Functions

CONSTANTS
  Stems,                      \* paths, up to the first question mark
  Root, Index, NotFoundPage,  \* "/", "/index.html" and "/404.html"
  Files,                      \* names that static_dir may hold
  Asked,                      \* names that clients ask for
  Contents, Size,             \* what a file may contain, and how many bytes that is
  Seconds,                    \* modification times, to the second
  Version,                    \* what a file may be: its content and its time
  Streams,                    \* requests that run at once
  DefaultSize, RefusalSize,   \* bytes of DEFAULT_404_HTML and of the 405 page
  None,
  MaxEdits, MaxLoads, MaxRequests

Names == Stems \X BOOLEAN
Plain(stem) == <<stem, FALSE>>

ASSUME NamesAssumption ==
  /\ {Root, Index, NotFoundPage} \subseteq Stems /\ Root # Index
  /\ Plain(Index) \in Files /\ Files \subseteq Names
  /\ Asked \subseteq Names
ASSUME SizesAssumption == Size \in [Contents -> Nat] /\ DefaultSize \in Nat /\ RefusalSize \in Nat

ASSUME VersionAssumption == Version \subseteq [content : Contents, mtime : Seconds]

ASSUME StreamsAssumption == IsFiniteSet(Streams)
ASSUME NoneAssumption == None \notin Nat

VARIABLES
  disk,      \* static_dir: the version of each file, or None
  versions,  \* every version each file has had
  up,        \* walking, serving, failed
  todo,      \* files that the walk may still come to
  reading,   \* the file it is at, and its bytes once read
  site,      \* StaticSite.files
  request,   \* each stream's request and its response
  copy,      \* what a browser keeps of each name
  stats,     \* the counters
  shipped,   \* bytes of the bodies handed to hyper
  edits, loads, requests  \* how many there were: bounds only

diskVars   == <<disk, versions, edits>>
loadVars   == <<up, todo, reading, site, loads>>
serveVars  == <<request, stats, shipped, requests>>
vars       == <<diskVars, loadVars, serveVars, copy>>

Methods  == {"GET", "HEAD", "OPTIONS", "other"}
Statuses == {"200", "204", "304", "404", "405"}
Counters == Methods \cup Statuses \cup {"bytes"}

Etag(size, mtime) == <<mtime, size>>

Etags    == Seconds \X Range(Size)
Entry    == [content : Contents, etag : Etags]
Idle     == [at |-> "idle"]
Response == [status : Statuses, length : Nat \cup {None}, body : Nat, entry : Entry \cup {None}]

Request ==
  {Idle}
  \cup [at : {"counted"}, method : Methods, name : Names, held : Entry \cup {None}]
  \cup [at : {"answered"}, method : Methods, name : Names, held : Entry \cup {None}, response : Response]

TypeOK ==
  /\ disk \in [Files -> Version \cup {None}]
  /\ versions \in [Files -> SUBSET Version]
  /\ up \in {"walking", "serving", "failed"} /\ todo \subseteq Files
  /\ reading \in [file : Files, bytes : Contents \cup {None}] \cup {None}
  /\ DOMAIN site \subseteq Files /\ \A f \in DOMAIN site : site[f] \in Entry
  /\ request \in [Streams -> Request]
  /\ copy \in [Names -> Entry \cup {None}]
  /\ stats \in [Counters -> Nat] /\ shipped \in Nat

NothingServed ==
  /\ request = [s \in Streams |-> Idle]
  /\ stats = [k \in Counters |-> 0] /\ shipped = 0

Init ==
  /\ disk \in [Files -> Version \cup {None}]
  /\ disk[Plain(Index)] # None
  /\ \A f \in Files \ {Plain(Index)} : disk[f] = None
  /\ versions = [f \in Files |-> {disk[f]} \ {None}]
  /\ up = "walking" /\ todo = Files /\ reading = None /\ site = <<>>
  /\ NothingServed
  /\ copy = [n \in Names |-> None]
  /\ edits = 0 /\ loads = 1 /\ requests = 0

------------------------------------------------------------------------------
(* Whoever deploys the site renames a file into place or removes one; what  *)
(* modification time it has is up to the tool.                              *)
Write(f, v) ==
  /\ edits < MaxEdits
  /\ v # disk[f]
  /\ disk' = [disk EXCEPT ![f] = v]
  /\ versions' = [versions EXCEPT ![f] = @ \cup ({v} \ {None})]
  /\ edits' = edits + 1
  /\ UNCHANGED <<loadVars, serveVars, copy>>

------------------------------------------------------------------------------
(* walk_dir, in whatever order read_dir lists the files *)

Come(f) ==
  /\ up = "walking" /\ reading = None
  /\ f \in todo
  /\ todo' = todo \ {f}
  /\ reading' = IF disk[f] = None THEN None ELSE [file |-> f, bytes |-> None]
  /\ UNCHANGED <<up, site, loads, diskVars, serveVars, copy>>

Fail == up' = "failed" /\ UNCHANGED <<todo, reading, site>>

ReadBytes ==
  /\ up = "walking" /\ reading # None /\ reading.bytes = None
  /\ LET now == disk[reading.file]
     IN  IF now = None
           THEN Fail
           ELSE reading' = [reading EXCEPT !.bytes = now.content] /\ UNCHANGED <<up, todo, site>>
  /\ UNCHANGED <<loads, diskVars, serveVars, copy>>

With(f, e) == [g \in DOMAIN site \cup {f} |-> IF g = f THEN e ELSE site[g]]

(* Definitions named Mut... are slips the properties must catch; each one   *)
(* is a variant of the definition that follows it and is used nowhere else. *)
MutReadMetadata ==  \* make_etag's arguments swapped
  /\ up = "walking" /\ reading # None /\ reading.bytes # None
  /\ LET now == disk[reading.file]
     IN  IF now = None
           THEN Fail
           ELSE /\ site' = With(reading.file, [content |-> reading.bytes, etag |-> Etag(now.mtime, Size[reading.bytes])])
                /\ reading' = None
                /\ UNCHANGED <<up, todo>>
  /\ UNCHANGED <<loads, diskVars, serveVars, copy>>

ReadMetadata ==
  /\ up = "walking" /\ reading # None /\ reading.bytes # None
  /\ LET now == disk[reading.file]
     IN  IF now = None
           THEN Fail
           ELSE /\ site' = With(reading.file,
                                [content |-> reading.bytes,
                                 etag |-> Etag(Size[reading.bytes], now.mtime)])
                /\ reading' = None
                /\ UNCHANGED <<up, todo>>
  /\ UNCHANGED <<loads, diskVars, serveVars, copy>>

MutLoaded ==  \* any file will do
  /\ up = "walking" /\ todo = {} /\ reading = None
  /\ up' = IF site # <<>> THEN "serving" ELSE "failed"
  /\ UNCHANGED <<todo, reading, site, loads, diskVars, serveVars, copy>>

(* a site without an index.html is an error, and main returns it *)
Loaded ==
  /\ up = "walking" /\ todo = {} /\ reading = None
  /\ up' = IF Plain(Index) \in DOMAIN site THEN "serving" ELSE "failed"
  /\ UNCHANGED <<todo, reading, site, loads, diskVars, serveVars, copy>>

(* the process ends, in whatever state, and systemd starts it anew *)
Restart ==
  /\ loads < MaxLoads
  /\ up' = "walking" /\ todo' = Files /\ reading' = None /\ site' = <<>>
  /\ loads' = loads + 1
  /\ request' = [s \in Streams |-> Idle]
  /\ stats' = [k \in Counters |-> 0] /\ shipped' = 0
  /\ UNCHANGED <<diskVars, requests, copy>>

------------------------------------------------------------------------------
(* handle_http: the method's counter; the answer and its status's counter;  *)
(* its length.  Nothing is awaited in between.                              *)

(* percent-decoded, up to a question mark *)
Key(name) == Plain(IF name[1] = Root THEN Index ELSE name[1])

Found(name) == Key(name) \in DOMAIN site

(* A browser may revalidate what it keeps; If-None-Match is compared whole, *)
(* so a list, a weak tag or "*" is as good as none.                         *)
CountMethod(s, method, name, held) ==
  /\ up = "serving" /\ requests < MaxRequests
  /\ request[s].at = "idle"
  /\ request' = [request EXCEPT ![s] =
                  [at |-> "counted", method |-> method, name |-> name, held |-> held]]
  /\ stats' = [stats EXCEPT ![method] = @ + 1]
  /\ requests' = requests + 1
  /\ UNCHANGED <<diskVars, loadVars, copy, shipped>>

(* HEAD has the length of a body, and no body *)
Full(method, status, size, entry) ==
  [status |-> status, length |-> size, body |-> IF method = "HEAD" THEN 0 ELSE size, entry |-> entry]

Empty(status, length, entry) == [status |-> status, length |-> length, body |-> 0, entry |-> entry]

MutFileResponse(r) ==  \* If-Modified-Since in its place
  LET e == site[Key(r.name)]
  IN  IF r.held # None /\ r.held.etag[1] = e.etag[1]
        THEN Empty("304", None, e)
        ELSE Full(r.method, "200", Size[e.content], e)

FileResponse(r) ==
  LET e == site[Key(r.name)]
  IN  IF r.held # None /\ r.held.etag = e.etag
        THEN Empty("304", None, e)
        ELSE Full(r.method, "200", Size[e.content], e)

NotFoundSize ==
  IF Plain(NotFoundPage) \in DOMAIN site THEN Size[site[Plain(NotFoundPage)].content] ELSE DefaultSize

Answer(r) ==
  IF r.method = "OPTIONS" THEN Empty("204", 0, None)
  ELSE IF r.method = "other" THEN Full("other", "405", RefusalSize, None)
  ELSE IF Found(r.name) THEN FileResponse(r)
  ELSE Full(r.method, "404", NotFoundSize, None)

Answered(r, a) ==
  [at |-> "answered", method |-> r.method, name |-> r.name, held |-> r.held, response |-> a]

MutCountStatus(s) ==  \* what a HEAD is answered not counted
  /\ request[s].at = "counted"
  /\ LET a == Answer(request[s])
     IN  /\ request' = [request EXCEPT ![s] = Answered(@, a)]
         /\ stats' = IF request[s].method = "HEAD" THEN stats ELSE [stats EXCEPT ![a.status] = @ + 1]
  /\ UNCHANGED <<diskVars, loadVars, copy, shipped, requests>>

CountStatus(s) ==
  /\ request[s].at = "counted"
  /\ LET a == Answer(request[s])
     IN  /\ request' = [request EXCEPT ![s] = Answered(@, a)]
         /\ stats' = [stats EXCEPT ![a.status] = @ + 1]
  /\ UNCHANGED <<diskVars, loadVars, copy, shipped, requests>>

MutLengthOf(a) == IF a.status = "200" THEN a.length ELSE 0  \* files only
LengthOf(a)    == IF a.length = None THEN 0 ELSE a.length

(* Content-Length is counted, the response handed to hyper, and a browser   *)
(* keeps a 200 it gets to a GET.                                            *)
CountBytes(s) ==
  /\ request[s].at = "answered"
  /\ LET r == request[s]
         a == r.response
     IN  /\ stats' = [stats EXCEPT !["bytes"] = @ + LengthOf(a)]
         /\ shipped' = shipped + a.body
         /\ \/ r.method = "GET" /\ a.status = "200" /\ copy' = [copy EXCEPT ![r.name] = a.entry]
            \/ UNCHANGED copy
  /\ request' = [request EXCEPT ![s] = Idle]
  /\ UNCHANGED <<diskVars, loadVars, requests>>

(* nothing to do until someone asks, deploys or restarts *)
Waits == up # "walking" /\ (\A s \in Streams : request[s] = Idle) /\ UNCHANGED vars

Next ==
  \/ \E f \in Files : (\E v \in Version \cup {None} : Write(f, v)) \/ Come(f)
  \/ ReadBytes \/ ReadMetadata \/ Loaded \/ Restart
  \/ \E s \in Streams :
       \/ \E m \in Methods, n \in Asked : \E held \in {None, copy[n]} :
           CountMethod(s, m, n, held)
       \/ CountStatus(s) \/ CountBytes(s)
  \/ Waits

Spec == Init /\ [][Next]_vars

------------------------------------------------------------------------------
(* "Let the browser revalidate against the ETag every time" (serve.rs): a   *)
(* browser told that what it keeps is still right has what the site holds,  *)
(* restarts with a changed directory included.  Two versions of a file with *)
(* one size and one second share their ETag, and so may two loads of it if  *)
(* a file was replaced between the read of its bytes and of its metadata.   *)
Genuine(f, e) == [content |-> e.content, mtime |-> e.etag[1]] \in versions[f]

Twins(f) == \E v, w \in versions[f] :
  v.content # w.content /\ Size[v.content] = Size[w.content] /\ v.mtime = w.mtime

NotModifiedIsTrue ==
  \A s \in Streams :
    request[s].at = "answered" /\ request[s].response.status = "304" =>
      LET r == request[s]
          f == Key(r.name)
      IN  \/ r.held.content = r.response.entry.content
          \/ Twins(f) \/ ~Genuine(f, r.held) \/ ~Genuine(f, r.response.entry)

(* try_load: "static_dir must contain an index.html at its root", whatever  *)
(* is removed during the walk: the root of a site that is up is never 404.  *)
RootAnswers ==
  \A s \in Streams :
    request[s].at = "answered" /\ request[s].name[1] = Root => request[s].response.status # "404"

(* The counters by method and by status tell one story at every instant: a  *)
(* request has one method and one status, 204 is OPTIONS, 405 is what is no *)
(* method of ours, and all that GET and HEAD get is 200, 304 or 404.        *)
Unanswered(methods) ==
  Cardinality({s \in Streams : request[s].at = "counted" /\ request[s].method \in methods})

HttpBooks ==
  /\ stats["OPTIONS"] = stats["204"] + Unanswered({"OPTIONS"})
  /\ stats["other"] = stats["405"] + Unanswered({"other"})
  /\ stats["GET"] + stats["HEAD"] =
       stats["200"] + stats["304"] + stats["404"] + Unanswered({"GET", "HEAD"})

(* "Approximate response body bytes sent" (metrics.rs): never less than the *)
(* bodies handed on, and more by the bodies that HEAD left out only.        *)
BytesCoverBodies ==
  /\ stats["bytes"] >= shipped
  /\ stats["HEAD"] = 0 => stats["bytes"] = shipped
=============================================================================
