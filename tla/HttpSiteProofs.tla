---------------------------- MODULE HttpSiteProofs ----------------------------
(***************************************************************************)
(* Proofs about HttpSite, for any files, versions and number of requests   *)
(* at once.  None of its properties is inductive; SiteInv adds what each   *)
(* needs to know of the steps before:                                      *)
(*   IndexServed    a site that is up has its index.html, and no request   *)
(*                  is under way while the process is not up;              *)
(*   SizesTagged    the size in an ETag is that of the content it tags,    *)
(*                  on the site, in the browsers and in every response;    *)
(*   Revalidated    a 304 is an answer to a browser that keeps something   *)
(*                  with the ETag the site has;                            *)
(*   BodiesCounted  a body is as long as its Content-Length, but for HEAD; *)
(*   HeadsCounted   a HEAD under way is among stats["HEAD"].               *)
(***************************************************************************)
EXTENDS HttpSite, FiniteSetTheorems, TLAPS

Counted  == {s \in Streams : request[s].at = "counted"}
Answers  == {s \in Streams : request[s].at = "answered"}
UnderWay == Counted \cup Answers

IndexServed ==
  /\ up = "serving" => Plain(Index) \in DOMAIN site
  /\ UnderWay # {} => up = "serving"

Tagged(e) == e.etag[2] = Size[e.content]

SizesTagged ==
  /\ \A f \in DOMAIN site : Tagged(site[f])
  /\ \A n \in Names : copy[n] # None => Tagged(copy[n])
  /\ \A s \in UnderWay : request[s].held # None => Tagged(request[s].held)
  /\ \A s \in Answers :
       request[s].response.entry # None => Tagged(request[s].response.entry)

Revalidates(r, a) ==
  a.status = "304" =>
    /\ r.held # None /\ a.entry \in Entry /\ Tagged(a.entry)
    /\ r.held.etag = a.entry.etag

Revalidated == \A s \in Answers : Revalidates(request[s], request[s].response)

BodyCounted(r, a) ==
  /\ a.body <= LengthOf(a)
  /\ r.method # "HEAD" => a.body = LengthOf(a)

BodiesCounted == \A s \in Answers : BodyCounted(request[s], request[s].response)

HeadsCounted == \A s \in UnderWay : request[s].method = "HEAD" => stats["HEAD"] > 0

SiteInv ==
  /\ TypeOK
  /\ IndexServed
  /\ SizesTagged
  /\ Revalidated
  /\ RootAnswers
  /\ HttpBooks
  /\ BodiesCounted
  /\ HeadsCounted
  /\ BytesCoverBodies
------------------------------------------------------------------------------
(* What a request and its response are made of.                             *)

LEMMA RequestTyped ==
  ASSUME TypeOK, NEW s \in Streams
  PROVE  /\ request[s].at \in {"idle", "counted", "answered"}
         /\ request[s].at = "idle" <=> request[s] = Idle
         /\ s \in UnderWay =>
              /\ request[s].method \in Methods /\ request[s].name \in Names
              /\ request[s].held \in Entry \cup {None}
         /\ s \in Answers => request[s].response \in Response
BY DEF TypeOK, Request, Idle, UnderWay, Counted, Answers

LEMMA LengthTyped ==
  ASSUME NEW a \in Response
  PROVE  LengthOf(a) \in Nat /\ a.body \in Nat
BY DEF Response, LengthOf

(* An ETag made of a content's size carries that size.                      *)
LEMMA EtagTagged ==
  ASSUME NEW c \in Contents, NEW t \in Seconds
  PROVE  LET e == [content |-> c, etag |-> Etag(Size[c], t)]
         IN  e \in Entry /\ Tagged(e)
BY SizesAssumption DEF Entry, Etags, Etag, Range, Tagged, SizesAssumption

(* Everything handle_http decides about a request, in one place.            *)
LEMMA AnswerCorrect ==
  ASSUME TypeOK, SizesTagged, NEW r,
         r.method \in Methods, r.name \in Names, r.held \in Entry \cup {None}
  PROVE  /\ Answer(r) \in Response
         /\ Answer(r).entry # None => Tagged(Answer(r).entry)
         /\ Revalidates(r, Answer(r))
         /\ BodyCounted(r, Answer(r))
         /\ r.method = "OPTIONS" => Answer(r).status = "204"
         /\ r.method = "other" => Answer(r).status = "405"
         /\ r.method \in {"GET", "HEAD"} => Answer(r).status \in {"200", "304", "404"}
         /\ Found(r.name) => Answer(r).status # "404"
<1>. USE SizesAssumption, NoneAssumption
     DEF SizesAssumption, NoneAssumption, Full, Empty, Response, Statuses, LengthOf,
         Revalidates, BodyCounted
<1>1. CASE r.method = "OPTIONS"
  BY <1>1 DEF Answer
<1>2. CASE r.method = "other"
  BY <1>2 DEF Answer
<1>3. CASE r.method \in {"GET", "HEAD"} /\ Found(r.name)
  <2>. DEFINE e == site[Key(r.name)]
  <2>1. e \in Entry /\ Tagged(e) /\ Size[e.content] \in Nat
    BY <1>3 DEF TypeOK, SizesTagged, Found, Entry
  <2>2. Answer(r) = IF r.held # None /\ r.held.etag = e.etag
                      THEN Empty("304", None, e)
                      ELSE Full(r.method, "200", Size[e.content], e)
    BY <1>3 DEF Answer, FileResponse
  <2>. HIDE DEF e
  <2>. QED  BY <1>3, <2>1, <2>2
<1>4. CASE r.method \in {"GET", "HEAD"} /\ ~Found(r.name)
  <2>1. NotFoundSize \in Nat
    BY DEF NotFoundSize, TypeOK, Entry
  <2>2. Answer(r) = Full(r.method, "404", NotFoundSize, None)
    BY <1>4 DEF Answer
  <2>. QED  BY <1>4, <2>1, <2>2
<1>. QED  BY <1>1, <1>2, <1>3, <1>4 DEF Methods
------------------------------------------------------------------------------
(* The steps, told apart by what they touch: the directory, the site while  *)
(* no request is under way, everything at a restart, or one request.        *)

Deploys == \E f \in Files, v \in Version \cup {None} : Write(f, v)
Walks   == (\E f \in Files : Come(f)) \/ ReadBytes \/ ReadMetadata \/ Loaded

LEMMA NextCases ==
  ASSUME [Next]_vars
  PROVE  \/ Deploys \/ Walks \/ Restart
         \/ \E s \in Streams, m \in Methods, n \in Asked : \E held \in {None, copy[n]} :
              CountMethod(s, m, n, held)
         \/ \E s \in Streams : CountStatus(s)
         \/ \E s \in Streams : CountBytes(s)
         \/ UNCHANGED vars
BY DEF Next, Deploys, Walks, Waits

LEMMA WalksAlone == Walks => up = "walking" /\ UNCHANGED <<diskVars, serveVars, copy>>
BY DEF Walks, Come, ReadBytes, ReadMetadata, Loaded

(* A restart leaves only what is on disk and in the browsers.               *)
LEMMA RestartClears ==
  ASSUME Restart
  PROVE  /\ UnderWay' = {} /\ Answers' = {} /\ Counted' = {}
         /\ \A k \in Counters : stats'[k] = 0
         /\ shipped' = 0 /\ site' = <<>> /\ copy' = copy /\ up' = "walking"
BY DEF Restart, UnderWay, Answers, Counted, Idle

LEMMA MethodCounted ==
  ASSUME TypeOK, NEW s, NEW m, NEW n, NEW held,
         s \in Streams, m \in Methods, n \in Names, held \in {None, copy[n]}, CountMethod(s, m, n, held)
  PROVE  /\ request'[s] = [at |-> "counted", method |-> m, name |-> n, held |-> held]
         /\ s \notin UnderWay /\ \A t \in UnderWay : request'[t] = request[t]
         /\ Counted' = Counted \cup {s} /\ Answers' = Answers /\ UnderWay' = UnderWay \cup {s}
         /\ stats'[m] = stats[m] + 1
         /\ \A k \in Counters \ {m} : stats'[k] = stats[k]
         /\ held \in Entry \cup {None}
         /\ up = "serving" /\ UNCHANGED <<diskVars, loadVars, copy, shipped>>
BY DEF CountMethod, TypeOK, Counters, UnderWay, Counted, Answers

LEMMA StatusCounted ==
  ASSUME TypeOK, NEW s \in Streams, CountStatus(s)
  PROVE  LET a == Answer(request[s])
         IN  /\ request'[s] = Answered(request[s], a)
             /\ \A t \in Streams \ {s} : request'[t] = request[t]
             /\ s \in Counted /\ Counted' = Counted \ {s}
             /\ Answers' = Answers \cup {s} /\ UnderWay' = UnderWay
             /\ a.status \in Counters => stats'[a.status] = stats[a.status] + 1
             /\ \A k \in Counters \ {a.status} : stats'[k] = stats[k]
             /\ UNCHANGED <<diskVars, loadVars, copy, shipped>>
BY DEF CountStatus, Answered, TypeOK, UnderWay, Counted, Answers

LEMMA BytesCounted ==
  ASSUME TypeOK, NEW s \in Streams, CountBytes(s)
  PROVE  LET r == request[s]
             a == request[s].response
         IN  /\ request'[s] = Idle
             /\ \A t \in Streams \ {s} : request'[t] = request[t]
             /\ s \in Answers /\ Counted' = Counted
             /\ Answers' = Answers \ {s} /\ UnderWay' = UnderWay \ {s}
             /\ stats'["bytes"] = stats["bytes"] + LengthOf(a)
             /\ \A k \in Counters \ {"bytes"} : stats'[k] = stats[k]
             /\ shipped' = shipped + a.body
             /\ \A n \in Names : copy'[n] \in {copy[n], a.entry}
             /\ UNCHANGED <<diskVars, loadVars>>
BY DEF CountBytes, TypeOK, Counters, Idle, UnderWay, Counted, Answers
------------------------------------------------------------------------------
(* SiteInv, one conjunct at a time. *)

LEMMA NextTypeOK ==
  TypeOK /\ SizesTagged /\ [Next]_vars => TypeOK'
<1>. SUFFICES ASSUME TypeOK, SizesTagged, [Next]_vars PROVE TypeOK'
  OBVIOUS
<1>1. CASE Deploys
  BY <1>1 DEF Deploys, Write, TypeOK, loadVars, serveVars
<1>2. CASE Walks
  <2>1. ASSUME NEW f \in Files, Come(f) PROVE TypeOK'
    BY <2>1 DEF Come, TypeOK, diskVars, serveVars
  <2>2. CASE ReadBytes
    BY <2>2, VersionAssumption DEF ReadBytes, Fail, TypeOK, diskVars, serveVars, VersionAssumption
  <2>3. CASE ReadMetadata
    <3>1. CASE disk[reading.file] = None
      BY <2>3, <3>1 DEF ReadMetadata, Fail, TypeOK, diskVars, serveVars
    <3>2. CASE disk[reading.file] # None
      <4>. DEFINE e == [content |-> reading.bytes,
                        etag    |-> Etag(Size[reading.bytes], disk[reading.file].mtime)]
      <4>1. /\ reading.file \in Files /\ reading.bytes \in Contents
            /\ disk[reading.file].mtime \in Seconds
        BY <2>3, <3>2, VersionAssumption DEF ReadMetadata, TypeOK, VersionAssumption
      <4>2. e \in Entry
        BY <4>1, EtagTagged
      <4>3. /\ site' = With(reading.file, e) /\ reading' = None
            /\ UNCHANGED <<up, todo, diskVars, serveVars, copy>>
        BY <2>3, <3>2 DEF ReadMetadata
      <4>. HIDE DEF e
      <4>. QED  BY <4>1, <4>2, <4>3 DEF With, TypeOK, diskVars, serveVars
    <3>. QED  BY <3>1, <3>2
  <2>4. CASE Loaded
    BY <2>4 DEF Loaded, TypeOK, diskVars, serveVars
  <2>. QED  BY <1>2, <2>1, <2>2, <2>3, <2>4 DEF Walks
<1>3. CASE Restart
  BY <1>3 DEF Restart, TypeOK, Request, diskVars
<1>4. ASSUME NEW s \in Streams, NEW m \in Methods, NEW n \in Asked, NEW held \in {None, copy[n]},
             CountMethod(s, m, n, held)
      PROVE  TypeOK'
  <2>1. n \in Names
    BY NamesAssumption DEF NamesAssumption
  <2>2. request' \in [Streams -> Request] /\ stats' \in [Counters -> Nat]
    BY <1>4, <2>1 DEF CountMethod, TypeOK, Request, Counters
  <2>. QED  BY <1>4, <2>2 DEF CountMethod, TypeOK, diskVars, loadVars
<1>5. ASSUME NEW s \in Streams, CountStatus(s) PROVE TypeOK'
  <2>. DEFINE a == Answer(request[s])
  <2>1. s \in UnderWay
    BY <1>5, StatusCounted DEF UnderWay
  <2>2. a \in Response
    BY <2>1, RequestTyped, AnswerCorrect
  <2>3. /\ request' = [request EXCEPT ![s] = Answered(request[s], a)]
        /\ stats' = [stats EXCEPT ![a.status] = stats[a.status] + 1]
        /\ UNCHANGED <<diskVars, loadVars, copy, shipped>>
    BY <1>5 DEF CountStatus, TypeOK
  <2>4. Answered(request[s], a) \in Request
    <3>. HIDE DEF a
    <3>. QED  BY <2>1, <2>2, RequestTyped DEF Answered, Request
  <2>. HIDE DEF a
  <2>5. stats' \in [Counters -> Nat]
    BY <2>2, <2>3 DEF TypeOK, Counters, Response
  <2>. QED  BY <2>3, <2>4, <2>5 DEF TypeOK, diskVars, loadVars
<1>6. ASSUME NEW s \in Streams, CountBytes(s) PROVE TypeOK'
  <2>. DEFINE a == request[s].response
  <2>1. s \in Answers /\ s \in UnderWay
    BY <1>6, BytesCounted DEF UnderWay
  <2>2. a \in Response /\ request[s].name \in Names
    BY <2>1, RequestTyped
  <2>3. a.entry \in Entry \cup {None} /\ LengthOf(a) \in Nat /\ a.body \in Nat
    BY <2>2, LengthTyped DEF Response
  <2>4. copy' \in [Names -> Entry \cup {None}]
    BY <1>6, <2>2, <2>3 DEF CountBytes, TypeOK
  <2>5. stats' \in [Counters -> Nat] /\ shipped' \in Nat /\ request' \in [Streams -> Request]
    <3>. HIDE DEF a
    <3>1. /\ stats' = [stats EXCEPT !["bytes"] = stats["bytes"] + LengthOf(a)]
          /\ shipped' = shipped + a.body
          /\ request' = [request EXCEPT ![s] = Idle]
      BY <1>6 DEF CountBytes, a
    <3>. QED  BY <2>3, <3>1 DEF TypeOK, Counters, Request
  <2>. QED  BY <1>6, <2>4, <2>5 DEF CountBytes, TypeOK, diskVars, loadVars
<1>7. CASE UNCHANGED vars
  BY <1>7 DEF vars, TypeOK, diskVars, loadVars, serveVars
<1>. QED  BY <1>1, <1>2, <1>3, <1>4, <1>5, <1>6, <1>7, NextCases

(* Only a walk that has found index.html ends in "serving", and only a      *)
(* restart, which drops every request, leaves it.                           *)
LEMMA NextIndexServed ==
  TypeOK /\ IndexServed /\ [Next]_vars => IndexServed'
<1>. SUFFICES ASSUME TypeOK, IndexServed, [Next]_vars PROVE IndexServed'
  OBVIOUS
<1>. USE DEF IndexServed
<1>1. CASE Deploys \/ UNCHANGED vars
  BY <1>1 DEF Deploys, Write, vars, loadVars, serveVars, UnderWay, Counted, Answers
<1>2. CASE Walks
  <2>1. UnderWay = {} /\ UnderWay' = UnderWay
    BY <1>2, WalksAlone DEF serveVars, UnderWay, Counted, Answers
  <2>2. up' = "serving" => Plain(Index) \in DOMAIN site'
    BY <1>2, WalksAlone DEF Walks, Come, ReadBytes, ReadMetadata, Fail, Loaded
  <2>. QED  BY <2>1, <2>2
<1>3. CASE Restart
  BY <1>3, RestartClears
<1>4. ASSUME NEW s \in Streams, NEW m \in Methods, NEW n \in Asked, NEW held \in {None, copy[n]},
             CountMethod(s, m, n, held)
      PROVE  IndexServed'
  BY <1>4 DEF CountMethod, loadVars
<1>5. ASSUME NEW s \in Streams, CountStatus(s) PROVE IndexServed'
  BY <1>5, StatusCounted DEF loadVars, UnderWay
<1>6. ASSUME NEW s \in Streams, CountBytes(s) PROVE IndexServed'
  BY <1>6, BytesCounted DEF loadVars, UnderWay
<1>. QED  BY <1>1, <1>2, <1>3, <1>4, <1>5, <1>6, NextCases
(* From the file to the site, from there to a response, from a response to  *)
(* a browser, from a browser back into a request.                           *)
LEMMA NextSizesTagged ==
  TypeOK /\ SizesTagged /\ [Next]_vars => SizesTagged'
<1>. SUFFICES ASSUME TypeOK, SizesTagged, [Next]_vars PROVE SizesTagged'
  OBVIOUS
<1>1. CASE Deploys \/ UNCHANGED vars
  BY <1>1 DEF Deploys, Write, vars, loadVars, serveVars, UnderWay, Counted, Answers, SizesTagged, Tagged
<1>2. CASE Walks
  <2>1. UNCHANGED <<request, copy>> /\ UnderWay' = UnderWay /\ Answers' = Answers
    BY <1>2, WalksAlone DEF serveVars, UnderWay, Counted, Answers
  <2>2. ASSUME site' # site, NEW f \in DOMAIN site' PROVE Tagged(site'[f])
    <3>. DEFINE c == reading.bytes
                t == disk[reading.file].mtime
    <3>1. /\ site' = With(reading.file, [content |-> c, etag |-> Etag(Size[c], t)])
          /\ reading # None /\ reading.bytes # None /\ disk[reading.file] # None
      BY <1>2, <2>2 DEF Walks, Come, ReadBytes, ReadMetadata, Fail, Loaded
    <3>2. c \in Contents /\ t \in Seconds
      BY <3>1, VersionAssumption DEF TypeOK, VersionAssumption
    <3>. HIDE DEF c, t
    <3>3. Tagged([content |-> c, etag |-> Etag(Size[c], t)])
      BY <3>2, EtagTagged
    <3>4. \A g \in DOMAIN site : Tagged(site[g])
      BY DEF SizesTagged
    <3>. QED  BY <3>1, <3>3, <3>4 DEF With, Tagged
  <2>3. ASSUME NEW f \in DOMAIN site' PROVE Tagged(site'[f])
    BY <2>2 DEF SizesTagged
  <2>. QED  BY <2>1, <2>3 DEF SizesTagged, Tagged
<1>3. CASE Restart
  BY <1>3, RestartClears DEF SizesTagged, Tagged
<1>4. ASSUME NEW s \in Streams, NEW m \in Methods, NEW n \in Asked, NEW held \in {None, copy[n]},
             CountMethod(s, m, n, held)
      PROVE  SizesTagged'
  <2>1. n \in Names
    BY NamesAssumption DEF NamesAssumption
  <2>2. held # None => Tagged(held)
    BY <2>1 DEF SizesTagged
  <2>3. /\ UnderWay' = UnderWay \cup {s} /\ Answers' = Answers
        /\ \A t \in UnderWay : request'[t] = request[t]
    BY <1>4, <2>1, MethodCounted
  <2>4. request'[s].held = held /\ UNCHANGED <<site, copy>>
    BY <1>4 DEF CountMethod, TypeOK, loadVars
  <2>5. Answers \subseteq UnderWay
    BY DEF UnderWay
  <2>. QED  BY <2>2, <2>3, <2>4, <2>5 DEF SizesTagged, Tagged
<1>5. ASSUME NEW s \in Streams, CountStatus(s) PROVE SizesTagged'
  <2>. DEFINE a == Answer(request[s])
  <2>1. /\ s \in UnderWay /\ UNCHANGED <<site, copy>>
        /\ UnderWay' = UnderWay /\ Answers' = Answers \cup {s}
        /\ request'[s].held = request[s].held /\ request'[s].response = a
        /\ \A t \in Streams \ {s} : request'[t] = request[t]
    <3>1. s \in Counted /\ request'[s] = Answered(request[s], a)
      BY <1>5, StatusCounted
    <3>2. s \in UnderWay /\ request'[s].held = request[s].held /\ request'[s].response = a
      BY <3>1 DEF UnderWay, Answered
    <3>3. UNCHANGED <<site, copy>>
      BY <1>5 DEF CountStatus, loadVars
    <3>. HIDE DEF a
    <3>. QED  BY <1>5, <3>2, <3>3, StatusCounted
  <2>2. a.entry # None => Tagged(a.entry)
    BY <2>1, RequestTyped, AnswerCorrect DEF UnderWay, Counted, Answers
  <2>. HIDE DEF a
  <2>. QED  BY <2>1, <2>2 DEF UnderWay, Counted, Answers, SizesTagged, Tagged
<1>6. ASSUME NEW s \in Streams, CountBytes(s) PROVE SizesTagged'
  <2>1. /\ s \in Answers /\ Answers' = Answers \ {s} /\ UnderWay' = UnderWay \ {s}
        /\ \A t \in Streams \ {s} : request'[t] = request[t]
        /\ site' = site
        /\ \A n \in Names : copy'[n] \in {copy[n], request[s].response.entry}
    BY <1>6, BytesCounted DEF UnderWay, Counted, Answers, loadVars
  <2>. QED  BY <2>1 DEF UnderWay, Counted, Answers, SizesTagged, Tagged
<1>. QED  BY <1>1, <1>2, <1>3, <1>4, <1>5, <1>6, NextCases

(* What holds of each response by itself: it is as Answer made it, until it *)
(* is handed on.                                                            *)

LEMMA NextRevalidated ==
  TypeOK /\ SizesTagged /\ Revalidated /\ [Next]_vars => Revalidated'
<1>. SUFFICES ASSUME TypeOK, SizesTagged, Revalidated, [Next]_vars PROVE Revalidated'
  OBVIOUS
<1>. USE DEF Revalidated
<1>1. CASE Deploys \/ Walks \/ UNCHANGED vars
  BY <1>1, WalksAlone DEF Deploys, Write, vars, serveVars, Answers, Revalidates, Tagged
<1>2. CASE Restart
  BY <1>2, RestartClears
<1>3. ASSUME NEW s \in Streams, NEW m \in Methods, NEW n \in Asked, NEW held \in {None, copy[n]},
             CountMethod(s, m, n, held)
      PROVE  Revalidated'
  <2>1. n \in Names
    BY NamesAssumption DEF NamesAssumption
  <2>2. Answers' = Answers /\ \A t \in Answers : request'[t] = request[t]
    <3>1. Answers' = Answers /\ \A t \in UnderWay : request'[t] = request[t]
      BY <1>3, <2>1, MethodCounted
    <3>. QED  BY <3>1 DEF UnderWay
  <2>. QED  BY <2>2 DEF Revalidates, Tagged
<1>4. ASSUME NEW s \in Streams, CountStatus(s) PROVE Revalidated'
  <2>. DEFINE r == request[s]
              a == Answer(r)
  <2>1. /\ s \in UnderWay /\ Answers' = Answers \cup {s} /\ request'[s] = Answered(r, a)
        /\ \A t \in Answers \ {s} : request'[t] = request[t]
    BY <1>4, StatusCounted DEF UnderWay, Answers
  <2>2. Revalidates(r, a)
    BY <2>1, RequestTyped, AnswerCorrect DEF UnderWay, Counted, Answers
  <2>. HIDE DEF r, a
  <2>. QED  BY <2>1, <2>2 DEF Revalidates, Answered, Tagged
<1>5. ASSUME NEW s \in Streams, CountBytes(s) PROVE Revalidated'
  BY <1>5, BytesCounted DEF Answers, Revalidates, Tagged
<1>. QED  BY <1>1, <1>2, <1>3, <1>4, <1>5, NextCases

LEMMA NextBodiesCounted ==
  TypeOK /\ SizesTagged /\ BodiesCounted /\ [Next]_vars => BodiesCounted'
<1>. SUFFICES ASSUME TypeOK, SizesTagged, BodiesCounted, [Next]_vars PROVE BodiesCounted'
  OBVIOUS
<1>. USE DEF BodiesCounted
<1>1. CASE Deploys \/ Walks \/ UNCHANGED vars
  BY <1>1, WalksAlone DEF Deploys, Write, vars, serveVars, Answers, BodyCounted, LengthOf
<1>2. CASE Restart
  BY <1>2, RestartClears
<1>3. ASSUME NEW s \in Streams, NEW m \in Methods, NEW n \in Asked, NEW held \in {None, copy[n]},
             CountMethod(s, m, n, held)
      PROVE  BodiesCounted'
  <2>1. n \in Names
    BY NamesAssumption DEF NamesAssumption
  <2>2. Answers' = Answers /\ \A t \in Answers : request'[t] = request[t]
    <3>1. Answers' = Answers /\ \A t \in UnderWay : request'[t] = request[t]
      BY <1>3, <2>1, MethodCounted
    <3>. QED  BY <3>1 DEF UnderWay
  <2>. QED  BY <2>2 DEF BodyCounted, LengthOf
<1>4. ASSUME NEW s \in Streams, CountStatus(s) PROVE BodiesCounted'
  <2>. DEFINE r == request[s]
              a == Answer(r)
  <2>1. /\ s \in UnderWay /\ Answers' = Answers \cup {s} /\ request'[s] = Answered(r, a)
        /\ \A t \in Answers \ {s} : request'[t] = request[t]
    BY <1>4, StatusCounted DEF UnderWay, Answers
  <2>2. BodyCounted(r, a)
    BY <2>1, RequestTyped, AnswerCorrect DEF UnderWay, Counted, Answers
  <2>. HIDE DEF r, a
  <2>. QED  BY <2>1, <2>2 DEF BodyCounted, LengthOf, Answered
<1>5. ASSUME NEW s \in Streams, CountBytes(s) PROVE BodiesCounted'
  BY <1>5, BytesCounted DEF Answers, BodyCounted, LengthOf
<1>. QED  BY <1>1, <1>2, <1>3, <1>4, <1>5, NextCases
LEMMA NextRootAnswers ==
  TypeOK /\ SizesTagged /\ IndexServed /\ RootAnswers /\ [Next]_vars => RootAnswers'
<1>. SUFFICES ASSUME TypeOK, SizesTagged, IndexServed, RootAnswers, [Next]_vars PROVE RootAnswers'
  OBVIOUS
<1>0. RootAnswers <=> \A s \in Answers : request[s].name[1] = Root => request[s].response.status # "404"
  BY DEF RootAnswers, Answers
<1>1. CASE Deploys \/ Walks \/ UNCHANGED vars
  BY <1>1, WalksAlone DEF Deploys, Write, vars, serveVars, RootAnswers
<1>2. CASE Restart
  BY <1>2 DEF Restart, RootAnswers, Idle
<1>3. ASSUME NEW s \in Streams, NEW m \in Methods, NEW n \in Asked, NEW held \in {None, copy[n]},
             CountMethod(s, m, n, held)
      PROVE  RootAnswers'
  BY <1>3 DEF CountMethod, TypeOK, RootAnswers
<1>4. ASSUME NEW s \in Streams, CountStatus(s) PROVE RootAnswers'
  <2>. DEFINE r == request[s]
              a == Answer(r)
  <2>1. s \in UnderWay /\ request'[s] = Answered(r, a)
        /\ \A t \in Streams \ {s} : request'[t] = request[t]
    BY <1>4, StatusCounted DEF UnderWay
  <2>2. r.name[1] = Root => Found(r.name)
    BY <2>1 DEF IndexServed, Found, Key
  <2>3. r.name[1] = Root => a.status # "404"
    BY <2>1, <2>2, RequestTyped, AnswerCorrect
  <2>. HIDE DEF r, a
  <2>. QED  BY <2>1, <2>3 DEF RootAnswers, Answered
<1>5. ASSUME NEW s \in Streams, CountBytes(s) PROVE RootAnswers'
  BY <1>5 DEF CountBytes, TypeOK, RootAnswers, Idle
<1>. QED  BY <1>1, <1>2, <1>3, <1>4, <1>5, NextCases

LEMMA NextHeadsCounted ==
  TypeOK /\ SizesTagged /\ HeadsCounted /\ [Next]_vars => HeadsCounted'
<1>. SUFFICES ASSUME TypeOK, SizesTagged, HeadsCounted, [Next]_vars PROVE HeadsCounted'
  OBVIOUS
<1>. USE DEF HeadsCounted
<1>0. "HEAD" \in Counters /\ "HEAD" # "bytes" /\ stats["HEAD"] \in Nat
  BY DEF TypeOK, Counters, Methods
<1>1. CASE Deploys \/ Walks \/ UNCHANGED vars
  BY <1>1, WalksAlone DEF Deploys, Write, vars, serveVars, UnderWay, Counted, Answers
<1>2. CASE Restart
  BY <1>2, RestartClears
<1>3. ASSUME NEW s \in Streams, NEW m \in Methods, NEW n \in Asked, NEW held \in {None, copy[n]},
             CountMethod(s, m, n, held)
      PROVE  HeadsCounted'
  <2>1. stats'["HEAD"] >= stats["HEAD"] /\ (m = "HEAD" => stats'["HEAD"] > 0)
    BY <1>0, <1>3 DEF CountMethod, TypeOK
  <2>. QED  BY <1>0, <1>3, <2>1 DEF CountMethod, TypeOK, UnderWay, Counted, Answers
<1>4. ASSUME NEW s \in Streams, CountStatus(s) PROVE HeadsCounted'
  <2>1. s \in UnderWay
    BY <1>4, StatusCounted DEF UnderWay
  <2>2. Answer(request[s]).status \in Statuses
    BY <2>1, RequestTyped, AnswerCorrect DEF Response
  <2>3. stats'["HEAD"] = stats["HEAD"]
    BY <1>0, <1>4, <2>2, StatusCounted DEF Statuses
  <2>4. \A t \in Streams : request'[t].method = request[t].method
    BY <1>4 DEF CountStatus, Answered, TypeOK
  <2>. QED  BY <1>4, <2>3, <2>4, StatusCounted DEF UnderWay, Counted, Answers
<1>5. ASSUME NEW s \in Streams, CountBytes(s) PROVE HeadsCounted'
  <2>1. stats'["HEAD"] = stats["HEAD"] /\ UnderWay' = UnderWay \ {s}
        /\ \A t \in Streams \ {s} : request'[t] = request[t]
    BY <1>0, <1>5, BytesCounted
  <2>. QED  BY <2>1 DEF UnderWay, Counted, Answers
<1>. QED  BY <1>1, <1>2, <1>3, <1>4, <1>5, NextCases

LEMMA NextBytesCoverBodies ==
  TypeOK /\ SizesTagged /\ BodiesCounted /\ HeadsCounted /\ BytesCoverBodies /\ [Next]_vars
    => BytesCoverBodies'
<1>. SUFFICES ASSUME TypeOK, SizesTagged, BodiesCounted, HeadsCounted, BytesCoverBodies, [Next]_vars
              PROVE BytesCoverBodies'
  OBVIOUS
<1>. USE DEF BytesCoverBodies
<1>0. /\ "HEAD" \in Counters /\ "bytes" \in Counters /\ "HEAD" # "bytes"
      /\ stats["HEAD"] \in Nat /\ stats["bytes"] \in Nat /\ shipped \in Nat
      /\ "bytes" \notin Methods \cup Statuses
  BY DEF TypeOK, Counters, Methods, Statuses
<1>1. CASE Deploys \/ Walks \/ UNCHANGED vars
  BY <1>1, WalksAlone DEF Deploys, Write, vars, serveVars
<1>2. CASE Restart
  BY <1>0, <1>2, RestartClears
<1>3. ASSUME NEW s \in Streams, NEW m \in Methods, NEW n \in Asked, NEW held \in {None, copy[n]},
             CountMethod(s, m, n, held)
      PROVE  BytesCoverBodies'
  BY <1>0, <1>3 DEF CountMethod, TypeOK
<1>4. ASSUME NEW s \in Streams, CountStatus(s) PROVE BytesCoverBodies'
  <2>1. s \in UnderWay
    BY <1>4, StatusCounted DEF UnderWay
  <2>2. Answer(request[s]).status \in Statuses
    BY <2>1, RequestTyped, AnswerCorrect DEF Response
  <2>3. stats'["HEAD"] = stats["HEAD"] /\ stats'["bytes"] = stats["bytes"] /\ shipped' = shipped
    BY <1>0, <1>4, <2>2, StatusCounted DEF Statuses
  <2>. QED  BY <2>3
<1>5. ASSUME NEW s \in Streams, CountBytes(s) PROVE BytesCoverBodies'
  <2>. DEFINE a == request[s].response
  <2>1. /\ s \in Answers /\ s \in UnderWay
        /\ stats'["bytes"] = stats["bytes"] + LengthOf(a)
        /\ stats'["HEAD"] = stats["HEAD"] /\ shipped' = shipped + a.body
    BY <1>0, <1>5, BytesCounted DEF UnderWay
  <2>2. LengthOf(a) \in Nat /\ a.body \in Nat
    BY <2>1, RequestTyped, LengthTyped
  <2>3. a.body <= LengthOf(a) /\ (stats["HEAD"] = 0 => a.body = LengthOf(a))
    BY <2>1 DEF BodiesCounted, BodyCounted, HeadsCounted
  <2>. HIDE DEF a
  <2>. QED  BY <1>0, <2>1, <2>2, <2>3
<1>. QED  BY <1>1, <1>2, <1>3, <1>4, <1>5, NextCases
(* The requests whose method is counted and whose status is not: how many   *)
(* Unanswered says there are moves by one with each of the two.             *)
Unmatched(methods) == {s \in Streams : request[s].at = "counted" /\ request[s].method \in methods}

LEMMA UnansweredTyped ==
  ASSUME NEW methods
  PROVE  /\ IsFiniteSet(Unmatched(methods))
         /\ Unanswered(methods) = Cardinality(Unmatched(methods)) /\ Unanswered(methods) \in Nat
         /\ Unanswered(methods)' = Cardinality(Unmatched(methods)')
<1>1. Unmatched(methods) \subseteq Streams
  BY DEF Unmatched
<1>2. IsFiniteSet(Unmatched(methods)) /\ Cardinality(Unmatched(methods)) \in Nat
  BY <1>1, StreamsAssumption, FS_Subset, FS_CardinalityType
<1>. QED  BY <1>2 DEF Unanswered, Unmatched

LEMMA OneMoreUnanswered ==
  ASSUME TypeOK, NEW s \in Streams, NEW m, NEW n, NEW held, CountMethod(s, m, n, held), NEW methods
  PROVE  Unanswered(methods)' = Unanswered(methods) + IF m \in methods THEN 1 ELSE 0
<1>. DEFINE U == Unmatched(methods)
<1>1. CASE m \in methods
  <2>1. U' = U \cup {s} /\ s \notin U
    BY <1>1 DEF CountMethod, TypeOK, Unmatched
  <2>2. IsFiniteSet(U)
    BY UnansweredTyped
  <2>3. Cardinality(U \cup {s}) = Cardinality(U) + 1
    <3>. HIDE DEF U
    <3>. QED  BY <2>1, <2>2, FS_AddElement
  <2>. QED  BY <1>1, <2>1, <2>3, UnansweredTyped
<1>2. CASE m \notin methods
  <2>1. U' = U
    BY <1>2 DEF CountMethod, TypeOK, Unmatched
  <2>. QED  BY <1>2, <2>1, UnansweredTyped
<1>. QED  BY <1>1, <1>2

LEMMA OneLessUnanswered ==
  ASSUME TypeOK, NEW s \in Streams, CountStatus(s), NEW methods
  PROVE  Unanswered(methods)' = Unanswered(methods) - IF request[s].method \in methods THEN 1 ELSE 0
<1>. DEFINE U == Unmatched(methods)
            a == Answer(request[s])
<1>0. request' = [request EXCEPT ![s] = Answered(request[s], a)] /\ request[s].at = "counted"
  BY DEF CountStatus, TypeOK
<1>. HIDE DEF a
<1>1. CASE request[s].method \in methods
  <2>1. U' = U \ {s} /\ s \in U
    BY <1>0, <1>1 DEF Answered, TypeOK, Unmatched
  <2>2. IsFiniteSet(U)
    BY UnansweredTyped
  <2>3. Cardinality(U \ {s}) = Cardinality(U) - 1
    <3>. HIDE DEF U
    <3>. QED  BY <2>1, <2>2, FS_RemoveElement
  <2>. QED  BY <1>1, <2>1, <2>3, UnansweredTyped
<1>2. CASE request[s].method \notin methods
  <2>1. U' = U
    BY <1>0, <1>2 DEF Answered, TypeOK, Unmatched
  <2>. QED  BY <1>2, <2>1, UnansweredTyped
<1>. QED  BY <1>1, <1>2

LEMMA SameUnanswered ==
  ASSUME UNCHANGED request, NEW methods
  PROVE  Unanswered(methods)' = Unanswered(methods)
BY DEF Unanswered

LEMMA NextHttpBooks ==
  TypeOK /\ SizesTagged /\ HttpBooks /\ [Next]_vars => HttpBooks'
<1>. SUFFICES ASSUME TypeOK, SizesTagged, HttpBooks, [Next]_vars PROVE HttpBooks'
  OBVIOUS
<1>. DEFINE o == Unanswered({"OPTIONS"})
            x == Unanswered({"other"})
            g == Unanswered({"GET", "HEAD"})
<1>0. /\ o \in Nat /\ x \in Nat /\ g \in Nat
      /\ \A k \in Counters : stats[k] \in Nat
  BY UnansweredTyped DEF TypeOK
<1>1. HttpBooks <=> /\ stats["OPTIONS"] = stats["204"] + o
                    /\ stats["other"] = stats["405"] + x
                    /\ stats["GET"] + stats["HEAD"] = stats["200"] + stats["304"] + stats["404"] + g
  BY DEF HttpBooks
<1>2. HttpBooks' <=> /\ stats'["OPTIONS"] = stats'["204"] + o'
                     /\ stats'["other"] = stats'["405"] + x'
                     /\ stats'["GET"] + stats'["HEAD"] = stats'["200"] + stats'["304"] + stats'["404"] + g'
  BY DEF HttpBooks
<1>3. CASE Deploys \/ Walks \/ UNCHANGED vars
  <2>1. UNCHANGED <<request, stats>>
    BY <1>3, WalksAlone DEF Deploys, Write, vars, serveVars
  <2>. QED  BY <1>1, <1>2, <2>1, SameUnanswered
<1>4. CASE Restart
  <2>1. \A methods : Unmatched(methods)' = {}
    BY <1>4 DEF Restart, Unmatched, Idle
  <2>2. o' = 0 /\ x' = 0 /\ g' = 0
    BY <2>1, UnansweredTyped, FS_EmptySet
  <2>3. \A k \in Counters : stats'[k] = 0
    BY <1>4, RestartClears
  <2>. HIDE DEF o, x, g
  <2>. QED  BY <1>2, <2>2, <2>3 DEF Counters, Methods, Statuses
<1>5. ASSUME NEW s \in Streams, NEW m \in Methods, NEW n \in Asked, NEW held \in {None, copy[n]},
             CountMethod(s, m, n, held)
      PROVE  HttpBooks'
  <2>1. /\ o' = o + IF m \in {"OPTIONS"} THEN 1 ELSE 0
        /\ x' = x + IF m \in {"other"} THEN 1 ELSE 0
        /\ g' = g + IF m \in {"GET", "HEAD"} THEN 1 ELSE 0
    BY <1>5, OneMoreUnanswered
  <2>2. stats' = [stats EXCEPT ![m] = stats[m] + 1] /\ stats \in [Counters -> Nat]
    BY <1>5 DEF CountMethod, TypeOK
  <2>. HIDE DEF o, x, g
  <2>. QED  BY <1>0, <1>1, <1>2, <2>1, <2>2 DEF Counters, Methods, Statuses
<1>6. ASSUME NEW s \in Streams, CountStatus(s) PROVE HttpBooks'
  <2>. DEFINE r == request[s]
              a == Answer(r)
  <2>1. s \in UnderWay
    BY <1>6, StatusCounted DEF UnderWay
  <2>2. /\ r.method \in Methods
        /\ r.method = "OPTIONS" => a.status = "204"
        /\ r.method = "other" => a.status = "405"
        /\ r.method \in {"GET", "HEAD"} => a.status \in {"200", "304", "404"}
    BY <2>1, RequestTyped, AnswerCorrect
  <2>3. /\ o' = o - IF r.method \in {"OPTIONS"} THEN 1 ELSE 0
        /\ x' = x - IF r.method \in {"other"} THEN 1 ELSE 0
        /\ g' = g - IF r.method \in {"GET", "HEAD"} THEN 1 ELSE 0
    BY <1>6, OneLessUnanswered
  <2>4. stats' = [stats EXCEPT ![a.status] = stats[a.status] + 1] /\ stats \in [Counters -> Nat]
    BY <1>6 DEF CountStatus, TypeOK
  <2>. HIDE DEF o, x, g, r, a
  <2>. QED  BY <1>0, <1>1, <1>2, <2>2, <2>3, <2>4 DEF Counters, Methods, Statuses
<1>7. ASSUME NEW s \in Streams, CountBytes(s) PROVE HttpBooks'
  <2>1. \A methods : Unmatched(methods)' = Unmatched(methods)
    BY <1>7 DEF CountBytes, TypeOK, Unmatched, Idle
  <2>2. o' = o /\ x' = x /\ g' = g
    BY <2>1, UnansweredTyped
  <2>3. \A k \in Counters \ {"bytes"} : stats'[k] = stats[k]
    BY <1>7, BytesCounted
  <2>. HIDE DEF o, x, g
  <2>. QED  BY <1>1, <1>2, <2>2, <2>3 DEF Counters, Methods, Statuses
<1>. QED  BY <1>3, <1>4, <1>5, <1>6, <1>7, NextCases

------------------------------------------------------------------------------
LEMMA InitSiteInv == Init => SiteInv
<1>. SUFFICES ASSUME Init PROVE SiteInv
  OBVIOUS
<1>. USE DEF Init, NothingServed
<1>1. TypeOK
  BY DEF TypeOK, Request
<1>2. UnderWay = {} /\ Answers = {} /\ \A methods : Unmatched(methods) = {}
  BY DEF UnderWay, Counted, Answers, Unmatched, Idle
<1>3. IndexServed /\ SizesTagged /\ Revalidated /\ BodiesCounted /\ HeadsCounted
  BY <1>2 DEF IndexServed, SizesTagged, Revalidated, BodiesCounted, HeadsCounted
<1>4. RootAnswers
  BY DEF RootAnswers, Idle
<1>5. BytesCoverBodies
  BY DEF BytesCoverBodies, Counters
<1>6. HttpBooks
  <2>1. \A methods : Unanswered(methods) = 0
    BY <1>2, UnansweredTyped, FS_EmptySet
  <2>. QED  BY <2>1 DEF HttpBooks, Counters, Methods, Statuses
<1>. QED  BY <1>1, <1>3, <1>4, <1>5, <1>6 DEF SiteInv

LEMMA NextSiteInv == SiteInv /\ [Next]_vars => SiteInv'
BY NextTypeOK, NextIndexServed, NextSizesTagged, NextRevalidated, NextRootAnswers, NextHttpBooks,
   NextBodiesCounted, NextHeadsCounted, NextBytesCoverBodies DEF SiteInv

(* Two entries with one ETag have one size and one second: if their         *)
(* contents differ, and the file did hold both, it held twins.              *)
LEMMA SiteInvNotModified == SiteInv => NotModifiedIsTrue
<1>. SUFFICES ASSUME SiteInv, NEW s \in Answers, request[s].response.status = "304"
              PROVE  LET r == request[s]
                         f == Key(r.name)
                     IN  \/ r.held.content = r.response.entry.content
                         \/ Twins(f) \/ ~Genuine(f, r.held) \/ ~Genuine(f, r.response.entry)
  BY DEF NotModifiedIsTrue, Answers
<1>. DEFINE d == request[s].held
            e == request[s].response.entry
            f == Key(request[s].name)
<1>1. /\ Tagged(d) /\ Tagged(e) /\ d.etag = e.etag
  BY DEF SiteInv, Revalidated, Revalidates, SizesTagged, UnderWay
<1>. SUFFICES ASSUME Genuine(f, d), Genuine(f, e), d.content # e.content PROVE Twins(f)
  OBVIOUS
<1>. HIDE DEF d, e, f
<1>. DEFINE v == [content |-> d.content, mtime |-> d.etag[1]]
            w == [content |-> e.content, mtime |-> e.etag[1]]
<1>2. v \in versions[f] /\ w \in versions[f]
  BY DEF Genuine
<1>3. v.content # w.content /\ Size[v.content] = Size[w.content] /\ v.mtime = w.mtime
  BY <1>1 DEF Tagged
<1>. QED  BY <1>2, <1>3 DEF Twins
------------------------------------------------------------------------------
(* The site, the requests and the counters are always well formed; every    *)
(* ETag, wherever it has got to, is a pair of a second and a size.          *)
THEOREM TypeCorrect == Spec => []TypeOK
<1>1. SiteInv => TypeOK
  BY DEF SiteInv
<1>. QED  BY <1>1, InitSiteInv, NextSiteInv, PTL DEF Spec

(* "Let the browser revalidate against the ETag every time" (serve.rs): a   *)
(* browser told 304 keeps what the site holds, across any number of edits   *)
(* and restarts, unless the file had two versions of one size and second or *)
(* was replaced between the read of its bytes and that of its metadata.     *)
THEOREM NotModifiedIsTrueHolds == Spec => []NotModifiedIsTrue
BY InitSiteInv, NextSiteInv, SiteInvNotModified, PTL DEF Spec

(* try_load: "static_dir must contain an index.html at its root", so that   *)
(* the root of a site that is up is never answered 404.                     *)
THEOREM RootAnswersHolds == Spec => []RootAnswers
<1>1. SiteInv => RootAnswers
  BY DEF SiteInv
<1>. QED  BY <1>1, InitSiteInv, NextSiteInv, PTL DEF Spec

(* The counters by method and by status tell one story at every instant,    *)
(* whatever number of requests is between its two counters.                 *)
THEOREM HttpBooksHold == Spec => []HttpBooks
<1>1. SiteInv => HttpBooks
  BY DEF SiteInv
<1>. QED  BY <1>1, InitSiteInv, NextSiteInv, PTL DEF Spec

(* "Approximate response body bytes sent" (metrics.rs): never less than the *)
(* bodies handed on, and exactly those until the first HEAD.                *)
THEOREM BytesCoverBodiesHolds == Spec => []BytesCoverBodies
<1>1. SiteInv => BytesCoverBodies
  BY DEF SiteInv
<1>. QED  BY <1>1, InitSiteInv, NextSiteInv, PTL DEF Spec
=============================================================================
