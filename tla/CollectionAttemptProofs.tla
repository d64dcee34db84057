----------------------- MODULE CollectionAttemptProofs -----------------------
(***************************************************************************)
(* What an attempt keeps for every policy, world of servers and resolvers, *)
(* configuration, document and rule table: whom it contacts, and how what  *)
(* it reports relates to what it has stored.                               *)
(***************************************************************************)
EXTENDS CollectionAttempt, FiniteSetTheorems, SequenceTheorems, TLAPS

-----------------------------------------------------------------------------
(* The fetch.                                                              *)

Known == DOMAIN Responses
Received == (UNION { Responses[url] : url \in Known }) \cup {NoResponse}

\* Servers that send no status above 599 and no empty validator.
OrdinaryResponses ==
  \A url \in Known : \A r \in Responses[url] : r.status \in 100..599 /\ r.etag # "empty"

\* A result that the attempt knows how to draft.
Reported(r) ==
  /\ r.outcome \in {"thrown", "blocked", "failure", "not_modified", "content"}
  /\ r.outcome = "failure" => r.retry \in {"transient", "permanent"}
  /\ OrdinaryResponses => r.status \in {0} \cup 100..599 /\ r.etag # "empty"

\* A contact was made to a permitted URL at an address that its host resolved
\* to, among public ones only, and in time.
VettedContact(c) ==
  /\ c.url \in Known
  /\ StaticDecision(Policy, c.url) = "validated"
  /\ c.answers \in Answers[c.url.host]
  /\ \A i \in 1..Len(c.answers) : PublicUnicast(c.answers[i])
  /\ c.address \in ToSet(c.answers)
  /\ c.at < Total

FetchShape(f) ==
  f \in [pc : {"idle", "resolving", "hop", "body", "done"}, url : {f.url}, target : {f.target},
         contacts : {f.contacts}, redirects : 0..MaxRedirects, connectBy : {f.connectBy},
         response : Received, result : {f.result}]

ContactsInv(contacts) ==
  /\ IsFiniteSet(contacts)
  /\ \A c \in contacts : VettedContact(c)
  /\ \A c, d \in contacts : c.url = d.url => c = d

\* The first contact is no redirect, every further one is.
Counted(f) ==
  IF f.contacts = {} THEN f.redirects = 0 ELSE Cardinality(f.contacts) = f.redirects + 1

FetchInv(f) ==
  /\ FetchShape(f) /\ ContactsInv(f.contacts) /\ Counted(f)
  /\ f.pc = "idle" => f.contacts = {}
  /\ f.pc = "resolving" =>
       /\ f.target \in Known /\ StaticDecision(Policy, f.target) = "validated"
       /\ f.contacts # {} => f.redirects < MaxRedirects
  /\ f.pc \in {"hop", "body"} => f.url \in Known /\ f.contacts # {}
  /\ f.pc = "body" => f.response \in Responses[f.url]
  /\ f.pc = "done" => Reported(f.result)

LEMMA ResultIsReported ==
  ASSUME NEW response \in Received, NEW outcome, NEW reason, NEW retry,
         outcome \in {"thrown", "blocked", "failure", "not_modified", "content"},
         outcome = "failure" => retry \in {"transient", "permanent"}
  PROVE  /\ Reported(Result(outcome, reason, retry, response))
         /\ Reported(Bare(Result(outcome, reason, retry, response)))
<1>1. OrdinaryResponses => response = NoResponse \/ (response.status \in 100..599 /\ response.etag # "empty")
  BY DEF OrdinaryResponses, Received
<1> QED
  BY <1>1 DEF Result, Bare, Reported

LEMMA TimedOutIsReported ==
  ASSUME NEW response \in Received
  PROVE  Reported(TimedOut(response))
BY ResultIsReported DEF TimedOut, Failure

LEMMA BlockedIsReported ==
  ASSUME NEW reason
  PROVE  Reported(Blocked(reason))
<1>1. NoResponse \in Received
  BY DEF Received
<1> QED
  BY <1>1, ResultIsReported DEF Blocked

LEMMA NoContacts == ContactsInv({})
BY FS_EmptySet DEF ContactsInv

LEMMA IdleInv == FetchInv(Idle)
<1>1. NoResponse \in Received /\ 0 \in 0..MaxRedirects
  BY TimesAssumption DEF Received
<1> QED
  BY <1>1, NoContacts DEF FetchInv, FetchShape, Counted, Idle

LEMMA EndedInv ==
  ASSUME NEW result, Reported(result)
  PROVE  FetchInv(Ended(result))
<1>1. NoResponse \in Received /\ 0 \in 0..MaxRedirects
  BY TimesAssumption DEF Received
<1> QED
  BY <1>1, NoContacts DEF FetchInv, FetchShape, Counted, Ended, Idle

\* A URL is validated before anything is resolved for it.
LEMMA ValidatingInv ==
  ASSUME NEW f, FetchInv(f), NEW url \in Known, f.contacts # {} => f.redirects < MaxRedirects
  PROVE  FetchInv(Validating(f, url))
<1> DEFINE decision == StaticDecision(Policy, url)
<1>1. CASE decision # "validated"
  <2>1. FetchInv(Ended(Blocked(decision)))
    BY BlockedIsReported, EndedInv
  <2> QED BY <1>1, <2>1 DEF Validating
<1>2. CASE decision = "validated" /\ Remaining = 0
  <2>1. f.response \in Received
    BY DEF FetchInv, FetchShape
  <2>2. FetchInv(Ended(TimedOut(f.response)))
    BY <2>1, TimedOutIsReported, EndedInv
  <2> QED BY <1>2, <2>2 DEF Validating
<1>3. CASE decision = "validated" /\ Remaining # 0
  <2>1. Validating(f, url) = [f EXCEPT !.pc = "resolving", !.target = url]
    BY <1>3 DEF Validating
  <2> QED BY <1>3, <2>1 DEF FetchInv, FetchShape, Counted
<1> QED BY <1>1, <1>2, <1>3

\* One more contact, to a URL that has not been contacted.
LEMMA MoreContacts ==
  ASSUME NEW contacts, ContactsInv(contacts), NEW c, VettedContact(c),
         c.url \notin { d.url : d \in contacts }
  PROVE  /\ ContactsInv(contacts \cup {c})
         /\ Cardinality(contacts \cup {c}) = Cardinality(contacts) + 1
<1>1. c \notin contacts
  OBVIOUS
<1>2. IsFiniteSet(contacts)
  BY DEF ContactsInv
<1>3. /\ IsFiniteSet(contacts \cup {c})
      /\ Cardinality(contacts \cup {c}) = Cardinality(contacts) + 1
  BY <1>1, <1>2, FS_AddElement
<1> QED
  BY <1>3 DEF ContactsInv

LEMMA HopInv ==
  ASSUME NEW f, FetchShape(f), ContactsInv(f.contacts), f.redirects = Cardinality(f.contacts),
         f.pc = "resolving", f.target \in Known, StaticDecision(Policy, f.target) = "validated",
         f.target \notin Contacted(f),
         NEW answers \in Answers[f.target.host], AddressDecision(answers) = "validated"
  PROVE  FetchInv(Hop(f, f.target, answers))
<1> DEFINE c == [url |-> f.target, answers |-> answers, address |-> Pinned(answers), at |-> now]
           g == Hop(f, f.target, answers)
<1>1. CASE Remaining = 0
  <2>1. f.response \in Received
    BY DEF FetchShape
  <2>2. FetchInv(Ended(TimedOut(f.response)))
    BY <2>1, TimedOutIsReported, EndedInv
  <2> QED BY <1>1, <2>2 DEF Hop
<1>2. CASE Remaining # 0
  <2>1. now < Total
    BY <1>2 DEF Remaining
  <2>2. answers \in Seq(Seq(Nat)) /\ answers # <<>>
        /\ \A i \in 1..Len(answers) : PublicUnicast(answers[i])
    <3>1. answers \in Seq(Seq(Nat))
      BY WorldAssumption DEF Known
    <3>2. answers # <<>> /\ ~\E i \in 1..Len(answers) : ~PublicUnicast(answers[i])
      BY DEF AddressDecision
    <3> QED BY <3>1, <3>2
  <2>3. Head(answers) \in ToSet(answers)
    BY <2>2 DEF ToSet
  <2>4. VettedContact(c)
    BY <2>1, <2>2, <2>3 DEF VettedContact, Pinned
  <2>5. c.url \notin { d.url : d \in f.contacts }
    BY DEF Contacted
  <2>6. /\ ContactsInv(f.contacts \cup {c})
        /\ Cardinality(f.contacts \cup {c}) = f.redirects + 1
    BY <2>4, <2>5, MoreContacts
  <2>7. g = [f EXCEPT !.pc        = "hop",
                      !.url       = f.target,
                      !.target    = NoUrl,
                      !.response  = NoResponse,
                      !.connectBy = now + (IF Connect < Remaining THEN Connect ELSE Remaining),
                      !.contacts  = @ \cup {c}]
    BY <1>2 DEF Hop
  <2> HIDE DEF c
  <2>8. /\ g.pc = "hop" /\ g.url = f.target /\ g.contacts = f.contacts \cup {c}
        /\ g.redirects = f.redirects
    BY <2>7 DEF FetchShape
  <2>9. FetchShape(g)
    <3>1. NoResponse \in Received
      BY DEF Received
    <3> QED BY <2>7, <3>1 DEF FetchShape
  <2> HIDE DEF g
  <2>10. FetchInv(g)
    BY <2>6, <2>8, <2>9 DEF FetchInv, Counted
  <2> QED BY <2>10 DEF g
<1> QED BY <1>1, <1>2

LEMMA VettedInv ==
  ASSUME NEW f, FetchInv(f), f.pc = "resolving", NEW answers \in Answers[f.target.host]
  PROVE  FetchInv(Vetted(f, answers))
<1> DEFINE decision == AddressDecision(answers)
<1>0. /\ FetchShape(f) /\ ContactsInv(f.contacts) /\ Counted(f) /\ f.response \in Received
      /\ f.target \in Known /\ StaticDecision(Policy, f.target) = "validated"
      /\ f.contacts # {} => f.redirects < MaxRedirects
  BY DEF FetchInv, FetchShape
<1>1. CASE decision # "validated"
  <2>1. FetchInv(Ended(Blocked(decision)))
    BY BlockedIsReported, EndedInv
  <2> QED BY <1>1, <2>1 DEF Vetted
<1>2. CASE decision = "validated" /\ f.contacts = {}
  <2>1. f.redirects = Cardinality(f.contacts) /\ f.target \notin Contacted(f)
    BY <1>0, <1>2, FS_EmptySet DEF Counted, Contacted
  <2>2. FetchInv(Hop(f, f.target, answers))
    BY <1>0, <1>2, <2>1, HopInv
  <2> QED BY <1>2, <2>2 DEF Vetted
<1>3. CASE decision = "validated" /\ f.contacts # {} /\ f.target \in Contacted(f)
  <2>1. FetchInv(Ended(Failure("redirect_loop", "permanent", f.response)))
    BY <1>0, ResultIsReported, EndedInv DEF Failure
  <2> QED BY <1>3, <2>1 DEF Vetted
<1>4. CASE decision = "validated" /\ f.contacts # {} /\ f.target \notin Contacted(f)
  <2> DEFINE g == [f EXCEPT !.redirects = @ + 1]
  <2>1. /\ FetchShape(g) /\ g.redirects = f.redirects + 1 /\ g.contacts = f.contacts
        /\ g.pc = f.pc /\ g.target = f.target /\ g.url = f.url
    BY <1>0, <1>4, TimesAssumption DEF FetchShape
  <2>2. g.redirects = Cardinality(g.contacts) /\ g.target \notin Contacted(g)
    BY <1>0, <1>4, <2>1 DEF Counted, Contacted
  <2>3. Vetted(f, answers) = Hop(g, g.target, answers)
    BY <1>4, <2>1 DEF Vetted
  <2> HIDE DEF g
  <2>4. FetchInv(Hop(g, g.target, answers))
    BY <1>0, <1>4, <2>1, <2>2, HopInv
  <2> QED BY <2>3, <2>4
<1> QED BY <1>1, <1>2, <1>3, <1>4

\* A hop that has settled: the end of the fetch, or the next URL to validate.
LEMMA AfterHopInv ==
  ASSUME NEW f, FetchInv(f), f.pc \in {"hop", "body"}, NEW result,
         \/ Reported(result)
         \/ result.outcome = "redirect" /\ f.response \in Responses[f.url]
  PROVE  FetchInv(AfterHop(f, result))
<1>0. f.response \in Received /\ f.url \in Known /\ f.contacts # {} /\ f.redirects \in Nat
  BY TimesAssumption DEF FetchInv, FetchShape
<1>1. CASE result.outcome # "redirect" /\ Remaining = 0
  <2>1. FetchInv(Ended(TimedOut(f.response)))
    BY <1>0, TimedOutIsReported, EndedInv
  <2> QED BY <1>1, <2>1 DEF AfterHop
<1>2. CASE result.outcome # "redirect" /\ Remaining # 0
  <2>1. FetchInv(Ended(result))
    BY <1>2, EndedInv
  <2> QED BY <1>2, <2>1 DEF AfterHop
<1>3. CASE result.outcome = "redirect"
  <2> DEFINE location == f.response.location
             refuse(why) == Ended(Failure(why, "permanent", f.response))
  <2>1. \A why : FetchInv(refuse(why))
    BY <1>0, ResultIsReported, EndedInv DEF Failure
  <2>2. CASE location = NoUrl \/ f.redirects >= MaxRedirects
    BY <1>3, <2>1, <2>2 DEF AfterHop
  <2>3. CASE location # NoUrl /\ ~(f.redirects >= MaxRedirects)
    <3>1. location \in Known
      BY <1>0, <1>3, <2>3, WorldAssumption DEF Reported, Known
    <3>2. f.redirects < MaxRedirects
      BY <1>0, <2>3, TimesAssumption
    <3>3. FetchInv(Validating(f, location))
      BY <3>1, <3>2, ValidatingInv
    <3> QED BY <1>3, <2>3, <3>3 DEF AfterHop
  <2> QED BY <2>2, <2>3
<1> QED BY <1>1, <1>2, <1>3

LEMMA HopEndsInv ==
  ASSUME NEW f, FetchInv(f), f.pc \in {"hop", "body"}, NEW result, Reported(result)
  PROVE  FetchInv(AfterHop(f, result))
BY AfterHopInv

\* What is read of a response is a result, or a redirect.
LEMMA ReadReports ==
  ASSUME NEW response \in Received
  PROVE  Reported(Read(response)) \/ Read(response).outcome = "redirect"
<1>1. \A why : Reported(Failure(why, "permanent", response))
               /\ Reported(Failure(why, "transient", response))
  BY ResultIsReported DEF Failure
<1>2. \A o \in {"content", "not_modified"} : Reported(Result(o, "none", "none", response))
  BY ResultIsReported
<1>3. Result("redirect", "none", "none", response).outcome = "redirect"
  BY DEF Result
<1>4. StatusRetry(response.status) \in {"transient", "permanent"}
  BY DEF StatusRetry
<1>5. Reported(Failure("http_status", StatusRetry(response.status), response))
  BY <1>1, <1>4
<1> QED BY <1>1, <1>2, <1>3, <1>5 DEF Read

LEMMA RefusalReports ==
  ASSUME NEW response \in Received
  PROVE  Reported(RefusalOf(response))
BY ResultIsReported DEF RefusalOf, Failure

LEMMA FetchStepInv ==
  ASSUME FetchInv(fetch), FetchStep
  PROVE  FetchInv(fetch')
<1>0. fetch.response \in Received /\ NoResponse \in Received
  BY DEF FetchInv, FetchShape, Received
<1>1. CASE ResolverAnswers
  BY <1>1, VettedInv DEF ResolverAnswers
<1>2. CASE ResolverTimesOut
  BY <1>0, <1>2, TimedOutIsReported, EndedInv DEF ResolverTimesOut
<1>3. CASE Connects
  BY <1>3 DEF Connects, FetchInv, FetchShape, Counted
<1>4. CASE ResponseArrives
  <2>1. PICK response \in Responses[fetch.url] :
          LET f == [fetch EXCEPT !.pc = "body", !.connectBy = NoTimer, !.response = response]
          IN  fetch' = IF Refused(response) THEN AfterHop(f, RefusalOf(response)) ELSE f
    BY <1>4 DEF ResponseArrives
  <2> DEFINE f == [fetch EXCEPT !.pc = "body", !.connectBy = NoTimer, !.response = response]
  <2>2. response \in Received
    BY <1>4 DEF ResponseArrives, FetchInv, Received
  <2>3. FetchInv(f) /\ f.pc = "body"
    BY <1>4, <2>2 DEF ResponseArrives, FetchInv, FetchShape, Counted
  <2> HIDE DEF f
  <2>4. FetchInv(AfterHop(f, RefusalOf(response)))
    <3>1. Reported(RefusalOf(response)) /\ f.pc \in {"hop", "body"}
      BY <2>2, <2>3, RefusalReports
    <3> QED BY <2>3, <3>1, HopEndsInv
  <2> QED BY <2>1, <2>3, <2>4 DEF f
<1>5. CASE BodyEnds
  <2>1. fetch.pc = "body" /\ fetch.response \in Responses[fetch.url]
    BY <1>5 DEF BodyEnds, FetchInv
  <2>2. FetchInv(AfterHop(fetch, Read(fetch.response)))
    BY <1>0, <2>1, ReadReports, AfterHopInv
  <2> QED BY <1>5, <2>2 DEF BodyEnds
<1>6. CASE RequestFails
  <2>1. Reported(Bare(Failure("tls_validation_error", "permanent", fetch.response)))
        /\ Reported(Bare(Failure("network_error", "transient", fetch.response)))
    BY <1>0, ResultIsReported DEF Failure
  <2>2. fetch.pc \in {"hop", "body"}
    BY <1>6 DEF RequestFails
  <2>3. /\ FetchInv(AfterHop(fetch, Bare(Failure("tls_validation_error", "permanent", fetch.response))))
        /\ FetchInv(AfterHop(fetch, Bare(Failure("network_error", "transient", fetch.response))))
    BY <2>1, <2>2, HopEndsInv
  <2> QED BY <1>6, <2>3 DEF RequestFails
<1>7. CASE ConnectTimesOut
  <2>1. Reported(Failure("connect_timeout", "transient", NoResponse))
    BY <1>0, ResultIsReported DEF Failure
  <2>2. fetch.pc \in {"hop", "body"}
    BY <1>7 DEF ConnectTimesOut
  <2>3. FetchInv(AfterHop(fetch, Failure("connect_timeout", "transient", NoResponse)))
    BY <2>1, <2>2, HopEndsInv
  <2> QED BY <1>7, <2>3 DEF ConnectTimesOut
<1>8. CASE TotalTimesOut
  <2>1. Reported(TimedOut(fetch.response)) /\ fetch.pc \in {"hop", "body"}
    BY <1>0, <1>8, TimedOutIsReported DEF TotalTimesOut
  <2>2. FetchInv(AfterHop(fetch, TimedOut(fetch.response)))
    BY <2>1, HopEndsInv
  <2> QED BY <1>8, <2>2 DEF TotalTimesOut
<1>9. CASE RequestRefused
  <2>1. Reported(Result("thrown", "fetch_execution_failed", "transient", NoResponse))
    BY <1>0, ResultIsReported
  <2> QED BY <1>9, <2>1, EndedInv DEF RequestRefused
<1>10. CASE Tick
  BY <1>10 DEF Tick
<1> QED
  BY <1>1, <1>2, <1>3, <1>4, <1>5, <1>6, <1>7, <1>8, <1>9, <1>10 DEF FetchStep

\* What the invariant says of the contacts is what is to be shown: as many
\* URLs as contacts, and one more than redirects.
LEMMA InvVets == FetchInv(fetch) => ContactsAreVetted
<1> SUFFICES ASSUME FetchInv(fetch) PROVE ContactsAreVetted
  OBVIOUS
<1> DEFINE C == fetch.contacts
           url == [c \in C |-> c.url]
<1>1. IsFiniteSet(C) /\ (\A c, d \in C : c.url = d.url => c = d) /\ \A c \in C : VettedContact(c)
  BY DEF FetchInv, ContactsInv
<1>2. Cardinality(Contacted(fetch)) = Cardinality(C)
  <2>1. url \in [C -> Contacted(fetch)] /\ \A t \in Contacted(fetch) : \E c \in C : url[c] = t
    BY DEF Contacted
  <2>2. \A c, d \in C : url[c] = url[d] => c = d
    BY <1>1
  <2> HIDE DEF url
  <2>3. url \in Bijection(C, Contacted(fetch))
    BY <2>1, <2>2 DEF Bijection, Injection, Surjection, IsInjective
  <2>4. ExistsBijection(C, Contacted(fetch))
    BY <2>3 DEF ExistsBijection
  <2> QED BY <1>1, <2>4, FS_Bijection
<1>3. Cardinality(C) <= MaxRedirects + 1
  <2>1. fetch.redirects \in 0..MaxRedirects /\ MaxRedirects \in Nat
    BY TimesAssumption DEF FetchInv, FetchShape
  <2>2. CASE C = {}
    BY <2>1, <2>2, FS_EmptySet
  <2>3. CASE C # {}
    BY <2>1, <2>3 DEF FetchInv, Counted
  <2> QED BY <2>2, <2>3
<1> QED BY <1>1, <1>2, <1>3 DEF ContactsAreVetted, VettedContact

-----------------------------------------------------------------------------
(* Lists of items.                                                         *)

\* A list has whatever elements; what counts is how many.
List(s) == \E S : s \in Seq(S)

LEMMA ListLength ==
  ASSUME NEW s, List(s)
  PROVE  /\ Len(s) \in Nat
         /\ s = <<>> <=> Len(s) = 0
         /\ IsFiniteSet(1..Len(s)) /\ Cardinality(1..Len(s)) = Len(s)
<1>1. PICK S : s \in Seq(S)
  BY DEF List
<1>2. Len(s) \in Nat /\ (s # <<>> => Len(s) \in Nat \ {0})
  BY <1>1, LenProperties, EmptySeq
<1>3. s = <<>> => Len(s) = 0
  BY <1>1, EmptySeq
<1>4. 1 \in Int /\ Len(s) \in Int
  BY <1>2
<1>5. IsFiniteSet(1..Len(s)) /\ Cardinality(1..Len(s)) = IF 1 > Len(s) THEN 0 ELSE Len(s) - 1 + 1
  BY <1>4, FS_Interval
<1> QED BY <1>2, <1>3, <1>5

LEMMA KeptShape ==
  ASSUME NEW items, NEW places, IsFiniteSet(places)
  PROVE  List(Kept(items, places)) /\ Len(Kept(items, places)) = Cardinality(places)
<1> DEFINE n == Cardinality(places)
           s == Kept(items, places)
           S == { s[k] : k \in 1..n }
<1>1. n \in Nat
  BY FS_CardinalityType
<1>2. s = [k \in 1..n |-> s[k]]
  BY DEF Kept
<1> HIDE DEF s, n
<1>3. s \in [1..n -> S]
  BY <1>2
<1>4. s \in Seq(S)
  BY <1>1, <1>3
<1>5. Len(s) \in Nat /\ 1..Len(s) = 1..n
  BY <1>3, <1>4, LenProperties
<1>6. Len(s) = n
  BY <1>1, <1>5
<1> QED BY <1>4, <1>6 DEF List, s, n

\* The places of a list that are in a set, and those that are not.
LEMMA PlacesFinite ==
  ASSUME NEW s, List(s), NEW P \in SUBSET (1..Len(s))
  PROVE  /\ IsFiniteSet(P) /\ Cardinality(P) \in 0..Len(s)
         /\ IsFiniteSet((1..Len(s)) \ P)
<1>1. IsFiniteSet(1..Len(s)) /\ Cardinality(1..Len(s)) = Len(s) /\ Len(s) \in Nat
  BY ListLength
<1>2. IsFiniteSet(P) /\ Cardinality(P) <= Len(s)
  BY <1>1, FS_Subset
<1>3. Cardinality(P) \in Nat
  BY <1>2, FS_CardinalityType
<1>4. IsFiniteSet((1..Len(s)) \ P)
  BY <1>1, FS_Subset
<1> QED BY <1>1, <1>2, <1>3, <1>4

\* What is kept of a list is a list, and no longer.
LEMMA KeptList ==
  ASSUME NEW s, List(s), NEW P \in SUBSET (1..Len(s))
  PROVE  /\ List(Kept(s, P)) /\ Len(s) \in Nat
         /\ Len(Kept(s, P)) \in Nat /\ Len(Kept(s, P)) <= Len(s)
<1>1. IsFiniteSet(P) /\ Cardinality(P) \in 0..Len(s) /\ Len(s) \in Nat
  BY PlacesFinite, ListLength
<1> QED BY <1>1, KeptShape

-----------------------------------------------------------------------------
(* What the parsers return.                                                *)

LEMMA DefectsAreCounted ==
  ASSUME NEW items, List(items), \A i \in 1..Len(items) : IsFiniteSet(items[i].overlong)
  PROVE  Cardinality(Defects(items)) \in Nat
<1> DEFINE I == 1..Len(items)
           at == [i \in I |-> {i} \X DefectsOf(items[i])]
           A == { {i} \X DefectsOf(items[i]) : i \in I }
<1>1. IsFiniteSet(I)
  BY ListLength
<1>2. \A i \in I : IsFiniteSet({i} \X DefectsOf(items[i]))
  <2> TAKE i \in I
  <2>1. IsFiniteSet({i}) /\ IsFiniteSet({"item"})
    BY FS_Singleton
  <2>2. IsFiniteSet(DefectsOf(items[i]))
    BY <2>1 DEF DefectsOf
  <2> QED BY <2>1, <2>2, FS_Product
<1>3. at \in Surjection(I, A)
  BY DEF Surjection
<1>4. IsFiniteSet(A)
  BY <1>1, <1>3, FS_Surjection
<1>5. \A T \in A : IsFiniteSet(T)
  BY <1>2
<1>6. IsFiniteSet(UNION A)
  BY <1>4, <1>5, FS_UNION
<1>7. Defects(items) = UNION A
  BY DEF Defects
<1> QED BY <1>6, <1>7, FS_CardinalityType

IsAnswer(r) == List(r.items) /\ r.failures \in Nat

LEMMA FailureIsAnAnswer ==
  ASSUME NEW reason, NEW failures \in Nat
  PROVE  IsAnswer(ParseFailure(reason, failures)) /\ ~ParseFailure(reason, failures).ok
<1>1. <<>> \in Seq({})
  BY EmptySeq
<1> QED BY <1>1 DEF ParseFailure, List, IsAnswer

LEMMA ParserReturns ==
  ASSUME NEW snapshot, NEW document \in Documents
  PROVE  LET r == ParserResult(snapshot, document) IN
         IsAnswer(r) /\ (r.ok => HasParser(snapshot))
<1> DEFINE items == document.items
<1>1. List(items)
  BY DocumentsAssumption DEF List
<1>2. \A i \in 1..Len(items) : IsFiniteSet(items[i].overlong)
  <2>1. items \in Seq(ToSet(items)) /\ \A item \in ToSet(items) : IsFiniteSet(item.overlong)
    BY DocumentsAssumption
  <2> QED BY <2>1
<1>3. Cardinality(Defects(items)) \in Nat
  BY <1>1, <1>2, DefectsAreCounted
<1>4. IsAnswer(ParseFeed(document))
  <2>1. 0 \in Nat /\ \A reason : IsAnswer(ParseFailure(reason, 0))
    BY FailureIsAnAnswer
  <2> QED BY <1>1, <2>1 DEF ParseFeed, IsAnswer
<1>5. IsAnswer(ParseListing(document))
  <2> DEFINE usable == { i \in 1..Len(items) : Usable(items[i]) }
             trimmed == [i \in 1..Len(items) |-> Trimmed(items[i])]
  <2>1. IsFiniteSet(usable)
    BY <1>1, PlacesFinite
  <2>2. List(Kept(trimmed, usable))
    BY <2>1, KeptShape
  <2>3. \A reason : /\ IsAnswer(ParseFailure(reason, 0))
                    /\ IsAnswer(ParseFailure(reason, Cardinality(Defects(items))))
    BY <1>3, FailureIsAnAnswer
  <2> QED BY <1>3, <2>2, <2>3 DEF ParseListing, IsAnswer
<1>6. IsAnswer(ParseFailure("unsupported_endpoint_type", 0))
      /\ ~ParseFailure("unsupported_endpoint_type", 0).ok
  BY FailureIsAnAnswer
<1> QED
  BY <1>4, <1>5, <1>6 DEF ParserResult

\* Diagnostics name the profile of a listing, and count up to the cap.
Diagnosed(d) ==
  d # NoDiagnostics =>
    /\ (d.kind = "html_listing") = (d.revision # 0)
    /\ d.failures \in 0..FailureCap

LEMMA DiagnosticsAreValid ==
  ASSUME NEW snapshot, NEW result, result.failures \in Nat
  PROVE  Diagnosed(DiagnosticsOf(snapshot, result))
<1>1. ParserItemFailureCount(result.failures) \in 0..FailureCap
  BY FailureCapAssumption DEF ParserItemFailureCount
<1> QED BY <1>1 DEF Diagnosed, DiagnosticsOf, HasParser

-----------------------------------------------------------------------------
(* Drafts.                                                                 *)

Tally == [created : Nat, updated : Nat, unchanged : Nat, excluded : Nat,
          reviews : Nat, grouped : Nat]

DraftShape(d) ==
  d \in [outcome : {d.outcome}, status : {d.status}, transport : {d.transport},
         parser : {d.parser}, diagnostics : {d.diagnostics},
         normalization : {d.normalization}, processing : {d.processing},
         http : {d.http}, etag : {d.etag}, retry : {d.retry}, error : {d.error},
         raw : Nat, filtered : Nat, normalized : Nat, unnormalized : Nat,
         linkRejected : Nat, rejected : Nat, failed : Nat, counts : Tally]

\* What the fetch has told the draft.
Fetched(d) ==
  OrdinaryResponses => (d.http = 0 \/ d.http \in 100..599) /\ d.etag # "empty"

\* Accepted by the validation, as far as the servers' answers allow.
Sound(d) ==
  /\ DraftShape(d) /\ Fetched(d)
  /\ KnownValues(d)
  /\ (d.status = "succeeded") = (d.retry = "none")
  /\ ValidDiagnostics(d)
  /\ Accounted(d)

\* A draft of content with n candidates that are not accounted for yet.
Content(d, n) ==
  /\ DraftShape(d) /\ Fetched(d) /\ Diagnosed(d.diagnostics)
  /\ d.outcome = "content" /\ d.status = "succeeded" /\ d.retry = "none"
  /\ d.transport = "succeeded" /\ d.parser = "succeeded"
  /\ d.normalization = "succeeded" /\ d.processing = "succeeded"
  /\ d.filtered <= d.raw /\ d.linkRejected <= d.normalized /\ d.linkRejected <= d.rejected
  /\ d.raw = d.filtered + d.normalized + d.unnormalized
  /\ Processed(d) + d.rejected + d.failed + n = d.normalized

LEMMA ContentIsSound ==
  ASSUME NEW d, Content(d, 0)
  PROVE  Sound(d)
BY DEF Content, Sound, KnownValues, ValidDiagnostics, Diagnosed, Accounted, DraftShape, Tally,
       Processed

LEMMA ProcessedIsCounted ==
  ASSUME NEW d, DraftShape(d)
  PROVE  Processed(d) \in Nat
<1>1. d.counts \in Tally
  BY DEF DraftShape
<1>2. /\ d.counts.created \in Nat /\ d.counts.updated \in Nat
      /\ d.counts.unchanged \in Nat /\ d.counts.excluded \in Nat
  BY <1>1 DEF Tally
<1> QED BY <1>2 DEF Processed

LEMMA NothingIsATally == Nothing \in Tally
BY DEF Nothing, Tally

LEMMA EmptyDraftShape == DraftShape(EmptyDraft)
BY NothingIsATally DEF DraftShape, EmptyDraft

\* What a fetch without content leaves is accepted, and tells of nothing stored.
LEMMA FetchDraftIsSound ==
  ASSUME NEW result, Reported(result), result.outcome # "content"
  PROVE  LET d == FetchDraft(result) IN
         Sound(d) /\ d.counts = Nothing /\ d.outcome # "processing_failed"
<1> DEFINE d == FetchDraft(result)
<1>1. /\ DraftShape(d) /\ Fetched(d) /\ d.counts = Nothing
      /\ d.outcome \in {"fetch_failed", "network_safety_blocked", "not_modified"}
      /\ d.status \in {"succeeded", "failed"}
      /\ d.transport \in {"not_run", "failed", "not_modified"}
      /\ d.parser = "not_run" /\ d.normalization = "not_run" /\ d.processing = "not_run"
      /\ d.retry \in {"none", "transient", "permanent"}
      /\ (d.status = "succeeded") = (d.retry = "none")
      /\ d.diagnostics = NoDiagnostics
      /\ d.raw = 0 /\ d.filtered = 0 /\ d.normalized = 0 /\ d.unnormalized = 0
      /\ d.linkRejected = 0 /\ d.rejected = 0 /\ d.failed = 0
  <2>1. CASE result.outcome = "thrown"
    <3>1. d = [EmptyDraft EXCEPT !.outcome = "fetch_failed", !.transport = "failed",
                                 !.error = result.reason, !.retry = "transient"]
      BY <2>1 DEF FetchDraft
    <3> HIDE DEF d
    <3>2. DraftShape(d)
      BY <3>1, EmptyDraftShape DEF DraftShape
    <3>3. d.http = 0 /\ d.etag = "none"
      BY <3>1 DEF EmptyDraft
    <3>4. Fetched(d)
      BY <3>3 DEF Fetched
    <3> QED BY <3>1, <3>2, <3>4 DEF EmptyDraft
  <2>2. CASE result.outcome = "blocked"
    <3>1. d = [EmptyDraft EXCEPT !.outcome = "network_safety_blocked",
                                 !.error = result.reason, !.retry = "permanent"]
      BY <2>2 DEF FetchDraft
    <3> HIDE DEF d
    <3>2. DraftShape(d)
      BY <3>1, EmptyDraftShape DEF DraftShape
    <3>3. d.http = 0 /\ d.etag = "none"
      BY <3>1 DEF EmptyDraft
    <3>4. Fetched(d)
      BY <3>3 DEF Fetched
    <3> QED BY <3>1, <3>2, <3>4 DEF EmptyDraft
  <2>3. CASE result.outcome = "failure"
    <3>1. d = [EmptyDraft EXCEPT !.outcome = "fetch_failed", !.transport = "failed",
                                 !.error = result.reason, !.retry = result.retry,
                                 !.http = result.status, !.etag = result.etag]
      BY <2>3 DEF FetchDraft, WithMetadata, EmptyDraft
    <3>2. /\ result.retry \in {"transient", "permanent"}
          /\ OrdinaryResponses => result.status \in {0} \cup 100..599 /\ result.etag # "empty"
      BY <2>3 DEF Reported
    <3> HIDE DEF d
    <3>3. DraftShape(d) /\ d.http = result.status /\ d.etag = result.etag
      BY <3>1, EmptyDraftShape DEF DraftShape
    <3>4. Fetched(d)
      BY <3>2, <3>3 DEF Fetched
    <3> QED BY <3>1, <3>2, <3>3, <3>4 DEF EmptyDraft
  <2>4. CASE result.outcome = "not_modified"
    <3>1. d = [EmptyDraft EXCEPT !.outcome = "not_modified", !.status = "succeeded",
                                 !.transport = "not_modified",
                                 !.http = result.status, !.etag = result.etag]
      BY <2>4 DEF FetchDraft, WithMetadata, EmptyDraft
    <3>2. OrdinaryResponses => result.status \in {0} \cup 100..599 /\ result.etag # "empty"
      BY DEF Reported
    <3> HIDE DEF d
    <3>3. DraftShape(d) /\ d.http = result.status /\ d.etag = result.etag
      BY <3>1, EmptyDraftShape DEF DraftShape
    <3>4. Fetched(d)
      BY <3>2, <3>3 DEF Fetched
    <3> QED BY <3>1, <3>2, <3>3, <3>4 DEF EmptyDraft
  <2> QED BY <2>1, <2>2, <2>3, <2>4 DEF Reported
<1> HIDE DEF d
<1>2. Processed(d) = 0
  BY <1>1 DEF Processed, Nothing
<1>3. Sound(d)
  BY <1>1, <1>2 DEF Sound, KnownValues, ValidDiagnostics, Accounted
<1> QED BY <1>1, <1>3 DEF d

\* The draft of content before it is parsed.
Unparsed(d) ==
  /\ DraftShape(d) /\ Fetched(d)
  /\ d.status = "failed" /\ d.retry = "none" /\ d.transport = "succeeded"
  /\ d.parser = "not_run" /\ d.normalization = "not_run" /\ d.processing = "not_run"
  /\ d.diagnostics = NoDiagnostics /\ d.counts = Nothing
  /\ d.raw = 0 /\ d.filtered = 0 /\ d.normalized = 0 /\ d.unnormalized = 0
  /\ d.linkRejected = 0 /\ d.rejected = 0 /\ d.failed = 0

LEMMA ContentDraftIsUnparsed ==
  ASSUME NEW result, Reported(result), result.outcome = "content"
  PROVE  Unparsed(FetchDraft(result))
<1> DEFINE d == FetchDraft(result)
<1>1. d = [EmptyDraft EXCEPT !.transport = "succeeded", !.http = result.status, !.etag = result.etag]
  BY DEF FetchDraft, WithMetadata, EmptyDraft
<1>2. OrdinaryResponses => result.status \in {0} \cup 100..599 /\ result.etag # "empty"
  BY DEF Reported
<1> HIDE DEF d
<1>3. DraftShape(d) /\ d.http = result.status /\ d.etag = result.etag
  BY <1>1, EmptyDraftShape DEF DraftShape
<1>4. Fetched(d)
  BY <1>2, <1>3 DEF Fetched
<1>5. Unparsed(d)
  BY <1>1, <1>3, <1>4 DEF EmptyDraft, Unparsed
<1> QED BY <1>5 DEF d

-----------------------------------------------------------------------------
(* From a document to candidates.                                          *)

\* A failure before the candidates are processed.
LEMMA FailedBeforeProcessing ==
  ASSUME NEW d, DraftShape(d), Fetched(d), d.transport = "succeeded",
         d.processing = "not_run", d.counts = Nothing, d.rejected = 0, d.failed = 0,
         d.parser \in {"succeeded", "failed"}, Diagnosed(d.diagnostics),
         \/ /\ d.normalization = "not_run" /\ d.normalized = 0 /\ d.unnormalized = 0
            /\ d.linkRejected = 0
         \/ /\ d.normalization \in {"succeeded", "failed"} /\ d.parser = "succeeded",
         d.filtered <= d.raw, d.linkRejected <= d.normalized,
         d.normalization = "succeeded" => d.raw = d.filtered + d.normalized + d.unnormalized,
         NEW outcome \in {"parser_failed", "normalization_failed", "article_link_policy_failed"},
         NEW error
  PROVE  LET e == FailedWith(d, outcome, error) IN
         Sound(e) /\ e.counts = Nothing /\ e.outcome = outcome /\ e.retry = "permanent"
<1> DEFINE e == FailedWith(d, outcome, error)
<1>1. e = [d EXCEPT !.outcome = outcome, !.error = error, !.status = "failed",
                    !.retry = "permanent"]
  BY DEF FailedWith
<1> HIDE DEF e
<1>2. DraftShape(e)
  BY <1>1 DEF DraftShape
<1>3. /\ e.outcome = outcome /\ e.status = "failed" /\ e.retry = "permanent"
      /\ e.transport = d.transport /\ e.parser = d.parser /\ e.diagnostics = d.diagnostics
      /\ e.normalization = d.normalization /\ e.processing = d.processing
      /\ e.http = d.http /\ e.etag = d.etag /\ e.counts = d.counts
      /\ e.raw = d.raw /\ e.filtered = d.filtered /\ e.normalized = d.normalized
      /\ e.unnormalized = d.unnormalized /\ e.linkRejected = d.linkRejected
      /\ e.rejected = d.rejected /\ e.failed = d.failed
  BY <1>1 DEF DraftShape
<1>4. Processed(e) = 0
  BY <1>3 DEF Processed, Nothing
<1>5. Fetched(e)
  BY <1>3 DEF Fetched
<1>6. KnownValues(e) /\ ValidDiagnostics(e)
  BY <1>3 DEF KnownValues, ValidDiagnostics, Diagnosed
<1>7. Accounted(e)
  BY <1>3, <1>4 DEF Accounted
<1> QED BY <1>2, <1>3, <1>5, <1>6, <1>7 DEF Sound, e

\* Whatever stage throws at whatever item, the draft is accepted; and if none
\* does, it accounts for all items but the candidates.
Prepares(p) ==
  /\ List(p.candidates) /\ p.draft.counts = Nothing
  /\ \/ p.candidates = <<>> /\ Sound(p.draft) /\ p.draft.retry = "permanent"
                            /\ p.draft.outcome # "processing_failed"
     \/ Content(p.draft, Len(p.candidates))

LEMMA PreparedDraft ==
  ASSUME NEW snapshot, NEW document \in Documents, NEW fault \in Faults, NEW draft, Unparsed(draft)
  PROVE  Prepares(Prepared(snapshot, draft, document, fault))
<1> DEFINE result   == ParserResult(snapshot, document)
           items    == result.items
           parsed   == [draft EXCEPT !.parser = "succeeded", !.raw = Len(items),
                                     !.diagnostics = DiagnosticsOf(snapshot, result)]
           admits(item) == snapshot.type # "rss_atom"
                           \/ Admitted(item, snapshot.include, snapshot.exclude)
           unfit    == { i \in 1..Len(items) : ~admits(items[i]) }
           admitted == Kept(items, (1..Len(items)) \ unfit)
           fit      == { i \in 1..Len(admitted) : Normalizes(admitted[i]) }
           normal   == Kept(admitted, fit)
           refused  == { i \in 1..Len(normal) : ~LinkAccepted(Policy, normal[i].url) }
           accepted == Kept(normal, (1..Len(normal)) \ refused)
           before(places) == Cardinality({ i \in places : i < fault.at })
           threw    == fault.stage = "parser" /\ HasParser(snapshot)
           prepared == [parsed EXCEPT
                          !.normalization = "succeeded",
                          !.filtered      = Len(items) - Len(admitted),
                          !.normalized    = Len(normal),
                          !.unnormalized  = Len(admitted) - Len(normal)]
           p == Prepared(snapshot, draft, document, fault)
<1>0. List(<<>>) /\ DraftShape(draft) /\ Fetched(draft)
  BY EmptySeq DEF List, Unparsed
<1>1. List(items) /\ result.failures \in Nat
  BY ParserReturns DEF IsAnswer
<1>2. List(admitted) /\ Len(items) \in Nat /\ Len(admitted) \in Nat /\ Len(admitted) <= Len(items)
  <2>1. (1..Len(items)) \ unfit \in SUBSET (1..Len(items))
    OBVIOUS
  <2> HIDE DEF unfit, items
  <2> QED BY <1>1, <2>1, KeptList
<1>3. List(normal) /\ Len(normal) \in Nat /\ Len(normal) <= Len(admitted)
  <2>1. fit \in SUBSET (1..Len(admitted))
    OBVIOUS
  <2> HIDE DEF fit, admitted
  <2> QED BY <1>2, <2>1, KeptList
<1>4. List(accepted) /\ Len(accepted) \in Nat /\ Len(accepted) <= Len(normal)
  <2>1. (1..Len(normal)) \ refused \in SUBSET (1..Len(normal))
    OBVIOUS
  <2> HIDE DEF refused, normal
  <2> QED BY <1>3, <2>1, KeptList
<1>5. before(unfit) \in Nat /\ before(unfit) <= Len(items)
  <2>1. { i \in unfit : i < fault.at } \in SUBSET (1..Len(items))
    OBVIOUS
  <2> HIDE DEF unfit, items
  <2>2. before(unfit) \in 0..Len(items)
    BY <1>1, <2>1, PlacesFinite
  <2> QED BY <1>2, <2>2
<1>6. before(refused) \in Nat /\ before(refused) <= Len(normal)
  <2>1. { i \in refused : i < fault.at } \in SUBSET (1..Len(normal))
    OBVIOUS
  <2> HIDE DEF refused, normal
  <2>2. before(refused) \in 0..Len(normal)
    BY <1>3, <2>1, PlacesFinite
  <2> QED BY <1>3, <2>2
<1>7. /\ Diagnosed(DiagnosticsOf(snapshot, ParseFailure("", 0)))
      /\ Diagnosed(DiagnosticsOf(snapshot, result))
  <2>1. ParseFailure("", 0).failures \in Nat
    BY FailureIsAnAnswer DEF IsAnswer
  <2> HIDE DEF result
  <2> QED BY <1>1, <2>1, DiagnosticsAreValid
<1>8. /\ DraftShape(parsed) /\ Fetched(parsed) /\ parsed.parser = "succeeded"
      /\ parsed.transport = "succeeded" /\ parsed.processing = "not_run"
      /\ parsed.normalization = "not_run" /\ parsed.diagnostics = DiagnosticsOf(snapshot, result)
      /\ parsed.counts = Nothing /\ parsed.raw = Len(items) /\ parsed.filtered = 0
      /\ parsed.normalized = 0 /\ parsed.unnormalized = 0 /\ parsed.linkRejected = 0
      /\ parsed.rejected = 0 /\ parsed.failed = 0
  <2>1. Len(items) \in Nat
    BY <1>1, ListLength
  <2> HIDE DEF items, result
  <2> QED BY <2>1 DEF Unparsed, DraftShape, Fetched
<1>9. /\ DraftShape(prepared) /\ Fetched(prepared) /\ prepared.parser = "succeeded"
      /\ prepared.transport = "succeeded" /\ prepared.processing = "not_run"
      /\ prepared.normalization = "succeeded" /\ prepared.diagnostics = parsed.diagnostics
      /\ prepared.counts = Nothing /\ prepared.raw = Len(items)
      /\ prepared.filtered = Len(items) - Len(admitted) /\ prepared.normalized = Len(normal)
      /\ prepared.unnormalized = Len(admitted) - Len(normal) /\ prepared.linkRejected = 0
      /\ prepared.rejected = 0 /\ prepared.failed = 0
  <2>1. Len(items) - Len(admitted) \in Nat /\ Len(admitted) - Len(normal) \in Nat /\ Len(normal) \in Nat
    BY <1>2, <1>3
  <2> HIDE DEF items, result, parsed, admitted, normal
  <2>2. DraftShape(prepared)
    BY <1>8, <2>1 DEF DraftShape
  <2>3. prepared.http = parsed.http /\ prepared.etag = parsed.etag
    BY <1>8 DEF DraftShape
  <2>4. Fetched(prepared)
    BY <1>8, <2>3 DEF Fetched
  <2> QED BY <1>8, <2>2, <2>4 DEF DraftShape
<1>10. CASE threw
  <2> DEFINE d == [draft EXCEPT !.parser = "failed",
                                !.diagnostics = DiagnosticsOf(snapshot, ParseFailure("", 0))]
  <2>1. p = [candidates |-> <<>>, draft |-> FailedWith(d, "parser_failed", "parser_execution_failed")]
    BY <1>10 DEF Prepared
  <2>2. /\ DraftShape(d) /\ Fetched(d) /\ d.parser = "failed" /\ Diagnosed(d.diagnostics)
        /\ d.transport = "succeeded" /\ d.processing = "not_run" /\ d.normalization = "not_run"
        /\ d.counts = Nothing /\ d.raw = 0 /\ d.filtered = 0 /\ d.normalized = 0
        /\ d.unnormalized = 0 /\ d.linkRejected = 0 /\ d.rejected = 0 /\ d.failed = 0
    BY <1>7 DEF Unparsed, DraftShape, Fetched
  <2> HIDE DEF d, p
  <2>3. LET e == FailedWith(d, "parser_failed", "parser_execution_failed") IN
        Sound(e) /\ e.counts = Nothing /\ e.outcome = "parser_failed" /\ e.retry = "permanent"
    BY <2>2, FailedBeforeProcessing
  <2> QED BY <1>0, <2>1, <2>3 DEF Prepares, p
<1>11. CASE ~threw /\ ~result.ok
  <2> DEFINE d == [draft EXCEPT !.parser = "failed", !.diagnostics = DiagnosticsOf(snapshot, result)]
  <2>1. p = [candidates |-> <<>>, draft |-> FailedWith(d, "parser_failed", result.reason)]
    BY <1>11 DEF Prepared
  <2>2. /\ DraftShape(d) /\ Fetched(d) /\ d.parser = "failed" /\ Diagnosed(d.diagnostics)
        /\ d.transport = "succeeded" /\ d.processing = "not_run" /\ d.normalization = "not_run"
        /\ d.counts = Nothing /\ d.raw = 0 /\ d.filtered = 0 /\ d.normalized = 0
        /\ d.unnormalized = 0 /\ d.linkRejected = 0 /\ d.rejected = 0 /\ d.failed = 0
    <3> HIDE DEF result
    <3> QED BY <1>7 DEF Unparsed, DraftShape, Fetched
  <2> HIDE DEF d, p, result
  <2>3. LET e == FailedWith(d, "parser_failed", result.reason) IN
        Sound(e) /\ e.counts = Nothing /\ e.outcome = "parser_failed" /\ e.retry = "permanent"
    BY <2>2, FailedBeforeProcessing
  <2> QED BY <1>0, <2>1, <2>3 DEF Prepares, p
<1>12. CASE result.ok /\ fault.stage = "normalizer" /\ fault.at <= Len(items)
  <2> DEFINE d == [parsed EXCEPT !.normalization = "failed", !.filtered = before(unfit)]
  <2>1. p = [ candidates |-> <<>>,
              draft |-> FailedWith(d, "normalization_failed", "normalization_execution_failed") ]
    BY <1>12 DEF Prepared, NormalizationThrew
  <2> HIDE DEF parsed, unfit, before, items, result
  <2>2. /\ DraftShape(d) /\ Fetched(d) /\ d.parser = "succeeded" /\ Diagnosed(d.diagnostics)
        /\ d.transport = "succeeded" /\ d.processing = "not_run" /\ d.normalization = "failed"
        /\ d.counts = Nothing /\ d.filtered <= d.raw /\ d.linkRejected = 0 /\ d.normalized = 0
        /\ d.rejected = 0 /\ d.failed = 0
    BY <1>2, <1>5, <1>7, <1>8 DEF DraftShape, Fetched
  <2> HIDE DEF d, p
  <2>3. LET e == FailedWith(d, "normalization_failed", "normalization_execution_failed") IN
        Sound(e) /\ e.counts = Nothing /\ e.outcome = "normalization_failed" /\ e.retry = "permanent"
    BY <2>2, FailedBeforeProcessing
  <2> QED BY <1>0, <2>1, <2>3 DEF Prepares, p
<1>13. CASE result.ok /\ fault.stage = "link_policy" /\ fault.at <= Len(normal)
  <2> DEFINE d == [prepared EXCEPT !.linkRejected = before(refused)]
             out == "article_link_policy_failed"
             why == "article_link_policy_execution_failed"
  <2>1. p = [candidates |-> <<>>, draft |-> FailedWith(d, out, why)]
    BY <1>13 DEF Prepared, LinkPolicyThrew
  <2> HIDE DEF prepared, parsed, refused, before, items, normal, admitted, result
  <2>2. /\ DraftShape(d) /\ Fetched(d) /\ d.parser = "succeeded" /\ Diagnosed(d.diagnostics)
        /\ d.transport = "succeeded" /\ d.processing = "not_run" /\ d.normalization = "succeeded"
        /\ d.counts = Nothing /\ d.filtered <= d.raw /\ d.linkRejected <= d.normalized
        /\ d.raw = d.filtered + d.normalized + d.unnormalized /\ d.rejected = 0 /\ d.failed = 0
    <3>1. DraftShape(d)
      BY <1>6, <1>9 DEF DraftShape
    <3>2. d.http = prepared.http /\ d.etag = prepared.etag /\ d.linkRejected = before(refused)
      BY <1>9 DEF DraftShape
    <3>3. Fetched(d)
      BY <1>9, <3>2 DEF Fetched
    <3>4. /\ d.parser = "succeeded" /\ d.diagnostics = prepared.diagnostics
          /\ d.transport = "succeeded" /\ d.processing = "not_run"
          /\ d.normalization = "succeeded" /\ d.counts = Nothing /\ d.raw = prepared.raw
          /\ d.filtered = prepared.filtered /\ d.normalized = prepared.normalized
          /\ d.unnormalized = prepared.unnormalized /\ d.rejected = 0 /\ d.failed = 0
      BY <1>9 DEF DraftShape
    <3>5. Diagnosed(d.diagnostics)
      BY <1>7, <1>8, <1>9, <3>4
    <3> HIDE DEF d
    <3>6. /\ d.filtered <= d.raw /\ d.linkRejected <= d.normalized
          /\ d.raw = d.filtered + d.normalized + d.unnormalized
      BY <1>2, <1>3, <1>6, <1>9, <3>2, <3>4
    <3> QED BY <3>1, <3>3, <3>4, <3>5, <3>6
  <2> HIDE DEF d, p
  <2>3. LET e == FailedWith(d, out, why) IN
        Sound(e) /\ e.counts = Nothing /\ e.outcome = out /\ e.retry = "permanent"
    BY <2>2, FailedBeforeProcessing
  <2> QED BY <1>0, <2>1, <2>3 DEF Prepares, p
<1>14. CASE /\ ~threw /\ result.ok
            /\ ~(fault.stage = "normalizer" /\ fault.at <= Len(items))
            /\ ~(fault.stage = "link_policy" /\ fault.at <= Len(normal))
  <2> DEFINE d == [prepared EXCEPT !.outcome      = "content",
                                   !.status       = "succeeded",
                                   !.processing   = "succeeded",
                                   !.linkRejected = Len(normal) - Len(accepted),
                                   !.rejected     = Len(normal) - Len(accepted)]
  <2>1. p = [candidates |-> accepted, draft |-> d]
    BY <1>14 DEF Prepared
  <2> HIDE DEF prepared, parsed, accepted, items, normal, admitted, result
  <2>2. prepared.retry = "none"
    BY DEF prepared, parsed, Unparsed, DraftShape
  <2>3. /\ DraftShape(d) /\ Fetched(d) /\ d.parser = "succeeded" /\ Diagnosed(d.diagnostics)
        /\ d.transport = "succeeded" /\ d.processing = "succeeded" /\ d.normalization = "succeeded"
        /\ d.outcome = "content" /\ d.status = "succeeded" /\ d.retry = "none"
        /\ d.counts = Nothing /\ d.filtered <= d.raw /\ d.linkRejected <= d.normalized
        /\ d.raw = d.filtered + d.normalized + d.unnormalized /\ d.failed = 0
        /\ d.rejected = d.linkRejected /\ d.rejected + Len(accepted) = d.normalized
        /\ d.rejected \in Nat
    <3>0. Len(normal) - Len(accepted) \in Nat
      BY <1>3, <1>4
    <3>1. DraftShape(d)
      BY <1>9, <3>0 DEF DraftShape
    <3>2. /\ d.http = prepared.http /\ d.etag = prepared.etag
          /\ d.linkRejected = Len(normal) - Len(accepted)
          /\ d.rejected = Len(normal) - Len(accepted)
      BY <1>9 DEF DraftShape
    <3>3. Fetched(d)
      BY <1>9, <3>2 DEF Fetched
    <3>4. /\ d.parser = "succeeded" /\ d.diagnostics = prepared.diagnostics
          /\ d.transport = "succeeded" /\ d.processing = "succeeded"
          /\ d.normalization = "succeeded" /\ d.counts = Nothing /\ d.raw = prepared.raw
          /\ d.outcome = "content" /\ d.status = "succeeded" /\ d.retry = "none"
          /\ d.filtered = prepared.filtered /\ d.normalized = prepared.normalized
          /\ d.unnormalized = prepared.unnormalized /\ d.failed = 0
      BY <1>9, <2>2 DEF DraftShape
    <3>5. Diagnosed(d.diagnostics)
      BY <1>7, <1>8, <1>9, <3>4
    <3> HIDE DEF d
    <3>6. /\ d.filtered <= d.raw /\ d.linkRejected <= d.normalized
          /\ d.raw = d.filtered + d.normalized + d.unnormalized
          /\ d.rejected = d.linkRejected /\ d.rejected + Len(accepted) = d.normalized
          /\ d.rejected \in Nat
      BY <1>2, <1>3, <1>4, <1>9, <3>0, <3>2, <3>4
    <3> QED BY <3>1, <3>3, <3>4, <3>5, <3>6
  <2> HIDE DEF d, p
  <2>4. Processed(d) = 0
    BY <2>3 DEF Processed, Nothing
  <2>5. Len(accepted) \in Nat
    BY <1>4, ListLength
  <2>6. Content(d, Len(accepted))
    BY <2>3, <2>4, <2>5 DEF Content
  <2> QED BY <1>4, <2>1, <2>3, <2>6 DEF Prepares, p
<1> QED BY <1>10, <1>11, <1>12, <1>13, <1>14
-----------------------------------------------------------------------------
(* From candidates to the store.                                           *)

Outcome == {"created", "updated", "unchanged", "excluded"}
Effect == [reviews : 0..1, grouped : 0..1]

LEMMA WhatIsTallied == Outcomes \subseteq Outcome /\ Effects \subseteq Effect
BY DEF Outcomes, Effects, Outcome, Effect

\* One more candidate is accounted for, under one outcome.
LEMMA TallyGrows ==
  ASSUME NEW t \in Tally, NEW outcome \in Outcome, NEW effects \in Effect
  PROVE  LET u == Tallied(t, outcome, effects) IN
         /\ u \in Tally
         /\ u.created + u.updated + u.unchanged + u.excluded
              = t.created + t.updated + t.unchanged + t.excluded + 1
         /\ \A o \in DOMAIN u : u[o] - t[o] >= 0
         /\ u.created - t.created + u.updated - t.updated
              + u.unchanged - t.unchanged + u.excluded - t.excluded <= 1
<1> DEFINE u == Tallied(t, outcome, effects)
<1>1. effects.reviews \in Nat /\ effects.grouped \in Nat
  BY DEF Effect
<1>2. u = [t EXCEPT ![outcome] = @ + 1, !.reviews = @ + effects.reviews,
                    !.grouped = @ + effects.grouped]
  BY DEF Tallied
<1> HIDE DEF u
<1>3. /\ u \in Tally /\ u.reviews >= t.reviews /\ u.grouped >= t.grouped
      /\ \A o \in Outcome : u[o] = IF o = outcome THEN t[o] + 1 ELSE t[o]
  <2>1. outcome \notin {"reviews", "grouped"} /\ outcome \in DOMAIN t
    BY DEF Outcome, Tally
  <2>2. u.reviews = t.reviews + effects.reviews /\ u.grouped = t.grouped + effects.grouped
    BY <1>2, <2>1 DEF Tally
  <2>3. \A o \in Outcome : u[o] = IF o = outcome THEN t[o] + 1 ELSE t[o]
    BY <1>2, <2>1 DEF Tally, Outcome
  <2>4. u \in Tally
    <3> DEFINE one == t[outcome] + 1
               v == [t EXCEPT ![outcome] = one]
               r == t.reviews + effects.reviews
               g == t.grouped + effects.grouped
    <3>1. \A o \in DOMAIN t : t[o] \in Nat
      BY DEF Tally
    <3>2. one \in Nat
      BY <2>1, <3>1
    <3> HIDE DEF one
    <3>3. v \in Tally
      BY <3>2 DEF Tally, Outcome
    <3>4. u = [v EXCEPT !.reviews = r, !.grouped = g]
      BY <1>2 DEF one
    <3> HIDE DEF v
    <3>5. r \in Nat /\ g \in Nat
      BY <1>1 DEF Tally
    <3> HIDE DEF r, g
    <3> QED BY <3>3, <3>4, <3>5 DEF Tally
  <2> QED BY <1>1, <2>2, <2>3, <2>4 DEF Tally
<1>4. /\ DOMAIN u = Outcome \cup {"reviews", "grouped"}
      /\ \A o \in DOMAIN u : t[o] \in Nat /\ u[o] \in Nat
  BY <1>3 DEF Tally, Outcome
<1>5. \A o \in DOMAIN u : u[o] - t[o] >= 0
  BY <1>3, <1>4
<1>6. /\ u.created = IF outcome = "created" THEN t.created + 1 ELSE t.created
      /\ u.updated = IF outcome = "updated" THEN t.updated + 1 ELSE t.updated
      /\ u.unchanged = IF outcome = "unchanged" THEN t.unchanged + 1 ELSE t.unchanged
      /\ u.excluded = IF outcome = "excluded" THEN t.excluded + 1 ELSE t.excluded
  BY <1>3 DEF Outcome
<1>7. t.created \in Nat /\ t.updated \in Nat /\ t.unchanged \in Nat /\ t.excluded \in Nat
  BY DEF Tally
<1>8. \/ outcome = "created" \/ outcome = "updated" \/ outcome = "unchanged" \/ outcome = "excluded"
  BY DEF Outcome
<1> QED BY <1>3, <1>5, <1>6, <1>7, <1>8 DEF u

\* A draft that counts what is committed tells of it.
LEMMA EqualTells ==
  ASSUME NEW committed \in Tally, NEW d, d.counts = committed,
         d.retry = "transient" => committed = Nothing
  PROVE  Tells(d, committed)
BY DEF Tells, Tally

\* Under a processing failure one commit may have been missed.
LEMMA FailureTells ==
  ASSUME NEW t \in Tally, NEW outcome \in Outcome, NEW effects \in Effect,
         NEW d, d.counts = t, d.outcome = "processing_failed", d.retry = "permanent"
  PROVE  Tells(d, Tallied(t, outcome, effects))
BY TallyGrows DEF Tells

\* Under a processing failure every candidate left is counted as failed.
LEMMA ProcessingFailedDraft ==
  ASSUME NEW d, NEW n \in Nat, Content(d, n), NEW error
  PROVE  LET e == LeftFailed(d, error, n) IN
         /\ Sound(e) /\ e.counts = d.counts
         /\ e.outcome = "processing_failed" /\ e.retry = "permanent"
<1> DEFINE f == FailedWith(d, "processing_failed", error)
           e == LeftFailed(d, error, n)
<1>1. DraftShape(d)
  BY DEF Content
<1>2. f = [d EXCEPT !.outcome = "processing_failed", !.error = error, !.status = "failed",
                    !.retry = "permanent"]
  BY DEF FailedWith
<1> HIDE DEF f
<1>3. DraftShape(f)
  BY <1>1, <1>2 DEF DraftShape
<1>4. /\ f.outcome = "processing_failed" /\ f.status = "failed" /\ f.retry = "permanent"
      /\ f.transport = d.transport /\ f.parser = d.parser /\ f.diagnostics = d.diagnostics
      /\ f.normalization = d.normalization /\ f.http = d.http /\ f.etag = d.etag
      /\ f.counts = d.counts /\ f.raw = d.raw /\ f.filtered = d.filtered
      /\ f.normalized = d.normalized /\ f.unnormalized = d.unnormalized
      /\ f.linkRejected = d.linkRejected /\ f.rejected = d.rejected /\ f.failed = d.failed
  BY <1>1, <1>2 DEF DraftShape
<1>5. f.failed \in Nat /\ f.failed + n \in Nat
  BY <1>3 DEF DraftShape
<1>6. e = [f EXCEPT !.processing = "failed", !.failed = f.failed + n]
  BY DEF LeftFailed, f
<1> HIDE DEF e
<1>7. DraftShape(e)
  BY <1>3, <1>5, <1>6 DEF DraftShape
<1>8. /\ e.processing = "failed" /\ e.failed = f.failed + n
      /\ e.outcome = f.outcome /\ e.status = f.status /\ e.retry = f.retry
      /\ e.transport = f.transport /\ e.parser = f.parser /\ e.diagnostics = f.diagnostics
      /\ e.normalization = f.normalization /\ e.http = f.http /\ e.etag = f.etag
      /\ e.counts = f.counts /\ e.raw = f.raw /\ e.filtered = f.filtered
      /\ e.normalized = f.normalized /\ e.unnormalized = f.unnormalized
      /\ e.linkRejected = f.linkRejected /\ e.rejected = f.rejected
  BY <1>3, <1>6 DEF DraftShape
<1>9. Processed(e) = Processed(d)
  BY <1>4, <1>8 DEF Processed
<1>10. Processed(d) \in Nat /\ d.rejected \in Nat /\ d.failed \in Nat
  BY <1>1, ProcessedIsCounted DEF DraftShape
<1>11. Fetched(e)
  BY <1>4, <1>8 DEF Content, Fetched
<1>12. KnownValues(e) /\ ValidDiagnostics(e)
  BY <1>4, <1>8 DEF Content, KnownValues, ValidDiagnostics, Diagnosed
<1>13. Accounted(e)
  BY <1>4, <1>8, <1>9, <1>10 DEF Content, Accounted
<1>14. Sound(e)
  BY <1>4, <1>7, <1>8, <1>11, <1>12, <1>13 DEF Sound
<1> QED BY <1>4, <1>8, <1>14 DEF e, f

-----------------------------------------------------------------------------
(* The attempt.                                                            *)

AttemptShape(a) ==
  a \in [stage : {"idle", "fetching", "defaults", "rules", "processing", "finalizing", "ended"},
         snapshot : {a.snapshot}, candidates : {a.candidates}, rules : {a.rules},
         defaults : {a.defaults}, draft : {a.draft}, answer : {a.answer}]

RunShape(r) ==
  /\ r \in [status : {r.status}, draft : {r.draft}]
  /\ DraftShape(r.draft)

\* Before its candidates are processed to the end, the draft counts what is
\* committed and accounts for every item but the candidates left.
Pending(a, committed) ==
  /\ List(a.candidates) /\ a.candidates # <<>>
  /\ Content(a.draft, Len(a.candidates))
  /\ a.draft.counts = committed

StageInv(a, committed) ==
  /\ AttemptShape(a)
  /\ a.stage \in {"idle", "fetching"} => committed = Nothing
  /\ a.stage \in {"defaults", "rules", "processing"} => Pending(a, committed)
  /\ a.stage = "finalizing" => Sound(a.draft) /\ Tells(a.draft, committed)

\* The row is not ended by anyone but the recovery before the attempt ends.
RunInv(r, stage, committed) ==
  /\ RunShape(r)
  /\ stage # "ended" => r.status \in {"none", "running"} \/ r.draft.outcome = "worker_interrupted"
  /\ r.status \in {"succeeded", "failed"} /\ r.draft.outcome # "worker_interrupted" =>
       Tells(r.draft, committed)

AttemptInv ==
  /\ FetchInv(fetch)
  /\ stored \in Tally
  /\ StageInv(attempt, stored)
  /\ RunInv(run, attempt.stage, stored)

LEMMA AnsweredEnds ==
  ASSUME NEW answer, NEW committed
  PROVE  StageInv(Answered(answer), committed) /\ Answered(answer).stage = "ended"
BY DEF StageInv, AttemptShape, Answered, AttemptIdle

LEMMA AttemptStarts == AttemptInit => AttemptInv
<1> SUFFICES ASSUME AttemptInit PROVE AttemptInv
  OBVIOUS
<1>1. FetchInv(fetch)
  BY IdleInv DEF AttemptInit, FetchInit
<1>2. stored \in Tally /\ stored = Nothing
  BY NothingIsATally DEF AttemptInit
<1>3. StageInv(attempt, stored)
  BY <1>2 DEF AttemptInit, AttemptIdle, StageInv, AttemptShape
<1>4. RunInv(run, attempt.stage, stored)
  BY EmptyDraftShape DEF AttemptInit, RunInv, RunShape
<1> QED BY <1>1, <1>2, <1>3, <1>4 DEF AttemptInv

\* As long as the attempt has not ended, the row does not tell of the store.
LEMMA RunAhead ==
  ASSUME NEW r, NEW stage, NEW committed, NEW stage2, NEW committed2,
         RunInv(r, stage, committed), stage # "ended"
  PROVE  RunInv(r, stage2, committed2)
BY DEF RunInv

LEMMA BeginKeeps ==
  ASSUME AttemptInv, Begin
  PROVE  AttemptInv'
<1>1. /\ attempt.stage = "idle" /\ stored = Nothing /\ stored' = stored
      /\ AttemptShape(attempt) /\ RunInv(run, attempt.stage, stored) /\ RunShape(run)
      /\ FetchInv(fetch) /\ stored \in Tally
  BY DEF AttemptInv, StageInv, Begin, RunInv
<1>2. \/ /\ \E answer : attempt' = Answered(answer)
         /\ UNCHANGED << run, fetchVars >>
      \/ /\ \E s : attempt' = [attempt EXCEPT !.stage = "fetching", !.snapshot = s]
         /\ run' = [run EXCEPT !.status = "running"]
         /\ StartFetch
  BY DEF Begin
<1>3. CASE (\E answer : attempt' = Answered(answer)) /\ UNCHANGED << run, fetchVars >>
  <2>1. StageInv(attempt', stored') /\ attempt'.stage = "ended"
    BY <1>3, AnsweredEnds
  <2>2. RunInv(run', attempt'.stage, stored')
    BY <1>1, <1>3, RunAhead
  <2> QED BY <1>1, <1>3, <2>1, <2>2 DEF AttemptInv, fetchVars
<1>4. CASE /\ \E s : attempt' = [attempt EXCEPT !.stage = "fetching", !.snapshot = s]
           /\ run' = [run EXCEPT !.status = "running"]
           /\ StartFetch
  <2>1. AttemptShape(attempt') /\ attempt'.stage = "fetching"
    BY <1>1, <1>4 DEF AttemptShape
  <2>2. StageInv(attempt', stored')
    BY <1>1, <2>1 DEF StageInv
  <2>3. RunShape(run') /\ run'.status = "running"
    BY <1>1, <1>4 DEF RunShape
  <2>4. RunInv(run', attempt'.stage, stored')
    BY <2>1, <2>3 DEF RunInv
  <2>5. fetch.contacts = {} /\ fetch' = Validating(fetch, EndpointUrl)
    BY <1>1, <1>4 DEF StartFetch, FetchInv
  <2>6. EndpointUrl \in Known
    BY WorldAssumption DEF Known
  <2>7. FetchInv(fetch')
    BY <1>1, <2>5, <2>6, ValidatingInv
  <2> QED BY <1>1, <2>2, <2>4, <2>7 DEF AttemptInv
<1> QED BY <1>2, <1>3, <1>4

LEMMA FetchingKeeps ==
  ASSUME AttemptInv, Fetching
  PROVE  AttemptInv'
BY FetchStepInv DEF AttemptInv, Fetching

\* The fetch is turned into a draft, and a document into candidates.
LEMMA UseFetchResultKeeps ==
  ASSUME AttemptInv, UseFetchResult
  PROVE  AttemptInv'
<1> DEFINE result == fetch.result
           draft == FetchDraft(result)
<1>1. /\ attempt.stage = "fetching" /\ stored = Nothing /\ stored' = stored /\ run' = run
      /\ fetch' = Idle /\ AttemptShape(attempt) /\ RunInv(run, attempt.stage, stored)
      /\ Reported(result) /\ stored \in Tally
  BY DEF AttemptInv, StageInv, UseFetchResult, FetchInv
<1>2. FetchInv(fetch') /\ RunInv(run', attempt'.stage, stored')
  BY <1>1, IdleInv, RunAhead
<1>3. CASE result.outcome # "content"
  <2>1. attempt' = [attempt EXCEPT !.stage = "finalizing", !.draft = draft]
    BY <1>3 DEF UseFetchResult
  <2>2. Sound(draft) /\ draft.counts = Nothing
    BY <1>1, <1>3, FetchDraftIsSound
  <2> HIDE DEF draft
  <2>3. Tells(draft, stored')
    BY <1>1, <2>2, EqualTells
  <2>4. AttemptShape(attempt') /\ attempt'.stage = "finalizing" /\ attempt'.draft = draft
    BY <1>1, <2>1 DEF AttemptShape
  <2>5. StageInv(attempt', stored')
    BY <2>2, <2>3, <2>4 DEF StageInv
  <2> QED BY <1>1, <1>2, <2>5 DEF AttemptInv
<1>4. CASE result.outcome = "content"
  <2>1. PICK document \in Documents, fault \in Faults :
          LET p == Prepared(attempt.snapshot, draft, document, fault)
          IN  attempt' = [attempt EXCEPT
                !.stage      = IF p.candidates = <<>> THEN "finalizing" ELSE "defaults",
                !.draft      = p.draft,
                !.candidates = p.candidates]
    BY <1>4 DEF UseFetchResult
  <2> DEFINE p == Prepared(attempt.snapshot, draft, document, fault)
  <2>2. Unparsed(draft)
    BY <1>1, <1>4, ContentDraftIsUnparsed
  <2>3. Prepares(p)
    BY <2>2, PreparedDraft
  <2>4. attempt' = [attempt EXCEPT
          !.stage      = IF p.candidates = <<>> THEN "finalizing" ELSE "defaults",
          !.draft      = p.draft,
          !.candidates = p.candidates]
    BY <2>1
  <2> HIDE DEF p, draft
  <2>5. /\ AttemptShape(attempt') /\ attempt'.draft = p.draft /\ attempt'.candidates = p.candidates
        /\ attempt'.stage = IF p.candidates = <<>> THEN "finalizing" ELSE "defaults"
    BY <1>1, <2>4 DEF AttemptShape
  <2>6. CASE p.candidates # <<>>
    <3>1. Pending(attempt', stored')
      BY <1>1, <2>3, <2>5, <2>6 DEF Prepares, Pending
    <3> QED BY <1>1, <1>2, <2>5, <2>6, <3>1 DEF StageInv, AttemptInv
  <2>7. CASE p.candidates = <<>>
    <3>1. Sound(p.draft)
      <4>1. Len(p.candidates) = 0
        BY <2>3, <2>7, ListLength DEF Prepares
      <4> QED BY <2>3, <4>1, ContentIsSound DEF Prepares
    <3>2. Tells(p.draft, stored')
      BY <1>1, <2>3, EqualTells DEF Prepares
    <3>3. StageInv(attempt', stored')
      BY <2>5, <2>7, <3>1, <3>2 DEF StageInv
    <3> QED BY <1>1, <1>2, <3>3 DEF AttemptInv
  <2> QED BY <2>6, <2>7
<1> QED BY <1>3, <1>4

\* The snapshot of the relevance tables changes nothing of the accounts.
LEMMA LoadsKeep ==
  ASSUME AttemptInv, LoadDefaults \/ LoadRules
  PROVE  AttemptInv'
<1>1. /\ attempt.stage \in {"defaults", "rules"} /\ UNCHANGED << fetch, run, stored >>
      /\ AttemptShape(attempt) /\ Pending(attempt, stored)
      /\ RunInv(run, attempt.stage, stored)
  BY DEF AttemptInv, StageInv, LoadDefaults, LoadRules
<1>2. /\ AttemptShape(attempt') /\ attempt'.stage \in {"rules", "processing"}
      /\ attempt'.draft = attempt.draft /\ attempt'.candidates = attempt.candidates
  <2>1. CASE LoadDefaults
    BY <1>1, <2>1 DEF LoadDefaults, AttemptShape
  <2>2. CASE LoadRules
    BY <1>1, <2>2 DEF LoadRules, AttemptShape
  <2> QED BY <2>1, <2>2
<1>3. Pending(attempt', stored')
  BY <1>1, <1>2 DEF Pending
<1>4. StageInv(attempt', stored')
  BY <1>2, <1>3 DEF StageInv
<1>5. RunInv(run', attempt'.stage, stored')
  BY <1>1, RunAhead
<1> QED BY <1>1, <1>4, <1>5 DEF AttemptInv

\* Processing fails with candidates left, the last commit reported or not.
LEMMA FailingKeeps ==
  ASSUME AttemptInv, NEW error,
         attempt.stage \in {"defaults", "rules", "processing"},
         attempt' = ProcessingFailed(attempt, error), UNCHANGED << fetch, run >>,
         \/ stored' = stored
         \/ \E outcome \in Outcome, effects \in Effect : stored' = Tallied(stored, outcome, effects)
  PROVE  AttemptInv'
<1> DEFINE n == Len(attempt.candidates)
           e == LeftFailed(attempt.draft, error, n)
<1>1. /\ AttemptShape(attempt) /\ Pending(attempt, stored) /\ stored \in Tally
      /\ RunInv(run, attempt.stage, stored)
  BY DEF AttemptInv, StageInv
<1>2. attempt' = [attempt EXCEPT !.stage = "finalizing", !.candidates = <<>>, !.draft = e]
  BY DEF ProcessingFailed
<1>3. n \in Nat /\ Content(attempt.draft, n)
  BY <1>1, ListLength DEF Pending
<1> HIDE DEF n
<1>4. Sound(e) /\ e.counts = stored /\ e.outcome = "processing_failed" /\ e.retry = "permanent"
  <2>1. /\ Sound(e) /\ e.counts = attempt.draft.counts
        /\ e.outcome = "processing_failed" /\ e.retry = "permanent"
    BY <1>3, ProcessingFailedDraft
  <2> QED BY <1>1, <2>1 DEF Pending
<1> HIDE DEF e
<1>5. stored' \in Tally /\ Tells(e, stored')
  <2>1. CASE stored' = stored
    BY <1>1, <1>4, <2>1, EqualTells
  <2>2. CASE \E outcome \in Outcome, effects \in Effect : stored' = Tallied(stored, outcome, effects)
    BY <1>1, <1>4, <2>2, TallyGrows, FailureTells
  <2> QED BY <2>1, <2>2
<1>6. AttemptShape(attempt') /\ attempt'.stage = "finalizing" /\ attempt'.draft = e
  BY <1>1, <1>2 DEF AttemptShape
<1>7. StageInv(attempt', stored')
  BY <1>4, <1>5, <1>6 DEF StageInv
<1>8. RunInv(run', attempt'.stage, stored')
  BY <1>1, RunAhead
<1>9. FetchInv(fetch')
  BY DEF AttemptInv
<1> QED BY <1>5, <1>7, <1>8, <1>9 DEF AttemptInv

\* The head is accounted for, the tail is left.
LEMMA NextCandidateKeeps ==
  ASSUME NEW a, NEW committed, AttemptShape(a), a.stage = "processing", List(a.candidates),
         a.candidates # <<>>, Content(a.draft, Len(a.candidates) - 1),
         a.draft.counts = committed, committed \in Tally
  PROVE  StageInv(NextCandidate(a), committed)
<1> DEFINE b == NextCandidate(a)
<1>1. PICK S : a.candidates \in Seq(S)
  BY DEF List
<1>2. Tail(a.candidates) \in Seq(S) /\ Len(Tail(a.candidates)) = Len(a.candidates) - 1
  BY <1>1, HeadTailProperties
<1>3. List(Tail(a.candidates))
  BY <1>2 DEF List
<1>4. /\ AttemptShape(b) /\ b.candidates = Tail(a.candidates) /\ b.draft = a.draft
      /\ b.stage = IF Len(a.candidates) = 1 THEN "finalizing" ELSE "processing"
  BY DEF AttemptShape, NextCandidate
<1> HIDE DEF b
<1>5. CASE Len(a.candidates) = 1
  <2>1. Sound(b.draft)
    BY <1>4, <1>5, ContentIsSound
  <2>2. Tells(b.draft, committed)
    BY <1>4, EqualTells DEF Content
  <2> QED BY <1>4, <1>5, <2>1, <2>2 DEF StageInv, b
<1>6. CASE Len(a.candidates) # 1
  <2>1. Len(b.candidates) # 0
    BY <1>2, <1>4, <1>6, ListLength
  <2>2. List(b.candidates) /\ b.candidates # <<>>
    BY <1>3, <1>4, <2>1, ListLength
  <2>3. Pending(b, committed)
    BY <1>2, <1>4, <2>2 DEF Pending
  <2> QED BY <1>4, <1>6, <2>3 DEF StageInv, b
<1> QED BY <1>5, <1>6

LEMMA ProcessKeeps ==
  ASSUME AttemptInv, Process
  PROVE  AttemptInv'
<1>1. /\ AttemptShape(attempt) /\ Pending(attempt, stored) /\ stored \in Tally
      /\ RunInv(run, attempt.stage, stored) /\ attempt.stage = "processing"
      /\ UNCHANGED << fetch, run >>
  BY DEF AttemptInv, StageInv, Process
<1>2. PICK outcome \in Outcomes, effects \in Effects :
        /\ stored' = Tallied(stored, outcome, effects)
        /\ attempt' = NextCandidate([attempt EXCEPT !.draft.counts = Tallied(@, outcome, effects)])
  BY DEF Process
<1> DEFINE d == [attempt.draft EXCEPT !.counts = stored']
           a == [attempt EXCEPT !.draft = d]
           n == Len(attempt.candidates) - 1
<1>3. outcome \in Outcome /\ effects \in Effect
  BY WhatIsTallied
<1>4. /\ stored' \in Tally
      /\ stored'.created + stored'.updated + stored'.unchanged + stored'.excluded
           = stored.created + stored.updated + stored.unchanged + stored.excluded + 1
  BY <1>1, <1>2, <1>3, TallyGrows
<1>5. attempt' = NextCandidate(a)
  BY <1>1, <1>2 DEF Pending, AttemptShape
<1>6. /\ DraftShape(attempt.draft) /\ attempt.draft.counts = stored
      /\ List(attempt.candidates) /\ attempt.candidates # <<>>
      /\ Content(attempt.draft, n + 1)
  <2>1. Len(attempt.candidates) \in Nat
    BY <1>1, ListLength DEF Pending
  <2>2. n + 1 = Len(attempt.candidates)
    BY <2>1
  <2> QED BY <1>1, <2>2 DEF Pending, Content
<1>7. /\ DraftShape(d) /\ d.counts = stored'
      /\ d.outcome = attempt.draft.outcome /\ d.status = attempt.draft.status
      /\ d.retry = attempt.draft.retry /\ d.transport = attempt.draft.transport
      /\ d.parser = attempt.draft.parser /\ d.diagnostics = attempt.draft.diagnostics
      /\ d.normalization = attempt.draft.normalization
      /\ d.processing = attempt.draft.processing
      /\ d.http = attempt.draft.http /\ d.etag = attempt.draft.etag
      /\ d.raw = attempt.draft.raw /\ d.filtered = attempt.draft.filtered
      /\ d.normalized = attempt.draft.normalized /\ d.unnormalized = attempt.draft.unnormalized
      /\ d.linkRejected = attempt.draft.linkRejected /\ d.rejected = attempt.draft.rejected
      /\ d.failed = attempt.draft.failed
  BY <1>4, <1>6 DEF DraftShape
<1> HIDE DEF d
<1>8. /\ AttemptShape(a) /\ a.stage = "processing" /\ a.draft = d
      /\ a.candidates = attempt.candidates
  BY <1>1 DEF AttemptShape
<1> HIDE DEF a
<1>9. Processed(d) = Processed(attempt.draft) + 1
  BY <1>4, <1>6, <1>7 DEF Processed
<1>10. /\ Processed(attempt.draft) \in Nat /\ d.rejected \in Nat /\ d.failed \in Nat
       /\ Len(attempt.candidates) \in Nat
  <2>1. Processed(attempt.draft) \in Nat
    BY <1>6, ProcessedIsCounted
  <2>2. d.rejected \in Nat /\ d.failed \in Nat
    BY <1>7 DEF DraftShape
  <2> QED BY <1>6, <2>1, <2>2, ListLength
<1>11. Fetched(d)
  BY <1>6, <1>7 DEF Content, Fetched
<1>12. Content(d, n)
  <2>1. n \in Int
    BY <1>10
  <2> HIDE DEF n
  <2>2. Processed(attempt.draft) + d.rejected + d.failed + (n + 1) = d.normalized
    BY <1>6, <1>7 DEF Content
  <2>3. Processed(d) + d.rejected + d.failed + n = d.normalized
    <3>1. Processed(attempt.draft) \in Nat /\ d.rejected \in Nat /\ d.failed \in Nat
      BY <1>10
    <3> QED BY <1>9, <2>1, <2>2, <3>1
  <2> QED BY <1>6, <1>7, <1>11, <2>3 DEF Content
<1>13. StageInv(attempt', stored')
  BY <1>4, <1>5, <1>6, <1>7, <1>8, <1>12, NextCandidateKeeps
<1>14. RunInv(run', attempt'.stage, stored')
  BY <1>1, RunAhead
<1> QED BY <1>1, <1>4, <1>13, <1>14 DEF AttemptInv

LEMMA CandidateRejectedKeeps ==
  ASSUME AttemptInv, CandidateRejected
  PROVE  AttemptInv'
<1>1. /\ AttemptShape(attempt) /\ Pending(attempt, stored) /\ stored \in Tally
      /\ RunInv(run, attempt.stage, stored) /\ attempt.stage = "processing"
      /\ UNCHANGED << fetch, run, stored >>
  BY DEF AttemptInv, StageInv, CandidateRejected
<1> DEFINE failed == attempt.draft.failed + 1
           d == [attempt.draft EXCEPT !.failed = failed]
           a == [attempt EXCEPT !.draft = d]
           n == Len(attempt.candidates) - 1
<1>2. attempt' = NextCandidate(a)
  BY <1>1 DEF CandidateRejected
<1>3. /\ DraftShape(attempt.draft) /\ attempt.draft.counts = stored
      /\ List(attempt.candidates) /\ attempt.candidates # <<>>
      /\ Content(attempt.draft, n + 1)
  <2>1. Len(attempt.candidates) \in Nat
    BY <1>1, ListLength DEF Pending
  <2>2. n + 1 = Len(attempt.candidates)
    BY <2>1
  <2> QED BY <1>1, <2>2 DEF Pending, Content
<1>4. failed \in Nat /\ failed = attempt.draft.failed + 1 /\ attempt.draft.failed \in Nat
  BY <1>3 DEF DraftShape
<1> HIDE DEF failed
<1>5. /\ DraftShape(d) /\ d.failed = failed
      /\ d.outcome = attempt.draft.outcome /\ d.status = attempt.draft.status
      /\ d.retry = attempt.draft.retry /\ d.transport = attempt.draft.transport
      /\ d.parser = attempt.draft.parser /\ d.diagnostics = attempt.draft.diagnostics
      /\ d.normalization = attempt.draft.normalization
      /\ d.processing = attempt.draft.processing
      /\ d.http = attempt.draft.http /\ d.etag = attempt.draft.etag
      /\ d.raw = attempt.draft.raw /\ d.filtered = attempt.draft.filtered
      /\ d.normalized = attempt.draft.normalized /\ d.unnormalized = attempt.draft.unnormalized
      /\ d.linkRejected = attempt.draft.linkRejected /\ d.rejected = attempt.draft.rejected
      /\ d.counts = attempt.draft.counts
  BY <1>3, <1>4 DEF DraftShape
<1> HIDE DEF d
<1>6. /\ AttemptShape(a) /\ a.stage = "processing" /\ a.draft = d
      /\ a.candidates = attempt.candidates
  BY <1>1 DEF AttemptShape
<1> HIDE DEF a
<1>7. Processed(d) = Processed(attempt.draft)
  BY <1>5 DEF Processed
<1>8. /\ Processed(attempt.draft) \in Nat /\ d.rejected \in Nat
      /\ Len(attempt.candidates) \in Nat
  <2>1. Processed(attempt.draft) \in Nat
    BY <1>3, ProcessedIsCounted
  <2>2. d.rejected \in Nat
    BY <1>5 DEF DraftShape
  <2> QED BY <1>3, <2>1, <2>2, ListLength
<1>9. Fetched(d)
  BY <1>3, <1>5 DEF Content, Fetched
<1>10. Content(d, n)
  <2>1. n \in Int
    BY <1>8
  <2> HIDE DEF n
  <2>2. Processed(attempt.draft) + d.rejected + attempt.draft.failed + (n + 1) = d.normalized
    BY <1>3, <1>5 DEF Content
  <2>3. Processed(d) + d.rejected + d.failed + n = d.normalized
    <3>1. d.failed = attempt.draft.failed + 1
      BY <1>4, <1>5
    <3>2. Processed(d) \in Nat /\ d.rejected \in Nat /\ attempt.draft.failed \in Nat
      BY <1>4, <1>7, <1>8
    <3>3. Processed(d) + d.rejected + attempt.draft.failed + (n + 1) = d.normalized
      BY <1>7, <2>2
    <3> QED BY <2>1, <3>1, <3>2, <3>3
  <2> QED BY <1>3, <1>5, <1>9, <2>3 DEF Content
<1>11. StageInv(attempt', stored')
  BY <1>1, <1>2, <1>3, <1>5, <1>6, <1>10, NextCandidateKeeps
<1>12. RunInv(run', attempt'.stage, stored')
  BY <1>1, RunAhead
<1> QED BY <1>1, <1>11, <1>12 DEF AttemptInv

\* What becomes of the row is what the draft tells.
LEMMA FinalizeKeeps ==
  ASSUME AttemptInv, Finalize
  PROVE  AttemptInv'
<1>1. /\ attempt.stage = "finalizing" /\ UNCHANGED << fetch, stored >>
      /\ Sound(attempt.draft) /\ Tells(attempt.draft, stored)
      /\ RunInv(run, attempt.stage, stored) /\ FetchInv(fetch) /\ stored \in Tally
  BY DEF AttemptInv, StageInv, Finalize
<1>2. (\E answer : attempt' = Answered(answer)) /\ (run' = run \/ run' = FinalizedRow(attempt.draft))
  BY DEF Finalize, ResultOf
<1>3. StageInv(attempt', stored')
  BY <1>2, AnsweredEnds
<1>4. RunInv(run', attempt'.stage, stored')
  <2>1. CASE run' = run
    BY <1>1, <2>1, RunAhead
  <2>2. CASE run' = FinalizedRow(attempt.draft)
    <3>1. RunShape(run') /\ run'.draft = attempt.draft
      BY <1>1, <2>2 DEF FinalizedRow, RunShape, Sound
    <3>2. attempt'.stage = "ended"
      BY <1>2, AnsweredEnds
    <3> QED BY <1>1, <3>1, <3>2 DEF RunInv
  <2> QED BY <1>2, <2>1, <2>2
<1> QED BY <1>1, <1>3, <1>4 DEF AttemptInv

LEMMA InterruptKeeps ==
  ASSUME AttemptInv, Interrupt
  PROVE  AttemptInv'
<1>1. RunShape(run) /\ UNCHANGED << fetch, attempt, stored >>
  BY DEF AttemptInv, RunInv, Interrupt
<1> DEFINE d == [run.draft EXCEPT !.outcome = "worker_interrupted",
                                  !.error = "worker_interrupted", !.retry = "transient"]
<1>2. run' = [run EXCEPT !.status = "failed", !.draft = d]
  BY <1>1 DEF Interrupt, RunShape
<1>3. DraftShape(d) /\ d.outcome = "worker_interrupted"
  BY <1>1 DEF RunShape, DraftShape
<1> HIDE DEF d
<1>4. RunShape(run') /\ run'.draft = d
  BY <1>1, <1>2, <1>3 DEF RunShape
<1>5. RunInv(run', attempt'.stage, stored')
  BY <1>3, <1>4 DEF RunInv
<1> QED BY <1>1, <1>5 DEF AttemptInv

LEMMA AttemptStep == AttemptInv /\ [AttemptNext]_attemptVars => AttemptInv'
<1> SUFFICES ASSUME AttemptInv, [AttemptNext]_attemptVars PROVE AttemptInv'
  OBVIOUS
<1>1. CASE Begin
  BY <1>1, BeginKeeps
<1>2. CASE Fetching
  BY <1>2, FetchingKeeps
<1>3. CASE UseFetchResult
  BY <1>3, UseFetchResultKeeps
<1>4. CASE LoadDefaults \/ LoadRules
  BY <1>4, LoadsKeep
<1>5. CASE LoadFails
  BY <1>5, FailingKeeps DEF LoadFails
<1>6. CASE Process
  BY <1>6, ProcessKeeps
<1>7. CASE CandidateRejected
  BY <1>7, CandidateRejectedKeeps
<1>8. CASE ProcessingThrows
  <2>1. \/ stored' = stored
        \/ \E outcome \in Outcome, effects \in Effect : stored' = Tallied(stored, outcome, effects)
    BY <1>8, WhatIsTallied DEF ProcessingThrows
  <2> QED BY <1>8, <2>1, FailingKeeps DEF ProcessingThrows
<1>9. CASE Finalize
  BY <1>9, FinalizeKeeps
<1>10. CASE Edit
  BY <1>10 DEF Edit, AttemptInv
<1>11. CASE Interrupt
  BY <1>11, InterruptKeeps
<1>12. CASE UNCHANGED attemptVars
  BY <1>12 DEF attemptVars, AttemptInv
<1> QED
  BY <1>1, <1>2, <1>3, <1>4, <1>5, <1>6, <1>7, <1>8, <1>9, <1>10, <1>11, <1>12
     DEF AttemptNext, Proceed

LEMMA AttemptInvariant == AttemptSpec => []AttemptInv
BY AttemptStarts, AttemptStep, PTL DEF AttemptSpec

\* Whatever redirects a chain of servers answers with and whatever a resolver
\* says of their hosts, an attempt contacts permitted URLs alone, each once, at
\* public addresses of the very lookup that was vetted, before the deadline.
THEOREM OnlyVettedContacts == AttemptSpec => []ContactsAreVetted
<1>1. AttemptInv => ContactsAreVetted
  BY InvVets DEF AttemptInv
<1> QED BY <1>1, AttemptInvariant, PTL

\* Whatever stage fails at whatever item, a finalized run tells what its attempt
\* committed, up to one commit whose outcome a processing failure has lost, and
\* asks for a retry only if nothing was committed.
THEOREM FinalizedRunsTellTheStore == AttemptSpec => []CountsMatchStore
<1>1. AttemptInv => CountsMatchStore
  BY DEF AttemptInv, RunInv, CountsMatchStore
<1> QED BY <1>1, AttemptInvariant, PTL

\* From servers whose responses have a status below 600 and no empty validator,
\* every path of an attempt leaves a draft that the finalization accepts.
THEOREM OrdinaryDraftsAreAccepted ==
  ASSUME OrdinaryResponses
  PROVE  AttemptSpec => []FinalizationAccepted
<1>1. AttemptInv => FinalizationAccepted
  BY DEF AttemptInv, StageInv, Sound, Fetched, ValidFinalization, FinalizationAccepted
<1> QED BY <1>1, AttemptInvariant, PTL
=============================================================================
