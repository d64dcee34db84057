------------------------------ MODULE HttpFetch ------------------------------
(***************************************************************************)
(* One fetch of an endpoint: the redirect loop of createHttpFetcher, the   *)
(* resolver raced against the deadline, and one hop of createHttpTransport *)
(* with its two timers.  The resolver, the peer and the clock are the      *)
(* environment; timers fire when they are due or later, never before.      *)
(*                                                                         *)
(* The clock counts from the start of the fetch.  `fetch` holds the locals *)
(* of the promise chain, which die when it settles.                        *)
(***************************************************************************)
EXTENDS FetchPolicy, FiniteSets

CONSTANTS
    Policy,         \* [source, endpoint]: the domain rules of the snapshot
    EndpointUrl,    \* the configured URL
    Answers,        \* [host -> the answers a resolver may give for it]
    Responses,      \* [URL -> the responses its server may give]
    Total,          \* totalTimeoutMs, in ticks
    Connect,        \* connectTimeoutMs, in ticks
    Late,           \* bound: how long a due timer may be left unserved
    MaxRedirects,   \* maxRedirects
    MaxWire,        \* maxWireBytes
    NoResult, NoTimer, NoResponse

ASSUME TimesAssumption ==
    /\ Total \in Nat \ {0} /\ Connect \in 1..Total /\ Late \in Nat
    /\ MaxRedirects \in Nat /\ NoTimer \notin Nat

\* The hosts and servers of every URL that an attempt can be led to.
ASSUME WorldAssumption ==
    /\ EndpointUrl \in DOMAIN Responses
    /\ \A url \in DOMAIN Responses :
         /\ url.host \in DOMAIN Answers
         /\ \A r \in Responses[url] : r.location \in DOMAIN Responses \cup {NoUrl}
    /\ \A host \in DOMAIN Answers : \A answers \in Answers[host] : answers \in Seq(Seq(Nat))

VARIABLES
    now,    \* performance.now() since the fetch began
    fetch   \* [pc, url, target, contacts, redirects, connectBy, response, result]

fetchVars == << now, fetch >>

Idle ==
    [ pc |-> "idle", url |-> NoUrl, target |-> NoUrl, contacts |-> {}, redirects |-> 0,
      connectBy |-> NoTimer, response |-> NoResponse, result |-> NoResult ]

FetchInit == now = 0 /\ fetch = Idle

Ended(result) == [Idle EXCEPT !.pc = "done", !.result = result]

Result(outcome, reason, retry, response) ==
    [ outcome |-> outcome, reason |-> reason, retry |-> retry,
      status  |-> IF response = NoResponse THEN 0 ELSE response.status,
      etag    |-> IF response = NoResponse THEN "none" ELSE response.etag ]

Failure(reason, retry, response) == Result("failure", reason, retry, response)

\* The metrics of the last hop keep its status, the headers are left out.
Bare(result) == [result EXCEPT !.etag = "none"]
TimedOut(response) == Bare(Failure("total_timeout", "transient", response))
Blocked(reason)    == Result("blocked", reason, "permanent", NoResponse)

Remaining == IF now < Total THEN Total - now ELSE 0

\* Validation ---------------------------------------------------------------

\* validateWithDeadline up to its first wait: the static checks, then a
\* resolver call unless the deadline has passed.
Validating(f, url) ==
    LET decision == StaticDecision(Policy, url)
    IN  IF decision # "validated" THEN Ended(Blocked(decision))
        ELSE IF Remaining = 0 THEN Ended(TimedOut(f.response))
        ELSE [f EXCEPT !.pc = "resolving", !.target = url]

\* The top of the redirect loop: one request, pinned to a vetted address.
Hop(f, url, answers) ==
    IF Remaining = 0 THEN Ended(TimedOut(f.response))
    ELSE [f EXCEPT !.pc        = "hop",
                   !.url       = url,
                   !.target    = NoUrl,
                   !.response  = NoResponse,
                   !.connectBy = now + (IF Connect < Remaining THEN Connect ELSE Remaining),
                   !.contacts  = @ \cup {[ url |-> url, answers |-> answers,
                                           address |-> Pinned(answers), at |-> now ]}]

Contacted(f) == { c.url : c \in f.contacts }

\* After the answers: blocked, a loop, or the next hop.
Vetted(f, answers) ==
    LET decision == AddressDecision(answers)
    IN  IF decision # "validated" THEN Ended(Blocked(decision))
        ELSE IF f.contacts = {} THEN Hop(f, f.target, answers)
        ELSE IF f.target \in Contacted(f)
        THEN Ended(Failure("redirect_loop", "permanent", f.response))
        ELSE Hop([f EXCEPT !.redirects = @ + 1], f.target, answers)

StartFetch ==
    /\ fetch.pc = "idle"
    /\ fetch' = Validating(fetch, EndpointUrl)
    /\ UNCHANGED now

\* An empty sequence stands for a failure of the resolver.
ResolverAnswers ==
    /\ fetch.pc = "resolving"
    /\ \E answers \in Answers[fetch.target.host] : fetch' = Vetted(fetch, answers)
    /\ UNCHANGED now

\* The race is only run for the endpoint's own URL.
ResolverTimesOutOnce ==
    /\ fetch.pc = "resolving" /\ fetch.contacts = {}
    /\ Remaining = 0
    /\ fetch' = Ended(TimedOut(fetch.response))
    /\ UNCHANGED now

\* raceResolver's timer.
ResolverTimesOut ==
    /\ fetch.pc = "resolving"
    /\ Remaining = 0
    /\ fetch' = Ended(TimedOut(fetch.response))
    /\ UNCHANGED now

\* One hop --------------------------------------------------------------------

StatusRetry(status) ==
    IF status \in {408, 429} \cup 500..599 THEN "transient" ELSE "permanent"

\* What a response means once its body has been read or drained.
Read(response) ==
    LET ok         == response.status \in 200..299
        fails(why) == Failure(why, "permanent", response)
    IN  IF response.body = "cut" THEN Failure("network_error", "transient", response)
        ELSE IF response.body = "too_long" THEN fails("wire_size_limit")
        ELSE IF ok /\ response.body = "swells" THEN fails("decompressed_size_limit")
        ELSE IF ok /\ response.body = "garbled" THEN fails("decompression_failed")
        ELSE IF ok THEN Result("content", "none", "none", response)
        ELSE IF response.status = 304 THEN Result("not_modified", "none", "none", response)
        ELSE IF response.status \notin {301, 302, 303, 307, 308}
        THEN Failure("http_status", StatusRetry(response.status), response)
        ELSE IF response.longLocation THEN fails("response_header_limit")
        ELSE Result("redirect", "none", "none", response)

\* What a response means on its headers alone, before any body is read.
Refused(response) ==
    \/ response.length > MaxWire
    \/ response.status \in 200..299 /\ (~response.accepted \/ ~response.encodingKnown)

RefusalOf(response) ==
    IF response.length > MaxWire THEN Failure("wire_size_limit", "permanent", response)
    ELSE IF ~response.accepted THEN Failure("unsupported_content_type", "permanent", response)
    ELSE Failure("unsupported_content_encoding", "permanent", response)

\* The loop, when transport.fetch has settled with `result`.
AfterHop(f, result) ==
    IF result.outcome # "redirect"
    THEN Ended(IF Remaining = 0 THEN TimedOut(f.response) ELSE result)
    ELSE IF f.response.location = NoUrl
    THEN Ended(Failure("redirect_missing_location", "permanent", f.response))
    ELSE IF f.redirects >= MaxRedirects
    THEN Ended(Failure("redirect_limit_exceeded", "permanent", f.response))
    ELSE Validating(f, f.response.location)

\* markConnected: the socket connects and the connect timer is cleared.
Connects ==
    /\ fetch.pc = "hop" /\ fetch.connectBy # NoTimer
    /\ fetch' = [fetch EXCEPT !.connectBy = NoTimer]
    /\ UNCHANGED now

ResponseArrives ==
    /\ fetch.pc = "hop"
    /\ \E response \in Responses[fetch.url] :
         LET f == [fetch EXCEPT !.pc = "body", !.connectBy = NoTimer, !.response = response]
         IN  fetch' = IF Refused(response) THEN AfterHop(f, RefusalOf(response)) ELSE f
    /\ UNCHANGED now

BodyEnds ==
    /\ fetch.pc = "body"
    /\ fetch' = AfterHop(fetch, Read(fetch.response))
    /\ UNCHANGED now

\* The client request fails, before a response or under it.
RequestFails ==
    /\ fetch.pc \in {"hop", "body"}
    /\ \E tls \in BOOLEAN :
         /\ tls => fetch.pc = "hop" /\ fetch.url.scheme = "https"
         /\ fetch' = AfterHop(fetch, Bare(
              IF tls THEN Failure("tls_validation_error", "permanent", fetch.response)
              ELSE Failure("network_error", "transient", fetch.response)))
    /\ UNCHANGED now

\* abort(): the timer destroys the request and settles the hop at once, so
\* that the errors of the destroyed streams come too late to be reported.
ConnectTimesOut ==
    /\ fetch.pc = "hop" /\ fetch.connectBy # NoTimer
    /\ now >= fetch.connectBy
    /\ fetch' = AfterHop(fetch, Failure("connect_timeout", "transient", NoResponse))
    /\ UNCHANGED now

TotalTimesOut ==
    /\ fetch.pc \in {"hop", "body"}
    /\ Remaining = 0
    /\ fetch' = AfterHop(fetch, TimedOut(fetch.response))
    /\ UNCHANGED now

\* http.request() throws synchronously: the fetch rejects.
RequestRefused ==
    /\ fetch.pc = "hop" /\ fetch.connectBy # NoTimer
    /\ [url |-> fetch.url, at |-> now] \in { [url |-> c.url, at |-> c.at] : c \in fetch.contacts }
    /\ fetch' = Ended(Result("thrown", "fetch_execution_failed", "transient", NoResponse))
    /\ UNCHANGED now

Tick ==
    /\ fetch.pc \notin {"idle", "done"}
    /\ now < Total + Late
    /\ now' = now + 1
    /\ UNCHANGED fetch

FetchStep ==
    \/ ResolverAnswers \/ ResolverTimesOut
    \/ Connects \/ ResponseArrives \/ BodyEnds \/ RequestFails
    \/ ConnectTimesOut \/ TotalTimesOut \/ RequestRefused
    \/ Tick

\* The clock goes on and the process serves its timers; neither the resolver
\* nor the peer owes anything.
FetchFairness ==
    /\ WF_fetchVars(Tick)
    /\ WF_fetchVars(ResolverTimesOut)
    /\ WF_fetchVars(TotalTimesOut)

-----------------------------------------------------------------------------
\* Every URL contacted so far passed the static checks, its host resolved to
\* public addresses only, and the connection is pinned to one of that very
\* lookup; no URL is contacted twice, there are at most MaxRedirects + 1, and
\* none is contacted at or after the deadline.  (The hop loop, redirects,
\* the resolver's deadline race and the pinned lookup.)
ContactsAreVetted ==
    /\ \A c \in fetch.contacts :
         /\ StaticDecision(Policy, c.url) = "validated"
         /\ c.answers \in Answers[c.url.host]
         /\ \A i \in 1..Len(c.answers) : PublicUnicast(c.answers[i])
         /\ c.address \in ToSet(c.answers)
         /\ c.at < Total
    /\ Cardinality(Contacted(fetch)) = Cardinality(fetch.contacts)
    /\ Cardinality(fetch.contacts) <= MaxRedirects + 1
=============================================================================
