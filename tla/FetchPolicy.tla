----------------------------- MODULE FetchPolicy -----------------------------
(***************************************************************************)
(* What the collector may contact: eligibility of an endpoint, the domain  *)
(* rules of a Source and an endpoint, the static checks on a URL and the   *)
(* classification of the addresses its host resolves to.  Pure operators.  *)
(*                                                                         *)
(* A host name is the sequence of its labels from the top level domain     *)
(* down, so that "includes subdomains" is being a prefix.  An address is   *)
(* the sequence of its groups: four of 8 bits, or eight of 16.             *)
(***************************************************************************)
EXTENDS Integers, Sequences, SequencesExt

CONSTANT NoUrl

\* Eligibility ------------------------------------------------------------

Refusal(owner, s) ==
    IF s.approval # "approved" THEN owner \o "_unapproved"
    ELSE IF s.lifecycle = "archived" THEN owner \o "_archived"
    ELSE IF s.operational = "paused" THEN owner \o "_paused"
    ELSE IF s.operational = "disabled" THEN owner \o "_disabled"
    ELSE "eligible"

\* The first reason that keeps an endpoint from being collected.
EligibilityOf(publicationActive, source, endpoint) ==
    IF ~publicationActive THEN "publication_inactive"
    ELSE IF Refusal("source", source) # "eligible" THEN Refusal("source", source)
    ELSE Refusal("endpoint", endpoint)

\* Domain rules: [host, sub] ----------------------------------------------

HostMatches(host, rule) ==
    host = rule.host \/ (rule.sub /\ IsStrictPrefix(rule.host, host))

Narrower(sourceRule, rule) ==
    HostMatches(rule.host, sourceRule) /\ (sourceRule.sub \/ ~rule.sub)

Widens(sourceRules, rules) ==
    \E rule \in rules : \A s \in sourceRules : ~Narrower(s, rule)

EffectiveRules(sourceRules, rules) == IF rules = {} THEN sourceRules ELSE rules

Approved(host, policy) ==
    \E rule \in EffectiveRules(policy.source, policy.endpoint) : HostMatches(host, rule)

\* URLs: [scheme, host, port, credentials, path], host <<>> when it is not a
\* DNS name, port 0 when the URL names none.
PortAllowed(url) == url.port \in {0, IF url.scheme = "http" THEN 80 ELSE 443}

\* validateStaticDestination: "validated" or the reason to block.
StaticDecision(policy, url) ==
    IF url.credentials THEN "invalid_destination_url"
    ELSE IF url.scheme \notin {"http", "https"} THEN "unsupported_scheme"
    ELSE IF url.host = <<>> THEN "invalid_destination_url"
    ELSE IF ~PortAllowed(url) THEN "port_not_allowed"
    ELSE IF ~Approved(url.host, policy) THEN "domain_not_approved"
    ELSE "validated"

\* applyArticleLinkPolicy: ports are free, only the host is matched.
LinkAccepted(policy, url) ==
    /\ url.scheme \in {"http", "https"}
    /\ ~url.credentials
    /\ url.host # <<>>
    /\ Approved(url.host, policy)

\* Addresses ---------------------------------------------------------------

Width(groups) == IF Len(groups) = 4 THEN 8 ELSE 16

\* The first `prefix` bits agree.
InRange(groups, range) ==
    \A i \in 1..Len(groups) :
        LET w    == Width(groups)
            bits == range.prefix - w * (i - 1)
            k    == IF bits < 0 THEN 0 ELSE IF bits > w THEN w ELSE bits
        IN  groups[i] \div 2^(w - k) = range.net[i] \div 2^(w - k)

V4(a, b, c, d, p) == [net |-> <<a, b, c, d>>, prefix |-> p]
V6(a, b, c, d, p) == [net |-> <<a, b, c, d, 0, 0, 0, 0>>, prefix |-> p]

NonPublicV4 ==
    { V4(0,0,0,0,8), V4(10,0,0,0,8), V4(100,64,0,0,10), V4(127,0,0,0,8),
      V4(169,254,0,0,16), V4(172,16,0,0,12), V4(192,0,0,0,24), V4(192,0,2,0,24),
      V4(192,31,196,0,24), V4(192,52,193,0,24), V4(192,88,99,0,24),
      V4(192,168,0,0,16), V4(192,175,48,0,24), V4(198,18,0,0,15),
      V4(198,51,100,0,24), V4(203,0,113,0,24), V4(224,0,0,0,4), V4(240,0,0,0,4) }

\* Groups in decimal: 64:ff9b is 100, 65435; 2001 is 8193; fc00 is 64512 ...
\* The ranges below 2000::/3 other than the embedded IPv4 ones are refused by
\* GlobalUnicast as well.
NonPublicV6 ==
    { V6(0,0,0,0,128), V6(0,0,0,0,96), V6(100,65435,0,0,96), V6(100,65435,1,0,48),
      V6(256,0,0,0,64), V6(256,0,0,1,64), V6(8193,0,0,0,23), V6(8193,3512,0,0,32),
      V6(8194,0,0,0,16), V6(16383,0,0,0,20), V6(24320,0,0,0,16), V6(64512,0,0,0,7),
      V6(65152,0,0,0,10), V6(65216,0,0,0,10), V6(65280,0,0,0,8),
      V6(9760,79,32768,0,48) }

GlobalUnicast == V6(8192,0,0,0,3)

MappedV4(groups) == SubSeq(groups, 1, 6) = <<0, 0, 0, 0, 0, 65535>>
EmbeddedV4(groups) ==
    << groups[7] \div 256, groups[7] % 256, groups[8] \div 256, groups[8] % 256 >>

PublicUnicast(groups) ==
    IF Len(groups) = 4
    THEN \A range \in NonPublicV4 : ~InRange(groups, range)
    ELSE IF MappedV4(groups)
    THEN \A range \in NonPublicV4 : ~InRange(EmbeddedV4(groups), range)
    ELSE InRange(groups, GlobalUnicast) /\ \A range \in NonPublicV6 : ~InRange(groups, range)

\* Only the address to connect to is classified.
FirstAddressDecision(answers) ==
    IF answers = <<>> THEN "dns_resolution_failed"
    ELSE IF ~PublicUnicast(Head(answers)) THEN "unsafe_resolved_address" ELSE "validated"

\* validateDestination, once the host has resolved to `answers` (a sequence;
\* <<>> when the resolver failed or answered nothing).  Every answer counts.
AddressDecision(answers) ==
    IF answers = <<>> THEN "dns_resolution_failed"
    ELSE IF \E i \in 1..Len(answers) : ~PublicUnicast(answers[i])
    THEN "unsafe_resolved_address"
    ELSE "validated"

\* The transport connects to the first answer, whatever its own lookup says.
Pinned(answers) == Head(answers)
=============================================================================
