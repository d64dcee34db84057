--------------------------- MODULE MachineAccess ---------------------------
(***************************************************************************)
(* Who may call the distribution API: machine credentials with their       *)
(* rotation, revocation and expiry, and the two bounded fixed-window       *)
(* limiters of the request guard, one for the failed authentications of a  *)
(* network key, one for the requests of a credential.                      *)
(*                                                                         *)
(* The buckets of a limiter are a function from the keys it retains to the *)
(* requests counted in their window; a bucket disappears when its window   *)
(* has ended (WindowEnds), at a time of nobody's choosing.                 *)
(***************************************************************************)
EXTENDS Integers, FiniteSets, Functions

CONSTANTS Credentials,        \* ids, the first of them issued at the start
          FirstCredential,
          Network,            \* the invalid-authentication key of the site
          InvalidPolicy,      \* [maximumRequests, maximumEntries]
          RequestPolicy,      \* [maximumRequests, maximumEntries]
          NoCredential

ASSUME CredentialAssumption == FirstCredential \in Credentials /\ NoCredential \notin Credentials

VARIABLES credentials,   \* id -> [state, successor]
          invalidUses,   \* buckets of the invalid-authentication limiter
          requestUses    \* buckets of the authenticated limiter

accessVars == <<credentials, invalidUses, requestUses>>

AccessInit ==
    /\ credentials = [c \in Credentials |->
           [state |-> IF c = FirstCredential THEN "live" ELSE "absent",
            successor |-> NoCredential]]
    /\ invalidUses = [k \in {} |-> 0]
    /\ requestUses = [k \in {} |-> 0]

-----------------------------------------------------------------------------
(* BoundedMachineRateLimiter.                                              *)

\* Whether peek and consume refuse the key.
Limited(buckets, key, policy) ==
    IF key \in DOMAIN buckets
    THEN buckets[key] >= policy.maximumRequests
    ELSE Cardinality(DOMAIN buckets) >= policy.maximumEntries

Consumed(buckets, key) ==
    [k \in DOMAIN buckets \cup {key} |->
        (IF k \in DOMAIN buckets THEN buckets[k] ELSE 0) + (IF k = key THEN 1 ELSE 0)]

InvalidLimited == Limited(invalidUses, Network, InvalidPolicy)
RequestLimited(c) == Limited(requestUses, c, RequestPolicy)

\* windowExpired and the cleanup before every decision.
WindowEnds ==
    /\ \/ \E k \in DOMAIN invalidUses :
              invalidUses' = Restrict(invalidUses, DOMAIN invalidUses \ {k})
          /\ UNCHANGED requestUses
       \/ \E k \in DOMAIN requestUses :
              requestUses' = Restrict(requestUses, DOMAIN requestUses \ {k})
          /\ UNCHANGED invalidUses
    /\ UNCHANGED credentials

-----------------------------------------------------------------------------
(* The guard after its first look at the invalid limiter: the credential   *)
(* row is read, then one of the limiters is charged.                       *)

RecordCanAuthorize(c) == credentials[c].state = "live"

Verdict(c) ==
    IF RecordCanAuthorize(c)
    THEN IF RequestLimited(c) THEN "rate_limited" ELSE "authenticated"
    ELSE IF InvalidLimited THEN "rate_limited" ELSE "unauthenticated"

Charge(c) ==
    /\ invalidUses' = IF Verdict(c) = "unauthenticated"
                      THEN Consumed(invalidUses, Network) ELSE invalidUses
    /\ requestUses' = IF Verdict(c) = "authenticated"
                      THEN Consumed(requestUses, c) ELSE requestUses
    /\ UNCHANGED credentials

-----------------------------------------------------------------------------
(* Administration of credentials.  A credential can be rotated once, in    *)
(* whatever state it is, and stays what it was until it is revoked.        *)

RotateCredential(c, s) ==
    /\ credentials[c].state # "absent"
    /\ credentials[c].successor = NoCredential
    /\ credentials[s].state = "absent"
    /\ credentials' = [credentials EXCEPT ![c].successor = s,
                                          ![s].state = "live"]
    /\ UNCHANGED <<invalidUses, requestUses>>

RevokeCredential(c) ==
    /\ credentials[c].state \in {"live", "expired"}
    /\ credentials' = [credentials EXCEPT ![c].state = "revoked"]
    /\ UNCHANGED <<invalidUses, requestUses>>

\* Its expiresAt passes.
CredentialExpires(c) ==
    /\ credentials[c].state = "live"
    /\ credentials' = [credentials EXCEPT ![c].state = "expired"]
    /\ UNCHANGED <<invalidUses, requestUses>>

=============================================================================
