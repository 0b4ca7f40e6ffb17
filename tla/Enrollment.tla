----------------------------- MODULE Enrollment -----------------------------
(***************************************************************************)
(* How a dynamic connector gets and keeps its identity: the client         *)
(* (internal/enrollment/client.go) with its identity file on a volume, the *)
(* registration server (internal/enrollment/server.go) and as much of the  *)
(* registry as one environment's requests, keys and credential need.       *)
(*                                                                         *)
(* The connector process may crash at any point and starts again from the  *)
(* file; an exchange may fail before or after the server has acted on it.  *)
(* Time is counted in units of 12 hours.                                   *)
(***************************************************************************)
EXTENDS Integers, FiniteSets

CONSTANTS
  MaxKeys,      \* bound on the identity keys generated
  MaxRequests,  \* bound on the pending requests created
  MaxTime,      \* bound on the clock
  MaxFaults,    \* bound on crashes, lost answers and refusals
  MaxRevokes,   \* bound on revocations
  LeaseTime,    \* lease duration, in units of 12 hours
  None

Keys == 1..MaxKeys
Requests == 1..MaxRequests
CertificateLife == 2      \* 24 hours
RenewMargin == 1          \* 12 hours
PendingLife == 1          \* 30 minutes, rounded up to a unit
OverlapLife == 2          \* 24 hours

ASSUME BoundsAssumption ==
  /\ MaxKeys \in Nat \ {0} /\ MaxRequests \in Nat /\ MaxTime \in Nat /\ MaxFaults \in Nat
  /\ MaxRevokes \in Nat /\ LeaseTime \in Nat \ {0} /\ None \notin Int

VARIABLES
  now,
  disk,      \* registration.json, None before the first start
  mem,       \* the localIdentity of the running process
  pc,        \* the process
  made,      \* number of identity keys generated
  reqState, reqKey, reqEnd,   \* pending_requests
  asked,     \* number of requests created
  live,      \* the registration is approved or ready
  lease,     \* its lease end
  active, overlap,   \* identity_keys: the keys in either state
  overlapEnd,        \* overlap_until of a key, 0 if it was never demoted
  cred,      \* Credential: the active certificate (its key and end), None without one
  admitted,  \* keys of sessions that the edge is accepting, their keys checked
  faults, revokes

client == <<disk, mem, pc, made>>
keys == <<active, overlap, overlapEnd>>
server == <<reqState, reqKey, reqEnd, asked, live, lease, keys, cred>>
vars == <<now, client, server, admitted, faults, revokes>>

\* The keys that ActiveIdentityKey finds.
usable == active \cup {k \in overlap : overlapEnd[k] > now}

Issued == [key : Keys, end : Int]

Certificates == Issued \cup {None}

Identities == [key : Keys, pending : Keys \cup {None}, request : Requests \cup {None},
               cert : Certificates, lease : Int]

ASSUME NoneAssumption == None \notin Issued /\ None \notin Identities

TypeOK ==
  /\ now \in 0..MaxTime
  /\ disk \in Identities \cup {None} /\ mem \in Identities \cup {None}
  /\ pc \in {"down", "loaded", "register", "running"}
  /\ pc # "down" => mem \in Identities /\ disk \in Identities
  /\ made \in 0..MaxKeys
  /\ reqState \in [Requests -> {"none", "pending", "expired", "approved"}]
  /\ reqKey \in [Requests -> Keys \cup {None}] /\ reqEnd \in [Requests -> Int]
  /\ asked \in 0..MaxRequests
  /\ live \in BOOLEAN /\ lease \in Int /\ cred \in Certificates
  /\ active \subseteq Keys /\ overlap \subseteq Keys /\ overlapEnd \in [Keys -> Nat]
  /\ admitted \subseteq Keys
  /\ faults \in 0..MaxFaults /\ revokes \in 0..MaxRevokes

Init ==
  /\ now = 0
  /\ disk = None /\ mem = None /\ pc = "down" /\ made = 0
  /\ reqState = [r \in Requests |-> "none"]
  /\ reqKey = [r \in Requests |-> None]
  /\ reqEnd = [r \in Requests |-> 0]
  /\ asked = 0
  /\ live = FALSE /\ lease = 0 /\ cred = None
  /\ active = {} /\ overlap = {} /\ overlapEnd = [k \in Keys |-> 0]
  /\ admitted = {}
  /\ faults = 0 /\ revokes = 0
-----------------------------------------------------------------------------
(* The client starts: Ensure.                                              *)

NewIdentity(k) == [key |-> k, pending |-> None, request |-> None, cert |-> None, lease |-> 0]

\* save: the file is replaced by a rename, so it is the old or the new identity.
Save(identity) == disk' = identity /\ mem' = identity

loadOrCreate ==
  /\ pc = "down"
  /\ \/ /\ disk # None
        /\ mem' = disk
        /\ UNCHANGED <<disk, made>>
     \/ /\ disk = None
        /\ made < MaxKeys
        /\ made' = made + 1
        /\ Save(NewIdentity(made + 1))
  /\ pc' = "loaded"
  /\ UNCHANGED <<now, server, admitted, faults, revokes>>

\* Mutated form: the request of the old key is kept.
PrepareRotationKeepingRequest ==
  /\ pc = "loaded"
  /\ mem.cert # None /\ mem.pending = None
  /\ made < MaxKeys
  /\ made' = made + 1
  /\ Save([mem EXCEPT !.pending = made + 1])
  /\ UNCHANGED <<now, pc, server, admitted, faults, revokes>>

\* A year has passed and a deployment nonce is there: prepare a new key.
PrepareRotation ==
  /\ pc = "loaded"
  /\ mem.cert # None /\ mem.pending = None
  /\ made < MaxKeys
  /\ made' = made + 1
  /\ Save([mem EXCEPT !.pending = made + 1, !.request = None])
  /\ UNCHANGED <<now, pc, server, admitted, faults, revokes>>

MustRegister ==
  \/ mem.pending # None
  \/ mem.cert = None
  \/ mem.cert.end <= now + RenewMargin
  \/ mem.lease <= now + RenewMargin

Ensure ==
  /\ pc = "loaded"
  /\ pc' = IF MustRegister THEN "register" ELSE "running"
  /\ UNCHANGED <<now, disk, mem, made, server, admitted, faults, revokes>>
-----------------------------------------------------------------------------
(* register: the kind of the request follows from the identity, and every  *)
(* answer is handled before the next request.                              *)

Renewing == mem.pending = None /\ mem.cert # None

RequestKey == IF mem.pending # None THEN mem.pending ELSE mem.key

\* "approved": the prepared key becomes the identity key, and the file is saved.
Approved(r, certificate, leaseEnd) ==
  /\ Save([key |-> RequestKey, pending |-> None, request |-> r, cert |-> certificate,
           lease |-> leaseEnd])
  /\ pc' = "running"

\* Mutated form: the expired request is kept.
ExpiredKept == Save(mem) /\ UNCHANGED pc

\* "expired": forget the request and ask again at once.
Expired == Save([mem EXCEPT !.request = None]) /\ UNCHANGED pc

\* "pending", or a limit: remember the request the answer names and ask again.
Pending(r) == Save([mem EXCEPT !.request = r]) /\ UNCHANGED pc

\* "rejected" or "frozen": forget the request; Ensure returns an error, the process exits.
Rejected ==
  /\ disk' = [mem EXCEPT !.request = None]
  /\ mem' = None
  /\ pc' = "down"

\* The answer does not arrive; exchange is retried.
Lost ==
  /\ faults < MaxFaults
  /\ faults' = faults + 1
  /\ UNCHANGED client

Answer(handled) == handled /\ UNCHANGED <<made, faults>>

\* process without a request id: CreatePending.  Rejected with identity_rotation_required
\* when another key is registered or pending.
CreateRequest ==
  LET k == RequestKey
      pending == {r \in Requests : reqState[r] = "pending"}
      conflict == \/ live /\ k \notin active \cup overlap /\ mem.pending = None
                  \/ \E r \in pending : reqKey[r] # k
      r == asked + 1 IN
  /\ pc = "register" /\ ~ Renewing /\ mem.request = None
  /\ UNCHANGED <<now, live, lease, keys, cred, admitted, revokes>>
  /\ \/ /\ conflict
        /\ UNCHANGED <<reqState, reqKey, reqEnd, asked>>
        /\ Answer(Rejected)
     \/ /\ ~ conflict
        /\ \E q \in pending :
             /\ reqEnd[q] > now
             /\ Answer(Pending(q)) \/ Lost
        /\ UNCHANGED <<reqState, reqKey, reqEnd, asked>>
     \/ /\ ~ conflict
        /\ \A q \in pending : reqEnd[q] <= now
        /\ r \in Requests
        /\ asked' = r
        /\ reqState' = [q \in Requests |-> IF q = r THEN "pending"
                                           ELSE IF q \in pending THEN "expired" ELSE reqState[q]]
        /\ reqKey' = [reqKey EXCEPT ![r] = k]
        /\ reqEnd' = [reqEnd EXCEPT ![r] = now + PendingLife]
        /\ Answer(Pending(r)) \/ Lost

\* process with a request id: responseForPending.
PollRequest ==
  LET r == mem.request IN
  /\ pc = "register" /\ ~ Renewing /\ r # None
  /\ UNCHANGED <<now, server, admitted, revokes>>
  /\ \/ /\ reqState[r] = "expired" \/ (reqState[r] = "pending" /\ reqEnd[r] <= now)
        /\ Answer(Expired)
     \/ /\ reqState[r] = "approved" /\ cred # None
        /\ Answer(Approved(r, cred, lease))
     \/ /\ \/ reqState[r] = "pending" /\ reqEnd[r] > now
           \/ reqState[r] = "approved" /\ cred = None
        /\ Answer(Pending(r))
     \/ Lost

\* renew: a signature with a usable identity key.
Renew ==
  LET certificate == [key |-> mem.key, end |-> now + CertificateLife] IN
  /\ pc = "register" /\ Renewing
  /\ UNCHANGED <<now, reqState, reqKey, reqEnd, asked, live, keys, admitted, revokes>>
  /\ \/ /\ mem.key \in usable /\ live /\ lease > now
        /\ cred' = certificate
        /\ lease' = now + LeaseTime
        /\ Answer(Approved(None, certificate, lease')) \/ Lost
     \/ /\ ~ (mem.key \in usable /\ live /\ lease > now)
        /\ UNCHANGED <<cred, lease>>
        /\ Answer(Rejected)

\* The registration server is frozen, or a renewal meets the rate limit.
Refused ==
  /\ pc = "register"
  /\ faults < MaxFaults
  /\ faults' = faults + 1
  /\ Rejected
  /\ UNCHANGED <<now, made, server, admitted, revokes>>

\* The process stops: it crashes, is redeployed, or its 30 minutes are over.
Crash ==
  /\ pc # "down"
  /\ faults < MaxFaults
  /\ faults' = faults + 1
  /\ mem' = None
  /\ pc' = "down"
  /\ UNCHANGED <<now, disk, made, server, admitted, revokes>>
-----------------------------------------------------------------------------
(* The edge.                                                               *)

Approve(r) ==
  /\ reqState[r] = "pending" /\ reqEnd[r] > now
  /\ reqState' = [reqState EXCEPT ![r] = "approved"]
  /\ live' = TRUE
  /\ lease' = now + LeaseTime
  /\ active' = active \cup {reqKey[r]}
  /\ overlap' = overlap \ {reqKey[r]}
  /\ cred' = [key |-> reqKey[r], end |-> now + CertificateLife]
  /\ UNCHANGED <<now, client, reqKey, reqEnd, asked, overlapEnd, admitted, faults, revokes>>

\* authenticate has checked the key of a session.  It goes on with this session whatever
\* the connector process does meanwhile.
ActiveIdentityKey ==
  /\ pc = "running"
  /\ mem.key \in usable
  /\ admitted' = admitted \cup {mem.key}
  /\ UNCHANGED <<now, client, server, faults, revokes>>

\* The session with key k is accepted: the other active keys, older or newer, are in overlap
\* from now on.  A key that is itself no longer active changes nothing.
CompleteIdentityRotation(k) ==
  LET others == IF k \in active THEN active \ {k} ELSE {} IN
  /\ k \in admitted
  /\ admitted' = admitted \ {k}
  /\ active' = active \ others
  /\ overlap' = overlap \cup others
  /\ overlapEnd' = [j \in Keys |-> IF j \in others THEN now + OverlapLife ELSE overlapEnd[j]]
  /\ UNCHANGED <<now, client, reqState, reqKey, reqEnd, asked, live, lease, cred, faults, revokes>>

Withdraw ==
  /\ live' = FALSE
  /\ active' = {} /\ overlap' = {}
  /\ cred' = None
  /\ UNCHANGED <<lease, overlapEnd>>

Revoke ==
  /\ live
  /\ revokes < MaxRevokes
  /\ revokes' = revokes + 1
  /\ Withdraw
  /\ UNCHANGED <<now, client, reqState, reqKey, reqEnd, asked, admitted, faults>>

\* Expire withdraws a registration whose lease is over, and retires the keys whose overlap is.
Expire ==
  /\ \/ live /\ lease <= now /\ Withdraw
     \/ /\ ~ (live /\ lease <= now)
        /\ overlap' = {k \in overlap : overlapEnd[k] > now}
        /\ UNCHANGED <<live, lease, active, overlapEnd, cred>>
  /\ UNCHANGED <<now, client, reqState, reqKey, reqEnd, asked, admitted, faults, revokes>>

Tick ==
  /\ now < MaxTime
  /\ now' = now + 1
  /\ UNCHANGED <<client, server, admitted, faults, revokes>>

ClientStep ==
  \/ loadOrCreate
  \/ Ensure
  \/ CreateRequest
  \/ PollRequest
  \/ Renew

Next ==
  \/ ClientStep
  \/ PrepareRotation
  \/ Refused
  \/ Crash
  \/ \E r \in Requests : Approve(r)
  \/ ActiveIdentityKey
  \/ \E k \in Keys : CompleteIdentityRotation(k)
  \/ Revoke
  \/ Expire
  \/ Tick

Spec == Init /\ [][Next]_vars

\* The process is restarted when it stops and keeps working, CI approves what is pending,
\* and the clock runs.
FairSpec ==
  /\ Spec
  /\ WF_vars(ClientStep)
  /\ WF_vars(\E r \in Requests : Approve(r))
  /\ WF_vars(Tick)
-----------------------------------------------------------------------------
(* Properties.                                                             *)

\* A restart always finds an identity it can go on with, whatever request was approved, lost,
\* repeated or interrupted by a crash: the stored certificate is one for the stored identity
\* key (the edge refuses a session otherwise), and while the registration is live the volume
\* holds a key that the edge accepts, as the identity key or as the prepared one.  The one
\* exception: a session of an older key, accepted late, has demoted the identity key, and its
\* overlap is over.
VolumeHoldsUsableKey ==
  /\ disk # None /\ disk.cert # None => disk.cert.key = disk.key
  /\ live => /\ disk # None
             /\ \/ {disk.key, disk.pending} \cap usable # {}
                \/ overlapEnd[disk.key] \in 1..now /\ \E k \in active : k < disk.key

\* A connector that CI approves gets running, unless its registration is revoked or its lease
\* ends before it has fetched its certificate: no sequence of lost answers, crashes, refusals
\* and expired requests leaves it waiting for ever.
EventuallyRuns == <>(pc = "running" \/ revokes > 0 \/ (live /\ lease <= now))

\* docs/security.md: the edge "issues 24-hour connector and edge certificates and renews
\* them after 12 hours": a connector does not keep running on an expired certificate.
RunsOnValidCertificate ==
  [](pc = "running" /\ mem.cert.end <= now => <>(pc # "running" \/ mem.cert.end > now))

=============================================================================
