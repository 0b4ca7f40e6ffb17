-------------------------- MODULE EnrollmentProofs --------------------------
(***************************************************************************)
(* A connector that restarts finds a key on its volume with which it can   *)
(* register or run, for every number of keys and requests and for every    *)
(* interleaving with the registry, its leases and lost answers.            *)
(*                                                                         *)
(* The invariant says which keys are active: the prepared one and, once    *)
(* the identity key has been approved, that key or older ones, which a     *)
(* late session of an older key may have left alone.                       *)
(***************************************************************************)
EXTENDS Enrollment, TLAPS

Waiting == {r \in Requests : reqState[r] = "pending"}

\* The key that an identity registers.
KeyOf(identity) == IF identity.pending # None THEN identity.pending ELSE identity.key

ProcessOK ==
  /\ pc # "down" => mem = disk
  /\ pc = "running" => disk.pending = None
  /\ live <=> cred # None

RequestsOK ==
  /\ \A r \in Waiting : disk # None /\ reqKey[r] \in Keys /\ reqKey[r] \in {disk.key, disk.pending}
  /\ disk # None /\ disk.request # None => \A r \in Waiting : reqKey[r] = KeyOf(disk)

\* A key that was approved since the registration is live: active, or demoted since then.
Registered(k) ==
  \/ k \in active
  \/ overlapEnd[k] > 0 /\ (k \in overlap \/ overlapEnd[k] <= now)

FetchOK ==
  /\ disk # None /\ disk.request # None
  /\ reqState[disk.request] = "approved" /\ cred # None
  => cred.key = KeyOf(disk) /\ Registered(KeyOf(disk))

\* The active keys are the prepared one and, once the identity key is registered, older ones.
KeysOK ==
  /\ live <=> active # {}
  /\ disk = None => ~ live
  /\ disk # None =>
       /\ disk.cert # None => disk.cert.key = disk.key
       /\ disk.key <= made
       /\ disk.pending # None => disk.key < disk.pending /\ disk.pending <= made
       /\ \A j \in active : j = disk.pending \/ (j <= disk.key /\ Registered(disk.key))

EnrollmentInv == TypeOK /\ ProcessOK /\ RequestsOK /\ FetchOK /\ KeysOK

\* What TypeOK says of the fields of an identity, and of one with another request.
LEMMA Fields ==
  ASSUME NEW i \in Identities
  PROVE  /\ i # None
         /\ i.key \in Keys /\ i.pending \in Keys \cup {None}
         /\ i.request \in Requests \cup {None} /\ i.cert \in Certificates /\ i.lease \in Int
         /\ KeyOf(i) \in Keys
BY NoneAssumption, Zenon DEF Identities, KeyOf

\* A running process has in memory what is on the volume.
LEMMA InMemory ==
  ASSUME EnrollmentInv, pc # "down"
  PROVE  disk \in Identities /\ mem = disk /\ disk # None
BY Fields, Zenon DEF EnrollmentInv, TypeOK, ProcessOK

\* loadOrCreate keeps the invariant.
LEMMA loadOrCreateKeeps ==
  ASSUME EnrollmentInv, loadOrCreate
  PROVE  EnrollmentInv'
<1>0. /\ disk = None => /\ disk' \in Identities /\ mem' = disk' /\ disk'.key = made + 1
                      /\ disk'.pending = None /\ disk'.request = None /\ disk'.cert = None
      /\ disk # None => disk' = disk /\ mem' = disk /\ disk \in Identities
  <2>1. ASSUME made + 1 \in Keys
        PROVE  /\ NewIdentity(made + 1) \in Identities
               /\ NewIdentity(made + 1).key = made + 1 /\ NewIdentity(made + 1).pending = None
               /\ NewIdentity(made + 1).request = None /\ NewIdentity(made + 1).cert = None
    BY <2>1 DEF NewIdentity, Identities, Certificates
  <2>2. disk = None => made + 1 \in Keys
    BY BoundsAssumption DEF EnrollmentInv, TypeOK, loadOrCreate, Keys
  <2> QED BY <2>1, <2>2, Zenon DEF EnrollmentInv, TypeOK, loadOrCreate, Save
<1>6. disk = None => ~ live /\ \A r \in Requests : reqState[r] # "pending"
  BY Zenon DEF EnrollmentInv, RequestsOK, Waiting, KeysOK
<1>7. disk' # None
  BY <1>0, Fields, Zenon
<1>1. TypeOK'
  BY <1>0, <1>6, <1>7, BoundsAssumption DEF EnrollmentInv, TypeOK, loadOrCreate, Save, server, keys
<1>2. ProcessOK'
  BY <1>0, <1>6, <1>7, Zenon DEF EnrollmentInv, ProcessOK, loadOrCreate, Save, server, keys
<1>3. RequestsOK'
  BY <1>0, <1>6, <1>7, Zenon
     DEF EnrollmentInv, ProcessOK, RequestsOK, Waiting, loadOrCreate, Save, server, keys
<1>4. UNCHANGED <<now, reqState, live, active, overlap, overlapEnd, cred>>
  BY Zenon DEF loadOrCreate, server, keys
<1>5. FetchOK'
  BY <1>0, <1>4, Zenon DEF EnrollmentInv, FetchOK, KeyOf, Registered
<1>8. KeysOK'
  <2>1. CASE disk = None
    <3>1. made' = made + 1 /\ made + 1 <= made + 1
      BY <2>1 DEF EnrollmentInv, TypeOK, loadOrCreate
    <3> QED BY <1>0, <1>4, <1>7, <2>1, <3>1, Zenon DEF EnrollmentInv, KeysOK
  <2>2. CASE disk # None
    <3>1. made' = made
      BY <2>2, Zenon DEF loadOrCreate
    <3> QED BY <1>0, <1>4, <2>2, <3>1, Zenon DEF EnrollmentInv, KeysOK, Registered
  <2> QED BY <2>1, <2>2, Zenon
<1> QED BY <1>1, <1>2, <1>3, <1>5, <1>8, Zenon DEF EnrollmentInv

\* The value for "no key" is no key.
LEMMA NoneIsNoKey == None \notin Keys
BY BoundsAssumption DEF Keys

\* PrepareRotation keeps the invariant.
LEMMA PrepareRotationKeeps ==
  ASSUME EnrollmentInv, PrepareRotation
  PROVE  EnrollmentInv'
<1>1. pc # "down" /\ pc' = pc /\ pc # "running" /\ made + 1 \in Keys /\ made' = made + 1
      /\ disk' = [mem EXCEPT !.pending = made + 1, !.request = None] /\ mem' = disk'
      /\ mem.pending = None /\ UNCHANGED <<now, server, admitted, faults, revokes>>
  BY BoundsAssumption DEF EnrollmentInv, TypeOK, PrepareRotation, Save, Keys
<1>2. disk \in Identities /\ mem = disk /\ disk # None
  BY <1>1, InMemory, Zenon
<1>3. /\ disk' \in Identities /\ disk'.key = disk.key
      /\ disk'.request = None /\ disk'.cert = disk.cert /\ disk.pending = None
      /\ disk'.pending = made + 1
  <2>1. disk' = [disk EXCEPT !.pending = made + 1, !.request = None] /\ disk.pending = None /\ made + 1 \in Keys
    BY <1>1, <1>2, Zenon
  <2> QED BY ONLY <2>1, <1>2, Zenon DEF Identities
<1>4. disk' # None
  BY <1>3, Fields, Zenon
<1>5. pc # "running" /\ pc' = pc /\ made' = made + 1 /\ made + 1 \in 1..MaxKeys /\ mem' = disk' /\ disk # None
      /\ UNCHANGED <<now, server, admitted, faults, revokes>>
  BY <1>1, <1>2, Zenon DEF Keys
<1> HIDE <1>1
<1>6. TypeOK'
  BY <1>3, <1>5, BoundsAssumption DEF EnrollmentInv, TypeOK, server, keys
<1>7. ProcessOK'
  BY <1>5, Zenon DEF EnrollmentInv, ProcessOK, server, keys
<1>8. RequestsOK'
  BY <1>3, <1>4, <1>5, NoneIsNoKey, Zenon DEF EnrollmentInv, RequestsOK, Waiting, server, keys
<1>9. FetchOK'
  BY <1>3, Zenon DEF FetchOK
<1>10. KeysOK'
  <2>1. disk'.key = disk.key /\ disk'.pending = made + 1 /\ disk.key <= made
    BY <1>2, <1>3, Zenon DEF EnrollmentInv, KeysOK
  <2>2. disk'.key <= made' /\ disk'.key < disk'.pending /\ disk'.pending <= made'
    <3>1. disk.key \in Int /\ made \in Int
      BY <1>2, Fields DEF EnrollmentInv, TypeOK, Keys
    <3> QED BY ONLY <2>1, <3>1, <1>5
  <2>3. \A j \in active : j <= disk.key /\ Registered(disk.key)
    BY <1>2, <1>3, NoneIsNoKey, Zenon DEF EnrollmentInv, TypeOK, KeysOK
  <2>4. UNCHANGED <<now, live, active, overlap, overlapEnd>>
    BY <1>5, Zenon DEF server, keys
  <2> QED BY <1>2, <1>3, <1>4, <2>2, <2>3, <2>4, Zenon DEF EnrollmentInv, KeysOK, Registered
<1> QED BY <1>6, <1>7, <1>8, <1>9, <1>10, Zenon DEF EnrollmentInv

\* Ensure keeps the invariant.
LEMMA EnsureKeeps ==
  ASSUME EnrollmentInv, Ensure
  PROVE  EnrollmentInv'
<1>0. MustRegister \/ mem.pending = None
  BY Zenon DEF MustRegister
<1>1. TypeOK'
  BY <1>0, BoundsAssumption, Zenon DEF EnrollmentInv, TypeOK, Ensure, server, keys
<1>2. ProcessOK'
  BY <1>0, Zenon DEF EnrollmentInv, ProcessOK, Ensure, server, keys
<1>3. RequestsOK'
  BY <1>0, Zenon DEF EnrollmentInv, ProcessOK, RequestsOK, Waiting, Ensure, server, keys
<1>4. FetchOK'
  BY <1>0, Zenon DEF EnrollmentInv, ProcessOK, RequestsOK, Waiting, FetchOK, Registered, Ensure,
     server, keys
<1>5. KeysOK'
  BY <1>0, Zenon DEF EnrollmentInv, ProcessOK, FetchOK, KeysOK, Registered, Ensure, server, keys
<1> QED BY <1>1, <1>2, <1>3, <1>4, <1>5, Zenon DEF EnrollmentInv

\* The handling of an answer that leaves the keys: the request it names, or none, is saved.
Answers(r) ==
  /\ pc = "register"
  /\ disk' = [mem EXCEPT !.request = r]
  /\ \/ mem' = disk' /\ pc' = pc
     \/ mem' = None /\ pc' = "down"

\* An answer changes the request on the volume and no key.
LEMMA AnswerFields ==
  ASSUME EnrollmentInv, NEW r \in Requests \cup {None}, Answers(r)
  PROVE  /\ disk \in Identities /\ mem = disk /\ disk # None
         /\ disk' \in Identities /\ disk' # None /\ disk'.request = r
         /\ disk'.key = disk.key /\ disk'.pending = disk.pending /\ disk'.cert = disk.cert
         /\ KeyOf(disk)' = KeyOf(disk)
<1>1. disk \in Identities /\ mem = disk /\ disk # None
  BY InMemory, Zenon DEF Answers
<1>2. disk' = [disk EXCEPT !.request = r]
  BY <1>1, Zenon DEF Answers
<1>3. /\ disk' \in Identities /\ disk'.request = r
      /\ disk'.key = disk.key /\ disk'.pending = disk.pending /\ disk'.cert = disk.cert
  BY ONLY <1>1, <1>2, r \in Requests \cup {None}, Zenon DEF Identities
<1>4. disk' # None
  BY <1>3, NoneAssumption, Zenon
<1> QED BY ONLY <1>1, <1>3, <1>4, Zenon DEF KeyOf

\* Answer keeps the invariant.
LEMMA AnswerKeeps ==
  ASSUME EnrollmentInv, NEW r \in Requests \cup {None}, Answers(r),
         UNCHANGED <<now, made, live, active, overlap, overlapEnd, cred>>,
         \A q \in Waiting' : \/ q \in Waiting /\ reqKey'[q] = reqKey[q]
                             \/ reqKey'[q] = KeyOf(disk),
         r # None => \A q \in Waiting' : reqKey'[q] = KeyOf(disk),
         r # None /\ reqState'[r] = "approved" => disk.request = r /\ reqState[r] = "approved"
  PROVE  ProcessOK' /\ RequestsOK' /\ FetchOK' /\ KeysOK'
<1>1. /\ disk \in Identities /\ mem = disk /\ disk # None
      /\ disk' \in Identities /\ disk' # None /\ disk'.request = r
      /\ disk'.key = disk.key /\ disk'.pending = disk.pending /\ disk'.cert = disk.cert
      /\ KeyOf(disk)' = KeyOf(disk)
  BY AnswerFields, Zenon
<1>2. pc = "register" /\ ((mem' = disk' /\ pc' = pc) \/ pc' = "down")
  BY Zenon DEF Answers
<1>3. KeyOf(disk) \in Keys /\ KeyOf(disk) \in {disk.key, disk.pending}
  BY <1>1, Fields, Zenon DEF KeyOf
<1>4. ProcessOK'
  BY <1>1, <1>2, Zenon DEF EnrollmentInv, ProcessOK
<1>5. RequestsOK'
  BY <1>1, <1>3, Zenon DEF EnrollmentInv, RequestsOK
<1>6. FetchOK'
  BY <1>1, Zenon DEF EnrollmentInv, FetchOK, Registered
<1>7. KeysOK'
  BY <1>1, Zenon DEF EnrollmentInv, KeysOK, Registered
<1> QED BY <1>4, <1>5, <1>6, <1>7, Zenon

\* The part of TypeOK about the client.
ClientTypes ==
  /\ disk \in Identities \cup {None} /\ mem \in Identities \cup {None}
  /\ pc \in {"down", "loaded", "register", "running"}
  /\ pc # "down" => mem \in Identities /\ disk \in Identities
  /\ made \in 0..MaxKeys

\* An answer keeps the types of the client.
LEMMA AnswerTypes ==
  ASSUME EnrollmentInv, NEW r \in Requests \cup {None}, Answers(r), made' = made
  PROVE  ClientTypes'
<1>1. disk' \in Identities
  BY AnswerFields, Zenon
<1> QED BY <1>1, Zenon DEF EnrollmentInv, TypeOK, Answers, ClientTypes

\* What CreateRequest comes to: nothing changes at the server, keys, or a new request is added.
LEMMA CreateRequestCases ==
  ASSUME EnrollmentInv, CreateRequest
  PROVE  /\ pc = "register" /\ disk \in Identities /\ disk # None /\ mem = disk
         /\ disk.request = None /\ KeyOf(disk) \in Keys
         /\ UNCHANGED <<now, live, lease, active, overlap, overlapEnd, cred, admitted, revokes>>
         /\ \/ UNCHANGED <<reqState, reqKey, reqEnd, asked, made, faults>> /\ Answers(None)
            \/ /\ UNCHANGED <<reqState, reqKey, reqEnd, asked>>
               /\ \A q \in Waiting : reqKey[q] = KeyOf(disk)
               /\ \/ \E q \in Waiting : UNCHANGED <<made, faults>> /\ Answers(q)
                  \/ Lost
            \/ /\ asked + 1 \in Requests /\ asked' = asked + 1
               /\ \A q \in Waiting : reqKey[q] = KeyOf(disk)
               /\ reqState' = [q \in Requests |-> IF q = asked + 1 THEN "pending"
                                  ELSE IF q \in Waiting THEN "expired" ELSE reqState[q]]
               /\ reqKey' = [reqKey EXCEPT ![asked + 1] = KeyOf(disk)]
               /\ reqEnd' = [reqEnd EXCEPT ![asked + 1] = now + PendingLife]
               /\ \/ UNCHANGED <<made, faults>> /\ Answers(asked + 1)
                  \/ Lost
<1>1. pc = "register" /\ mem.request = None
  BY Zenon DEF CreateRequest
<1>2. disk \in Identities /\ mem = disk /\ disk # None
  BY <1>1, InMemory, Zenon
<1>3. KeyOf(disk) \in Keys
  BY <1>2, Fields, Zenon
<1>4. RequestKey = KeyOf(disk)
  BY <1>2, Zenon DEF RequestKey, KeyOf
<1>5. ASSUME NEW r, Pending(r) PROVE Answers(r)
  BY <1>1, <1>5, Zenon DEF Pending, Save, Answers
<1>6. ASSUME Rejected PROVE Answers(None)
  BY <1>1, <1>6, Zenon DEF Rejected, Answers
<1> QED BY <1>1, <1>2, <1>3, <1>4, <1>5, <1>6, ZenonT(60) DEF CreateRequest, Answer, Waiting, keys

\* The part of TypeOK about the clock, the server and the bounds.
ServerTypes ==
  /\ now \in 0..MaxTime
  /\ reqState \in [Requests -> {"none", "pending", "expired", "approved"}]
  /\ reqKey \in [Requests -> Keys \cup {None}] /\ reqEnd \in [Requests -> Int]
  /\ asked \in 0..MaxRequests
  /\ live \in BOOLEAN /\ lease \in Int /\ cred \in Certificates
  /\ active \subseteq Keys /\ overlap \subseteq Keys /\ overlapEnd \in [Keys -> Nat]
  /\ admitted \subseteq Keys
  /\ faults \in 0..MaxFaults /\ revokes \in 0..MaxRevokes

\* The type invariant, part by part.
LEMMA Types == TypeOK <=> ClientTypes /\ ServerTypes
BY Zenon DEF TypeOK, ClientTypes, ServerTypes

\* Losing an answer keeps the types.
LEMMA LostTypes ==
  ASSUME EnrollmentInv, Lost
  PROVE  ClientTypes' /\ faults' \in 0..MaxFaults
<1>1. ClientTypes'
  BY Zenon DEF EnrollmentInv, TypeOK, ClientTypes, Lost, client
<1> QED BY <1>1, BoundsAssumption DEF EnrollmentInv, TypeOK, Lost

\* CreateRequest keeps the invariant.
LEMMA CreateRequestKeeps ==
  ASSUME EnrollmentInv, CreateRequest
  PROVE  EnrollmentInv'
<1>0. /\ pc = "register" /\ disk \in Identities /\ disk # None /\ mem = disk
      /\ disk.request = None /\ KeyOf(disk) \in Keys
      /\ UNCHANGED <<now, live, lease, active, overlap, overlapEnd, cred, admitted, revokes>>
  BY CreateRequestCases, Zenon
<1>1. CASE UNCHANGED <<reqState, reqKey, reqEnd, asked, made, faults>> /\ Answers(None)
  <2>1. ServerTypes'
    BY <1>0, <1>1, Zenon DEF EnrollmentInv, TypeOK, ServerTypes
  <2>2. ClientTypes'
    BY <1>1, AnswerTypes, Zenon
  <2>3. ProcessOK' /\ RequestsOK' /\ FetchOK' /\ KeysOK'
    BY <1>0, <1>1, AnswerKeeps, Zenon DEF Waiting
  <2> QED BY <2>1, <2>2, <2>3, Types, Zenon DEF EnrollmentInv, TypeOK, ClientTypes, ServerTypes
<1>2. CASE /\ UNCHANGED <<reqState, reqKey, reqEnd, asked>>
           /\ \A q \in Waiting : reqKey[q] = KeyOf(disk)
           /\ \/ \E q \in Waiting : UNCHANGED <<made, faults>> /\ Answers(q)
              \/ Lost
  <2>1. CASE \E q \in Waiting : UNCHANGED <<made, faults>> /\ Answers(q)
    <3>1. PICK q \in Waiting : UNCHANGED <<made, faults>> /\ Answers(q)
      BY <2>1, Zenon
    <3>2. q \in Requests /\ reqState'[q] # "approved"
      BY <1>2, Zenon DEF Waiting
    <3>3. ServerTypes'
      BY <1>0, <1>2, <3>1, Zenon DEF EnrollmentInv, TypeOK, ServerTypes
    <3>4. ClientTypes'
      BY <3>1, <3>2, AnswerTypes, Zenon
    <3>5. ProcessOK' /\ RequestsOK' /\ FetchOK' /\ KeysOK'
      BY <1>0, <1>2, <3>1, <3>2, AnswerKeeps, Zenon DEF Waiting
    <3> QED BY <3>3, <3>4, <3>5, Types, Zenon DEF EnrollmentInv, TypeOK, ClientTypes, ServerTypes
  <2>2. CASE Lost
    <3>1. ClientTypes' /\ faults' \in 0..MaxFaults
      BY <2>2, LostTypes, Zenon
    <3>2. ServerTypes'
      BY <1>0, <1>2, <3>1, Zenon DEF EnrollmentInv, TypeOK, ServerTypes
    <3>3. ProcessOK' /\ RequestsOK' /\ FetchOK' /\ KeysOK'
      BY <1>0, <1>2, <2>2, Zenon
         DEF EnrollmentInv, ProcessOK, RequestsOK, FetchOK, KeysOK, Registered,
                               Waiting, Lost, client, KeyOf
    <3> QED BY <3>1, <3>2, <3>3, Types, Zenon DEF EnrollmentInv, TypeOK, ClientTypes, ServerTypes
  <2> QED BY <1>2, <2>1, <2>2, Zenon
<1>3. CASE /\ asked + 1 \in Requests /\ asked' = asked + 1
           /\ \A q \in Waiting : reqKey[q] = KeyOf(disk)
           /\ reqState' = [q \in Requests |-> IF q = asked + 1 THEN "pending"
                              ELSE IF q \in Waiting THEN "expired" ELSE reqState[q]]
           /\ reqKey' = [reqKey EXCEPT ![asked + 1] = KeyOf(disk)]
           /\ reqEnd' = [reqEnd EXCEPT ![asked + 1] = now + PendingLife]
           /\ \/ UNCHANGED <<made, faults>> /\ Answers(asked + 1)
              \/ Lost
  <2>1. asked + 1 \in Requests /\ Waiting' = {asked + 1} /\ reqKey'[asked + 1] = KeyOf(disk)
        /\ reqState'[asked + 1] # "approved"
    <3>1. reqKey \in [Requests -> Keys \cup {None}]
      BY Zenon DEF EnrollmentInv, TypeOK
    <3>2. \A q \in Requests : reqState'[q] = "pending" <=> q = asked + 1
      BY <1>3, Zenon DEF Waiting
    <3> QED BY <1>3, <3>1, <3>2, Zenon DEF Waiting
  <2>2. now' \in 0..MaxTime /\ asked' \in 0..MaxRequests /\ reqEnd' \in [Requests -> Int]
    BY <1>0, <1>3, BoundsAssumption DEF EnrollmentInv, TypeOK, Requests, PendingLife
  <2>3. reqState' \in [Requests -> {"none", "pending", "expired", "approved"}]
    BY <1>3, Zenon DEF EnrollmentInv, TypeOK
  <2>4. reqKey' \in [Requests -> Keys \cup {None}]
    BY <1>0, <1>3, Zenon DEF EnrollmentInv, TypeOK
  <2>5. /\ live' \in BOOLEAN /\ lease' \in Int /\ cred' \in Certificates
        /\ (active \subseteq Keys)' /\ (overlap \subseteq Keys)' /\ (overlapEnd \in [Keys -> Nat])'
        /\ (admitted \subseteq Keys)'
        /\ revokes' \in 0..MaxRevokes
    BY <1>0, Zenon DEF EnrollmentInv, TypeOK
  <2>6. CASE UNCHANGED <<made, faults>> /\ Answers(asked + 1)
    <3>1. faults' \in 0..MaxFaults
      BY <2>6, Zenon DEF EnrollmentInv, TypeOK
    <3>2. ServerTypes'
      BY <2>2, <2>3, <2>4, <2>5, <3>1, Zenon DEF ServerTypes
    <3>3. ClientTypes'
      BY <2>1, <2>6, AnswerTypes, Zenon
    <3>4. ProcessOK' /\ RequestsOK' /\ FetchOK' /\ KeysOK'
      BY <1>0, <2>1, <2>6, AnswerKeeps, Zenon
    <3> QED BY <3>2, <3>3, <3>4, Types, Zenon DEF EnrollmentInv, TypeOK, ClientTypes, ServerTypes
  <2>7. CASE Lost
    <3>1. ClientTypes' /\ faults' \in 0..MaxFaults
      BY <2>7, LostTypes, Zenon
    <3>2. ServerTypes'
      BY <2>2, <2>3, <2>4, <2>5, <3>1, Zenon DEF ServerTypes
    <3>3. UNCHANGED <<disk, mem, pc, made>> /\ KeyOf(disk) \in {disk.key, disk.pending}
      BY <2>7, Zenon DEF Lost, client, KeyOf
    <3>4. ProcessOK' /\ RequestsOK' /\ FetchOK' /\ KeysOK'
      BY <1>0, <2>1, <3>3, Zenon
         DEF EnrollmentInv, ProcessOK, RequestsOK, FetchOK, KeysOK, Registered
    <3> QED BY <3>1, <3>2, <3>4, Types, Zenon DEF EnrollmentInv, TypeOK, ClientTypes, ServerTypes
  <2> QED BY <1>3, <2>6, <2>7, Zenon
<1> QED BY <1>1, <1>2, <1>3, CreateRequestCases, ZenonT(60)

\* An approval is stored: the key it was asked for becomes the identity key.
LEMMA ApprovedKeeps ==
  ASSUME EnrollmentInv, pc = "register", ServerTypes',
         NEW r \in Requests \cup {None}, NEW c \in Issued, NEW l \in Int, Approved(r, c, l),
         UNCHANGED <<now, made, reqState, reqKey, live, active, overlap, overlapEnd>>, live,
         c.key = KeyOf(disk), Registered(KeyOf(disk)), cred' = c,
         \A q \in Waiting : reqKey[q] = KeyOf(disk)
  PROVE  EnrollmentInv'
<1>1. disk \in Identities /\ mem = disk /\ disk # None
  BY InMemory, Zenon
<1>2. KeyOf(disk) \in Keys /\ RequestKey = KeyOf(disk)
  BY <1>1, Fields, Zenon DEF RequestKey, KeyOf
<1>3. disk' = [key |-> KeyOf(disk), pending |-> None, request |-> r, cert |-> c, lease |-> l]
      /\ mem' = disk' /\ pc' = "running"
  BY <1>2, Zenon DEF Approved, Save
<1>4. /\ disk' \in Identities /\ disk'.key = KeyOf(disk) /\ disk'.pending = None
      /\ disk'.request = r /\ disk'.cert = c
  BY ONLY <1>2, <1>3, r \in Requests \cup {None}, c \in Issued, l \in Int, Zenon
     DEF Identities, Certificates
<1>5. disk' # None /\ c # None /\ KeyOf(disk)' = KeyOf(disk)
  BY <1>4, NoneAssumption, Zenon DEF KeyOf
<1>6. mem' = disk' /\ pc' = "running"
  BY <1>3, Zenon
<1> HIDE <1>3
<1>7. ClientTypes'
  BY <1>4, <1>6, Zenon DEF EnrollmentInv, TypeOK, ClientTypes
<1>8. ProcessOK'
  BY <1>4, <1>5, <1>6, Zenon DEF EnrollmentInv, ProcessOK
<1>9. RequestsOK'
  BY <1>2, <1>4, <1>5, Zenon DEF EnrollmentInv, RequestsOK, Waiting
<1>10. FetchOK'
  BY <1>5, Zenon DEF FetchOK, Registered
<1>11. KeysOK'
  <2>1. KeyOf(disk) <= made
    BY <1>1, Zenon DEF EnrollmentInv, KeysOK, KeyOf
  <2>2. ASSUME NEW j \in active PROVE j <= KeyOf(disk)
    <3>1. /\ j \in Int /\ disk.key \in Int
          /\ disk.pending # None => disk.pending \in Int /\ disk.key < disk.pending
          /\ j = disk.pending \/ j <= disk.key
          /\ j # None
      BY <1>1, Fields, NoneIsNoKey DEF EnrollmentInv, TypeOK, Keys, KeysOK
    <3> QED BY <3>1 DEF KeyOf
  <2>3. Registered(KeyOf(disk))'
    BY <1>5, Zenon DEF Registered
  <2> QED BY <1>4, <1>5, <2>1, <2>2, <2>3, Zenon DEF EnrollmentInv, KeysOK
<1> QED BY <1>7, <1>8, <1>9, <1>10, <1>11, Types, Zenon
     DEF EnrollmentInv, TypeOK, ClientTypes, ServerTypes

\* Nothing but the counter of faults changes.
LEMMA LostKeeps ==
  ASSUME EnrollmentInv, Lost, UNCHANGED <<now, server, admitted, revokes>>
  PROVE  EnrollmentInv'
<1>1. ClientTypes' /\ faults' \in 0..MaxFaults
  BY LostTypes, Zenon
<1>2. ServerTypes'
  BY <1>1, Zenon DEF EnrollmentInv, TypeOK, ServerTypes, server, keys
<1>3. ProcessOK' /\ RequestsOK' /\ FetchOK' /\ KeysOK'
  BY Zenon
     DEF EnrollmentInv, ProcessOK, RequestsOK, FetchOK, KeysOK, Registered, Waiting, Lost,
     client,
         server, keys, KeyOf
<1> QED BY <1>1, <1>2, <1>3, Types, Zenon DEF EnrollmentInv, TypeOK, ClientTypes, ServerTypes

\* PollRequest keeps the invariant.
LEMMA PollRequestKeeps ==
  ASSUME EnrollmentInv, PollRequest
  PROVE  EnrollmentInv'
<1>1. pc = "register" /\ mem.request # None /\ UNCHANGED <<now, server, admitted, revokes>>
  BY Zenon DEF PollRequest
<1>2. disk \in Identities /\ mem = disk /\ disk # None
  BY <1>1, InMemory, Zenon
<1>3. mem.request \in Requests
  BY <1>1, <1>2, Fields, Zenon
<1>4. \A q \in Waiting : reqKey[q] = KeyOf(disk)
  BY <1>1, <1>2, Zenon DEF EnrollmentInv, RequestsOK
<1>5. ASSUME NEW r \in {None, mem.request}, Answers(r), UNCHANGED <<made, faults>>
      PROVE  EnrollmentInv'
  <2>1. ClientTypes'
    BY <1>3, <1>5, AnswerTypes, Zenon
  <2>2. ServerTypes'
    BY <1>1, <1>5, Zenon DEF EnrollmentInv, TypeOK, ServerTypes, server, keys
  <2>3. ProcessOK' /\ RequestsOK' /\ FetchOK' /\ KeysOK'
    BY <1>1, <1>2, <1>3, <1>4, <1>5, AnswerKeeps, Zenon DEF Waiting, server, keys
  <2> QED BY <2>1, <2>2, <2>3, Types, Zenon DEF EnrollmentInv, TypeOK, ClientTypes, ServerTypes
<1>6. CASE Answer(Expired)
  BY <1>1, <1>5, <1>6, Zenon DEF Answer, Expired, Save, Answers
<1>7. CASE Answer(Pending(mem.request))
  BY <1>1, <1>5, <1>7, Zenon DEF Answer, Pending, Save, Answers
<1>8. CASE reqState[mem.request] = "approved" /\ cred # None /\ Answer(Approved(mem.request, cred, lease))
  <2>1. ServerTypes'
    BY <1>1, <1>8, Zenon DEF EnrollmentInv, TypeOK, ServerTypes, server, keys, Answer
  <2>2. cred.key = KeyOf(disk) /\ Registered(KeyOf(disk))
    BY <1>1, <1>2, <1>8, Zenon DEF EnrollmentInv, FetchOK
  <2>3. cred \in Issued /\ lease \in Int /\ live
    BY <1>8, Zenon DEF EnrollmentInv, TypeOK, Certificates, ProcessOK
  <2>4. /\ UNCHANGED <<now, made, reqState, reqKey, live, active, overlap, overlapEnd>> /\ cred' = cred
        /\ Approved(mem.request, cred, lease)
    BY <1>1, <1>8, Zenon DEF server, keys, Answer
  <2> QED BY <1>1, <1>3, <1>4, <2>1, <2>2, <2>3, <2>4, ApprovedKeeps, Zenon
<1>9. CASE Lost
  BY <1>1, <1>9, LostKeeps, Zenon
<1> QED BY <1>6, <1>7, <1>8, <1>9, Zenon DEF PollRequest

\* Renew keeps the invariant.
LEMMA RenewKeeps ==
  ASSUME EnrollmentInv, Renew
  PROVE  EnrollmentInv'
<1> DEFINE certificate == [key |-> mem.key, end |-> now + CertificateLife]
           granted == mem.key \in usable /\ live /\ lease > now
<1>1. /\ pc = "register" /\ mem.pending = None
      /\ UNCHANGED <<now, reqState, reqKey, reqEnd, asked, live, active, overlap, overlapEnd, admitted, revokes>>
  BY Zenon DEF Renew, Renewing, keys
<1>2. disk \in Identities /\ mem = disk /\ disk # None
  BY <1>1, InMemory, Zenon
<1>3. KeyOf(disk) = mem.key /\ mem.key \in Keys /\ disk.pending = None
  BY <1>1, <1>2, Fields, Zenon DEF KeyOf
<1>4. \A q \in Waiting : reqKey[q] = KeyOf(disk)
  BY <1>2, <1>3, NoneIsNoKey, Zenon DEF EnrollmentInv, RequestsOK
<1>5. /\ certificate \in Issued /\ certificate.key = KeyOf(disk) /\ certificate # None
      /\ now + LeaseTime \in Int
  <2>1. now + CertificateLife \in Int /\ now + LeaseTime \in Int
    BY BoundsAssumption DEF EnrollmentInv, TypeOK, CertificateLife
  <2> QED BY <1>3, <2>1, NoneAssumption DEF Issued
<1>6. \/ granted /\ cred' = certificate /\ lease' = now + LeaseTime
         /\ (Answer(Approved(None, certificate, lease')) \/ Lost)
      \/ UNCHANGED <<cred, lease>> /\ Answer(Rejected)
  BY Zenon DEF Renew
<1> HIDE DEF certificate
<1>7. CASE granted /\ cred' = certificate /\ lease' = now + LeaseTime /\ Answer(Approved(None, certificate, lease'))
  <2>1. ServerTypes'
    BY <1>1, <1>5, <1>7, Zenon DEF EnrollmentInv, TypeOK, ServerTypes, Answer, Certificates
  <2>2. UNCHANGED made /\ Approved(None, certificate, lease') /\ Registered(KeyOf(disk)) /\ live
        /\ lease' \in Int
    <3>1. KeyOf(disk) \in usable /\ now \in Nat
      BY <1>3, <1>7, BoundsAssumption DEF EnrollmentInv, TypeOK
    <3>2. Registered(KeyOf(disk))
      BY <1>3, <3>1 DEF usable, Registered, EnrollmentInv, TypeOK
    <3> QED BY <1>3, <1>5, <1>7, <3>2, Zenon DEF Answer
  <2> QED BY <1>1, <1>4, <1>5, <1>7, <2>1, <2>2, ApprovedKeeps, Zenon
<1>8. CASE granted /\ cred' = certificate /\ lease' = now + LeaseTime /\ Lost
  <2>1. ClientTypes' /\ faults' \in 0..MaxFaults
    BY <1>8, LostTypes, Zenon
  <2>2. ServerTypes'
    BY <1>1, <1>5, <1>8, <2>1, Zenon DEF EnrollmentInv, TypeOK, ServerTypes, Certificates
  <2>3. ProcessOK' /\ RequestsOK' /\ FetchOK' /\ KeysOK'
    BY <1>1, <1>2, <1>3, <1>4, <1>5, <1>8, Zenon
       DEF EnrollmentInv, ProcessOK, RequestsOK, FetchOK, KeysOK, Registered, Waiting, Lost,
       client, KeyOf
  <2> QED BY <2>1, <2>2, <2>3, Types, Zenon DEF EnrollmentInv, TypeOK, ClientTypes, ServerTypes
<1>9. CASE UNCHANGED <<cred, lease>> /\ Answer(Rejected)
  <2>1. Answers(None) /\ UNCHANGED <<made, faults>>
    BY <1>1, <1>9, Zenon DEF Answer, Rejected, Answers
  <2>2. ClientTypes'
    BY <2>1, AnswerTypes, Zenon
  <2>3. ServerTypes'
    BY <1>1, <1>9, <2>1, ZenonT(60) DEF EnrollmentInv, TypeOK, ServerTypes
  <2>4. ProcessOK' /\ RequestsOK' /\ FetchOK' /\ KeysOK'
    BY <1>1, <1>9, <2>1, AnswerKeeps, Zenon DEF Waiting
  <2> QED BY <2>2, <2>3, <2>4, Types, Zenon DEF EnrollmentInv, TypeOK, ClientTypes, ServerTypes
<1> QED BY <1>6, <1>7, <1>8, <1>9, Zenon

\* Refused keeps the invariant.
LEMMA RefusedKeeps ==
  ASSUME EnrollmentInv, Refused
  PROVE  EnrollmentInv'
<1>1. Answers(None) /\ faults < MaxFaults /\ faults' = faults + 1 /\ UNCHANGED <<now, made, server, admitted, revokes>>
  BY Zenon DEF Refused, Rejected, Answers
<1>2. ClientTypes'
  BY <1>1, AnswerTypes, Zenon
<1>3. ServerTypes'
  BY <1>1, BoundsAssumption DEF EnrollmentInv, TypeOK, ServerTypes, server, keys
<1>4. ProcessOK' /\ RequestsOK' /\ FetchOK' /\ KeysOK'
  BY <1>1, AnswerKeeps, Zenon DEF Waiting, server, keys
<1> QED BY <1>2, <1>3, <1>4, Types, Zenon DEF EnrollmentInv, TypeOK, ClientTypes, ServerTypes

\* Crash keeps the invariant.
LEMMA CrashKeeps ==
  ASSUME EnrollmentInv, Crash
  PROVE  EnrollmentInv'
<1>1. ClientTypes'
  BY Zenon DEF EnrollmentInv, TypeOK, ClientTypes, Crash, server, keys
<1>2. ServerTypes'
  BY BoundsAssumption DEF EnrollmentInv, TypeOK, ServerTypes, Crash, server, keys
<1>3. ProcessOK'
  BY Zenon DEF EnrollmentInv, ProcessOK, Crash, server, keys
<1>4. RequestsOK'
  BY Zenon DEF EnrollmentInv, RequestsOK, Waiting, KeyOf, Crash, server, keys
<1>5. FetchOK'
  BY Zenon DEF EnrollmentInv, ProcessOK, FetchOK, Registered, KeyOf, Crash, server, keys
<1>6. KeysOK'
  BY Zenon DEF EnrollmentInv, ProcessOK, KeysOK, Registered, Crash, server, keys
<1> QED BY <1>1, <1>2, <1>3, <1>4, <1>5, <1>6, Types, Zenon
       DEF EnrollmentInv, TypeOK, ClientTypes, ServerTypes

\* Approve keeps the invariant.
LEMMA ApproveKeeps ==
  ASSUME EnrollmentInv, NEW r \in Requests, Approve(r)
  PROVE  EnrollmentInv'
<1> DEFINE certificate == [key |-> reqKey[r], end |-> now + CertificateLife]
<1>1. /\ r \in Waiting /\ reqState' = [reqState EXCEPT ![r] = "approved"]
      /\ live' = TRUE /\ lease' = now + LeaseTime /\ active' = active \cup {reqKey[r]}
      /\ overlap' = overlap \ {reqKey[r]}
      /\ cred' = certificate
      /\ UNCHANGED <<now, disk, mem, pc, made, reqKey, reqEnd, asked, overlapEnd, admitted, faults, revokes>>
  BY Zenon DEF Approve, Waiting, client
<1>2. /\ disk # None /\ reqKey[r] \in Keys /\ reqKey[r] \in {disk.key, disk.pending}
      /\ disk.request # None => reqKey[r] = KeyOf(disk)
  BY <1>1, Zenon DEF EnrollmentInv, RequestsOK
<1>3. /\ certificate \in Issued /\ certificate.key = reqKey[r] /\ certificate # None
      /\ now + LeaseTime \in Int
  <2>1. now + CertificateLife \in Int /\ now + LeaseTime \in Int
    BY BoundsAssumption DEF EnrollmentInv, TypeOK, CertificateLife
  <2> QED BY <1>2, <2>1, NoneAssumption DEF Issued
<1> HIDE DEF certificate
<1>4. Waiting' \subseteq Waiting
  BY <1>1, Zenon DEF EnrollmentInv, TypeOK, Waiting
<1>5. ClientTypes'
  BY <1>1, Zenon DEF EnrollmentInv, TypeOK, ClientTypes
<1>6. ServerTypes'
  BY <1>1, <1>2, <1>3, Zenon DEF EnrollmentInv, TypeOK, ServerTypes, Certificates
<1>7. ProcessOK'
  BY <1>1, <1>3, Zenon DEF EnrollmentInv, ProcessOK
<1>8. RequestsOK'
  BY <1>1, <1>2, <1>4, Zenon DEF EnrollmentInv, RequestsOK, KeyOf
<1>9. FetchOK'
  BY <1>1, <1>2, <1>3, Zenon DEF EnrollmentInv, FetchOK, KeyOf, Registered
<1>10. KeysOK'
  <2>1. disk.key <= disk.key
    BY <1>2, Fields DEF EnrollmentInv, TypeOK, Keys
  <2>2. Registered(disk.key) \/ reqKey[r] = disk.key => Registered(disk.key)'
    BY <1>1, Zenon DEF Registered
  <2>3. active' # {}
    BY <1>1, Zenon
  <2>4. ASSUME NEW j \in active' PROVE j = disk.pending \/ (j <= disk.key /\ Registered(disk.key)')
    BY <1>1, <1>2, <2>1, <2>2, <2>4, Zenon DEF EnrollmentInv, KeysOK
  <2> QED BY <1>1, <1>2, <2>3, <2>4, Zenon DEF EnrollmentInv, KeysOK
<1> QED BY <1>5, <1>6, <1>7, <1>8, <1>9, <1>10, Types, Zenon
     DEF EnrollmentInv, TypeOK, ClientTypes, ServerTypes

\* ActiveIdentityKey keeps the invariant.
LEMMA ActiveIdentityKeyKeeps ==
  ASSUME EnrollmentInv, ActiveIdentityKey
  PROVE  EnrollmentInv'
<1>0. /\ admitted' = admitted \cup {mem.key} /\ mem.key \in Keys
      /\ UNCHANGED <<now, disk, mem, pc, made, faults, revokes>>
      /\ UNCHANGED <<reqState, reqKey, reqEnd, asked, live, lease, active, overlap, overlapEnd, cred>>
  BY InMemory, Fields, Zenon DEF ActiveIdentityKey, client, server, keys
<1>1. ClientTypes' /\ ServerTypes'
  BY <1>0, Zenon DEF EnrollmentInv, TypeOK, ClientTypes, ServerTypes
<1>2. ProcessOK' /\ RequestsOK' /\ FetchOK' /\ KeysOK'
  BY <1>0, Zenon
     DEF EnrollmentInv, ProcessOK, RequestsOK, Waiting, FetchOK, KeysOK, KeyOf, Registered
<1> QED BY <1>1, <1>2, Types, Zenon DEF EnrollmentInv, TypeOK, ClientTypes, ServerTypes

\* Where only the clock and the states of the keys change, it is enough that a registered key
\* stays registered and that no key becomes active.
LEMMA KeysKeep ==
  ASSUME EnrollmentInv, UNCHANGED <<disk, mem, pc, made, reqState, reqKey, live, cred>>,
         active' \subseteq active, active # {} => active' # {},
         \A k \in Keys : Registered(k) => Registered(k)'
  PROVE  ProcessOK' /\ RequestsOK' /\ FetchOK' /\ KeysOK'
<1>1. disk # None => disk.key \in Keys /\ KeyOf(disk) \in Keys
  BY Fields, Zenon DEF EnrollmentInv, TypeOK
<1>2. ProcessOK'
  BY Zenon DEF EnrollmentInv, ProcessOK
<1>3. RequestsOK'
  BY Zenon DEF EnrollmentInv, RequestsOK, Waiting, KeyOf
<1>4. FetchOK'
  <2>1. KeyOf(disk)' = KeyOf(disk)
    BY Zenon DEF KeyOf
  <2>2. disk # None /\ Registered(KeyOf(disk)) => (Registered(KeyOf(disk)))'
    BY <1>1, <2>1, Zenon DEF Registered
  <2> QED BY <2>1, <2>2, Zenon DEF EnrollmentInv, FetchOK
<1>5. KeysOK'
  <2>1. disk # None /\ Registered(disk.key) => (Registered(disk.key))'
    BY <1>1, Zenon DEF Registered
  <2>2. live' <=> active' # {}
    BY Zenon DEF EnrollmentInv, KeysOK
  <2> QED BY <2>1, <2>2, Zenon DEF EnrollmentInv, KeysOK
<1> QED BY <1>2, <1>3, <1>4, <1>5, Zenon

\* CompleteIdentityRotation keeps the invariant.
LEMMA CompleteIdentityRotationKeeps ==
  ASSUME EnrollmentInv, NEW k \in Keys, CompleteIdentityRotation(k)
  PROVE  EnrollmentInv'
<1> DEFINE others == IF k \in active THEN active \ {k} ELSE {}
<1>0. /\ admitted' = admitted \ {k} /\ active' = active \ others /\ overlap' = overlap \cup others
      /\ overlapEnd' = [j \in Keys |-> IF j \in others THEN now + OverlapLife ELSE overlapEnd[j]]
      /\ UNCHANGED <<now, disk, mem, pc, made, faults, revokes>>
      /\ UNCHANGED <<reqState, reqKey, reqEnd, asked, live, lease, cred>>
  BY Zenon DEF CompleteIdentityRotation, client
<1>1. others \subseteq active /\ (active # {} => active \ others # {})
  BY Zenon
<1> HIDE DEF others
<1>2. /\ now \in Nat /\ now + OverlapLife \in Nat /\ now + OverlapLife > 0
      /\ overlapEnd \in [Keys -> Nat] /\ active \subseteq Keys /\ overlap \subseteq Keys
      /\ admitted \subseteq Keys
  BY BoundsAssumption DEF EnrollmentInv, TypeOK, OverlapLife
<1>3. overlapEnd' \in [Keys -> Nat]
  BY <1>0, <1>2, Zenon
<1>4. ClientTypes' /\ ServerTypes'
  BY <1>0, <1>1, <1>2, <1>3, Zenon DEF EnrollmentInv, TypeOK, ClientTypes, ServerTypes
<1>5. ASSUME NEW j \in Keys, Registered(j) PROVE Registered(j)'
  <2>1. CASE j \in others
    BY <1>0, <1>2, <2>1, Zenon DEF Registered
  <2>2. CASE j \notin others
    BY <1>0, <1>5, <2>2, Zenon DEF Registered
  <2> QED BY <2>1, <2>2, Zenon
<1>6. ProcessOK' /\ RequestsOK' /\ FetchOK' /\ KeysOK'
  BY <1>0, <1>1, <1>5, KeysKeep, Zenon
<1> QED BY <1>4, <1>6, Types, Zenon DEF EnrollmentInv, TypeOK, ClientTypes, ServerTypes

\* Withdraw keeps the invariant.
LEMMA WithdrawKeeps ==
  ASSUME EnrollmentInv, Withdraw, revokes' \in 0..MaxRevokes,
         UNCHANGED <<now, client, reqState, reqKey, reqEnd, asked, admitted, faults>>
  PROVE  EnrollmentInv'
<1>1. /\ live' = FALSE /\ active' = {} /\ overlap' = {} /\ cred' = None
      /\ UNCHANGED <<now, disk, mem, pc, made, reqState, reqKey, reqEnd, asked, lease, overlapEnd>>
      /\ UNCHANGED <<admitted, faults>>
  BY Zenon DEF Withdraw, client
<1>2. ClientTypes' /\ ServerTypes'
  BY <1>1, Zenon DEF EnrollmentInv, TypeOK, ClientTypes, ServerTypes, Certificates
<1>3. ProcessOK' /\ RequestsOK' /\ FetchOK' /\ KeysOK'
  BY <1>1, Zenon DEF EnrollmentInv, ProcessOK, RequestsOK, Waiting, FetchOK, KeysOK, KeyOf
<1> QED BY <1>2, <1>3, Types, Zenon DEF EnrollmentInv, TypeOK, ClientTypes, ServerTypes

\* Expire keeps the invariant.
LEMMA ExpireKeeps ==
  ASSUME EnrollmentInv, Expire
  PROVE  EnrollmentInv'
<1>1. CASE Withdraw
  <2>1. revokes' \in 0..MaxRevokes
    BY Zenon DEF EnrollmentInv, TypeOK, Expire
  <2> QED BY <1>1, <2>1, WithdrawKeeps, Zenon DEF Expire
<1>2. CASE overlap' = {k \in overlap : overlapEnd[k] > now} /\ UNCHANGED <<live, lease, active, overlapEnd, cred>>
  <2>1. UNCHANGED <<now, disk, mem, pc, made, reqState, reqKey, reqEnd, asked, admitted, faults, revokes>>
    BY Zenon DEF Expire, client
  <2>2. ClientTypes' /\ ServerTypes'
    BY <1>2, <2>1, Zenon DEF EnrollmentInv, TypeOK, ClientTypes, ServerTypes
  <2>3. ASSUME NEW k \in Keys, Registered(k) PROVE Registered(k)'
    <3>1. overlapEnd[k] \in Nat /\ now \in Nat
      BY BoundsAssumption DEF EnrollmentInv, TypeOK
    <3>2. overlapEnd[k] > now \/ overlapEnd[k] <= now
      BY <3>1
    <3> QED BY <1>2, <2>1, <2>3, <3>2, Zenon DEF Registered
  <2>4. ProcessOK' /\ RequestsOK' /\ FetchOK' /\ KeysOK'
    BY <1>2, <2>1, <2>3, KeysKeep, Zenon
  <2> QED BY <2>2, <2>4, Types, Zenon DEF EnrollmentInv, TypeOK, ClientTypes, ServerTypes
<1> QED BY <1>1, <1>2, Zenon DEF Expire

\* Tick keeps the invariant.
LEMMA TickKeeps ==
  ASSUME EnrollmentInv, Tick
  PROVE  EnrollmentInv'
<1>1. /\ now' = now + 1 /\ now' \in 0..MaxTime /\ now \in Nat
      /\ UNCHANGED <<disk, mem, pc, made, admitted, faults, revokes>>
      /\ UNCHANGED <<reqState, reqKey, reqEnd, asked, live, lease, active, overlap, overlapEnd, cred>>
  BY BoundsAssumption DEF EnrollmentInv, TypeOK, Tick, client, server, keys
<1>2. ClientTypes' /\ ServerTypes'
  BY <1>1, Zenon DEF EnrollmentInv, TypeOK, ClientTypes, ServerTypes
<1>3. ASSUME NEW k \in Keys, Registered(k) PROVE Registered(k)'
  <2>1. overlapEnd[k] <= now => overlapEnd[k] <= now'
    BY <1>1 DEF EnrollmentInv, TypeOK
  <2> QED BY <1>1, <1>3, <2>1, Zenon DEF Registered
<1>4. ProcessOK' /\ RequestsOK' /\ FetchOK' /\ KeysOK'
  BY <1>1, <1>3, KeysKeep, Zenon
<1> QED BY <1>2, <1>4, Types, Zenon DEF EnrollmentInv, TypeOK, ClientTypes, ServerTypes

\* The invariant holds before the connector has a key.
LEMMA EnrollmentInit == Init => EnrollmentInv
<1> SUFFICES ASSUME Init PROVE EnrollmentInv
  BY Zenon
<1>1. ClientTypes
  BY BoundsAssumption DEF Init, ClientTypes
<1>3. /\ now \in 0..MaxTime /\ asked \in 0..MaxRequests /\ lease \in Int
      /\ faults \in 0..MaxFaults /\ revokes \in 0..MaxRevokes
  BY BoundsAssumption DEF Init
<1>4. ServerTypes
  BY <1>3, Zenon DEF Init, ServerTypes, Certificates
<1>2. ProcessOK /\ RequestsOK /\ FetchOK /\ KeysOK
  BY Zenon DEF Init, ProcessOK, RequestsOK, Waiting, FetchOK, KeysOK
<1> QED BY <1>1, <1>2, <1>4, Types, Zenon DEF EnrollmentInv

\* A step of nothing keeps the invariant.
LEMMA EnrollmentStutter ==
  ASSUME EnrollmentInv, UNCHANGED vars
  PROVE  EnrollmentInv'
<1> USE DEF vars, client, server, keys
<1>1. TypeOK'
  BY Zenon DEF EnrollmentInv, TypeOK
<1>2. ProcessOK' /\ RequestsOK' /\ FetchOK' /\ KeysOK'
  BY Zenon DEF EnrollmentInv, ProcessOK, RequestsOK, FetchOK, KeysOK, Registered, Waiting, KeyOf
<1> QED BY <1>1, <1>2, Zenon DEF EnrollmentInv

\* In every reachable state what the identity volume holds, the answers under way and the
\* registry agree on which keys are registered and which of them are usable.
THEOREM EnrollmentInvariant == Spec => []EnrollmentInv
<1>1. Init => EnrollmentInv
  BY EnrollmentInit, Zenon
<1>2. ASSUME EnrollmentInv, [Next]_vars PROVE EnrollmentInv'
  <2>1. CASE ClientStep
    BY <1>2, <2>1, loadOrCreateKeeps, EnsureKeeps, CreateRequestKeeps, PollRequestKeeps,
       RenewKeeps, Zenon
       DEF ClientStep
  <2>2. CASE PrepareRotation \/ Refused \/ Crash
    BY <1>2, <2>2, PrepareRotationKeeps, RefusedKeeps, CrashKeeps, Zenon
  <2>3. CASE \E r \in Requests : Approve(r)
    BY <1>2, <2>3, ApproveKeeps, Zenon
  <2>4. CASE ActiveIdentityKey \/ \E k \in Keys : CompleteIdentityRotation(k)
    BY <1>2, <2>4, ActiveIdentityKeyKeeps, CompleteIdentityRotationKeeps, Zenon
  <2>5. CASE Revoke
    <3>1. revokes' \in 0..MaxRevokes
      BY <1>2, <2>5, BoundsAssumption DEF EnrollmentInv, TypeOK, Revoke
    <3> QED BY <1>2, <2>5, <3>1, WithdrawKeeps, Zenon DEF Revoke
  <2>7. CASE Expire \/ Tick
    BY <1>2, <2>7, ExpireKeeps, TickKeeps, Zenon
  <2>6. CASE UNCHANGED vars
    BY <1>2, <2>6, EnrollmentStutter, Zenon
  <2> QED BY <1>2, <2>1, <2>2, <2>3, <2>4, <2>5, <2>6, <2>7, Zenon DEF Next
<1> QED BY <1>1, <1>2, PTL DEF Spec

\* While its registration is live, a connector that restarts finds on its volume a key the edge
\* accepts, for any number of keys, requests and faults (the connector prepares, requests and stores
\* a key before it drops the last; the edge retires a key when a session of another one is
\* accepted).  The exception is a late session of an older key, which demotes the identity key.
THEOREM RestartFindsUsableKey == Spec => []VolumeHoldsUsableKey
<1>1. EnrollmentInv => VolumeHoldsUsableKey
  <2> SUFFICES ASSUME EnrollmentInv PROVE VolumeHoldsUsableKey
    BY Zenon
  <2>1. disk # None /\ disk.cert # None => disk.cert.key = disk.key
    BY Zenon DEF EnrollmentInv, KeysOK
  <2>2. ASSUME live
        PROVE  /\ disk # None
               /\ \/ {disk.key, disk.pending} \cap usable # {}
                  \/ overlapEnd[disk.key] \in 1..now /\ \E k \in active : k < disk.key
    <3>1. PICK j \in active : /\ disk # None
                              /\ j = disk.pending \/ (j <= disk.key /\ Registered(disk.key))
      BY <2>2, Zenon DEF EnrollmentInv, KeysOK
    <3>2. active \subseteq usable
      BY Zenon DEF usable
    <3>3. CASE j = disk.pending \/ disk.key \in active
      BY <3>1, <3>2, <3>3, Zenon
    <3>4. CASE j # disk.pending /\ disk.key \notin active
      <4>1. /\ disk.key \in Keys /\ overlapEnd[disk.key] \in Nat /\ now \in Nat /\ j \in Keys
            /\ j \in Int /\ disk.key \in Int
        BY <3>1, Fields, BoundsAssumption DEF EnrollmentInv, TypeOK, Keys
      <4>2. /\ j <= disk.key /\ j # disk.key /\ overlapEnd[disk.key] > 0
            /\ disk.key \in overlap \/ overlapEnd[disk.key] <= now
        BY <3>1, <3>4, Zenon DEF Registered
      <4>3. CASE overlapEnd[disk.key] > now
        <5>1. disk.key \in overlap
          BY <4>1, <4>2, <4>3
        <5> QED BY <3>1, <4>3, <5>1, Zenon DEF usable
      <4>4. CASE overlapEnd[disk.key] <= now
        <5>1. overlapEnd[disk.key] \in 1..now /\ j < disk.key
          BY <4>1, <4>2, <4>4
        <5> QED BY <3>1, <5>1, Zenon
      <4> QED BY <4>1, <4>3, <4>4
    <3> QED BY <3>3, <3>4, Zenon
  <2> QED BY <2>1, <2>2, Zenon DEF VolumeHoldsUsableKey
<1> QED BY <1>1, EnrollmentInvariant, PTL
=============================================================================
