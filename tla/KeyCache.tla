------------------------------ MODULE KeyCache ------------------------------
(***************************************************************************)
(* The signing keys of an OIDC provider as the approval API sees them      *)
(* (internal/oidc/validator.go): concurrent calls of Validate share a      *)
(* cache of the provider's key set and a singleflight group for fetching   *)
(* it.                                                                     *)
(*                                                                         *)
(* key() reads the cache under mu, gives mu up for the fetch and takes it  *)
(* again to store what it got; every caller that shared a fetch stores the *)
(* result.  Validate calls key() a second time, with force, when the key   *)
(* is not in the set.  The fetch runs with the context of the caller that  *)
(* started it.  The provider publishes and withdraws keys at any time.     *)
(***************************************************************************)
EXTENDS Integers

CONSTANTS
  Calls,      \* concurrent calls of Validate
  Kids,       \* key identifiers
  MaxAges,    \* values of max-age the provider sends, 0 for none
  Hour,       \* the longest time a key set is kept
  Minute,     \* the shortest time between forced fetches
  Timeout,    \* of the HTTP client (10 seconds)
  Horizon,    \* bound on the clock
  None        \* no key set, no key

ASSUME KeyAssumption ==
  /\ MaxAges \subseteq Nat
  /\ Timeout \in Nat /\ Minute \in Nat /\ Hour \in Nat /\ Horizon \in Nat
  /\ Timeout < Minute /\ Minute < Hour
  /\ None \notin Kids
  /\ None \notin [byID : SUBSET Kids, expiresAt : Nat, fetchedAt : Nat]

VARIABLES
  clock,
  since,    \* provider: when a key was published, -1 if it is not
  last,     \* history: the last moment at which a key was published, -1 for never
  cache,    \* Validator.keys of the provider
  flight,   \* the fetch under way: when fetchKeys started and what it received
  call      \* the calls of Validate

keyVars == <<clock, since, last, cache, flight, call>>

KeySets == [byID : SUBSET Kids, expiresAt : Nat, fetchedAt : Nat]
NoFlight == [at |-> -1, got |-> None]
Idle == [pc |-> "idle", kid |-> None, begun |-> 0, force |-> FALSE, value |-> None]

KeyTypeOK ==
  /\ clock \in Nat
  /\ since \in [Kids -> Nat \cup {-1}] /\ last \in [Kids -> Nat \cup {-1}]
  /\ cache \in KeySets \cup {None}
  /\ flight \in [at : Nat \cup {-1}, got : KeySets \cup {None}]
  /\ call \in [Calls -> [pc : {"idle", "look", "do", "wait", "store", "verify", "unknown"},
                        kid : Kids \cup {None}, begun : Nat, force : BOOLEAN,
                        value : KeySets \cup {None}]]

KeyInit ==
  /\ clock = 0
  /\ since \in [Kids -> {-1, 0}]
  /\ last = since
  /\ cache = None
  /\ flight = NoFlight
  /\ call = [c \in Calls |-> Idle]
-----------------------------------------------------------------------------
(* The provider and the clock.                                             *)

Published == {k \in Kids : since[k] >= 0}

PublishKey(k) ==
  /\ since[k] = -1
  /\ since' = [since EXCEPT ![k] = clock] /\ last' = [last EXCEPT ![k] = clock]
  /\ UNCHANGED <<clock, cache, flight, call>>

WithdrawKey(k) ==
  /\ since[k] >= 0
  /\ since' = [since EXCEPT ![k] = -1]
  /\ UNCHANGED <<clock, last, cache, flight, call>>

\* The client's timeout bounds the whole exchange, the body included.
TimePasses ==
  /\ clock < Horizon
  /\ flight # NoFlight => clock - flight.at < Timeout
  /\ clock' = clock + 1
  /\ last' = [k \in Kids |-> IF since[k] >= 0 THEN clock' ELSE last[k]]
  /\ UNCHANGED <<since, cache, flight, call>>
-----------------------------------------------------------------------------
(* Validate and key.                                                       *)

\* Call c at another point; what it fetched is looked at once.
At(c, pc, force, value) ==
  [pc |-> pc, kid |-> call[c].kid, begun |-> call[c].begun, force |-> force, value |-> value]

To(c, pc) == call' = [call EXCEPT ![c] = At(c, pc, call[c].force, None)]

\* A token with a well-formed header that names key k.
Validate(c, k) ==
  /\ call[c] = Idle
  /\ call' = [call EXCEPT ![c] =
                [pc |-> "look", kid |-> k, begun |-> clock, force |-> FALSE, value |-> None]]
  /\ UNCHANGED <<clock, since, last, cache, flight>>

\* Mutated form: a key set is used for ever.
FreshForEver == cache # None

\* The cached set is there and has not expired.
Fresh == cache # None /\ cache.expiresAt > clock

\* Mutated form: a key set that has not expired forbids a forced fetch.
TooEarlyWhileFresh == Fresh

\* A forced fetch comes less than a minute after the last one.
TooEarly == cache # None /\ clock - cache.fetchedAt < Minute

\* The key was not found: Validate asks once more with force, then gives up.
NotFound(c) ==
  IF call[c].force THEN To(c, "unknown")
  ELSE call' = [call EXCEPT ![c] = At(c, "look", TRUE, None)]

\* The first half of key(), under mu.
key(c) ==
  /\ call[c].pc = "look"
  /\ \/ /\ Fresh /\ ~ call[c].force
        /\ IF call[c].kid \in cache.byID THEN To(c, "verify") ELSE NotFound(c)
     \/ /\ call[c].force /\ TooEarly
        /\ To(c, "unknown")
     \/ /\ IF call[c].force THEN ~ TooEarly ELSE ~ Fresh
        /\ To(c, "do")
  /\ UNCHANGED <<clock, since, last, cache, flight>>

\* fetch.Do joins the fetch under way or starts one; fetchKeys reads the clock first.
Do(c) ==
  /\ call[c].pc = "do"
  /\ To(c, "wait")
  /\ flight' = IF flight = NoFlight THEN [at |-> clock, got |-> None] ELSE flight
  /\ UNCHANGED <<clock, since, last, cache>>

\* cacheMaxAge, with the bound fetchKeys puts on it.
Life(age) == IF age <= 0 \/ age > Hour THEN Hour ELSE age

\* The provider answers the request.
fetchKeys(age) ==
  /\ flight # NoFlight /\ flight.got = None
  /\ flight' = [flight EXCEPT !.got = [byID |-> Published, expiresAt |-> flight.at + Life(age),
                                       fetchedAt |-> flight.at]]
  /\ UNCHANGED <<clock, since, last, cache, call>>

Waiting(c) == call[c].pc = "wait"

\* Everyone who waits gets the key set.
FetchReturns ==
  /\ flight.got # None
  /\ flight' = NoFlight
  /\ call' = [c \in Calls |-> IF Waiting(c)
                              THEN At(c, "store", call[c].force, flight.got)
                              ELSE call[c]]
  /\ UNCHANGED <<clock, since, last, cache>>

\* The request fails, times out, or the caller that started it goes away: an error for all.
FetchFails ==
  /\ flight # NoFlight
  /\ flight' = NoFlight
  /\ call' = [c \in Calls |-> IF Waiting(c) THEN Idle ELSE call[c]]
  /\ UNCHANGED <<clock, since, last, cache>>

\* The second half of key(): the set goes into the cache, whatever is there by now.
Store(c) ==
  /\ call[c].pc = "store"
  /\ cache' = call[c].value
  /\ IF call[c].kid \in call[c].value.byID THEN To(c, "verify") ELSE NotFound(c)
  /\ UNCHANGED <<clock, since, last, flight>>

\* The signature and the claims are checked with the key, or the key is unknown: Validate
\* returns.
Validated(c) ==
  /\ call[c].pc \in {"verify", "unknown"}
  /\ call' = [call EXCEPT ![c] = Idle]
  /\ UNCHANGED <<clock, since, last, cache, flight>>
-----------------------------------------------------------------------------
KeyNext ==
  \/ TimePasses
  \/ \E k \in Kids : PublishKey(k) \/ WithdrawKey(k)
  \/ \E c \in Calls :
       \/ \E k \in Kids : Validate(c, k)
       \/ key(c) \/ Do(c) \/ Store(c) \/ Validated(c)
  \/ \E age \in MaxAges : fetchKeys(age)
  \/ FetchReturns \/ FetchFails

KeySpec == KeyInit /\ [][KeyNext]_keyVars
-----------------------------------------------------------------------------
(* Properties.                                                             *)

\* The key a token is verified with was published less than an hour before the validation
\* began, although every sharer of a fetch stores the result when it gets to it and an older
\* key set may so replace a newer one.
VerifiedKeyIsRecent ==
  \A c \in Calls : call[c].pc = "verify" => last[call[c].kid] > call[c].begun - Hour

\* The key has been published without a break since a minute before this validation began.
Established(c) ==
  since[call[c].kid] >= 0 /\ since[call[c].kid] + Minute <= call[c].begun

\* A token is refused for an unknown key, although that key has been published for a minute,
\* only when another validation has fetched a key set with it in the meantime: the throttle
\* looks at the time of the last fetch and not into its result.  A retry finds the key.
RefusedKeyIsCached ==
  [][\A c \in Calls :
       call[c].pc # "unknown" /\ call'[c].pc = "unknown" /\ Established(c) =>
         call[c].kid \in cache'.byID]_keyVars
=============================================================================
