------------------------------ MODULE Prefixes ------------------------------
(***************************************************************************)
(* Address prefixes (internal/config/config.go, internal/edge/             *)
(* translation.go).  A prefix has a family and its leading bits; an        *)
(* address is a prefix of full length.  The prefixes are masked, as the    *)
(* program's are once they are parsed.                                     *)
(***************************************************************************)
EXTENDS Integers, Sequences

Ranges == [family : {4, 6}, bits : Seq({0, 1})]

\* netip: p.Bits() <= q.Bits() and p.Contains(q.Addr()), which compares families.
Covers(p, q) ==
  /\ p.family = q.family /\ Len(p.bits) <= Len(q.bits)
  /\ SubSeq(q.bits, 1, Len(p.bits)) = p.bits

Overlaps(p, q) == Covers(p, q) \/ Covers(q, p)

Allowed(prefixes, address) == \E i \in DOMAIN prefixes : Covers(prefixes[i], address)

\* Mutated form: ranges the new one contains stay.
AddKeeping(result, range) ==
  IF Allowed(result, range) THEN result ELSE Append(result, range)

\* The loop that takes the ranges out that the new one contains: what is left of the first i.
Uncovered(result, range) ==
  LET kept[i \in 0..Len(result)] ==
        IF i = 0 THEN <<>>
        ELSE IF Covers(range, result[i]) THEN kept[i - 1] ELSE Append(kept[i - 1], result[i])
  IN kept

\* A range is left out when one present contains it, and replaces those it contains.
AddRange(result, range) ==
  IF Allowed(result, range) THEN result
  ELSE Append(Uncovered(result, range)[Len(result)], range)

Narrower(left, right) == IF Len(right.bits) > Len(left.bits) THEN right ELSE left

\* The inner loop: the result after the first j ranges on the right.
WithLeft(result, left, second) ==
  LET ranges[j \in 0..Len(second)] ==
        IF j = 0 THEN result
        ELSE IF Overlaps(left, second[j])
               THEN AddRange(ranges[j - 1], Narrower(left, second[j])) ELSE ranges[j - 1]
  IN ranges

\* The outer loop: the result after the first i ranges on the left.
Intersected(first, second) ==
  LET ranges[i \in 0..Len(first)] ==
        IF i = 0 THEN <<>> ELSE WithLeft(ranges[i - 1], first[i], second)[Len(second)]
  IN ranges

IntersectPrefixes(first, second) == Intersected(first, second)[Len(first)]

\* No route, a route that occurs twice and a route outside the allowed ones are errors.
ValidateAcceptedRoutes(accepted, allowed) ==
  /\ accepted # <<>>
  /\ \A i, j \in DOMAIN accepted : accepted[i] = accepted[j] => i = j
  /\ \A i \in DOMAIN accepted : Allowed(allowed, accepted[i])

\* translateAddress, for an address of `from`; both are IPv6 /16 prefixes.
translateAddress(address, from, to) ==
  [family |-> address.family,
   bits |-> to.bits \o SubSeq(address.bits, Len(from.bits) + 1, Len(address.bits))]
=============================================================================
