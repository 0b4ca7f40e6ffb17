------------------------------ MODULE MCParts ------------------------------
(***************************************************************************)
(* Three parts of the system that share no state: the command that writes  *)
(* the configuration files (SecretBundle), the token validation of the     *)
(* approval API (KeyCache), and name resolution with the route exchange    *)
(* that precedes it (Resolution).  A behaviour is one of one of them, with *)
(* the variables of the parts that do not run held at an initial value.    *)
(***************************************************************************)
EXTENDS SecretBundle, KeyCache, Resolution, TLC

VARIABLE program   \* which of the three runs

parts == <<program, vars, keyVars, resolutionVars>>

PartsInit ==
  /\ Init /\ KeyInit /\ ResolutionInit
  /\ program \in {"tailbridge init", "Validate", "resolve"}
  /\ program # "tailbridge init" => ~ force /\ \A i \in Files : before[i] = "absent"
  /\ program # "Validate" => \A k \in Kids : since[k] = -1
  /\ program # "resolve" => ~ registry

PartsNext ==
  \/ program = "tailbridge init" /\ Next /\ UNCHANGED <<program, keyVars, resolutionVars>>
  \/ program = "Validate" /\ KeyNext /\ UNCHANGED <<program, vars, resolutionVars>>
  \/ program = "resolve" /\ ResolutionNext /\ UNCHANGED <<program, vars, keyVars>>

PartsSpec == PartsInit /\ [][PartsNext]_parts

Symmetry == Permutations(Calls) \cup Permutations(Aliases)
-----------------------------------------------------------------------------
(* A space of three-bit addresses: the fabric's prefix, one prefix for each *)
(* environment, two hosts in each, and one address outside all of them.     *)

MCReal == [family |-> 6, bits |-> <<0, 0>>]

MCVirtual == ("e1" :> [family |-> 6, bits |-> <<0, 1>>]) @@ ("e2" :> [family |-> 6, bits |-> <<1, 0>>])

MCHosts == {<<0>>, <<1>>}

MCResolver == <<1>>

MCPublic == [family |-> 6, bits |-> <<1, 1, 0>>]

\* Every prefix of the space, and the default route of IPv4.
MCPrefixes ==
  {[family |-> 6, bits |-> b] : b \in UNION {[1 .. n -> {0, 1}] : n \in 0 .. 3}}
    \cup {[family |-> 4, bits |-> <<>>]}

\* Route lists: one prefix or two.
MCLists == {<<p>> : p \in MCPrefixes} \cup {<<p, q>> : p, q \in MCPrefixes}

MCNarrow ==
  {<<MCReal>>, <<[family |-> 4, bits |-> <<>>], [family |-> 6, bits |-> <<0, 0, 1>>]>>}
=============================================================================
