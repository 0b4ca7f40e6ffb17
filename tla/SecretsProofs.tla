---------------------------- MODULE SecretsProofs ---------------------------
(***************************************************************************)
(* Secrets on disk and in memory: the files that tailbridge init installs  *)
(* and the signing keys that the approval API caches, for every number of  *)
(* files, runs, calls and keys, for any answers of the issuer and any      *)
(* times.                                                                  *)
(***************************************************************************)
EXTENDS SecretBundle, KeyCache, TLAPS

-----------------------------------------------------------------------------
(* SecretBundle: a run installs all of the files or leaves what was there. *)

\* The backup of i holds what was at its path.
BackedUp(i) == aside[i] = IF before[i] = "old" THEN "old" ELSE "foreign"

\* Nothing at the path of i is worth keeping, or the backup has it.
Spare(i) == ~ backup[i] => before[i] = "absent" /\ aside[i] = "absent"

Vacant(i) == target[i] \in {"absent", "foreign"}

\* What is known of file i in each loop.
Forward(i) ==
  /\ pc \in {"inspect", "stage"} =>
       ~ backup[i] /\ ~ created[i] /\ Unchanged(i) /\ aside[i] = "absent"
  /\ pc = "inspect" => ~ staged[i]
  /\ pc \in {"preserve", "move"} =>
       /\ ~ created[i]
       /\ i < index => Vacant(i) /\ Spare(i)
       /\ i >= index => ~ backup[i] /\ Unchanged(i)
       /\ i >= index /\ ~ (pc = "move" /\ i = index) => aside[i] = "absent"
  /\ pc \in {"install", "unstage"} =>
       /\ Spare(i)
       /\ i < index => target[i] = "new" /\ ~ staged[i]
       /\ IF i < index \/ (pc = "unstage" /\ i = index)
            THEN created[i] /\ target[i] = "new"
            ELSE ~ created[i] /\ Vacant(i)
  /\ pc = "discard" => target[i] = "new" /\ ~ staged[i]

Backward(i) ==
  /\ pc = "remove" =>
       /\ Spare(i)
       /\ ~ created[i] => Vacant(i)
       /\ created[i] /\ i >= index => target[i] = "new"
       /\ created[i] /\ i < index /\ failures <= 1 => Vacant(i)
  /\ pc = "restore" =>
       /\ before[i] = "old" => backup[i] \/ target[i] = "old"
       /\ failures <= 1 => /\ ~ backup[i] => Unchanged(i) /\ aside[i] = "absent"
                           /\ backup[i] => i >= index
  /\ pc = "clean" =>
       /\ before[i] = "old" => "old" \in {target[i], aside[i]}
       /\ failures <= 1 => Unchanged(i) /\ aside[i] = "absent" /\ (staged[i] => i >= index)

HeldOK(i) ==
  /\ backup[i] => force /\ BackedUp(i)
  /\ failures <= 1 /\ staged[i] => temp[i] \/ result = "ok"
  /\ ~ force /\ (pc \notin {"inspect", "returned"} \/ i < index) => before[i] = "absent"

ReturnOK(i) ==
  /\ result = "ok" => target[i] = "new" /\ ~ staged[i]
  /\ result = "error" /\ before[i] = "old" => "old" \in {target[i], aside[i]}
  /\ result = "error" /\ failures <= 1 => Unchanged(i) /\ ~ staged[i] /\ aside[i] = "absent"

FileOK(i) == HeldOK(i) /\ Forward(i) /\ Backward(i) /\ ReturnOK(i)

PhaseOK ==
  /\ pc \in {"inspect", "unstage"} => ~ force
  /\ pc \in {"preserve", "move", "restore"} => force
  /\ pc \in {"inspect", "stage", "preserve", "move", "install", "unstage"} => failures = 0
  /\ pc \in {"remove", "restore", "clean"} => failures > 0
  /\ pc \in {"move", "unstage"} => index \in Files
  /\ pc = "move" => target[index] # "absent"
  /\ result = "none" <=> pc # "returned"

BundleInv == TypeOK /\ PhaseOK /\ \A i \in Files : FileOK(i)

ControlOK ==
  /\ pc \in {"inspect", "stage", "preserve", "move", "install", "unstage", "discard",
             "remove", "restore", "clean", "returned"}
  /\ index \in 1..Count + 1
  /\ result \in {"none", "ok", "error"}
  /\ failures \in 0..MaxFailures

TablesOK ==
  /\ force \in BOOLEAN
  /\ before \in [Files -> {"absent", "old"}]
  /\ target \in [Files -> {"absent", "old", "new", "foreign"}]
  /\ aside \in [Files -> {"absent", "empty", "old", "foreign"}]
  /\ staged \in [Files -> BOOLEAN] /\ temp \in [Files -> BOOLEAN]
  /\ backup \in [Files -> BOOLEAN] /\ created \in [Files -> BOOLEAN]

\* The type invariant, as what is on disk and where the command is.
LEMMA BundleTypes == TypeOK <=> TablesOK /\ ControlOK
BY Zenon DEF TypeOK, TablesOK, ControlOK

\* Inspect keeps the invariant.
LEMMA InspectKeeps ==
  ASSUME BundleInv, Inspect
  PROVE  BundleInv'
<1>1. ControlOK' /\ PhaseOK'
  BY BundleAssumption DEF BundleInv, TypeOK, ControlOK, PhaseOK, Goto, Continue, Return, Fail,
     NoFailure, In, EndOf, RemoveOrKeep, Files, Inspect
<1>2. TablesOK'
  <2> QED BY ZenonT(60) DEF BundleInv, TypeOK, TablesOK, Goto, Continue, Return, Fail, NoFailure,
     In, EndOf, RemoveOrKeep, disk, memory, Inspect
<1>3. ASSUME NEW i \in Files PROVE FileOK(i)'
  <2> USE BundleAssumption DEF BundleInv, TypeOK, PhaseOK, FileOK, HeldOK, Forward, Backward, ReturnOK,
        BackedUp, Spare, Vacant, Unchanged, disk, memory, Goto, Continue, Return,
         Fail, NoFailure, In, EndOf, RemoveOrKeep, Files, Inspect
  <2>1. HeldOK(i)'
    OBVIOUS
  <2>2. Forward(i)'
    OBVIOUS
  <2>3. Backward(i)'
    BY Zenon
  <2>4. ReturnOK(i)'
    OBVIOUS
  <2> QED BY <2>1, <2>2, <2>3, <2>4, Zenon
<1> QED BY <1>1, <1>2, <1>3, BundleTypes, Zenon DEF BundleInv, TypeOK, TablesOK, ControlOK

\* stageSecret keeps the invariant.
LEMMA stageSecretKeeps ==
  ASSUME BundleInv, stageSecret
  PROVE  BundleInv'
<1>1. ControlOK' /\ PhaseOK'
  BY BundleAssumption DEF BundleInv, TypeOK, ControlOK, PhaseOK, Goto, Continue, Return, Fail,
     NoFailure, In, EndOf, RemoveOrKeep, Files, stageSecret
<1>2. TablesOK'
  <2> QED BY ZenonT(60) DEF BundleInv, TypeOK, TablesOK, Goto, Continue, Return, Fail, NoFailure,
     In, EndOf, RemoveOrKeep, disk, memory, stageSecret
<1>3. ASSUME NEW i \in Files PROVE FileOK(i)'
  <2> USE BundleAssumption DEF BundleInv, TypeOK, PhaseOK, FileOK, HeldOK, Forward, Backward, ReturnOK,
        BackedUp, Spare, Vacant, Unchanged, disk, memory, Goto, Continue, Return,
         Fail, NoFailure, In, EndOf, RemoveOrKeep, Files, stageSecret
  <2>1. HeldOK(i)'
    OBVIOUS
  <2>2. Forward(i)'
    OBVIOUS
  <2>3. Backward(i)'
    OBVIOUS
  <2>4. ReturnOK(i)'
    BY Zenon
  <2> QED BY <2>1, <2>2, <2>3, <2>4, Zenon
<1> QED BY <1>1, <1>2, <1>3, BundleTypes, Zenon DEF BundleInv, TypeOK, TablesOK, ControlOK

\* Placeholder keeps the invariant.
LEMMA PlaceholderKeeps ==
  ASSUME BundleInv, Placeholder
  PROVE  BundleInv'
<1>1. ControlOK' /\ PhaseOK'
  BY BundleAssumption DEF BundleInv, TypeOK, ControlOK, PhaseOK, Goto, Continue, Return, Fail,
     NoFailure, In, EndOf, RemoveOrKeep, Files, Placeholder
<1>2. TablesOK'
  <2> QED BY ZenonT(60) DEF BundleInv, TypeOK, TablesOK, Goto, Continue, Return, Fail, NoFailure,
     In, EndOf, RemoveOrKeep, disk, memory, Placeholder
<1>3. ASSUME NEW i \in Files PROVE FileOK(i)'
  <2> USE BundleAssumption DEF BundleInv, TypeOK, PhaseOK, FileOK, HeldOK, Forward, Backward, ReturnOK,
        BackedUp, Spare, Vacant, Unchanged, disk, memory, Goto, Continue, Return,
         Fail, NoFailure, In, EndOf, RemoveOrKeep, Files, Placeholder
  <2>1. HeldOK(i)'
    OBVIOUS
  <2>2. Forward(i)'
    OBVIOUS
  <2>3. Backward(i)'
    OBVIOUS
  <2>4. ReturnOK(i)'
    BY Zenon
  <2> QED BY <2>1, <2>2, <2>3, <2>4, Zenon
<1> QED BY <1>1, <1>2, <1>3, BundleTypes, Zenon DEF BundleInv, TypeOK, TablesOK, ControlOK

\* preserveSecrets keeps the invariant.
LEMMA preserveSecretsKeeps ==
  ASSUME BundleInv, preserveSecrets
  PROVE  BundleInv'
<1>1. ControlOK' /\ PhaseOK'
  BY BundleAssumption DEF BundleInv, TypeOK, ControlOK, PhaseOK, Goto, Continue, Return, Fail,
     NoFailure, In, EndOf, RemoveOrKeep, Files, preserveSecrets
<1>2. TablesOK'
  <2>0. index \in Files /\ target[index] \in {"absent", "old", "foreign"}
    BY DEF BundleInv, TypeOK, FileOK, Forward, Unchanged, In, preserveSecrets, Files
  <2>1. /\ UNCHANGED <<force, before, staged, temp, created>>
        /\ \/ /\ aside' = [aside EXCEPT ![index] = target[index]]
              /\ target' = [target EXCEPT ![index] = "absent"]
              /\ backup' = [backup EXCEPT ![index] = TRUE]
           \/ /\ UNCHANGED <<target, backup>>
              /\ aside' = [aside EXCEPT ![index] = "absent"] \/ UNCHANGED aside
    BY Zenon DEF preserveSecrets, RemoveOrKeep
  <2>2. target' \in [Files -> {"absent", "old", "new", "foreign"}]
    BY <2>0, <2>1 DEF BundleInv, TypeOK
  <2>3. aside' \in [Files -> {"absent", "empty", "old", "foreign"}]
    BY <2>0, <2>1, ZenonT(60) DEF BundleInv, TypeOK
  <2>4. backup' \in [Files -> BOOLEAN]
    BY <2>1, ZenonT(60) DEF BundleInv, TypeOK
  <2> QED BY <2>1, <2>2, <2>3, <2>4, Zenon DEF BundleInv, TypeOK, TablesOK
<1>3. ASSUME NEW i \in Files PROVE FileOK(i)'
  <2> USE BundleAssumption DEF BundleInv, TypeOK, PhaseOK, FileOK, HeldOK, Forward, Backward, ReturnOK,
        BackedUp, Spare, Vacant, Unchanged, disk, memory, Goto, Continue, Return,
         Fail, NoFailure, In, EndOf, RemoveOrKeep, Files, preserveSecrets
  <2>1. HeldOK(i)'
    OBVIOUS
  <2>2. Forward(i)'
    OBVIOUS
  <2>3. Backward(i)'
    OBVIOUS
  <2>4. ReturnOK(i)'
    BY Zenon
  <2> QED BY <2>1, <2>2, <2>3, <2>4, Zenon
<1> QED BY <1>1, <1>2, <1>3, BundleTypes, Zenon DEF BundleInv, TypeOK, TablesOK, ControlOK

\* Install keeps the invariant.
LEMMA InstallKeeps ==
  ASSUME BundleInv, Install
  PROVE  BundleInv'
<1>1. ControlOK' /\ PhaseOK'
  BY BundleAssumption DEF BundleInv, TypeOK, ControlOK, PhaseOK, Goto, Continue, Return, Fail,
     NoFailure, In, EndOf, RemoveOrKeep, Files, Install
<1>2. TablesOK'
  <2> QED BY ZenonT(60) DEF BundleInv, TypeOK, TablesOK, Goto, Continue, Return, Fail, NoFailure,
     In, EndOf, RemoveOrKeep, disk, memory, Install
<1>3. ASSUME NEW i \in Files PROVE FileOK(i)'
  <2> USE BundleAssumption DEF BundleInv, TypeOK, PhaseOK, FileOK, HeldOK, Forward, Backward, ReturnOK,
        BackedUp, Spare, Vacant, Unchanged, disk, memory, Goto, Continue, Return,
         Fail, NoFailure, In, EndOf, RemoveOrKeep, Files, Install
  <2>1. HeldOK(i)'
    <3>1. index \in Files /\ failures = 0 /\ result = "none" /\ result' = result
      BY Zenon
    <3>2. staged'[i] => temp'[i]
      <4>1. staged[i] => temp[i]
        BY <3>1
      <4>2. CASE UNCHANGED <<staged, temp>>
        BY ONLY <4>1, <4>2, Zenon
      <4>3. CASE staged' = [staged EXCEPT ![index] = FALSE] /\ temp' = [temp EXCEPT ![index] = FALSE]
        <5>1. staged \in [Files -> BOOLEAN] /\ temp \in [Files -> BOOLEAN]
          BY Zenon
        <5>2. CASE i = index
          BY ONLY <5>1, <5>2, <4>3, <3>1, Zenon
        <5>3. CASE i # index
          BY ONLY <5>1, <5>3, <4>1, <4>3, <3>1, i \in Files, Zenon
        <5> QED BY ONLY <5>2, <5>3, Zenon
      <4> QED BY ONLY <4>2, <4>3, Install, Zenon DEF Install
    <3>3. (backup[i] => force /\ BackedUp(i))'
      BY Zenon
    <3>4. (~ force /\ (pc \notin {"inspect", "returned"} \/ i < index) => before[i] = "absent")'
      BY Zenon
    <3> QED BY <3>2, <3>3, <3>4, Zenon
  <2>2. Forward(i)'
    OBVIOUS
  <2>3. Backward(i)'
    OBVIOUS
  <2>4. ReturnOK(i)'
    BY Zenon
  <2> QED BY <2>1, <2>2, <2>3, <2>4, Zenon
<1> QED BY <1>1, <1>2, <1>3, BundleTypes, Zenon DEF BundleInv, TypeOK, TablesOK, ControlOK

\* Unstage keeps the invariant.
LEMMA UnstageKeeps ==
  ASSUME BundleInv, Unstage
  PROVE  BundleInv'
<1>1. ControlOK' /\ PhaseOK'
  BY BundleAssumption DEF BundleInv, TypeOK, ControlOK, PhaseOK, Goto, Continue, Return, Fail,
     NoFailure, In, EndOf, RemoveOrKeep, Files, Unstage
<1>2. TablesOK'
  <2> QED BY ZenonT(60) DEF BundleInv, TypeOK, TablesOK, Goto, Continue, Return, Fail, NoFailure,
     In, EndOf, RemoveOrKeep, disk, memory, Unstage
<1>3. ASSUME NEW i \in Files PROVE FileOK(i)'
  <2> USE BundleAssumption DEF BundleInv, TypeOK, PhaseOK, FileOK, HeldOK, Forward, Backward, ReturnOK,
        BackedUp, Spare, Vacant, Unchanged, disk, memory, Goto, Continue, Return,
         Fail, NoFailure, In, EndOf, RemoveOrKeep, Files, Unstage
  <2>1. HeldOK(i)'
    OBVIOUS
  <2>2. Forward(i)'
    OBVIOUS
  <2>3. Backward(i)'
    OBVIOUS
  <2>4. ReturnOK(i)'
    BY Zenon
  <2> QED BY <2>1, <2>2, <2>3, <2>4, Zenon
<1> QED BY <1>1, <1>2, <1>3, BundleTypes, Zenon DEF BundleInv, TypeOK, TablesOK, ControlOK

\* DiscardBackups keeps the invariant.
LEMMA DiscardBackupsKeeps ==
  ASSUME BundleInv, DiscardBackups
  PROVE  BundleInv'
<1>1. ControlOK' /\ PhaseOK'
  BY BundleAssumption DEF BundleInv, TypeOK, ControlOK, PhaseOK, Goto, Continue, Return, Fail,
     NoFailure, In, EndOf, RemoveOrKeep, Files, DiscardBackups
<1>2. TablesOK'
  <2> QED BY ZenonT(60) DEF BundleInv, TypeOK, TablesOK, Goto, Continue, Return, Fail, NoFailure,
     In, EndOf, RemoveOrKeep, disk, memory, DiscardBackups
<1>3. ASSUME NEW i \in Files PROVE FileOK(i)'
  <2> USE BundleAssumption DEF BundleInv, TypeOK, PhaseOK, FileOK, HeldOK, Forward, Backward, ReturnOK,
        BackedUp, Spare, Vacant, Unchanged, disk, memory, Goto, Continue, Return,
         Fail, NoFailure, In, EndOf, RemoveOrKeep, Files, DiscardBackups
  <2>1. HeldOK(i)'
    BY SMTT(60)
  <2>2. Forward(i)'
    BY SMTT(60)
  <2>3. Backward(i)'
    BY Zenon
  <2>4. ReturnOK(i)'
    OBVIOUS
  <2> QED BY <2>1, <2>2, <2>3, <2>4, Zenon
<1> QED BY <1>1, <1>2, <1>3, BundleTypes, Zenon DEF BundleInv, TypeOK, TablesOK, ControlOK

\* rollbackSecrets keeps the invariant.
LEMMA rollbackSecretsKeeps ==
  ASSUME BundleInv, rollbackSecrets
  PROVE  BundleInv'
<1>1. ControlOK' /\ PhaseOK'
  BY BundleAssumption DEF BundleInv, TypeOK, ControlOK, PhaseOK, Goto, Continue, Return, Fail,
     NoFailure, In, EndOf, RemoveOrKeep, Files, rollbackSecrets
<1>2. TablesOK'
  <2> QED BY ZenonT(60) DEF BundleInv, TypeOK, TablesOK, Goto, Continue, Return, Fail, NoFailure,
     In, EndOf, RemoveOrKeep, disk, memory, rollbackSecrets
<1>3. ASSUME NEW i \in Files PROVE FileOK(i)'
  <2> USE BundleAssumption DEF BundleInv, TypeOK, PhaseOK, FileOK, HeldOK, Forward, Backward, ReturnOK,
        BackedUp, Spare, Vacant, Unchanged, disk, memory, Goto, Continue, Return,
         Fail, NoFailure, In, EndOf, RemoveOrKeep, Files, rollbackSecrets
  <2>1. HeldOK(i)'
    OBVIOUS
  <2>2. Forward(i)'
    BY Zenon
  <2>3. Backward(i)'
    OBVIOUS
  <2>4. ReturnOK(i)'
    BY Zenon
  <2> QED BY <2>1, <2>2, <2>3, <2>4, Zenon
<1> QED BY <1>1, <1>2, <1>3, BundleTypes, Zenon DEF BundleInv, TypeOK, TablesOK, ControlOK

\* restoreBackups keeps the invariant.
LEMMA restoreBackupsKeeps ==
  ASSUME BundleInv, restoreBackups
  PROVE  BundleInv'
<1>1. ControlOK' /\ PhaseOK'
  BY BundleAssumption DEF BundleInv, TypeOK, ControlOK, PhaseOK, Goto, Continue, Return, Fail,
     NoFailure, In, EndOf, RemoveOrKeep, Files, restoreBackups
<1>2. TablesOK'
  <2>0. ASSUME backup[index], In("restore") PROVE aside[index] \in {"absent", "old", "foreign"}
    BY <2>0, Zenon DEF BundleInv, FileOK, HeldOK, BackedUp, In
  <2>1. /\ UNCHANGED <<force, before, staged, temp, created>>
        /\ \/ /\ backup[index] /\ In("restore")
              /\ target' = [target EXCEPT ![index] = aside[index]]
              /\ aside' = [aside EXCEPT ![index] = "absent"]
              /\ backup' = [backup EXCEPT ![index] = FALSE]
           \/ UNCHANGED <<target, aside, backup>>
    BY Zenon DEF restoreBackups, disk, memory
  <2>2. target' \in [Files -> {"absent", "old", "new", "foreign"}]
    BY <2>0, <2>1, Zenon DEF BundleInv, TypeOK
  <2>3. aside' \in [Files -> {"absent", "empty", "old", "foreign"}]
    BY <2>0, <2>1 DEF BundleInv, TypeOK
  <2>4. backup' \in [Files -> BOOLEAN]
    BY <2>1, ZenonT(60) DEF BundleInv, TypeOK
  <2> QED BY <2>1, <2>2, <2>3, <2>4, Zenon DEF BundleInv, TypeOK, TablesOK
<1>3. ASSUME NEW i \in Files PROVE FileOK(i)'
  <2> USE BundleAssumption DEF BundleInv, TypeOK, PhaseOK, FileOK, HeldOK, Forward, Backward, ReturnOK,
        BackedUp, Spare, Vacant, Unchanged, disk, memory, Goto, Continue, Return,
         Fail, NoFailure, In, EndOf, RemoveOrKeep, Files, restoreBackups
  <2>1. HeldOK(i)'
    OBVIOUS
  <2>2. Forward(i)'
    BY Zenon
  <2>3. Backward(i)'
    OBVIOUS
  <2>4. ReturnOK(i)'
    BY Zenon
  <2> QED BY <2>1, <2>2, <2>3, <2>4, Zenon
<1> QED BY <1>1, <1>2, <1>3, BundleTypes, Zenon DEF BundleInv, TypeOK, TablesOK, ControlOK

\* cleanupTemps keeps the invariant.
LEMMA cleanupTempsKeeps ==
  ASSUME BundleInv, cleanupTemps
  PROVE  BundleInv'
<1>1. ControlOK' /\ PhaseOK'
  BY BundleAssumption, SMTT(60)
     DEF BundleInv, TypeOK, ControlOK, PhaseOK, Goto, Continue, Return, Fail, NoFailure, In,
     EndOf, RemoveOrKeep, Files, cleanupTemps
<1>2. TablesOK'
  <2> QED BY ZenonT(60) DEF BundleInv, TypeOK, TablesOK, Goto, Continue, Return, Fail, NoFailure,
     In, EndOf, RemoveOrKeep, disk, memory, cleanupTemps
<1>3. ASSUME NEW i \in Files PROVE FileOK(i)'
  <2> USE BundleAssumption DEF BundleInv, TypeOK, PhaseOK, FileOK, HeldOK, Forward, Backward, ReturnOK,
        BackedUp, Spare, Vacant, Unchanged, disk, memory, Goto, Continue, Return,
         Fail, NoFailure, In, EndOf, RemoveOrKeep, Files, cleanupTemps
  <2>1. HeldOK(i)'
    OBVIOUS
  <2>2. Forward(i)'
    BY Zenon
  <2>3. Backward(i)'
    BY SMTT(60)
  <2>4. ReturnOK(i)'
    OBVIOUS
  <2> QED BY <2>1, <2>2, <2>3, <2>4, Zenon
<1> QED BY <1>1, <1>2, <1>3, BundleTypes, Zenon DEF BundleInv, TypeOK, TablesOK, ControlOK

\* A file that another program creates keeps the invariant.
LEMMA ForeignKeeps ==
  ASSUME BundleInv, NEW f \in Files, Foreign(f)
  PROVE  BundleInv'
<1>1. ControlOK' /\ PhaseOK'
  BY BundleAssumption, Zenon DEF BundleInv, TypeOK, ControlOK, PhaseOK, Foreign, Files
<1>2. TablesOK'
  BY ZenonT(60) DEF BundleInv, TypeOK, TablesOK, memory, Foreign
<1>3. ASSUME NEW i \in Files PROVE FileOK(i)'
  <2> USE BundleAssumption DEF BundleInv, TypeOK, PhaseOK, FileOK, HeldOK, Forward, Backward, ReturnOK,
        BackedUp, Spare, Vacant, Unchanged, memory, Files, Foreign
  <2>1. HeldOK(i)'
    BY Zenon
  <2>2. Forward(i)'
    BY ZenonT(60)
  <2>3. Backward(i)'
    BY ZenonT(60)
  <2>4. ReturnOK(i)'
    BY Zenon
  <2> QED BY <2>1, <2>2, <2>3, <2>4, Zenon
<1> QED BY <1>1, <1>2, <1>3, BundleTypes, Zenon DEF BundleInv, TypeOK, TablesOK, ControlOK

\* The invariant holds before the command looks at the first file.
LEMMA BundleInit == Init => BundleInv
<1> SUFFICES ASSUME Init PROVE BundleInv
  BY Zenon
<1>1. ControlOK /\ PhaseOK
  BY BundleAssumption DEF Init, ControlOK, PhaseOK
<1>2. TablesOK
  <2>1. before \in [Files -> {"absent", "old", "new", "foreign"}]
    BY Zenon DEF Init
  <2> QED BY <2>1, ZenonT(30) DEF Init, TablesOK
<1>3. ASSUME NEW i \in Files PROVE FileOK(i)
  BY BundleAssumption, SMTT(60)
     DEF Init, Files, FileOK, HeldOK, Forward, Backward, ReturnOK, Unchanged
<1> QED BY <1>1, <1>2, <1>3, BundleTypes, Zenon DEF BundleInv

\* A step of nothing keeps the invariant.
LEMMA BundleStutter ==
  ASSUME BundleInv, UNCHANGED vars
  PROVE  BundleInv'
BY DEF vars, disk, memory, BundleInv, TypeOK, PhaseOK, FileOK, HeldOK, Forward, Backward, ReturnOK,
       BackedUp, Spare, Vacant, Unchanged

\* In every loop of the command each file is where the loop takes it to be: what is known of
\* file i depends on whether the loop has passed it.
THEOREM BundleInvariant == Spec => []BundleInv
<1>1. Init => BundleInv
  BY BundleInit, Zenon
<1>2. BundleInv /\ [Next]_vars => BundleInv'
  BY InspectKeeps, stageSecretKeeps, PlaceholderKeeps, preserveSecretsKeeps, InstallKeeps,
     UnstageKeeps, DiscardBackupsKeeps, rollbackSecretsKeeps, restoreBackupsKeeps,
     cleanupTempsKeeps, ForeignKeeps, BundleStutter, Zenon DEF Next
<1> QED BY <1>1, <1>2, PTL DEF Spec

\* While the command runs, an existing file is at its path or in its backup.
LEMMA OldIsSafe ==
  ASSUME BundleInv, NEW i \in Files, before[i] = "old"
  PROVE  "old" \in {target[i], aside[i]} \/ \A j \in Files : target[j] = "new"
<1>1. CASE pc \in {"inspect", "stage"}
  BY <1>1, Zenon DEF BundleInv, FileOK, Forward, Unchanged
<1>2. CASE pc \in {"preserve", "move"}
  BY <1>2, BundleAssumption DEF BundleInv, TypeOK, Files, FileOK, HeldOK, Forward, Unchanged,
     BackedUp, Spare
<1>3. CASE pc \in {"install", "unstage", "remove"}
  BY <1>3, Zenon DEF BundleInv, FileOK, HeldOK, Forward, Backward, BackedUp, Spare
<1>4. CASE pc \in {"restore", "clean"}
  BY <1>4, Zenon DEF BundleInv, FileOK, HeldOK, Backward, BackedUp
<1>5. CASE pc \in {"discard", "returned"}
  BY <1>5, Zenon DEF BundleInv, TypeOK, PhaseOK, FileOK, Forward, ReturnOK
<1> QED BY <1>1, <1>2, <1>3, <1>4, <1>5, Zenon DEF BundleInv, TypeOK

\* The bundle is installed as a whole or not at all, for any number of files, any call that fails
\* and any point at which the process stops (writeSecretBundle and its rollback).
THEOREM BundleAllOrNothing == Spec => []AllOrNothing
<1>1. BundleInv => AllOrNothing
  BY OldIsSafe, Zenon DEF BundleInv, AllOrNothing, FileOK, ReturnOK
<1> QED BY <1>1, BundleInvariant, PTL

\* Without --force a file that another program creates while the command runs is neither replaced
\* nor removed (installation by link, and the rollback of only the files that were created).
THEOREM ForeignFilesKept == Spec => ForeignKept
<1> DEFINE Keeps == ~ force => \A i \in Files : target[i] = "foreign" => target'[i] = "foreign"
<1>1. ASSUME BundleInv, Next, ~ force, NEW i \in Files, target[i] = "foreign"
      PROVE  target'[i] = "foreign"
  <2> USE <1>1 DEF disk, memory, BundleInv, TypeOK
  <2>1. CASE Inspect \/ stageSecret \/ Placeholder \/ Unstage \/ DiscardBackups \/ cleanupTemps
    BY <2>1, Zenon DEF Inspect, stageSecret, Placeholder, Unstage, DiscardBackups, cleanupTemps
  <2>2. CASE preserveSecrets \/ restoreBackups
    BY <2>2, Zenon DEF PhaseOK, In, EndOf, preserveSecrets, restoreBackups
  <2>3. CASE Install
    BY <2>3, Zenon DEF In, Install
  <2>4. CASE rollbackSecrets
    BY <2>4, BundleAssumption DEF In, Files, rollbackSecrets, FileOK, Backward
  <2>5. CASE \E f \in Files : Foreign(f)
    BY <2>5, Zenon DEF Foreign
  <2> QED BY <2>1, <2>2, <2>3, <2>4, <2>5, Zenon DEF Next
<1>2. UNCHANGED vars => Keeps
  BY Zenon DEF vars, disk
<1>3. BundleInv /\ [Next]_vars => [Keeps]_vars
  BY <1>1, <1>2, Zenon
<1> QED BY <1>3, BundleInvariant, PTL DEF Spec, ForeignKept

-----------------------------------------------------------------------------
(* KeyCache: a key that is accepted is recent, one that is refused is new. *)

\* What a key set fetched at some time says about the provider now: its keys were still
\* published when the request went out, and a key published before that and ever since is
\* among them.
Sound(s) ==
  /\ s.fetchedAt <= clock
  /\ s.expiresAt <= s.fetchedAt + Hour
  /\ \A k \in s.byID : last[k] >= s.fetchedAt
  /\ \A k \in Kids : since[k] >= 0 /\ since[k] < s.fetchedAt => k \in s.byID

\* A published key is published now.
ProviderOK ==
  \A k \in Kids : since[k] <= clock /\ last[k] <= clock /\ (since[k] >= 0 => last[k] = clock)

\* A fetch takes no longer than the client's timeout.
FlightOK ==
  /\ flight # NoFlight => flight.at >= 0 /\ flight.at <= clock /\ clock <= flight.at + Timeout
  /\ flight.got # None => flight # NoFlight /\ Sound(flight.got)
                                            /\ flight.got.fetchedAt = flight.at

\* A call gets no key set older than the client's timeout before its own beginning.
CallOK(c) ==
  /\ call[c].begun <= clock
  /\ call[c].pc # "idle" => call[c].kid \in Kids
  /\ call[c].pc = "wait" => flight # NoFlight /\ flight.at >= call[c].begun - Timeout
  /\ call[c].pc = "store" => call[c].value # None
  /\ call[c].value # None => /\ call[c].pc = "store"
                             /\ Sound(call[c].value)
                             /\ call[c].value.fetchedAt >= call[c].begun - Timeout
  /\ call[c].pc = "verify" => last[call[c].kid] > call[c].begun - Hour

\* The inductive invariant.
KeyInv ==
  /\ KeyTypeOK
  /\ ProviderOK
  /\ cache # None => Sound(cache)
  /\ FlightOK
  /\ \A c \in Calls : CallOK(c)
-----------------------------------------------------------------------------
\* The invariant holds of the empty cache.
LEMMA InitEstablishes == KeyInit => KeyInv
<1> SUFFICES ASSUME KeyInit PROVE KeyInv
  BY Zenon
<1>1. KeyTypeOK
  BY DEF KeyInit, KeyTypeOK, NoFlight, Idle
<1>2. ProviderOK
  BY DEF KeyInit, ProviderOK
<1>3. FlightOK
  BY Zenon DEF KeyInit, FlightOK, NoFlight
<1>4. \A c \in Calls : CallOK(c)
  <2> SUFFICES ASSUME NEW c \in Calls PROVE CallOK(c)
    BY Zenon
  <2>1. /\ call[c].pc = "idle" /\ call[c].begun = 0 /\ call[c].value = None
        /\ clock = 0
    BY Zenon DEF KeyInit, Idle
  <2> QED
    BY <2>1 DEF CallOK
<1> QED
  BY <1>1, <1>2, <1>3, <1>4, Zenon DEF KeyInv, KeyInit

\* What Sound says of a key set survives every step of the provider and of the clock.
LEMMA SoundKept ==
  ASSUME KeyTypeOK, ProviderOK,
         \/ TimePasses
         \/ \E k \in Kids : PublishKey(k) \/ WithdrawKey(k),
         NEW s \in KeySets, Sound(s)
  PROVE  /\ s.fetchedAt <= clock'
         /\ s.expiresAt <= s.fetchedAt + Hour
         /\ \A k \in s.byID : last'[k] >= s.fetchedAt
         /\ \A k \in Kids : since'[k] >= 0 /\ since'[k] < s.fetchedAt => k \in s.byID
<1> USE KeyAssumption DEF KeySets
<1> DEFINE Kept ==
      /\ s.fetchedAt <= clock'
      /\ s.expiresAt <= s.fetchedAt + Hour
      /\ \A k \in s.byID : last'[k] >= s.fetchedAt
      /\ \A k \in Kids : since'[k] >= 0 /\ since'[k] < s.fetchedAt => k \in s.byID
<1>1. CASE TimePasses
  BY <1>1 DEF TimePasses, KeyTypeOK, ProviderOK, Sound
<1>2. ASSUME NEW k \in Kids, PublishKey(k) PROVE Kept
  BY <1>2 DEF PublishKey, KeyTypeOK, ProviderOK, Sound
<1>3. ASSUME NEW k \in Kids, WithdrawKey(k) PROVE Kept
  BY <1>3 DEF WithdrawKey, KeyTypeOK, ProviderOK, Sound
<1> QED
  BY <1>1, <1>2, <1>3, Zenon

\* The steps of the provider and of the clock leave everything else alone.
LEMMA ProviderSteps ==
  ASSUME KeyInv,
         \/ TimePasses
         \/ \E k \in Kids : PublishKey(k) \/ WithdrawKey(k)
  PROVE  KeyInv'
<1> USE KeyAssumption
<1>1. KeyTypeOK'
  BY DEF KeyInv, KeyTypeOK, TimePasses, PublishKey, WithdrawKey
<1>2. ProviderOK'
  BY DEF KeyInv, KeyTypeOK, ProviderOK, TimePasses, PublishKey, WithdrawKey
<1>3. /\ clock' \in Nat /\ clock <= clock'
      /\ flight # NoFlight => clock' <= flight.at + Timeout
      /\ \A k \in Kids : last'[k] >= last[k]
      /\ UNCHANGED <<cache, flight, call>>
  <2>1. UNCHANGED <<cache, flight, call>>
    BY Zenon DEF TimePasses, PublishKey, WithdrawKey
  <2>2. clock' \in Nat /\ clock <= clock'
    BY DEF KeyInv, KeyTypeOK, TimePasses, PublishKey, WithdrawKey
  <2>3. flight # NoFlight => clock' <= flight.at + Timeout
    BY DEF KeyInv, KeyTypeOK, FlightOK, TimePasses, PublishKey, WithdrawKey
  <2>4. ASSUME NEW k \in Kids PROVE last'[k] >= last[k]
    <3>1. last[k] \in Nat \cup {-1} /\ clock \in Nat /\ (since[k] >= 0 => last[k] = clock)
      BY Zenon DEF KeyInv, KeyTypeOK, ProviderOK
    <3>2. CASE TimePasses
      BY <3>1, <3>2 DEF TimePasses
    <3>3. ASSUME NEW j \in Kids, PublishKey(j) PROVE last'[k] >= last[k]
      BY <3>1, <3>3 DEF KeyInv, KeyTypeOK, ProviderOK, PublishKey
    <3>4. ASSUME NEW j \in Kids, WithdrawKey(j) PROVE last'[k] >= last[k]
      BY <3>1, <3>4 DEF WithdrawKey
    <3> QED
      BY <3>2, <3>3, <3>4, Zenon
  <2> QED
    BY <2>1, <2>2, <2>3, <2>4, Zenon
<1>4. (cache # None => Sound(cache))'
  BY <1>3, SoundKept, Zenon DEF KeyInv, KeyTypeOK, Sound
<1>5. FlightOK'
  <2>1. flight.got # None => Sound(flight.got)'
    BY <1>3, SoundKept, Zenon DEF KeyInv, KeyTypeOK, FlightOK, Sound
  <2> QED
    BY <1>3, <2>1 DEF KeyInv, KeyTypeOK, FlightOK, NoFlight
<1>6. ASSUME NEW c \in Calls PROVE CallOK(c)'
  <2>1. CallOK(c) /\ call[c].begun \in Nat /\ call[c].value \in KeySets \cup {None}
    BY Zenon DEF KeyInv, KeyTypeOK
  <2>2. call[c].value # None => Sound(call[c].value)'
    BY <1>3, <2>1, SoundKept, Zenon DEF KeyInv, CallOK, Sound
  <2>3. call[c].pc = "verify" => last'[call[c].kid] > call[c].begun - Hour
    BY <1>1, <1>3, <2>1 DEF KeyInv, KeyTypeOK, CallOK
  <2> QED
    BY <1>3, <2>1, <2>2, <2>3 DEF KeyInv, KeyTypeOK, CallOK, NoFlight
<1> QED
  BY <1>1, <1>2, <1>4, <1>5, <1>6, Zenon DEF KeyInv

\* Where To and NotFound leave a call.
Points == {"look", "do", "wait", "verify", "unknown"}

\* What each way of going on leaves in the record of a call.
LEMMA Moves ==
  ASSUME KeyTypeOK, NEW c \in Calls
  PROVE  /\ \A point \in Points : To(c, point) =>
              /\ call'[c].pc = point
              /\ call'[c].kid = call[c].kid /\ call'[c].begun = call[c].begun
              /\ call'[c].value = None
         /\ NotFound(c) =>
              /\ call'[c].pc = "look" \/ (call'[c].pc = "unknown" /\ call[c].force)
              /\ call'[c].kid = call[c].kid /\ call'[c].begun = call[c].begun
              /\ call'[c].value = None
<1>1. ASSUME NEW point \in Points, NEW f, call' = [call EXCEPT ![c] = At(c, point, f, None)]
      PROVE  /\ call'[c].pc = point
             /\ call'[c].kid = call[c].kid /\ call'[c].begun = call[c].begun
             /\ call'[c].value = None
  <2>1. call'[c] = At(c, point, f, None)
    BY <1>1, Zenon DEF KeyTypeOK
  <2> QED
    BY <2>1 DEF At
<1>2. "look" \in Points /\ "unknown" \in Points
  BY Zenon DEF Points
<1>3. ASSUME NEW point \in Points, To(c, point)
      PROVE  /\ call'[c].pc = point
             /\ call'[c].kid = call[c].kid /\ call'[c].begun = call[c].begun
             /\ call'[c].value = None
  BY <1>1, <1>3, Zenon DEF To
<1>4. ASSUME NotFound(c)
      PROVE  /\ call'[c].pc = "look" \/ (call'[c].pc = "unknown" /\ call[c].force)
             /\ call'[c].kid = call[c].kid /\ call'[c].begun = call[c].begun
             /\ call'[c].value = None
  <2>1. CASE call[c].force
    <3>1. To(c, "unknown")
      BY <1>4, <2>1, Zenon DEF NotFound
    <3> QED
      BY <1>2, <1>3, <2>1, <3>1, Zenon
  <2>2. CASE ~ call[c].force
    <3>1. call' = [call EXCEPT ![c] = At(c, "look", TRUE, None)]
      BY <1>4, <2>2, Zenon DEF NotFound
    <3> QED
      <4>1. call'[c] = At(c, "look", TRUE, None)
        BY <3>1, Zenon DEF KeyTypeOK
      <4> QED
        BY <4>1 DEF At
  <2> QED
    BY <2>1, <2>2, Zenon
<1> QED
  BY <1>3, <1>4, Zenon

\* The steps of one call leave the provider, the clock and the other calls alone.
LEMMA CallSteps ==
  ASSUME KeyInv, NEW c \in Calls,
         (\E k \in Kids : Validate(c, k)) \/ key(c) \/ Do(c) \/ Store(c) \/ Validated(c)
  PROVE  KeyInv'
<1> USE KeyAssumption
<1>1. UNCHANGED <<clock, since, last>>
  BY Zenon DEF Validate, key, Do, Store, Validated
<1>2. ASSUME NEW d \in Calls, d # c PROVE call'[d] = call[d]
  BY <1>2, ZenonT(60) DEF KeyInv, KeyTypeOK, Validate, key, Do, Store, Validated, To, NotFound, At
<1>3. CallOK(c) /\ call[c].begun \in Nat /\ call[c].value \in KeySets \cup {None}
  BY Zenon DEF KeyInv, KeyTypeOK
<1>4. ASSUME UNCHANGED flight, KeyTypeOK', CallOK(c)',
             UNCHANGED cache \/ Sound(cache)'
      PROVE  KeyInv'
  <2>1. ProviderOK'
    BY <1>1, ZenonT(60) DEF KeyInv, ProviderOK
  <2>2. (cache # None => Sound(cache))'
    BY <1>1, <1>4, ZenonT(60) DEF KeyInv, Sound
  <2>3. FlightOK'
    BY <1>1, <1>4, ZenonT(60) DEF KeyInv, FlightOK, Sound
  <2>4. ASSUME NEW d \in Calls, d # c PROVE CallOK(d)'
    BY <1>1, <1>2, <1>4, <2>4, ZenonT(60) DEF KeyInv, CallOK, Sound
  <2> QED
    BY <1>4, <2>1, <2>2, <2>3, <2>4, ZenonT(60) DEF KeyInv
<1>5. CASE \E k \in Kids : Validate(c, k)
  <2>1. KeyTypeOK'
    BY <1>5 DEF KeyInv, KeyTypeOK, Validate
  <2>2. CallOK(c)'
    BY <1>5 DEF KeyInv, KeyTypeOK, Validate, CallOK
  <2> QED
    <3>1. UNCHANGED <<cache, flight>>
      BY <1>5, Zenon DEF Validate
    <3> QED
      BY <1>4, <2>1, <2>2, <3>1, Zenon
<1>6. CASE key(c)
  <2>1. KeyTypeOK'
    <3>1. PICK point \in {"look", "verify", "unknown", "do"}, f \in BOOLEAN :
            call' = [call EXCEPT ![c] = At(c, point, f, None)]
      BY <1>6, Zenon DEF KeyInv, KeyTypeOK, key, To, NotFound
    <3> QED
      BY <1>1, <1>6, <3>1, Zenon DEF KeyInv, KeyTypeOK, key, At
  <2>2. CallOK(c)'
    <3>1. call'[c].pc = "verify" => last[call[c].kid] > call[c].begun - Hour
      <4>1. call'[c].pc = "verify" => Fresh /\ call[c].kid \in cache.byID
        BY <1>6, Moves, Zenon DEF KeyInv, key, Points
      <4>2. clock \in Nat /\ cache \in KeySets \cup {None} /\ (cache # None => Sound(cache))
            /\ call[c].begun <= clock /\ last \in [Kids -> Nat \cup {-1}]
        BY <1>3, Zenon DEF KeyInv, KeyTypeOK, CallOK
      <4> QED
        BY <1>3, <4>1, <4>2 DEF Fresh, Sound, KeySets
    <3>2. /\ call'[c].kid = call[c].kid /\ call'[c].begun = call[c].begun
          /\ call'[c].value = None /\ call'[c].pc \in {"look", "verify", "unknown", "do"}
      BY <1>6, Moves, Zenon DEF KeyInv, key, Points
    <3> QED
      BY <1>1, <1>3, <1>6, <3>1, <3>2, Zenon DEF CallOK, key
  <2> QED
    <3>1. UNCHANGED <<cache, flight>>
      BY <1>6, Zenon DEF key
    <3> QED
      BY <1>4, <2>1, <2>2, <3>1, Zenon
<1>7. CASE Do(c)
  <2>1. KeyTypeOK'
    BY <1>7, Zenon DEF KeyInv, KeyTypeOK, Do, To, At
  <2>2. FlightOK'
    BY <1>1, <1>7 DEF KeyInv, KeyTypeOK, Do, FlightOK, NoFlight, Sound
  <2>3. ASSUME NEW d \in Calls PROVE CallOK(d)'
    <3>1. CASE d = c
      BY <1>1, <1>3, <1>7, <3>1, SMTT(60)
      DEF KeyInv, KeyTypeOK, Do, To, At, FlightOK, NoFlight, CallOK
    <3>2. CASE d # c
      BY <1>1, <1>2, <1>7, <3>2, ZenonT(60) DEF KeyInv, KeyTypeOK, Do, FlightOK, CallOK, Sound
    <3> QED
      BY <3>1, <3>2, ZenonT(60)
  <2> QED
    BY <1>1, <1>7, <2>1, <2>2, <2>3, Zenon DEF KeyInv, Do, ProviderOK, Sound
<1>8. CASE Store(c)
  <2>1. KeyTypeOK'
    <3>1. PICK point \in {"look", "verify", "unknown"}, f \in BOOLEAN :
            call' = [call EXCEPT ![c] = At(c, point, f, None)]
      BY <1>8, Zenon DEF KeyInv, KeyTypeOK, Store, To, NotFound
    <3> QED
      BY <1>1, <1>3, <1>8, <3>1, Zenon DEF KeyInv, KeyTypeOK, Store, At
  <2>2. cache' = call[c].value /\ call[c].value # None /\ Sound(call[c].value)
    BY <1>3, <1>8, Zenon DEF Store, CallOK
  <2>3. CallOK(c)'
    <3>1. call'[c].pc = "verify" => last[call[c].kid] > call[c].begun - Hour
      <4>1. call'[c].pc = "verify" => call[c].kid \in call[c].value.byID
        BY <1>8, Moves, Zenon DEF KeyInv, Store, Points
      <4>2. /\ last \in [Kids -> Nat \cup {-1}]
            /\ call[c].value.fetchedAt >= call[c].begun - Timeout
        BY <1>3, <2>2, Zenon DEF KeyInv, KeyTypeOK, CallOK
      <4> QED
        BY <1>3, <2>2, <4>1, <4>2 DEF Sound, KeySets
    <3>2. /\ call'[c].kid = call[c].kid /\ call'[c].begun = call[c].begun
          /\ call'[c].value = None /\ call'[c].pc \in {"look", "verify", "unknown"}
      BY <1>8, Moves, Zenon DEF KeyInv, Store, Points
    <3> QED
      BY <1>1, <1>3, <1>8, <3>1, <3>2, Zenon DEF CallOK, Store
  <2> QED
    <3>1. UNCHANGED flight /\ Sound(cache)'
      BY <1>1, <1>8, <2>2, Zenon DEF Store, Sound
    <3> QED
      BY <1>4, <2>1, <2>3, <3>1, Zenon
<1>9. CASE Validated(c)
  <2>1. KeyTypeOK'
    BY <1>9, Zenon DEF KeyInv, KeyTypeOK, Validated, Idle
  <2>2. CallOK(c)'
    <3>1. call'[c].pc = "idle" /\ call'[c].begun = 0 /\ call'[c].value = None
      BY <1>9, Zenon DEF KeyInv, KeyTypeOK, Validated, Idle
    <3> QED
      BY <2>1, <3>1 DEF CallOK, KeyTypeOK
  <2> QED
    <3>1. UNCHANGED <<cache, flight>>
      BY <1>9, Zenon DEF Validated
    <3> QED
      BY <1>4, <2>1, <2>2, <3>1, Zenon
<1> QED
  BY <1>5, <1>6, <1>7, <1>8, <1>9, Zenon

\* The steps of a fetch.
LEMMA FetchSteps ==
  ASSUME KeyInv, (\E age \in MaxAges : fetchKeys(age)) \/ FetchReturns \/ FetchFails
  PROVE  KeyInv'
<1> USE KeyAssumption
<1>1. CASE \E age \in MaxAges : fetchKeys(age)
  <2>1. PICK age \in MaxAges : fetchKeys(age)
    BY <1>1, Zenon
  <2>2. /\ flight.at \in Nat /\ Life(age) \in Nat /\ Life(age) <= Hour
        /\ flight # NoFlight /\ flight.at <= clock
    BY <2>1 DEF KeyInv, KeyTypeOK, FlightOK, fetchKeys, Life
  <2>3. /\ flight'.at = flight.at
        /\ flight'.got = [byID |-> Published, expiresAt |-> flight.at + Life(age),
                          fetchedAt |-> flight.at]
        /\ flight'.got \in KeySets
    BY <2>1, <2>2 DEF KeyInv, KeyTypeOK, fetchKeys, KeySets, Published
  <2>4. UNCHANGED <<clock, since, last, cache, call>>
    BY <2>1, Zenon DEF fetchKeys
  <2>5. KeyTypeOK'
    BY <2>1, <2>2, <2>3, <2>4, Zenon DEF KeyInv, KeyTypeOK, fetchKeys, KeySets
  <2>6. Sound(flight.got)'
    BY <2>2, <2>3, <2>4 DEF KeyInv, KeyTypeOK, ProviderOK, Sound, Published
  <2>7. flight' # NoFlight
    BY <2>2, <2>3 DEF NoFlight
  <2>8. FlightOK'
    BY <2>2, <2>3, <2>4, <2>6, <2>7 DEF KeyInv, FlightOK
  <2>9. ASSUME NEW c \in Calls PROVE CallOK(c)'
    BY <2>3, <2>4, <2>7, Zenon DEF KeyInv, CallOK, Sound
  <2> QED
    BY <2>4, <2>5, <2>8, <2>9, Zenon DEF KeyInv, ProviderOK, Sound
<1>2. CASE FetchReturns
  <2>1. UNCHANGED <<clock, since, last, cache>> /\ flight' = NoFlight
    BY <1>2, Zenon DEF FetchReturns
  <2>2. KeyTypeOK'
    BY <1>2, Zenon DEF KeyInv, KeyTypeOK, FetchReturns, NoFlight, At
  <2>3. FlightOK'
    BY <2>1, Zenon DEF FlightOK, NoFlight
  <2>4. ASSUME NEW c \in Calls PROVE CallOK(c)'
    <3>1. CallOK(c) /\ Sound(flight.got) /\ flight.got # None
          /\ flight.got.fetchedAt = flight.at
      BY <1>2, Zenon DEF KeyInv, FlightOK, FetchReturns
    <3>2. CASE Waiting(c)
      <4>1. /\ call'[c].pc = "store" /\ call'[c].value = flight.got
            /\ call'[c].kid = call[c].kid /\ call'[c].begun = call[c].begun
        BY <1>2, <3>2, Zenon DEF KeyInv, KeyTypeOK, FetchReturns, At
      <4> QED
        BY <2>1, <3>1, <3>2, <4>1, Zenon DEF CallOK, Sound, Waiting
    <3>3. CASE ~ Waiting(c)
      <4>1. call'[c] = call[c]
        BY <1>2, <3>3, Zenon DEF FetchReturns
      <4> QED
        BY <2>1, <3>1, <3>3, <4>1, ZenonT(60) DEF CallOK, Sound, Waiting
    <3> QED
      BY <3>2, <3>3, Zenon
  <2> QED
    BY <2>1, <2>2, <2>3, <2>4, Zenon DEF KeyInv, ProviderOK, Sound
<1>3. CASE FetchFails
  <2>1. UNCHANGED <<clock, since, last, cache>> /\ flight' = NoFlight
    BY <1>3, Zenon DEF FetchFails
  <2>2. KeyTypeOK'
    BY <1>3, Zenon DEF KeyInv, KeyTypeOK, FetchFails, NoFlight, Idle
  <2>3. FlightOK'
    BY <2>1, Zenon DEF FlightOK, NoFlight
  <2>4. ASSUME NEW c \in Calls PROVE CallOK(c)'
    <3>1. CallOK(c)
      BY Zenon DEF KeyInv
    <3>2. CASE Waiting(c)
      <4>1. call'[c] = Idle
        BY <1>3, <3>2, Zenon DEF FetchFails
      <4>2. /\ call'[c].pc = "idle" /\ call'[c].begun = 0 /\ call'[c].value = None
        BY <4>1 DEF Idle
      <4> QED
        BY <2>2, <4>2 DEF CallOK, KeyTypeOK
    <3>3. CASE ~ Waiting(c)
      <4>1. call'[c] = call[c]
        BY <1>3, <3>3, Zenon DEF FetchFails
      <4> QED
        BY <2>1, <3>1, <3>3, <4>1, Zenon DEF CallOK, Sound, Waiting
    <3> QED
      BY <3>2, <3>3, Zenon
  <2> QED
    BY <2>1, <2>2, <2>3, <2>4, Zenon DEF KeyInv, ProviderOK, Sound
<1> QED
  BY <1>1, <1>2, <1>3, Zenon

\* Every step keeps the invariant.
LEMMA StepPreserves == KeyInv /\ [KeyNext]_keyVars => KeyInv'
<1> SUFFICES ASSUME KeyInv, [KeyNext]_keyVars PROVE KeyInv'
  BY Zenon
<1>1. CASE UNCHANGED keyVars
  BY <1>1, ZenonT(60) DEF keyVars, KeyInv, KeyTypeOK, ProviderOK, Sound, FlightOK, CallOK
<1>2. CASE KeyNext
  BY <1>2, ProviderSteps, CallSteps, FetchSteps, Zenon DEF KeyNext
<1> QED
  BY <1>1, <1>2, Zenon

\* The invariant holds in every reachable state.
LEMMA KeyInvariant == KeySpec => []KeyInv
  BY InitEstablishes, StepPreserves, PTL DEF KeySpec

\* The key a token is verified with was published less than an hour before the validation
\* began (key() and fetchKeys: the bound on max-age, the expiry check, and the client's
\* timeout for what a shared fetch brings).
THEOREM VerifiedRecently == KeySpec => []VerifiedKeyIsRecent
<1>1. KeyInv => VerifiedKeyIsRecent
  BY Zenon DEF KeyInv, CallOK, VerifiedKeyIsRecent
<1> QED
  BY <1>1, KeyInvariant, PTL

\* When a step ends in an unknown key although the key was established, the cached set has
\* it: either a fetch of the last minute, by another call, brought it (the throttle), or the
\* call itself fetched a set that is recent enough to hold it (which it then finds).
LEMMA RefusalStep ==
  ASSUME KeyInv, [KeyNext]_keyVars, NEW c \in Calls,
         call[c].pc # "unknown", call'[c].pc = "unknown", Established(c)
  PROVE  call[c].kid \in cache'.byID
<1> USE KeyAssumption
<1>1. CallOK(c) /\ call[c].begun \in Nat /\ call[c].value \in KeySets \cup {None}
  BY Zenon DEF KeyInv, KeyTypeOK
<1>2. key(c) \/ Store(c)
  <2>1. KeyTypeOK /\ DOMAIN call = Calls
    BY Zenon DEF KeyInv, KeyTypeOK
  <2>2. ~ UNCHANGED call
    BY Zenon
  <2>3. ASSUME NEW d \in Calls, NEW k \in Kids PROVE ~ Validate(d, k)
    BY <2>1 DEF Validate
  <2>4. ASSUME NEW d \in Calls PROVE ~ Do(d) /\ ~ Validated(d)
    BY <2>1 DEF Do, Validated, To, At, Idle
  <2>5. ASSUME NEW d \in Calls, key(d) \/ Store(d) PROVE d = c
    BY <2>1, <2>5, Zenon DEF key, Store, To, NotFound
  <2>6. ~ FetchReturns /\ ~ FetchFails
    BY <2>1 DEF FetchReturns, FetchFails, At, Idle
  <2>7. ~ TimePasses /\ ~ (\E k \in Kids : PublishKey(k) \/ WithdrawKey(k))
        /\ ~ (\E age \in MaxAges : fetchKeys(age)) /\ ~ UNCHANGED keyVars
    BY <2>2, ZenonT(60) DEF TimePasses, PublishKey, WithdrawKey, fetchKeys, keyVars
  <2> QED
    BY <2>3, <2>4, <2>5, <2>6, <2>7, ZenonT(60) DEF KeyNext
<1>3. call[c].kid \in Kids /\ since[call[c].kid] \in Nat
  BY <1>1, <1>2 DEF KeyInv, KeyTypeOK, CallOK, key, Store, Established
<1>4. CASE key(c)
  <2>1. TooEarly /\ cache' = cache
    BY <1>4, Moves, Zenon DEF KeyInv, key, Points
  <2>2. cache \in KeySets /\ Sound(cache) /\ clock \in Nat
    BY <2>1, Zenon DEF TooEarly, KeyInv, KeyTypeOK
  <2>3. since[call[c].kid] < cache.fetchedAt
    BY <1>1, <1>3, <2>1, <2>2 DEF TooEarly, Established, CallOK, KeySets
  <2> QED
    BY <1>3, <2>1, <2>2, <2>3 DEF Sound
<1>5. CASE Store(c)
  <2>1. cache' = call[c].value /\ call[c].value \in KeySets /\ Sound(call[c].value)
        /\ call[c].value.fetchedAt >= call[c].begun - Timeout
    BY <1>1, <1>5, Zenon DEF Store, CallOK
  <2>2. since[call[c].kid] < call[c].value.fetchedAt
    BY <1>1, <1>3, <2>1 DEF Established, KeySets
  <2> QED
    BY <1>3, <2>1, <2>2 DEF Sound
<1> QED
  BY <1>2, <1>4, <1>5, Zenon

\* A token is refused for an unknown key, although that key has been published for a minute,
\* only when the cached key set has the key by then (Validate's second call of key() and its
\* throttle): the refusal does not outlast a retry.
THEOREM RefusalIsTransient == KeySpec => RefusedKeyIsCached
<1>1. KeyInv /\ [KeyNext]_keyVars =>
        [\A c \in Calls : call[c].pc # "unknown" /\ call'[c].pc = "unknown" /\ Established(c)
           => call[c].kid \in cache'.byID]_keyVars
  BY RefusalStep, Zenon
<1> QED
  BY <1>1, KeyInvariant, PTL DEF KeySpec, RefusedKeyIsCached
=============================================================================
