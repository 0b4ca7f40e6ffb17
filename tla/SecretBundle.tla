---------------------------- MODULE SecretBundle ----------------------------
(***************************************************************************)
(* tailbridge init writes its configuration files as one bundle            *)
(* (cmd/tailbridge/main.go, writeSecretBundle): every file is staged next  *)
(* to its target, existing targets are moved aside with --force, the       *)
(* staged files are installed, and a failure undoes what was done.         *)
(*                                                                         *)
(* Each file system call is one step that may fail; the process may stop   *)
(* after any step, so an invariant also speaks of what a crash leaves.     *)
(* Another program may create a target at any time.                        *)
(***************************************************************************)
EXTENDS Integers

CONSTANTS
  Count,        \* number of files of the bundle
  MaxFailures   \* bound on the file system calls that fail

ASSUME BundleAssumption == Count \in Nat \ {0} /\ MaxFailures \in Nat

Files == 1..Count

VARIABLES
  force,     \* the --force flag
  before,    \* the targets when the command starts
  target,    \* the file at files[i].path: absent, old, new or made by another program
  staged,    \* a temporary file of i is on disk
  aside,     \* the backup file of i on disk: absent, empty (the placeholder), old, foreign
  temp,      \* files[i].temp is set
  backup,    \* files[i].backup is set
  created,   \* files[i].created
  pc, index, \* the loop that runs and its index
  result,    \* what writeSecretBundle returns
  failures   \* failed calls so far

disk == <<target, staged, aside>>
memory == <<temp, backup, created>>
vars == <<force, before, disk, memory, pc, index, result, failures>>

TypeOK ==
  /\ force \in BOOLEAN
  /\ before \in [Files -> {"absent", "old"}]
  /\ target \in [Files -> {"absent", "old", "new", "foreign"}]
  /\ aside \in [Files -> {"absent", "empty", "old", "foreign"}]
  /\ staged \in [Files -> BOOLEAN] /\ temp \in [Files -> BOOLEAN]
  /\ backup \in [Files -> BOOLEAN] /\ created \in [Files -> BOOLEAN]
  /\ pc \in {"inspect", "stage", "preserve", "move", "install", "unstage", "discard",
             "remove", "restore", "clean", "returned"}
  /\ index \in 1..Count + 1
  /\ result \in {"none", "ok", "error"}
  /\ failures \in 0..MaxFailures

Init ==
  /\ force \in BOOLEAN
  /\ before \in [Files -> {"absent", "old"}]
  /\ target = before
  /\ staged = [i \in Files |-> FALSE]
  /\ aside = [i \in Files |-> "absent"]
  /\ temp = [i \in Files |-> FALSE]
  /\ backup = [i \in Files |-> FALSE]
  /\ created = [i \in Files |-> FALSE]
  /\ pc = IF force THEN "stage" ELSE "inspect"
  /\ index = 1
  /\ result = "none"
  /\ failures = 0
-----------------------------------------------------------------------------
Goto(p) == pc' = p /\ index' = 1 /\ UNCHANGED result
Continue == UNCHANGED <<pc, result>> /\ index' = index + 1
Return(r) == pc' = "returned" /\ result' = r /\ UNCHANGED index
Fail(n) == failures' = failures + n /\ failures' <= MaxFailures
NoFailure == UNCHANGED failures

In(p) == pc = p /\ index \in Files
EndOf(p) == pc = p /\ index = Count + 1

\* A removal of a work file, which must not count on success: os.Remove may fail.
RemoveOrKeep(n, Removed, Kept) ==
  \/ Fail(n) /\ Removed
  \/ Fail(n + 1) /\ Kept

\* Without --force no target may exist yet.
Inspect ==
  \/ /\ In("inspect")
     /\ \/ target[index] = "absent" /\ Continue /\ NoFailure
        \/ target[index] # "absent" /\ Return("error") /\ NoFailure
        \/ Return("error") /\ Fail(1)
     /\ UNCHANGED <<force, before, disk, memory>>
  \/ /\ EndOf("inspect")
     /\ Goto("stage") /\ NoFailure
     /\ UNCHANGED <<force, before, disk, memory>>

\* stageSecret writes a temporary file; when it fails it removes the file again.
stageSecret ==
  \/ /\ In("stage")
     /\ \/ /\ staged' = [staged EXCEPT ![index] = TRUE]
           /\ temp' = [temp EXCEPT ![index] = TRUE]
           /\ Continue /\ NoFailure
        \/ /\ RemoveOrKeep(1, UNCHANGED staged, staged' = [staged EXCEPT ![index] = TRUE])
           /\ Goto("clean")
           /\ UNCHANGED temp
     /\ UNCHANGED <<force, before, target, aside, backup, created>>
  \/ /\ EndOf("stage")
     /\ Goto(IF force THEN "preserve" ELSE "install") /\ NoFailure
     /\ UNCHANGED <<force, before, disk, memory>>

\* preserveSecrets looks for the target and makes the placeholder of its backup.
Placeholder ==
  \/ /\ In("preserve")
     /\ \/ target[index] = "absent" /\ Continue /\ NoFailure /\ UNCHANGED aside
        \/ /\ target[index] # "absent"
           /\ aside' = [aside EXCEPT ![index] = "empty"]
           /\ pc' = "move" /\ UNCHANGED <<index, result>> /\ NoFailure
        \/ /\ RemoveOrKeep(1, UNCHANGED aside, aside' = [aside EXCEPT ![index] = "empty"])
           /\ Goto("restore")
     /\ UNCHANGED <<force, before, target, staged, memory>>
  \/ /\ EndOf("preserve")
     /\ Goto("install") /\ NoFailure
     /\ UNCHANGED <<force, before, disk, memory>>

\* preserveSecrets moves the target over the placeholder.
preserveSecrets ==
  /\ In("move")
  /\ \/ /\ aside' = [aside EXCEPT ![index] = target[index]]
        /\ target' = [target EXCEPT ![index] = "absent"]
        /\ backup' = [backup EXCEPT ![index] = TRUE]
        /\ pc' = "preserve" /\ index' = index + 1 /\ UNCHANGED result /\ NoFailure
     \/ /\ RemoveOrKeep(1, aside' = [aside EXCEPT ![index] = "absent"], UNCHANGED aside)
        /\ Goto("restore")
        /\ UNCHANGED <<target, backup>>
  /\ UNCHANGED <<force, before, staged, temp, created>>

\* Rename with --force, link without it: link fails when the target exists.
Install ==
  /\ In("install")
  /\ \/ /\ target[index] = "absent" \/ force
        /\ target' = [target EXCEPT ![index] = "new"]
        /\ created' = [created EXCEPT ![index] = TRUE]
        /\ IF force
             THEN /\ staged' = [staged EXCEPT ![index] = FALSE]
                  /\ temp' = [temp EXCEPT ![index] = FALSE]
                  /\ Continue
             ELSE /\ pc' = "unstage" /\ UNCHANGED <<index, result, staged, temp>>
        /\ NoFailure
     \/ /\ Fail(1) /\ Goto("remove")
        /\ UNCHANGED <<target, created, staged, temp>>
  /\ UNCHANGED <<force, before, aside, backup>>

\* After a link the temporary name goes.
Unstage ==
  /\ In("unstage")
  /\ \/ /\ staged' = [staged EXCEPT ![index] = FALSE]
        /\ temp' = [temp EXCEPT ![index] = FALSE]
        /\ pc' = "install" /\ index' = index + 1 /\ UNCHANGED result /\ NoFailure
     \/ /\ Fail(1) /\ Goto("remove")
        /\ UNCHANGED <<staged, temp>>
  /\ UNCHANGED <<force, before, target, aside, backup, created>>

\* Every file is in place: the backups go, and what cannot be removed is only reported.
DiscardBackups ==
  \/ /\ EndOf("install")
     /\ Goto("discard") /\ NoFailure
     /\ UNCHANGED <<force, before, disk, memory>>
  \/ /\ In("discard")
     /\ \/ ~ backup[index] /\ NoFailure /\ UNCHANGED aside
        \/ backup[index] /\ NoFailure /\ aside' = [aside EXCEPT ![index] = "absent"]
        \/ backup[index] /\ Fail(1) /\ UNCHANGED aside
     /\ backup' = [backup EXCEPT ![index] = FALSE]
     /\ Continue
     /\ UNCHANGED <<force, before, target, staged, temp, created>>
  \/ /\ EndOf("discard")
     /\ Return("ok") /\ NoFailure
     /\ UNCHANGED <<force, before, disk, memory>>
-----------------------------------------------------------------------------
(* Undoing: rollbackSecrets, restoreBackups, cleanupTemps.                 *)

\* Mutated form: the rollback removes every target, not only the created ones.
rollbackAll ==
  \/ /\ In("remove")
     /\ target' = [target EXCEPT ![index] = "absent"] /\ NoFailure
     /\ Continue
     /\ UNCHANGED <<force, before, staged, aside, memory>>
  \/ /\ EndOf("remove")
     /\ Goto(IF force THEN "restore" ELSE "clean") /\ NoFailure
     /\ UNCHANGED <<force, before, disk, memory>>

rollbackSecrets ==
  \/ /\ In("remove")
     /\ \/ created[index] /\ target' = [target EXCEPT ![index] = "absent"] /\ NoFailure
        \/ ~ created[index] /\ UNCHANGED target /\ NoFailure
        \/ created[index] /\ Fail(1) /\ UNCHANGED target
     /\ Continue
     /\ UNCHANGED <<force, before, staged, aside, memory>>
  \/ /\ EndOf("remove")
     /\ Goto(IF force THEN "restore" ELSE "clean") /\ NoFailure
     /\ UNCHANGED <<force, before, disk, memory>>

\* Mutated form: a backup that cannot be moved back is removed with the other work files.
restoreOrRemove ==
  \/ /\ In("restore")
     /\ aside' = [aside EXCEPT ![index] = IF backup[index] THEN "absent" ELSE @]
     /\ backup' = [backup EXCEPT ![index] = FALSE]
     /\ \/ ~ backup[index] /\ UNCHANGED target /\ NoFailure
        \/ backup[index] /\ target' = [target EXCEPT ![index] = aside[index]] /\ NoFailure
        \/ backup[index] /\ Fail(1) /\ UNCHANGED target
     /\ Continue
     /\ UNCHANGED <<force, before, staged, temp, created>>
  \/ /\ EndOf("restore")
     /\ Goto("clean") /\ NoFailure
     /\ UNCHANGED <<force, before, disk, memory>>

restoreBackups ==
  \/ /\ In("restore")
     /\ \/ /\ ~ backup[index]
           /\ NoFailure /\ UNCHANGED <<target, aside, backup>>
        \/ /\ backup[index]
           /\ target' = [target EXCEPT ![index] = aside[index]]
           /\ aside' = [aside EXCEPT ![index] = "absent"]
           /\ backup' = [backup EXCEPT ![index] = FALSE]
           /\ NoFailure
        \/ /\ backup[index]
           /\ Fail(1) /\ UNCHANGED <<target, aside, backup>>
     /\ Continue
     /\ UNCHANGED <<force, before, staged, temp, created>>
  \/ /\ EndOf("restore")
     /\ Goto("clean") /\ NoFailure
     /\ UNCHANGED <<force, before, disk, memory>>

cleanupTemps ==
  \/ /\ In("clean")
     /\ \/ ~ temp[index] /\ NoFailure /\ UNCHANGED staged
        \/ temp[index] /\ NoFailure /\ staged' = [staged EXCEPT ![index] = FALSE]
        \/ temp[index] /\ Fail(1) /\ UNCHANGED staged
     /\ Continue
     /\ UNCHANGED <<force, before, target, aside, memory>>
  \/ /\ EndOf("clean")
     /\ Return("error") /\ NoFailure
     /\ UNCHANGED <<force, before, disk, memory>>

\* Another program creates a target.
Foreign(i) ==
  /\ pc # "returned"
  /\ target[i] = "absent"
  /\ target' = [target EXCEPT ![i] = "foreign"]
  /\ UNCHANGED <<force, before, staged, aside, memory, pc, index, result, failures>>

Next ==
  \/ Inspect \/ stageSecret \/ Placeholder \/ preserveSecrets \/ Install \/ Unstage
  \/ DiscardBackups \/ rollbackSecrets \/ restoreBackups \/ cleanupTemps
  \/ \E i \in Files : Foreign(i)

Spec == Init /\ [][Next]_vars
-----------------------------------------------------------------------------
(* Properties.                                                             *)

Unchanged(i) == target[i] = before[i] \/ (before[i] = "absent" /\ target[i] = "foreign")

\* The bundle is installed as a whole or not at all.  When the command reports success
\* every file is new; when one call failed, wherever that was, and the command reports an
\* error, every target is what it was and no temporary or backup file is left.  An existing
\* configuration is never lost, however many calls fail and wherever the process stops: it is
\* at its path or in its backup until the whole bundle is installed.
AllOrNothing ==
  /\ result = "ok" => \A i \in Files : target[i] = "new" /\ ~ staged[i]
  /\ result = "error" /\ failures <= 1 =>
       \A i \in Files : Unchanged(i) /\ ~ staged[i] /\ aside[i] = "absent"
  /\ \A i \in Files :
       before[i] = "old" => \/ "old" \in {target[i], aside[i]}
                            \/ \A j \in Files : target[j] = "new"

\* Without --force a file that another program creates while the command runs is neither
\* replaced nor removed, also not by a rollback (link instead of rename, created).
ForeignKept ==
  [][~ force => \A i \in Files : target[i] = "foreign" => target'[i] = "foreign"]_vars

=============================================================================
