----------------------------- MODULE Toolchain ------------------------------
(***************************************************************************)
(* Installing a scanner: infrastructure/toolchain/installer.py.  The       *)
(* archive and the list of checksums are downloaded into a directory of    *)
(* the installer's own; the verified binary is copied beside its place,    *)
(* under one fixed name, and renamed.  Two commands may install at once,   *)
(* and either may be killed.                                               *)
(***************************************************************************)
EXTENDS Integers, FiniteSets

CONSTANTS
  Installers,
  Signed,     \* whether the catalogue knows of a signature of the checksums
  MaxCrashes,
  Nobody

VARIABLES
  stage,    \* per installer: the step it does next, or how it ended
  archive,  \* per installer: "none", "genuine" or "altered"
  list,     \* per installer: the archive that its checksum file describes
  verdict,  \* per installer: what cosign said of the checksum file
  staging,  \* the file `.name.dockerls-partial`: its inode, or Nobody
  final,    \* the file that is run: its inode, or Nobody
  files,    \* inodes: what was copied into each, by whom it is being written, torn
  overlap,  \* history: two installers were copying at the same time
  crashes

vars == <<stage, archive, list, verdict, staging, final, files, overlap, crashes>>

\* Who is nobody installs nothing.
ToolchainAssumption == Nobody \notin Installers

\* An inode is named after the installer that created it.
Empty == [holds |-> "none", writers |-> {}, torn |-> FALSE, from |-> Nobody]
Init ==
  /\ stage = [i \in Installers |-> "policy"]
  /\ archive = [i \in Installers |-> "none"] /\ list = [i \in Installers |-> "none"]
  /\ verdict = [i \in Installers |-> "none"]
  /\ staging = Nobody /\ final = Nobody
  /\ files = [i \in Installers |-> Empty]
  /\ overlap = FALSE /\ crashes = 0

To(i, s) == stage' = [stage EXCEPT ![i] = s]
disk == <<staging, final, files, overlap>>
Whole(n) == files[n].holds # "none" /\ files[n].writers = {} /\ ~files[n].torn

\* The network policy judges every source before anything is downloaded.
CheckPolicy(i) ==
  /\ stage[i] = "policy"
  /\ To(i, "archive") \/ To(i, "failed")
  /\ UNCHANGED <<archive, list, verdict, disk, crashes>>

Download(i) ==
  /\ stage[i] = "archive"
  /\ \/ \E a \in {"genuine", "altered"} : archive' = [archive EXCEPT ![i] = a] /\ To(i, "checksums")
     \/ To(i, "failed") /\ UNCHANGED archive
  /\ UNCHANGED <<list, verdict, disk, crashes>>

FetchChecksums(i) ==
  /\ stage[i] = "checksums"
  /\ \/ \E l \in {"genuine", "altered"} :
          list' = [list EXCEPT ![i] = l] /\ To(i, IF Signed THEN "signature" ELSE "digest")
     \/ To(i, "failed") /\ UNCHANGED list
  /\ UNCHANGED <<archive, verdict, disk, crashes>>

\* None is not verified: no material, no cosign, or nothing it could conclude.
\* A signature says of a list that it is the project's, or that it is not.
AfterSignatureLenient(v) == "digest"
AfterSignature(v) == IF v = "invalid" THEN "failed" ELSE "digest"
VerifyChecksums(i) ==
  /\ stage[i] = "signature"
  /\ \E v \in {"unverified", IF list[i] = "genuine" THEN "valid" ELSE "invalid"} :
       verdict' = [verdict EXCEPT ![i] = v] /\ To(i, AfterSignature(v))
  /\ UNCHANGED <<archive, list, disk, crashes>>

\* The first line of the name, its form and the comparison; then the archive is
\* opened and exactly the binary at its root is extracted.
CompareDigest(i) ==
  /\ stage[i] = "digest"
  /\ To(i, IF list[i] = archive[i] THEN "extract" ELSE "failed")
  /\ UNCHANGED <<archive, list, verdict, disk, crashes>>

Extract(i) ==
  /\ stage[i] = "extract"
  /\ To(i, "copy") \/ To(i, "failed")
  /\ UNCHANGED <<archive, list, verdict, disk, crashes>>

Opened(i, n) ==
  /\ files' = [files EXCEPT ![n] = [holds |-> "none", writers |-> @.writers \cup {i}, torn |-> FALSE, from |-> i]]
  /\ overlap' = (overlap \/ \E j \in Installers \ {i} : stage[j] \in {"copying", "replace"})

OpenInPlace(i) ==
  /\ stage[i] = "copy"
  /\ final' = (IF final = Nobody THEN i ELSE final)
  /\ staging' = final'
  /\ Opened(i, final')
  /\ To(i, "copying")
  /\ UNCHANGED <<archive, list, verdict, crashes>>

\* copy2 truncates the staging file that it finds, whoever left it or writes it.
Open(i) ==
  /\ stage[i] = "copy"
  /\ staging' = (IF staging = Nobody THEN i ELSE staging)
  /\ Opened(i, staging')
  /\ To(i, "copying")
  /\ UNCHANGED <<archive, list, verdict, final, crashes>>

WrittenBy(i) == CHOOSE n \in Installers : i \in files[n].writers
Copied(i) ==
  /\ stage[i] = "copying"
  /\ LET n == WrittenBy(i) IN
       files' = [files EXCEPT ![n].writers = @ \ {i}, ![n].holds = archive[i], ![n].from = i]
  /\ To(i, "replace")
  /\ UNCHANGED <<archive, list, verdict, staging, final, overlap, crashes>>

\* A copy that fails, or a name that another one moved: the staging file is
\* removed and the error returned.
CannotCopy(i) ==
  /\ stage[i] = "copying"
  /\ files' = [files EXCEPT ![WrittenBy(i)].writers = @ \ {i}, ![WrittenBy(i)].torn = TRUE]
  /\ staging' = Nobody /\ To(i, "failed")
  /\ UNCHANGED <<archive, list, verdict, final, overlap, crashes>>

Replace(i) ==
  /\ stage[i] = "replace"
  /\ IF staging = Nobody THEN UNCHANGED final /\ To(i, "failed")
     ELSE final' = staging /\ To(i, "installed")
  /\ staging' = Nobody
  /\ UNCHANGED <<archive, list, verdict, files, overlap, crashes>>

Killed(i) ==
  /\ stage[i] \in {"copy", "copying", "replace"} /\ crashes < MaxCrashes
  /\ crashes' = crashes + 1 /\ To(i, "killed")
  /\ files' = [n \in Installers |-> IF i \in files[n].writers
       THEN [files[n] EXCEPT !.writers = @ \ {i}, !.torn = TRUE] ELSE files[n]]
  /\ UNCHANGED <<archive, list, verdict, staging, final, overlap>>

Step(i) ==
  \/ CheckPolicy(i) \/ Download(i) \/ FetchChecksums(i) \/ VerifyChecksums(i)
  \/ CompareDigest(i) \/ Extract(i) \/ Open(i) \/ Copied(i) \/ CannotCopy(i) \/ Replace(i)
Next == \E i \in Installers : Step(i) \/ Killed(i)
Spec == Init /\ [][Next]_vars
-----------------------------------------------------------------------------
(***************************************************************************)
(* An altered binary reaches its place only if its checksum file was       *)
(* altered with it and no signature said anything of that file; and while  *)
(* installers follow each other, killed or not, whatever is in place is a  *)
(* whole binary.                                                           *)
(***************************************************************************)
InstalledIsVerified ==
  final # Nobody =>
    LET i == files[final].from IN
      /\ archive[i] = "altered" => list[i] = "altered" /\ verdict[i] \notin {"valid", "invalid"}
      /\ ~overlap => Whole(final) /\ files[final].holds = archive[i]
-----------------------------------------------------------------------------
\* "There is never an instant in which the destination holds half a binary."
\* The code does not keep it when two installers share the staging file: one
\* renames what the other is still writing.
NeverHalfABinary == final # Nobody => Whole(final)
==============================================================================
