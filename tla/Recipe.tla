------------------------------- MODULE Recipe -------------------------------
(***************************************************************************)
(* The Dockerfile that is generated for a base image (base_recipe.py) and  *)
(* the comparison of two recipes (recipe_diff.py).  A recipe is            *)
(* [family, runtime, packages, digest, owner, user, strip].                *)
(***************************************************************************)
EXTENDS BaseUpgrade

Families == {"alpine", "debian", "ubuntu", "distroless", "wolfi"}
InstallsPackages(family) == family \notin {"distroless", "wolfi"}

\* RUNTIME_BASES: the combinations for which an image is published.
Published(runtime) ==
  CASE runtime \in {"none", "java"} -> Families
    [] runtime \in {"node", "python"} -> Families \ {"ubuntu"}
    [] runtime \in {"go", "ruby", "php"} -> {"alpine", "debian"}
Image(runtime, family) ==
  [tag     |-> IF family = "wolfi" THEN "latest" ELSE "v1",
   minimal |-> \/ family \in {"alpine", "distroless", "wolfi"}
               \/ family = "debian" /\ runtime \in {"none", "node", "python", "ruby"},
   user    |-> IF ~InstallsPackages(family) THEN "nonroot" ELSE IF runtime = "node" THEN "node" ELSE None,
   bundled |-> runtime = "node" /\ InstallsPackages(family)]

\* Every package of the catalogue but one has a name in both worlds.
Catalogued == {"curl", "tini", "libc6-compat"}
PackageFor(package, family) == package # "libc6-compat" \/ family = "alpine"
Valid(recipe) ==
  /\ recipe.family \in Published(recipe.runtime)
  /\ recipe.packages # {} => InstallsPackages(recipe.family)
  /\ recipe.packages \subseteq Catalogued

(***************************************************************************)
(* render.                                                                 *)
(***************************************************************************)
Text(op, has) == [op |-> op, has |-> has, of |-> None, ends |-> FALSE]
Going(op, has) == [op |-> op, has |-> has, of |-> None, ends |-> TRUE]
UserLine(name) == [op |-> "USER", has |-> {}, of |-> [name |-> name, uid |-> None], ends |-> FALSE]

Pinning(recipe, image) ==
  LET from(arg) == [op |-> "FROM", has |-> IF image.minimal THEN {"minimal"} ELSE {}, ends |-> FALSE,
                    of |-> [name |-> recipe.runtime, tag |-> image.tag, digest |-> None, arg |-> arg, alias |-> None]]
  IN  IF recipe.digest = None THEN <<Text("comment", {}), Text("comment", {}), from(None)>>
      ELSE <<[op |-> "ARG", has |-> {"default"}, of |-> [name |-> "BASE_DIGEST", value |-> recipe.digest], ends |-> FALSE],
             Text("blank", {}), from("BASE_DIGEST")>>
Labels(recipe) ==
  IF recipe.owner = None THEN <<Text("LABEL", {"scanner"})>>
  ELSE <<Going("LABEL", {"maintainer"}), Text("text", {"scanner"})>>
Packages(recipe) ==
  LET names == {package \in recipe.packages : PackageFor(package, recipe.family)}
      cleaned == IF recipe.family = "alpine" THEN {} ELSE {"cleaned"}
  IN  IF ~InstallsPackages(recipe.family) THEN <<>>
      ELSE IF names = {} THEN <<Text("comment", {}), Text("RUN", {"manager"} \cup cleaned)>>
      ELSE <<Text("comment", {}), Going("RUN", {"manager"} \cup cleaned), Going("text", {}),
             Text("text", {"unpinned"})>>
StripManager(recipe, image) ==
  IF recipe.strip /\ image.bundled THEN <<Text("comment", {}), UserLine("root"), Going("RUN", {}), Text("text", {})>>
  ELSE <<>>
CreateUser(recipe, image) ==
  IF image.user = None /\ InstallsPackages(recipe.family)
  THEN <<Text("comment", {}), Going("RUN", {}), Text("text", {})>> ELSE <<>>
Account(recipe, image) == <<Text("WORKDIR", {}), UserLine(IF image.user = None THEN recipe.user ELSE image.user)>>

\* mutant: what is bundled is removed last, as root
RenderedStrippingLast(recipe) ==
  LET image == Image(recipe.runtime, recipe.family) IN
  <<Text("comment", {})>> \o Pinning(recipe, image) \o Labels(recipe) \o Packages(recipe)
    \o CreateUser(recipe, image) \o Account(recipe, image) \o StripManager(recipe, image)
Rendered(recipe) ==
  LET image == Image(recipe.runtime, recipe.family) IN
  <<Text("comment", {})>> \o Pinning(recipe, image) \o Labels(recipe) \o Packages(recipe)
    \o StripManager(recipe, image) \o CreateUser(recipe, image) \o Account(recipe, image)

(***************************************************************************)
(* RecipeDiff.has_changes.                                                 *)
(***************************************************************************)
\* mutant: an unpinned recipe is the same as a pinned one
HasChangesIgnoringPin(left, right) ==
  \/ left.packages # right.packages \/ left.family # right.family \/ left.runtime # right.runtime
  \/ left.strip # right.strip
HasChanges(left, right) ==
  \/ left.packages # right.packages \/ left.family # right.family \/ left.runtime # right.runtime
  \/ left.strip # right.strip
  \/ (left.digest = None) # (right.digest = None)
-----------------------------------------------------------------------------
(***************************************************************************)
(* What DockerLs generates passes what DockerLs demands: a recipe that is  *)
(* pinned is ready for production under the rules of the validator, and    *)
(* `dockerls base` has nothing to change in it; one that is not pinned     *)
(* fails by its moving tag at most, and is ready once `dockerls base` has  *)
(* pinned it.                                                              *)
(***************************************************************************)
RecipeIsReady(recipe, context, today) ==
  LET lines == Rendered(recipe)
      pinned == Rewrite(lines, today)
  IN  Valid(recipe) /\ recipe.user # "root" =>
        IF recipe.digest # None
        THEN ProductionReady(lines, context) /\ (today[<<recipe.runtime, Image(recipe.runtime, recipe.family).tag>>] = recipe.digest => pinned = lines)
        ELSE Errors(Instructions(lines)) \subseteq {"DF001"} /\ ProductionReady(pinned, context)

(***************************************************************************)
(* Two recipes between which the comparison sees no change, and which name *)
(* the same owner and user and digest if both are pinned, generate the     *)
(* same file.                                                              *)
(***************************************************************************)
NothingUnsaid(left, right) ==
  /\ Valid(left) /\ Valid(right) /\ ~HasChanges(left, right)
  /\ left.owner = right.owner /\ left.user = right.user
  /\ left.digest = right.digest \/ None \in {left.digest, right.digest}
  => Rendered(left) = Rendered(right)
=============================================================================
