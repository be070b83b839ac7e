---------------------------- MODULE BuildPipeline ----------------------------
(***************************************************************************)
(* dockerls/application/use_cases/build_image.py: `dockerls build`.        *)
(* Concurrent builds of one context under one tag, while somebody may edit *)
(* the context: validate, digest the input, build, digest it again, scan,  *)
(* remediate and rebuild, judge, publish, record.                          *)
(*                                                                         *)
(* The docker daemon, the scanners, the files of the context and the       *)
(* registry are outside the process, and every command names the image by  *)
(* its tag: an action is one of these commands.  An image is its content:  *)
(* the revision of the tree docker read and how many remediations its      *)
(* Dockerfile had.  What a scanner finds in it is fixed by its first scan. *)
(***************************************************************************)
EXTENDS Naturals, FiniteSets

CONSTANTS Builds,     \* runs of the command
          None,
          request,    \* what each run was asked: [scan, gate, auto, push, policy]
          Findings,   \* what a scanner may find worst in an image
          MaxRounds,  \* max_remediation_rounds
          MaxEdits    \* bound: edits of the tree by its user

Gates    == {"none", "critical", "kev"}
Pushes   == {"no", "tag", "target"}
Policies == {"scan", "provenance"}

ASSUME BuildsFinite == IsFiniteSet(Builds) /\ None \notin Builds
ASSUME RequestsAreRequests ==
  request \in [Builds -> [scan : BOOLEAN, gate : Gates, auto : BOOLEAN, push : Pushes,
                          policy : SUBSET Policies]]
Worst == {"clean", "low", "critical", "exploited"}
ASSUME FindingsAreFindings == Findings \subseteq Worst
ASSUME BoundsAreNumbers == MaxRounds \in Nat /\ MaxEdits \in Nat

\* Every remediation adds a file to the tree.
MaxRev == MaxEdits + Cardinality(Builds) * MaxRounds
Images == [src : 0..MaxRev, fixes : 0..MaxRounds]
\* What is digested; the revision git knows is left out.
Digest == [file : 0..MaxRev, context : 0..MaxRev \cup {None}]

ASSUME NoneIsNoValue ==
  None \notin Images \cup Digest \cup (0..MaxRev) \cup Worst \cup [of : Images, kev : BOOLEAN]

VARIABLES
  tree,      \* revision of the build context, Dockerfile included
  fileRev,   \* the revision in which the Dockerfile last changed
  fits,      \* the context is small enough to be digested
  edits,
  tagged,    \* the image the tag names, or None
  target,    \* the image the push reference names locally, or None
  worst,     \* the worst finding of an image, or None while nobody scanned it
  run,       \* the local state of each run, see Runs
  pushed,    \* what the registry was given, and how
  records    \* the BuildProvenance documents that were closed

treeVars  == <<tree, fileRev, fits, edits>>
nameVars  == <<tagged, target>>
proofVars == <<pushed, records>>
vars == <<treeVars, nameVars, worst, run, proofVars>>

Outcomes == {"ok", "policy", "error"}

(***************************************************************************)
(* source_before, source_after, the image docker is building, the rounds   *)
(* of remediation begun, build_result.image_sha256 and scan_result; and,   *)
(* for the properties, whether another build took the name of its image,   *)
(* and whether its last rebuild could not be scanned.                      *)
(***************************************************************************)
Local(place) == [pc |-> place, before |-> None, after |-> None, reading |-> None, round |-> 0,
                 image |-> None, scan |-> None, overtaken |-> FALSE, blind |-> FALSE]

Init ==
  /\ tree = 0 /\ fileRev = 0 /\ edits = 0
  /\ fits \in BOOLEAN
  /\ tagged = None /\ target = None
  /\ worst = [i \in Images |-> None]
  /\ run = [b \in Builds |-> Local("validate")]
  /\ pushed = {} /\ records = {}

At(b, l)    == run[b].pc = l
Goes(b, s)  == run' = [run EXCEPT ![b] = s]
To(b, l)    == [run[b] EXCEPT !.pc = l]
Ends(b, o)  == Goes(b, Local(o))

\* Builds that count on the tag, or on the target, naming their image.
OnTag(b) ==
  \/ run[b].pc \in {"inspect", "after", "scan", "remedy", "decide", "retag"}
  \/ run[b].pc \in {"push", "record"} /\ request[b].push # "target"
  \/ At(b, "build") /\ run[b].round > 0

OnTarget(b) == run[b].pc \in {"push", "record"} /\ request[b].push = "target"

\* b goes to s, having given a name to its image, and those in lose it.
Overtakes(b, s, lose) ==
  run' = [c \in Builds |-> IF c = b THEN s
                           ELSE [run[c] EXCEPT !.overtaken = @ \/ c \in lose]]

-----------------------------------------------------------------------------
\* The user saves a file of the context: the Dockerfile, or another.
Edit ==
  /\ edits < MaxEdits
  /\ \E b \in Builds : run[b].pc \notin Outcomes
  /\ edits' = edits + 1
  /\ tree' = tree + 1
  /\ fileRev' \in {fileRev, tree + 1}
  /\ UNCHANGED <<fits, nameVars, worst, run, proofVars>>

\* The Dockerfile is judged; or nothing but that was asked, or it is refused.
\* A hardened Dockerfile that the run writes first is an Edit here.
Validate(b) ==
  /\ At(b, "validate")
  /\ Goes(b, To(b, "digest")) \/ \E o \in Outcomes : Ends(b, o)
  /\ UNCHANGED <<treeVars, nameVars, worst, proofVars>>

\* _digest_source: a context that is too large has no digest; the Dockerfile
\* was read a moment ago.
DigestNow == [file |-> fileRev, context |-> IF fits THEN tree ELSE None]

DigestBefore(b) ==
  /\ At(b, "digest")
  /\ Goes(b, [To(b, "build") EXCEPT !.before = DigestNow])
  /\ UNCHANGED <<treeVars, nameVars, worst, proofVars>>

(***************************************************************************)
(* _build_image: docker reads the tree, then names the image; it fails, or *)
(* the image is inspected, by its name. The first build that fails ends    *)
(* the run, a later one ends the remediation.                              *)
(***************************************************************************)
ReadTree(b) ==
  /\ At(b, "build")
  /\ \/ Goes(b, [To(b, "name") EXCEPT !.reading = [src |-> tree, fixes |-> run[b].round]])
     \/ run[b].round = 0 /\ Ends(b, "error")
     \/ run[b].round > 0 /\ Goes(b, To(b, "decide"))
  /\ UNCHANGED <<treeVars, nameVars, worst, proofVars>>

NameImage(b) ==
  /\ At(b, "name")
  /\ tagged' = run[b].reading
  /\ Overtakes(b, [To(b, "inspect") EXCEPT !.reading = None, !.overtaken = FALSE],
               {c \in Builds : OnTag(c)})
  /\ UNCHANGED <<treeVars, target, worst, proofVars>>

Inspects(b, seen) ==
  /\ At(b, "inspect")
  /\ Goes(b, [To(b, IF run[b].round = 0 THEN "after" ELSE "scan") EXCEPT !.image = seen])
  /\ UNCHANGED <<treeVars, nameVars, worst, proofVars>>

\* Mutant of Inspect: a rebuild does not replace the image of the result.
InspectFirst(b) == Inspects(b, IF run[b].round = 0 THEN tagged ELSE run[b].image)

Inspect(b) == Inspects(b, tagged) \/ Inspects(b, None)

DigestAfter(b) ==
  /\ At(b, "after")
  /\ Goes(b, [To(b, IF request[b].scan THEN "scan" ELSE "decide") EXCEPT !.after = DigestNow])
  /\ UNCHANGED <<treeVars, nameVars, worst, proofVars>>

(***************************************************************************)
(* _scan_image and _enrich: Trivy, else Grype, of what the tag names, then *)
(* the KEV catalogue, which may not answer. A rebuild that cannot be       *)
(* scanned leaves the scan of the image before it in place.                *)
(***************************************************************************)
Scan(b) ==
  /\ At(b, "scan")
  /\ \/ \E w \in Findings, kev \in BOOLEAN :
          /\ w \in {"clean", "low"} => ~kev     \* nothing is looked up
          /\ worst[tagged] \in {None, w}
          /\ worst' = [worst EXCEPT ![tagged] = w]
          /\ Goes(b, [To(b, "remedy") EXCEPT !.scan = [of |-> tagged, kev |-> kev], !.blind = FALSE])
     \/ Goes(b, [To(b, "remedy") EXCEPT !.blind = run[b].round > 0]) /\ UNCHANGED worst
  /\ UNCHANGED <<treeVars, nameVars, proofVars>>

(***************************************************************************)
(* A round of remediation: a Dockerfile with more fixes is written into    *)
(* the context and built, or the disk is full, or there is nothing to do.  *)
(***************************************************************************)
MayRemedy(b, rounds) ==
  /\ request[b].auto
  /\ run[b].scan # None /\ worst[run[b].scan.of] # "clean"
  /\ run[b].round < rounds

\* Mutant of ToRemedy: one round too many.
ToRemedyOnceMore(b) == MayRemedy(b, MaxRounds + 1)

ToRemedy(b) == MayRemedy(b, MaxRounds)

Remedies(b, n) ==
  /\ At(b, "remedy")
  /\ \/ /\ ToRemedy(b)
        /\ \E t \in {tree, tree + 1} \cap 0..MaxRev : tree' = t
        /\ Goes(b, [To(b, "build") EXCEPT !.round = n])
     \/ /\ ToRemedy(b)
        /\ Ends(b, "error") /\ UNCHANGED tree
     \/ Goes(b, To(b, "decide")) /\ UNCHANGED tree
  /\ UNCHANGED <<fileRev, fits, edits, nameVars, worst, proofVars>>

\* Mutant of Remedy: the rounds are not counted.
RemedyUncounted(b) == Remedies(b, run[b].round)

Remedy(b) == Remedies(b, run[b].round + 1)

-----------------------------------------------------------------------------
(***************************************************************************)
(* The gates, the policy and the input are judged in this order, on what   *)
(* the run remembers.                                                      *)
(***************************************************************************)
\* Only critical and high findings are looked up in KEV, so a gate "kev" over
\* others, or without the catalogue, is not answered.
Unanswered(s) == worst[s.of] # "clean" /\ ~s.kev

GateOn(g, s, unanswered) ==
  CASE g = "none"     -> FALSE
    [] g = "critical" -> worst[s.of] \in {"critical", "exploited"}
    [] g = "kev"      -> IF Unanswered(s) THEN unanswered ELSE worst[s.of] = "exploited"

\* Mutant of GateFails: a gate that was not answered has passed.
GateForgiving(g, s) == GateOn(g, s, FALSE)

GateFails(g, s) == GateOn(g, s, TRUE)

\* BuildProvenance.status
Status(d, e, i) ==
  IF d # e THEN "INPUT_CHANGED"
  ELSE IF i = None THEN "INCOMPLETE"
  ELSE "VERIFIED"

StatusOf(b) == Status(run[b].before, run[b].after, run[b].image)

\* evaluate(policy, facts): the rules about the scan and the provenance; the
\* others (ceilings, bases, user, labels) may refuse any image.
Violates(b) ==
  \/ "scan" \in request[b].policy /\ run[b].scan = None
  \/ "provenance" \in request[b].policy /\ StatusOf(b) # "VERIFIED"

\* Mutant of InputChanged: only the Dockerfile is compared.
FileChanged(b) == run[b].before.file # run[b].after.file

InputChanged(b) == run[b].before # run[b].after

Gated(b) == request[b].gate # "none"

Passes(b) == Gated(b) => run[b].scan # None /\ ~GateFails(request[b].gate, run[b].scan)

Decide(b) ==
  /\ At(b, "decide")
  /\ \/ Gated(b) /\ run[b].scan = None /\ Ends(b, "error")
     \/ Gated(b) /\ run[b].scan # None /\ ~Passes(b) /\ Ends(b, "policy")
     \/ Passes(b) /\ request[b].policy # {} /\ Ends(b, "policy")  \* another rule
     \/ Passes(b) /\ Violates(b) /\ Ends(b, "policy")
     \/ /\ Passes(b) /\ ~Violates(b)
        /\ CASE request[b].push = "no" -> Goes(b, To(b, "record"))
             [] InputChanged(b)        -> Ends(b, "policy")
             [] OTHER -> Goes(b, To(b, IF request[b].push = "tag" THEN "push" ELSE "retag"))
  /\ UNCHANGED <<treeVars, nameVars, worst, proofVars>>

\* _push_image: `docker tag`, when the push reference is not the tag ...
Retag(b) ==
  /\ At(b, "retag")
  /\ \/ /\ target' = tagged
        /\ Overtakes(b, To(b, "push"), {c \in Builds : OnTarget(c)})
     \/ Ends(b, "error") /\ UNCHANGED target
  /\ UNCHANGED <<treeVars, tagged, worst, proofVars>>

Named(b) == IF request[b].push = "target" THEN target ELSE tagged

\* ... and `docker push`, which may give up after the registry took the image.
Push(b) ==
  /\ At(b, "push")
  /\ \E took \in BOOLEAN :
       /\ pushed' = IF took
                      THEN pushed \cup {[by |-> b, image |-> Named(b), input |-> run[b].before,
                                         remedied |-> run[b].round > 0,
                                         undisturbed |-> ~run[b].overtaken,
                                         measured |-> ~run[b].blind]}
                      ELSE pushed
       /\ \/ took /\ Goes(b, To(b, "record"))
          \/ Ends(b, "error")
  /\ UNCHANGED <<treeVars, nameVars, worst, records>>

\* The provenance is closed with what the reference names, archived and
\* reported; a report that fails does not take the publication back.
Record(b) ==
  /\ At(b, "record")
  /\ records' = records \cup
       {[by |-> b, source |-> run[b].before, image |-> run[b].image, repo |-> Named(b),
         status |-> StatusOf(b), undisturbed |-> ~run[b].overtaken]}
  /\ \E o \in {"ok", "error"} : Ends(b, o)
  /\ UNCHANGED <<treeVars, nameVars, worst, pushed>>

-----------------------------------------------------------------------------
Step(b) ==
  \/ Validate(b) \/ DigestBefore(b) \/ ReadTree(b) \/ NameImage(b) \/ Inspect(b)
  \/ DigestAfter(b) \/ Scan(b) \/ Remedy(b) \/ Decide(b) \/ Retag(b) \/ Push(b) \/ Record(b)

Next == Edit \/ \E b \in Builds : Step(b)

\* Every command has a timeout. Nothing makes the user edit.
Fairness == \A b \in Builds : WF_vars(Step(b))

Spec == Init /\ [][Next]_vars

FairSpec == Spec /\ Fairness

-----------------------------------------------------------------------------
Places == {"validate", "digest", "build", "name", "inspect", "after", "scan", "remedy", "decide",
           "retag", "push", "record"} \cup Outcomes

Runs == [pc : Places, before : Digest \cup {None}, after : Digest \cup {None},
         reading : Images \cup {None}, round : 0..MaxRounds, image : Images \cup {None},
         scan : [of : Images, kev : BOOLEAN] \cup {None}, overtaken : BOOLEAN, blind : BOOLEAN]

\* Every variable has the shape the code gives it.
TypeOK ==
  /\ tree \in 0..MaxRev /\ fileRev \in 0..tree /\ fits \in BOOLEAN /\ edits \in 0..MaxEdits
  /\ tagged \in Images \cup {None} /\ target \in Images \cup {None}
  /\ worst \in [Images -> Findings \cup {None}]
  /\ run \in [Builds -> Runs]
  /\ \A p \in pushed : p.image \in Images
  /\ \A r \in records : r.source \in Digest /\ r.image \in Images \cup {None}

\* What a gate asks of an image, whatever the run believes of it.
Deserves(g, i) ==
  CASE g = "none"     -> TRUE
    [] g = "critical" -> worst[i] \in {"clean", "low"}
    [] g = "kev"      -> worst[i] \in {"clean", "critical"}

\* An image that was published behind a gate is an image that was scanned and
\* that the gate lets through: however many times it was rebuilt, unless
\* another build took its name or its last rebuild could not be scanned.
PublishedPassedGate ==
  \A p \in pushed : p.undisturbed /\ p.measured => Deserves(request[p.by].gate, p.image)

\* An image that was published without remediation, and whose input could be
\* digested, was built from exactly that input: edits before, during and
\* after the build included.
PublishedFromInput ==
  \A p \in pushed :
    p.undisturbed /\ ~p.remedied /\ p.input.context # None
      => p.image.src = p.input.context

\* The run that publishes reports and records the image that it published,
\* not one of an earlier round, unless another build took its name.
RecordIsOfPublished ==
  \A p \in pushed, r \in records :
    p.by = r.by /\ r.undisturbed => r.image \in {None, p.image} /\ r.repo = p.image

\* Every build ends, whatever fails and however often it is remediated.
EveryBuildEnds == \A b \in Builds : <>(run[b].pc \in Outcomes)

\* "A gate that could not be evaluated is not a gate that passed": no image is
\* published behind a gate without having been scanned. The code does not keep
\* it: when the scan after a remediation fails, the scan of the image before
\* stays, and the gate judges that one.
PublishedWasScanned ==
  \A p \in pushed : request[p.by].gate # "none" => worst[p.image] # None

\* "INCOMPLETE: something could not be digested (a context that is too large,
\* a file that cannot be read)": a provenance that is VERIFIED has a digest of
\* everything that went in. The code does not keep it: two contexts that could
\* not be digested compare equal.
VerifiedIsDigested ==
  \A r \in records : r.status = "VERIFIED" => r.source.context # None

=============================================================================
