------------------------------ MODULE Registry ------------------------------
(***************************************************************************)
(* One repository of one registry, asked by the candidates of a run:       *)
(* integrations/registry/inspector.py over oci.py's requests, what the     *)
(* measurement store keeps of the answers between runs, and                *)
(* hardening_analysis.py, which reads the facts of what was resolved.      *)
(*                                                                         *)
(* Meanwhile the tag moves, requests fail, and the registry may serve bytes *)
(* that are not the ones it was asked for.  A digest names its content.    *)
(***************************************************************************)
EXTENDS Integers, FiniteSets

CONSTANTS
  Askers,      \* the candidates that name the tag
  Wants,       \* asker -> [arch, variant], the platform of its run
  Hints,       \* asker -> the digest its source listed for the tag, or None
  Tops,        \* the digests that the tag may point at
  Digests,     \* everything that has a digest: indexes and images
  Body,        \* digest -> its bytes: [kind |-> "index", entries |-> set of [digest, arch, variant]]
               \*           or [kind |-> "image", arch, variant]
  Default,     \* architecture -> the variant that a bare request means
  MaxRuns, MaxMoves, None

VARIABLES
  tag,        \* what the tag points at now
  pointed,    \* history: what it has pointed at
  identities, \* _identities: platform -> identity or None
  holder,     \* _locks: platform -> the asker inside, or None
  resolved,   \* _resolved: <<reference, platform>> -> what inspect found
  digests,    \* _digests of the tag
  mappings,   \* stored: <<top digest, platform>> -> [index, manifest] or None
  facts,      \* stored: <<digest, platform>> -> whose config it is, or None
  phase,      \* asker: "start", "head", "manifest", "config", "inspect", "reading", "done"
  top,        \* asker: the digest that its HEAD named
  answer,     \* asker: the identity it was given
  read,       \* asker: the image whose config it was given, or None
  runs, moves

Platforms == {Wants[a] : a \in Askers}
Identities ==
  [status : {"CONFIRMED", "DIGEST_ONLY", "PLATFORM_MISMATCH", "UNRESOLVED"},
   index : Digests \cup {None}, manifest : Digests \cup {None}]

\* An index lists images, and says of each the platform that its config says.
RegistryAssumption ==
  /\ None \notin Askers /\ None \notin Digests /\ None \notin Identities /\ "tag" \notin Digests
  /\ Tops \subseteq Digests /\ \A a \in Askers : Hints[a] \in Digests \cup {None}
  /\ \A d \in Digests : Body[d].kind = "index" =>
       /\ IsFiniteSet(Body[d].entries)
       /\ \A e \in Body[d].entries :
            /\ e.digest \in Digests /\ Body[e.digest].kind = "image"
            /\ Body[e.digest].arch = e.arch /\ Body[e.digest].variant = e.variant

Confirmed(i) == i.status = "CONFIRMED"
Identity(status, index, manifest) == [status |-> status, index |-> index, manifest |-> manifest]
Unresolved == Identity("UNRESOLVED", None, None)

memos == <<identities, holder, resolved, digests>>
world == <<tag, pointed, moves, runs>>
vars == <<world, memos, mappings, facts, phase, top, answer, read>>

NoIdentity == [p \in Platforms |-> None]
NothingRead == [k \in (Digests \cup {"tag"}) \X Platforms |-> None]
OfNobody == [a \in Askers |-> None]
Init ==
  /\ tag \in Tops /\ pointed = {tag} /\ moves = 0 /\ runs = 1
  /\ identities = NoIdentity /\ holder = NoIdentity
  /\ resolved = NothingRead /\ digests = None
  /\ mappings = [k \in Digests \X Platforms |-> None]
  /\ facts = [k \in Digests \X Platforms |-> None]
  /\ phase = [a \in Askers |-> "start"]
  /\ top = OfNobody /\ answer = OfNobody /\ read = OfNobody

Satisfies(wanted, offered) ==
  wanted.arch = offered.arch /\ wanted.variant \in {"", offered.variant}
Matching(body, wanted) == {e \in body.entries : Satisfies(wanted, e)}
Preferred(body, wanted) ==
  {e \in Matching(body, wanted) : e.variant \in {"", Default[wanted.arch]}}

\* The entry of the platform: the only match, or the only one of the default
\* variant; never the first that would do.
SelectFirst(body, wanted) ==
  IF Matching(body, wanted) = {} THEN None ELSE (CHOOSE e \in body.entries : TRUE).digest
SelectPlatform(body, wanted) ==
  IF Cardinality(Matching(body, wanted)) = 1
  THEN (CHOOSE e \in Matching(body, wanted) : TRUE).digest
  ELSE IF Cardinality(Preferred(body, wanted)) = 1
       THEN (CHOOSE e \in Preferred(body, wanted) : TRUE).digest ELSE None

FromIndex(d, wanted) ==
  LET m == SelectPlatform(Body[d], wanted) IN
    IF m = None THEN Identity("PLATFORM_MISMATCH", d, None) ELSE Identity("CONFIRMED", d, m)
\* A single manifest says its platform in its config, which may not be read.
FromManifest(d, wanted, config) ==
  IF config = None THEN Identity("DIGEST_ONLY", None, d)
  ELSE IF Satisfies(wanted, Body[config]) THEN Identity("CONFIRMED", None, d)
       ELSE Identity("PLATFORM_MISMATCH", None, d)

To(a, p) == phase' = [phase EXCEPT ![a] = p]

\* The lock of the key is held over the whole resolution.
Enter(a) ==
  /\ phase[a] = "start" /\ holder[Wants[a]] = None
  /\ IF identities[Wants[a]] # None
     THEN /\ answer' = [answer EXCEPT ![a] = identities[Wants[a]]]
          /\ To(a, "inspect") /\ UNCHANGED holder
     ELSE /\ holder' = [holder EXCEPT ![Wants[a]] = a]
          /\ To(a, "head") /\ UNCHANGED answer
  /\ UNCHANGED <<world, identities, resolved, digests, mappings, facts, top, read>>

\* What was resolved is remembered for the run, whatever it is; what was
\* confirmed is remembered for the next ones, under the digest of the HEAD.
ConcludeUnshared(a, i) ==
  /\ answer' = [answer EXCEPT ![a] = i] /\ To(a, "inspect")
  /\ holder' = [holder EXCEPT ![Wants[a]] = None]
  /\ mappings' = IF Confirmed(i) THEN [mappings EXCEPT ![<<top[a], Wants[a]>>] = i] ELSE mappings
  /\ UNCHANGED <<identities, digests>>
Conclude(a, i) ==
  /\ answer' = [answer EXCEPT ![a] = i] /\ To(a, "inspect")
  /\ identities' = [identities EXCEPT ![Wants[a]] = i]
  /\ holder' = [holder EXCEPT ![Wants[a]] = None]
  /\ digests' = (IF digests # None THEN digests ELSE IF i.index # None THEN i.index ELSE i.manifest)
  /\ mappings' = IF Confirmed(i) THEN [mappings EXCEPT ![<<top[a], Wants[a]>>] = i] ELSE mappings

Head(a) ==
  /\ phase[a] = "head"
  /\ \/ /\ top' = [top EXCEPT ![a] = tag] /\ To(a, "manifest")
        /\ UNCHANGED <<answer, identities, holder, digests, mappings>>
     \/ Conclude(a, Unresolved) /\ UNCHANGED top
  /\ UNCHANGED <<world, resolved, facts, read>>

\* Bytes whose hash is not the digest that they were asked by are refused.
AcceptsAnything(got, asked) == TRUE
Accepts(got, asked) == got = asked

\* A mapping stored earlier, or one GET of the digest, never of the tag.
Fetch(a) ==
  /\ phase[a] = "manifest"
  /\ LET known == mappings[<<top[a], Wants[a]>>] IN
       \/ /\ known # None /\ Conclude(a, known)
          /\ UNCHANGED resolved
       \/ /\ known = None
          /\ \/ Conclude(a, Unresolved)
             \/ \E got \in {top[a], tag} :
                  /\ Accepts(got, top[a]) /\ Body[got].kind = "index"
                  /\ Conclude(a, FromIndex(got, Wants[a]))
             \/ /\ Body[top[a]].kind = "image" /\ To(a, "config")
                /\ UNCHANGED <<answer, identities, holder, digests, mappings>>
          /\ UNCHANGED resolved
  /\ UNCHANGED <<world, facts, top, read>>

\* The blob is hashed as well; it is kept for the inspection of the manifest.
FetchConfig(a) ==
  /\ phase[a] = "config"
  /\ \E config \in {top[a], None} :
       /\ Conclude(a, FromManifest(top[a], Wants[a], config))
       /\ resolved' = [resolved EXCEPT ![<<top[a], Wants[a]>>] = IF @ = None THEN <<config>> ELSE @]
  /\ UNCHANGED <<world, facts, top, read>>
-----------------------------------------------------------------------------
\* The image is left with the confirmed manifest, or with its source's hint.
ImageDigest(a) == IF Confirmed(answer[a]) THEN answer[a].manifest ELSE Hints[a]
Reference(a) == IF ImageDigest(a) # None THEN ImageDigest(a) ELSE "tag"
Key(a) == <<Reference(a), Wants[a]>>

\* Config facts of a confirmed digest are stored; what inspection was given
\* earlier in the run is given again, failures included.
Facts(a, config) ==
  /\ read' = [read EXCEPT ![a] = config] /\ To(a, "done")
StorableAlways(a) == Reference(a) # "tag"
Storable(a) == Confirmed(answer[a])
Inspect(a) ==
  /\ phase[a] = "inspect"
  /\ LET stored == IF Confirmed(answer[a]) THEN facts[Key(a)] ELSE None IN
       IF stored # None THEN Facts(a, stored)
       ELSE IF resolved[Key(a)] # None THEN Facts(a, resolved[Key(a)][1])
       ELSE To(a, "reading") /\ UNCHANGED read
  /\ UNCHANGED <<world, memos, mappings, facts, top, answer>>

\* An index is followed to the config of the platform; an image is what it is.
ConfigOf(d, wanted) ==
  IF Body[d].kind = "image" THEN d ELSE SelectPlatform(Body[d], wanted)
Resolve(a) ==
  /\ phase[a] = "reading"
  /\ LET asked == IF Reference(a) = "tag" THEN tag ELSE Reference(a) IN
       \E config \in {ConfigOf(asked, Wants[a]), None} :
         LET found == IF resolved[Key(a)] # None THEN resolved[Key(a)][1] ELSE config IN
           /\ resolved' = [resolved EXCEPT ![Key(a)] = <<found>>]
           /\ digests' = IF digests # None THEN digests ELSE asked
           /\ Facts(a, found)
           /\ facts' = IF Storable(a) /\ found # None THEN [facts EXCEPT ![Key(a)] = found] ELSE facts
  /\ UNCHANGED <<world, identities, holder, mappings, top, answer>>
-----------------------------------------------------------------------------
MoveTag ==
  /\ moves < MaxMoves /\ moves' = moves + 1
  /\ tag' \in Tops \ {tag} /\ pointed' = pointed \cup {tag'}
  /\ UNCHANGED <<runs, memos, mappings, facts, phase, top, answer, read>>

\* The next command: its memory is empty, the store is the user's.
NextRun ==
  /\ runs < MaxRuns /\ runs' = runs + 1 /\ \A a \in Askers : phase[a] = "done"
  /\ identities' = NoIdentity /\ holder' = NoIdentity
  /\ resolved' = NothingRead /\ digests' = None
  /\ phase' = [a \in Askers |-> "start"]
  /\ top' = OfNobody /\ answer' = OfNobody /\ read' = OfNobody
  /\ UNCHANGED <<tag, pointed, moves, mappings, facts>>

Step(a) ==
  Enter(a) \/ Head(a) \/ Fetch(a) \/ FetchConfig(a) \/ Inspect(a) \/ Resolve(a)
Next == MoveTag \/ NextRun \/ \E a \in Askers : Step(a)
\* A request is answered or times out.
Spec == Init /\ [][Next]_vars /\ \A a \in Askers : WF_vars(Step(a))
-----------------------------------------------------------------------------
(***************************************************************************)
(* What is confirmed is true of what the tag once pointed at: the manifest *)
(* is the image itself, or the one entry of the index that this platform   *)
(* means; in what a run was given and in what later ones will be given.    *)
(***************************************************************************)
Means(i, p) ==
  /\ IF i.index = None THEN i.manifest \in pointed
     ELSE /\ i.index \in pointed
          /\ \E e \in Body[i.index].entries : e.digest = i.manifest
  /\ Satisfies(p, Body[i.manifest])
  /\ \A e \in IF i.index = None THEN {} ELSE Matching(Body[i.index], p) :
       e.digest # i.manifest => Body[i.manifest].variant \in {"", Default[p.arch]}
ConfirmedIsPublished ==
  /\ \A a \in Askers : answer[a] # None /\ Confirmed(answer[a]) => Means(answer[a], Wants[a])
  /\ \A d \in Digests, p \in Platforms :
       LET i == mappings[<<d, p>>] IN i # None => Means(i, p) /\ d \in {i.index, i.manifest}

\* A run has one answer for a tag and a platform, whoever asks, whenever, and
\* wherever the tag has gone since.
OneIdentityPerRun ==
  \A a, b \in Askers :
    Wants[a] = Wants[b] /\ answer[a] # None /\ answer[b] # None => answer[a] = answer[b]

\* Facts that later runs will read are those of that very image and of the
\* platform they are kept for.
StoredFactsAreOfThePlatform ==
  \A d \in Digests, p \in Platforms :
    facts[<<d, p>>] # None => facts[<<d, p>>] = d /\ Satisfies(p, Body[d])

\* Nobody waits for ever behind the lock of a tag.
Settled == \A a \in Askers : phase[a] = "done"
EveryAskerServed == []<>Settled
-----------------------------------------------------------------------------
\* "The config that is read is the one of `platform`'s manifest."
\* The code does not keep it: an identity that could not be resolved leaves the
\* tag as the reference, whose configuration is the default platform's.
FactsAreOfThePlatform ==
  \A a \in Askers : read[a] # None => Satisfies(Wants[a], Body[read[a]])
==============================================================================
