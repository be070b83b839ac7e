------------------------------ MODULE Listings ------------------------------
(***************************************************************************)
(* The tags of one repository: OCIRegistryClient.list_tags, which pages    *)
(* through a listing and remembers it for the run, for callers that are    *)
(* content with some tags and callers that need them all.                  *)
(***************************************************************************)
EXTENDS Integers, FiniteSets, Sequences

CONSTANTS
  Searchers,  \* callers with a stop_when: search_tags
  Verifiers,  \* callers without one: tag_exists, get_image_metadata
  Asked,      \* verifier -> the tag it asks about
  Pages,      \* the pages that the registry serves, sets of tags
  MaxPages,   \* MAX_TAG_PAGES
  Enough,     \* tags that content a searcher
  None,
  Absent      \* not cached

Callers == Searchers \cup Verifiers
Published == UNION {Pages[i] : i \in DOMAIN Pages}

\* A caller has a stop_when or not; a registry that answers serves a page.
ListingsAssumption ==
  /\ Searchers \cap Verifiers = {}
  /\ Pages \in Seq(SUBSET Published) /\ Pages # <<>>
  /\ None # Absent /\ \A S \in SUBSET Published : S # None /\ S # Absent

VARIABLES
  listing,  \* _listings: Absent, None (cached failure) or the tags
  complete, \* _complete has the repository
  holder,   \* its lock
  phase,    \* caller: "start", "locked", "paging", "done"
  tags,     \* caller: what it has gathered
  page,     \* caller: pages it has read
  answer,   \* caller: the payload that it was given
  cut,      \* history: a page failed, or the pages were too many
  refused   \* history: the first page failed

vars == <<listing, complete, holder, phase, tags, page, answer, cut, refused>>

Init ==
  /\ listing = Absent /\ complete = FALSE /\ holder = None /\ cut = FALSE /\ refused = FALSE
  /\ phase = [c \in Callers |-> "start"] /\ tags = [c \in Callers |-> {}]
  /\ page = [c \in Callers |-> 0] /\ answer = [c \in Callers |-> Absent]

To(c, p) == phase' = [phase EXCEPT ![c] = p]
StopWhen(c, ts) == c \in Searchers /\ ts # None /\ Cardinality(ts) >= Enough

\* What is cached answers whoever wants everything only if it is everything.
UsableToAll(c) == listing # Absent
CachedIfUsable(c) ==
  /\ listing # Absent
  /\ complete \/ listing = None \/ StopWhen(c, listing)

Give(c, payload) == answer' = [answer EXCEPT ![c] = payload] /\ To(c, "done")

FromCache(c) ==
  /\ phase[c] = "start" /\ CachedIfUsable(c)
  /\ Give(c, listing)
  /\ UNCHANGED <<listing, complete, holder, tags, page, cut, refused>>

\* A concurrent caller may have filled it while this one waited for the lock.
Lock(c) ==
  /\ phase[c] = "start" /\ ~CachedIfUsable(c)
  /\ To(c, "waiting")
  /\ UNCHANGED <<listing, complete, holder, tags, page, answer, cut, refused>>
LookAgain(c) ==
  /\ phase[c] = "waiting" /\ holder = None
  /\ IF CachedIfUsable(c) THEN Give(c, listing) /\ UNCHANGED holder
     ELSE holder' = c /\ To(c, "first") /\ UNCHANGED answer
  /\ UNCHANGED <<listing, complete, tags, page, cut, refused>>

\* A listing without a stop_when is complete, whatever ended it.
Complete(c, next) == c \in Verifiers \/ ~next
Cached(c, payload, next) ==
  /\ listing' = payload /\ complete' = Complete(c, next)
  /\ holder' = None
  /\ Give(c, payload)
HasNext(n) == n < Len(Pages)
\* The first page: nothing is known without it, 404 or unreachable.
First(c) ==
  /\ phase[c] = "first"
  /\ \/ /\ Cached(c, None, FALSE) /\ refused' = TRUE
        /\ UNCHANGED <<tags, page>>
     \/ /\ tags' = [tags EXCEPT ![c] = Pages[1]] /\ page' = [page EXCEPT ![c] = 1]
        /\ To(c, "paging")
        /\ UNCHANGED <<listing, complete, holder, answer, refused>>
  /\ UNCHANGED cut

\* A later page that is refused ends the loop with what was gathered; a
\* broken connection loses everything.
NextPage(c) ==
  /\ phase[c] = "paging" /\ HasNext(page[c]) /\ ~StopWhen(c, tags[c]) /\ page[c] < MaxPages
  /\ \/ /\ tags' = [tags EXCEPT ![c] = @ \cup Pages[page[c] + 1]]
        /\ page' = [page EXCEPT ![c] = @ + 1]
        /\ UNCHANGED <<listing, complete, holder, phase, answer, cut, refused>>
     \/ /\ Cached(c, tags[c], TRUE) /\ cut' = TRUE
        /\ UNCHANGED <<tags, page, refused>>
     \/ /\ Cached(c, None, FALSE) /\ refused' = TRUE
        /\ UNCHANGED <<tags, page, cut>>

LastPage(c) ==
  /\ phase[c] = "paging"
  /\ ~HasNext(page[c]) \/ StopWhen(c, tags[c]) \/ page[c] >= MaxPages
  /\ Cached(c, tags[c], HasNext(page[c]))
  /\ cut' = (cut \/ (HasNext(page[c]) /\ ~StopWhen(c, tags[c])))
  /\ UNCHANGED <<tags, page, refused>>

Step(c) == \/ FromCache(c) \/ Lock(c) \/ LookAgain(c)
           \/ First(c) \/ NextPage(c) \/ LastPage(c)
Next == \E c \in Callers : Step(c)
Spec == Init /\ [][Next]_vars /\ \A c \in Callers : WF_vars(Step(c))
-----------------------------------------------------------------------------
Ended(c) == phase[c] = "done"
\* tag_exists: None for a listing that could not be had, else what it says.
TagExists(v) == IF answer[v] = None THEN "unknown" ELSE IF Asked[v] \in answer[v] THEN "yes" ELSE "no"
\* A tag is denied only if the registry does not have it, although another
\* caller stopped early and left what it had; while no page is refused.
DeniedIfAbsent ==
  \A v \in Verifiers :
    Ended(v) => /\ TagExists(v) = "no" /\ ~cut => Asked[v] \notin Published
                /\ TagExists(v) = "unknown" => refused

\* Everyone gets a listing, or its failure, behind the lock of whoever lists.
Settled == \A c \in Callers : Ended(c)
EveryoneListed == []<>Settled
-----------------------------------------------------------------------------
\* "Tag does not exist" is said of tags that do not exist.
\* The code does not keep it: a listing counts as whole although a later page
\* was refused, or the limit of pages cut it short.
TagNotFoundIsTrue ==
  \A v \in Verifiers : Ended(v) /\ TagExists(v) = "no" => Asked[v] \notin Published
==============================================================================
