---------------------------- MODULE Publication -----------------------------
(***************************************************************************)
(* How generated knowledge reaches the wiki (openkb/knowledge_commit.py,   *)
(* openkb/source_refs.py), and what keeps it from the words people wrote   *)
(* there.                                                                  *)
(*                                                                         *)
(* One session at a time holds the write lease of the knowledge base, from *)
(* the snapshot it generates from to the end of its publication; it may    *)
(* end at any step.  The proposals it leaves are published by later ones.  *)
(* People edit pages whenever they like: their editors know no lease.      *)
(*                                                                         *)
(* Abstractions.  A page is its contributions, one for each source, the    *)
(* rest of it, and its links; a digest is the content it names.  The       *)
(* summary of a source is the page of the same name.  The basis of a       *)
(* source is its current version with the selected parsing and the         *)
(* settings: everything but the wiki that a generation is bound to.  The   *)
(* mutation scope is the one of Mutation, seen from outside: what it did   *)
(* is undone unless it commits.  A receipt without an ownership record, as *)
(* earlier versions of the program left them, is left out.                 *)
(***************************************************************************)
EXTENDS Naturals, FiniteSets

CONSTANTS
    Source,
    Concept,       \* pages of topics
    Basis,
    Generated,     \* what a model may write
    None,          \* no such page, record or session
    MaxProposals,  \* bounds: how many proposals there are,
    MaxEvents      \* and how often people edit or a basis changes

ASSUME PublicationAssumption ==
    /\ Source \cap Concept = {} /\ None \notin Source \cup Concept \cup Basis
    /\ Generated \cap {"none", "edited"} = {}
    /\ MaxProposals \in Nat /\ MaxEvents \in Nat

Page == Concept \cup Source
Text == Generated \cup {"none", "edited"}
Content == [range : [Source -> Text], rest : {"plain", "note"}, links : SUBSET Concept]
Wiki == [Page -> Content \cup {None}]

(* The backups of a mutation scope: the pages it names, and the records.   *)
Journal == [pages : SUBSET Page, wiki : Wiki, baselines : Wiki,
            ownership : [Source -> Wiki], receipt : [Source -> Wiki],
            registry : [Source -> Basis \cup {None}]]

ASSUME NoneAssumption == None \notin Content /\ None \notin Journal

(* What people wrote on a page. *)
Edits(c) ==
    IF c = None THEN {}
    ELSE {s \in Source : c.range[s] = "edited"} \cup {n \in {"rest"} : c.rest = "note"}

VARIABLES
    wiki,
    baselines,    \* what publications last wrote on each page
    ownership,    \* and what those of each source did
    receipt,      \* the ownership its last publication recorded
    registry,     \* the basis that was published of each source
    basis,        \* the one it has now
    proposals, accepted,
    journal,      \* the backups of an open mutation scope
    pc, work, todo,    \* the session: where, on what, the pages still to copy
    checked,      \* the wiki its checks saw
    events         \* how often that was so far

records == <<baselines, ownership, receipt, registry>>
session == <<pc, work, todo, checked>>
vars == <<wiki, baselines, ownership, receipt, registry, basis, proposals, accepted,
          journal, pc, work, todo, checked, events>>

TypeOK ==
    /\ wiki \in Wiki /\ baselines \in Wiki
    /\ ownership \in [Source -> Wiki] /\ receipt \in [Source -> Wiki]
    /\ registry \in [Source -> Basis \cup {None}] /\ basis \in [Source -> Basis]
    /\ \A p \in proposals :
        /\ DOMAIN p.changes \subseteq Page /\ p.before \in Wiki
        /\ p.protected \subseteq {n \in DOMAIN p.changes : p.before[n] # None}
    /\ Cardinality(proposals) <= MaxProposals /\ accepted \subseteq proposals
    /\ pc \in {"idle", "compile", "accept", "publish", "open", "copy",
               "registry", "ownership", "receipt", "commit"}
    /\ pc \in {"idle", "compile"} \/ work \in proposals
    /\ todo \subseteq Page /\ (pc # "copy" => todo = {})
    /\ journal \in Journal \cup {None}
    /\ events \in 0..MaxEvents

Nothing == [n \in Page |-> None]

Init ==
    /\ wiki = Nothing /\ baselines = Nothing
    /\ ownership = [s \in Source |-> Nothing] /\ receipt = [s \in Source |-> Nothing]
    /\ registry = [s \in Source |-> None] /\ basis \in [Source -> Basis]
    /\ proposals = {} /\ accepted = {}
    /\ journal = None
    /\ pc = "idle" /\ work = None /\ todo = {} /\ checked = None
    /\ events = 0

Leave ==
    /\ pc' = "idle" /\ work' = None /\ todo' = {} /\ checked' = None

-----------------------------------------------------------------------------
(* Outside the session. *)

Blank == [range |-> [s \in Source |-> "none"], rest |-> "plain", links |-> {}]

(* A person writes on a page, makes one, or deletes one. *)
Edit(n) ==
    /\ events < MaxEvents /\ events' = events + 1
    /\ LET c == IF wiki[n] = None THEN Blank ELSE wiki[n]
           touched == {[c EXCEPT !.range[s] = "edited"] : s \in {q \in Source : c.range[q] # "none"}}
       IN  \E new \in touched \cup {[c EXCEPT !.rest = "note"], None} :
               wiki' = [wiki EXCEPT ![n] = new]
    /\ UNCHANGED <<records, basis, proposals, accepted, journal, session>>

(* A source is read again, parsed again, or its settings change. *)
Rebase(s) ==
    /\ pc = "idle" /\ journal = None
    /\ events < MaxEvents /\ events' = events + 1
    /\ \E b \in Basis \ {basis[s]} : basis' = [basis EXCEPT ![s] = b]
    /\ UNCHANGED <<wiki, records, proposals, accepted, journal, session>>

(* A session ends in the middle; an open scope stays behind, *)
Stop ==
    /\ pc # "idle"
    /\ Leave
    /\ UNCHANGED <<wiki, records, basis, proposals, accepted, journal, events>>

(* until it is undone: every file it named gets its backup back.          *)
UndoOthers ==
    /\ pc = "idle" /\ journal # None /\ journal' = None
    /\ wiki' = [n \in Page |-> IF n \in journal.pages THEN journal.wiki[n] ELSE wiki[n]]
    /\ baselines' = journal.baselines
    /\ receipt' = journal.receipt /\ registry' = journal.registry
    /\ UNCHANGED <<basis, proposals, accepted, session, events>>

UndoPartly ==    \* Mutant: the scope does not name the ownership
    /\ UndoOthers
    /\ UNCHANGED ownership

Undo ==
    /\ UndoOthers
    /\ ownership' = journal.ownership

-----------------------------------------------------------------------------
(* Generation. *)

(* KnowledgeWorkspace: a private copy of the wiki.  The ownership record   *)
(* of the source has to be the one its last publication left.              *)
Enter(s) ==
    /\ pc = "idle" /\ journal = None
    /\ receipt[s] = ownership[s]
    /\ pc' = "compile" /\ work' = [source |-> s, before |-> wiki]
    /\ UNCHANGED <<wiki, records, basis, proposals, accepted, journal, todo, checked, events>>

(* retract_retired_topics: the contribution leaves the page, and the page  *)
(* goes if nothing else is on it.                                          *)
Retract(c, s) ==
    LET rest == [c EXCEPT !.range[s] = "none"]
    IN  IF rest.range = Blank.range /\ rest.rest = "plain" THEN None ELSE rest

(* The page of a topic: only the contribution of the source is replaced.   *)
Contribute(c, s, text) ==
    [(IF c = None THEN Blank ELSE c) EXCEPT !.range[s] = text]

(* compile_evidence: the topics the source has now, and its new summary.   *)
(* Navigation to the pages that went is removed from all others.           *)
Compiled(before, s, topics, text) ==
    LET written == [n \in Page |->
            CASE n = s -> [Contribute(None, s, text) EXCEPT !.links = topics]
              [] n \in topics -> Contribute(before[n], s, text)
              [] n \in Concept \ topics /\ before[n] # None /\ before[n].range[s] # "none"
                   -> Retract(before[n], s)
              [] OTHER -> before[n]]
        withdrawn == {n \in Page : before[n] # None /\ written[n] = None}
    IN  [n \in Page |-> IF written[n] = None THEN None
                        ELSE [written[n] EXCEPT !.links = @ \ withdrawn]]

(* requires_review: the part of the page that is the source's own is not   *)
(* what the source published.                                              *)
RequiresReview(s, n, previous) ==
    LET own == ownership[s][n]
    IN  IF n \in Source
        THEN own # previous /\ (own = None \/ n = s)
        ELSE previous.range[s] # (IF own = None THEN "none" ELSE own.range[s])

ProtectedByBaseline(s, n, previous) ==    \* Mutant: the ownership is not asked
    previous # None /\ baselines[n] # previous

Protected(s, n, previous) ==
    previous # None /\ (baselines[n] # previous \/ RequiresReview(s, n, previous))

(* proposal: what the generation changes.  A page that would get the very  *)
(* bytes this source gave it before stays as people have edited it since.  *)
Propose ==
    /\ pc = "compile"
    /\ \E topics \in SUBSET Concept, text \in Generated :
        LET s == work.source
            before == work.before
            after == Compiled(before, s, topics, text)
            changed == {n \in Page : after[n] # before[n]
                          /\ ~(before[n] # None /\ after[n] # None /\ after[n] = ownership[s][n])}
            new == [source |-> s, basis |-> basis[s], before |-> before, registry |-> registry,
                    changes |-> [n \in changed |-> after[n]],
                    protected |-> {n \in changed : Protected(s, n, before[n])}]
        IN  /\ proposals' = proposals \cup {new}
            /\ Cardinality(proposals') <= MaxProposals
            /\ pc' = "publish" /\ work' = new
    /\ UNCHANGED <<wiki, records, basis, accepted, journal, todo, checked, events>>

-----------------------------------------------------------------------------
(* Publication. *)

(* continue_source: a later session takes up a proposal that was left.     *)
Continue(p) ==
    /\ pc = "idle" /\ journal = None
    /\ pc' \in {"accept", "publish"} /\ work' = p
    /\ UNCHANGED <<wiki, records, basis, proposals, accepted, journal, todo, checked, events>>

InputsMatchRecords(p) ==    \* Mutant: the wiki is not compared
    registry = p.registry /\ basis[p.source] = p.basis

InputsMatch(p) ==
    registry = p.registry /\ basis[p.source] = p.basis /\ wiki = p.before

(* accept_proposal: a person accepts all the protected differences at once. *)
Accept ==
    /\ pc = "accept"
    /\ IF InputsMatch(work)
       THEN /\ accepted' = accepted \cup {work} /\ pc' = "publish"
            /\ UNCHANGED <<work, todo, checked>>
       ELSE Leave /\ UNCHANGED accepted
    /\ UNCHANGED <<wiki, records, basis, proposals, journal, events>>

(* publish_proposal: nothing happens unless all inputs are what they were, *)
(* and what is protected has been accepted.                                *)
Check ==
    /\ pc = "publish"
    /\ IF InputsMatch(work) /\ (work.protected = {} \/ work \in accepted)
       THEN pc' = "open" /\ checked' = wiki /\ UNCHANGED <<work, todo>>
       ELSE Leave
    /\ UNCHANGED <<wiki, records, basis, proposals, accepted, journal, events>>

Backup == [pages |-> DOMAIN work.changes, wiki |-> wiki, baselines |-> baselines,
           ownership |-> ownership, receipt |-> receipt, registry |-> registry]

Open ==
    /\ pc = "open"
    /\ journal' = Backup
    /\ pc' = "copy" /\ todo' = DOMAIN work.changes
    /\ UNCHANGED <<wiki, records, basis, proposals, accepted, work, checked, events>>

Copy(n) ==
    /\ pc = "copy" /\ n \in todo
    /\ wiki' = [wiki EXCEPT ![n] = work.changes[n]]
    /\ todo' = todo \ {n}
    /\ UNCHANGED <<records, basis, proposals, accepted, journal, pc, work, checked, events>>

Written(old) == [n \in Page |-> IF n \in DOMAIN work.changes THEN work.changes[n] ELSE old[n]]

WriteBaselines ==
    /\ pc = "copy" /\ todo = {}
    /\ baselines' = Written(baselines)
    /\ pc' = "registry"
    /\ UNCHANGED <<wiki, ownership, receipt, registry, basis, proposals, accepted, journal,
                    work, todo, checked, events>>

WriteRegistry ==
    /\ pc = "registry"
    /\ registry' = [registry EXCEPT ![work.source] = work.basis]
    /\ pc' = "ownership"
    /\ UNCHANGED <<wiki, baselines, ownership, receipt, basis, proposals, accepted, journal,
                    work, todo, checked, events>>

(* The source owns what its publications wrote, not what they found.       *)
AuthoredWithInputs ==    \* Mutant: the pages the generation started from, too
    [n \in Page |-> IF n \in DOMAIN work.changes THEN work.changes[n]
                    ELSE IF work.before[n] # None THEN work.before[n]
                    ELSE ownership[work.source][n]]

Authored == Written(ownership[work.source])

WriteOwnership ==
    /\ pc = "ownership"
    /\ ownership' = [ownership EXCEPT ![work.source] = Authored]
    /\ pc' = "receipt"
    /\ UNCHANGED <<wiki, baselines, receipt, registry, basis, proposals, accepted, journal,
                    work, todo, checked, events>>

WriteReceipt ==
    /\ pc = "receipt"
    /\ receipt' = [receipt EXCEPT ![work.source] = ownership[work.source]]
    /\ pc' = "commit"
    /\ UNCHANGED <<wiki, baselines, ownership, registry, basis, proposals, accepted, journal,
                    work, todo, checked, events>>

Commit ==
    /\ pc = "commit"
    /\ journal' = None
    /\ Leave
    /\ UNCHANGED <<wiki, records, basis, proposals, accepted, events>>

Publish == Check \/ Open \/ WriteBaselines \/ WriteRegistry \/ WriteOwnership \/ WriteReceipt \/ Commit

Next ==
    \/ \E n \in Page : Edit(n) \/ Copy(n)
    \/ \E s \in Source : Rebase(s) \/ Enter(s)
    \/ \E p \in proposals : Continue(p)
    \/ Propose \/ Accept \/ Publish \/ Stop \/ Undo

Spec == Init /\ [][Next]_vars

-----------------------------------------------------------------------------
(* Properties. *)

(* Copying is over or has not begun for every page outside todo.           *)
Copies(n) == n \in todo \ todo' /\ pc = "copy" /\ pc' = "copy"

(* What people had written on a page when the publication checked the      *)
(* wiki is on it afterwards, unless the page was shown to them as          *)
(* protected and they accepted that very proposal: also after the          *)
(* accepted publication of another source made an edited page the          *)
(* baseline (protected, knowledge_commit.py; requires_review,              *)
(* source_refs.py).                                                        *)
NoEditLost == [][\A n \in Page : Copies(n) =>
    Edits(checked[n]) \subseteq Edits(wiki'[n]) \/ (n \in work.protected /\ work \in accepted)]_vars

(* The publication of a source leaves the contributions of all others as   *)
(* they were when it checked, however long its proposal had waited         *)
(* (_inputs_match).                                                        *)
RangeOf(c) == IF c = None THEN Blank.range ELSE c.range

OthersUntouched == [][\A n \in Page : Copies(n) =>
    \A q \in Source \ {work.source} : RangeOf(wiki'[n])[q] = RangeOf(checked[n])[q]]_vars

(* A source never counts as its own words that people wrote: what they     *)
(* edit stays foreign to it through any number of publications (authored,  *)
(* publish_proposal).                                                      *)
OwnershipEarned == \A s \in Source, n \in Page : RangeOf(ownership[s][n])[s] # "edited"

(* Wherever a session ended, once its scope is undone the ownership of     *)
(* each source is the one its receipt names: the next session of the       *)
(* source can begin (SourceOwnership.__init__ refuses any other).          *)
OwnershipMatchesReceipt == journal = None => ownership = receipt
=============================================================================
