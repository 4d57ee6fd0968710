--------------------------- MODULE PublicationProof ---------------------------
(***************************************************************************)
(* For any sources, topics, texts and number of proposals: publications    *)
(* lose no edit, touch no contribution of another source, and leave each   *)
(* source with the ownership its receipt names, which holds none of the    *)
(* words of people.                                                        *)
(*                                                                         *)
(* What a proposal does to a page is settled when it is generated, from    *)
(* the ownership of that moment: Well says it without the ownership, so    *)
(* that it still holds when a later session publishes it.                  *)
(***************************************************************************)
EXTENDS Publication, FiniteSetTheorems, TLAPS

(* On the summary of a source nobody else has a contribution. *)
Summary(n, c) == n \in Source /\ c # None => \A q \in Source \ {n} : c.range[q] = "none"
Summaries(w) == \A n \in Page : Summary(n, w[n])

(* What a publication of s may do to page n. *)
Mild(s, n, old, new) ==
    /\ new \in Content \cup {None} /\ Summary(n, new)
    /\ RangeOf(new)[s] # "edited" /\ (n = s => Edits(new) = {})
    /\ \A q \in Source \ {s} : RangeOf(new)[q] = RangeOf(old)[q]

Well(p) ==
    /\ p.source \in Source /\ p.basis \in Basis
    /\ p.registry \in [Source -> Basis \cup {None}]
    /\ p.before \in Wiki /\ Summaries(p.before)
    /\ DOMAIN p.changes \subseteq Page
    /\ p.protected \subseteq {n \in DOMAIN p.changes : p.before[n] # None}
    /\ \A n \in DOMAIN p.changes :
           /\ Mild(p.source, n, p.before[n], p.changes[n])
           /\ n \in p.protected \/ Edits(p.before[n]) \subseteq Edits(p.changes[n])

Unopened == {"compile", "accept", "publish", "open"}
Opened == {"copy", "registry", "ownership", "receipt", "commit"}

Earned(own) ==
    /\ own \in [Source -> Wiki]
    /\ \A s \in Source, n \in Page :
           RangeOf(own[s][n])[s] # "edited" /\ (n = s => Edits(own[s][n]) = {})

TypeInv ==
    /\ wiki \in Wiki /\ Summaries(wiki) /\ baselines \in Wiki
    /\ registry \in [Source -> Basis \cup {None}] /\ basis \in [Source -> Basis]
    /\ accepted \subseteq proposals /\ Cardinality(proposals) <= MaxProposals
    /\ pc \in {"idle"} \cup Unopened \cup Opened
    /\ pc \in {"idle", "compile"} \/ work \in proposals
    /\ todo \subseteq Page /\ (pc # "copy" => todo = {})
    /\ events \in 0..MaxEvents

ProposalInv == \A p \in proposals : Well(p)

SessionInv ==
    /\ pc = "compile" =>
           /\ work.source \in Source /\ work.before \in Wiki /\ Summaries(work.before)
    /\ pc \in {"open"} \cup Opened =>
           checked = work.before /\ (work.protected = {} \/ work \in accepted)
    /\ pc = "copy" => todo \subseteq DOMAIN work.changes

JournalInv ==
    /\ journal \in Journal \cup {None}
    /\ pc \in Unopened => journal = None
    /\ pc \in Opened => journal # None
    /\ journal # None =>
           /\ Summaries(journal.wiki) /\ Earned(journal.ownership)
           /\ journal.ownership = journal.receipt

OwnershipInv ==
    /\ Earned(ownership)
    /\ pc \in Opened \ {"receipt"} \/ journal = None => ownership = receipt
    /\ receipt \in [Source -> Wiki]
    /\ pc = "receipt" => \A s \in Source \ {work.source} : receipt[s] = ownership[s]

IInv == TypeInv /\ ProposalInv /\ SessionInv /\ JournalInv /\ OwnershipInv

-----------------------------------------------------------------------------
(* Pages.                                                                  *)

USE PublicationAssumption, NoneAssumption

LEMMA BlankPage ==
    Blank \in Content /\ RangeOf(None) = Blank.range /\ Edits(None) = {}
BY DEF Blank, Content, Text, RangeOf, Edits

LEMMA Pages == ASSUME NEW c \in Content
    PROVE  c # None /\ RangeOf(c) = c.range /\ c.range \in [Source -> Text]
BY DEF Content, RangeOf

LEMMA Contributed ==
    ASSUME NEW c \in Content \cup {None}, NEW s \in Source, NEW text \in Text
    PROVE  /\ Contribute(c, s, text) \in Content
           /\ Contribute(c, s, text).range[s] = text
           /\ \A q \in Source \ {s} : Contribute(c, s, text).range[q] = RangeOf(c)[q]
           /\ Contribute(c, s, text).rest = IF c = None THEN "plain" ELSE c.rest
<1> DEFINE base == IF c = None THEN Blank ELSE c
<1>1. base \in Content /\ RangeOf(c) = base.range
  BY BlankPage, Pages
<1>2. base.rest = IF c = None THEN "plain" ELSE c.rest
  BY DEF Blank
<1>3. Contribute(c, s, text) = [base EXCEPT !.range[s] = text]
  BY DEF Contribute
<1> HIDE DEF base
<1> QED  BY <1>1, <1>2, <1>3 DEF Content

LEMMA Retracted ==
    ASSUME NEW c \in Content, NEW s \in Source
    PROVE  /\ Retract(c, s) \in Content \cup {None}
           /\ RangeOf(Retract(c, s))[s] = "none"
           /\ \A q \in Source \ {s} : RangeOf(Retract(c, s))[q] = c.range[q]
           /\ c.range[s] # "edited" => Edits(c) \subseteq Edits(Retract(c, s))
<1> DEFINE less == [c EXCEPT !.range[s] = "none"]
<1>1. /\ less \in Content /\ less.range[s] = "none" /\ less.rest = c.rest
      /\ \A q \in Source \ {s} : less.range[q] = c.range[q]
  BY DEF Content, Text
<1>2. c.range[s] # "edited" => Edits(c) \subseteq Edits(less)
  BY <1>1, Pages DEF Edits
<1>3. Retract(c, s) = IF less.range = Blank.range /\ less.rest = "plain" THEN None ELSE less
  BY DEF Retract
<1> HIDE DEF less
<1>4. CASE less.range = Blank.range /\ less.rest = "plain"
  <2>1. Edits(less) = {}
    BY <1>1, <1>4, Pages DEF Edits, Blank
  <2> QED  BY <1>1, <1>2, <1>3, <1>4, <2>1, BlankPage DEF Edits
<1>5. CASE ~(less.range = Blank.range /\ less.rest = "plain")
  BY <1>1, <1>2, <1>3, <1>5, Pages
<1> QED  BY <1>4, <1>5

LEMMA Unlinked ==
    ASSUME NEW c \in Content, NEW gone
    PROVE  /\ [c EXCEPT !.links = @ \ gone] \in Content
           /\ [c EXCEPT !.links = @ \ gone].range = c.range
           /\ [c EXCEPT !.links = @ \ gone].rest = c.rest
BY DEF Content

LEMMA SameWords ==
    ASSUME NEW c \in Content, NEW d \in Content, d.range = c.range, d.rest = c.rest
    PROVE  Edits(d) = Edits(c) /\ RangeOf(d) = RangeOf(c)
BY Pages DEF Edits

(* The page before navigation to what went is removed from it.             *)
WrittenPage(c, s, topics, text, n) ==
    CASE n = s -> [Contribute(None, s, text) EXCEPT !.links = topics]
      [] n \in topics -> Contribute(c, s, text)
      [] n \in Concept \ topics /\ c # None /\ c.range[s] # "none" -> Retract(c, s)
      [] OTHER -> c

(* What was not shown: nothing of the source's own on it is edited.        *)
Clean(s, n, c) == c = None \/ Edits(c) = {} \/ (n # s /\ c.range[s] # "edited")

LEMMA WrittenMild ==
    ASSUME NEW n \in Page, NEW c \in Content \cup {None}, Summary(n, c),
           NEW s \in Source, NEW topics \in SUBSET Concept, NEW text \in Generated,
           NEW new, new = WrittenPage(c, s, topics, text, n)
    PROVE  Mild(s, n, c, new) /\ (Clean(s, n, c) => Edits(c) \subseteq Edits(new))
<1>t. text \in Text /\ text # "edited" /\ text # "none"
  BY DEF Text
<1>1. CASE n = s
  <2> DEFINE sum == Contribute(None, s, text)
  <2>1. new = [sum EXCEPT !.links = topics]
    BY <1>1 DEF WrittenPage
  <2>2. /\ sum \in Content /\ sum.range[s] = text /\ sum.rest = "plain"
        /\ \A q \in Source \ {s} : sum.range[q] = "none"
    BY <1>t, Contributed, BlankPage DEF Blank
  <2> HIDE DEF sum
  <2>3. new \in Content /\ new.range = sum.range /\ new.rest = "plain"
    BY <2>1, <2>2 DEF Content
  <2>4. Edits(new) = {} /\ RangeOf(new) = sum.range
    BY <1>t, <2>2, <2>3, Pages DEF Edits
  <2>5. \A q \in Source \ {s} : RangeOf(c)[q] = "none"
    BY <1>1, BlankPage, Pages DEF Summary, Blank
  <2>6. Clean(s, n, c) => Edits(c) = {}
    BY <1>1, BlankPage DEF Clean
  <2> QED  BY <1>1, <1>t, <2>2, <2>3, <2>4, <2>5, <2>6 DEF Mild, Summary
<1>2. CASE n # s /\ n \in topics
  <2>1. new = Contribute(c, s, text)
    BY <1>2 DEF WrittenPage
  <2>2. /\ new \in Content /\ new.range[s] = text
        /\ \A q \in Source \ {s} : new.range[q] = RangeOf(c)[q]
        /\ new.rest = IF c = None THEN "plain" ELSE c.rest
    BY <1>t, <2>1, Contributed
  <2>3. n \notin Source
    BY <1>2
  <2>4. RangeOf(new) = new.range
    BY <2>2, Pages
  <2>5. Clean(s, n, c) => Edits(c) \subseteq Edits(new)
    <3>1. CASE c = None \/ Edits(c) = {}
      BY <3>1, BlankPage
    <3>2. CASE c # None /\ c.range[s] # "edited"
      <4>1. \A q \in Source : c.range[q] = "edited" => new.range[q] = "edited"
        BY <2>2, <3>2, Pages
      <4> QED  BY <2>2, <3>2, <4>1, Pages DEF Edits
    <3> QED  BY <3>1, <3>2 DEF Clean
  <2> QED  BY <1>2, <1>t, <2>2, <2>3, <2>4, <2>5 DEF Mild, Summary
<1>3. CASE n # s /\ n \notin topics /\ n \in Concept /\ c # None /\ c.range[s] # "none"
  <2>1. new = Retract(c, s)
    BY <1>3 DEF WrittenPage
  <2>2. n \notin Source
    BY <1>3
  <2>3. Clean(s, n, c) => Edits(c) \subseteq Edits(new)
    <3>1. CASE c.range[s] # "edited"
      BY <1>3, <2>1, <3>1, Retracted
    <3>2. CASE c.range[s] = "edited"
      <4>1. Edits(c) = {} => FALSE
        BY <1>3, <3>2 DEF Edits
      <4> QED  BY <1>3, <3>2, <4>1 DEF Clean
    <3> QED  BY <3>1, <3>2
  <2> QED  BY <1>3, <2>1, <2>2, <2>3, Retracted, Pages DEF Mild, Summary
<1>4. CASE n # s /\ n \notin topics /\ ~(n \in Concept /\ c # None /\ c.range[s] # "none")
  <2>1. new = c
    BY <1>4 DEF WrittenPage
  <2>2. RangeOf(c)[s] = "none"
    <3>1. CASE c = None
      BY <3>1, BlankPage DEF Blank
    <3>2. CASE c # None /\ n \in Source
      BY <1>4, <3>2, Pages DEF Summary
    <3>3. CASE c # None /\ n \in Concept
      BY <1>4, <3>3, Pages
    <3> QED  BY <3>1, <3>2, <3>3 DEF Page
  <2> QED  BY <1>4, <2>1, <2>2 DEF Mild
<1> QED  BY <1>1, <1>2, <1>3, <1>4

LEMMA CompiledMild ==
    ASSUME NEW before \in Wiki, Summaries(before), NEW s \in Source,
           NEW topics \in SUBSET Concept, NEW text \in Generated, NEW n \in Page,
           NEW new, new = Compiled(before, s, topics, text)[n]
    PROVE  /\ Mild(s, n, before[n], new)
           /\ Clean(s, n, before[n]) => Edits(before[n]) \subseteq Edits(new)
<1> DEFINE written == [m \in Page |-> WrittenPage(before[m], s, topics, text, m)]
           gone == {m \in Page : before[m] # None /\ written[m] = None}
<1>1. new = IF written[n] = None THEN None ELSE [written[n] EXCEPT !.links = @ \ gone]
  BY DEF Compiled, WrittenPage
<1>2. /\ Mild(s, n, before[n], written[n])
      /\ Clean(s, n, before[n]) => Edits(before[n]) \subseteq Edits(written[n])
  BY WrittenMild DEF Wiki, Summaries
<1> HIDE DEF written, gone
<1>3. CASE written[n] = None
  BY <1>1, <1>2, <1>3
<1>4. CASE written[n] # None
  <2>1. written[n] \in Content
    BY <1>2, <1>4 DEF Mild
  <2>2. /\ new \in Content /\ new.range = written[n].range
        /\ new.rest = written[n].rest
    BY <1>1, <1>4, <2>1, Unlinked
  <2>3. Edits(new) = Edits(written[n]) /\ RangeOf(new) = RangeOf(written[n])
    BY <2>1, <2>2, SameWords
  <2> QED  BY <1>2, <1>4, <2>1, <2>2, <2>3 DEF Mild, Summary
<1> QED  BY <1>3, <1>4

-----------------------------------------------------------------------------
(* The steps.                                                              *)

LEMMA InitInv == Init => IInv
<1> SUFFICES ASSUME Init PROVE IInv
  OBVIOUS
<1>1. Nothing \in Wiki /\ Summaries(Nothing) /\ \A n \in Page : Nothing[n] = None
  BY DEF Nothing, Wiki, Summaries, Summary
<1>2. TypeInv
  BY <1>1, FS_EmptySet DEF Init, TypeInv
<1>3. \A s \in Source, n \in Page : ownership[s][n] = None
  BY <1>1 DEF Init
<1>4. ownership \in [Source -> Wiki] /\ RangeOf(None) = Blank.range /\ Edits(None) = {}
  BY <1>1, BlankPage DEF Init
<1>5. Earned(ownership)
  BY <1>3, <1>4 DEF Earned, Blank
<1> QED  BY <1>1, <1>2, <1>5 DEF Init, IInv, ProposalInv, SessionInv, JournalInv, OwnershipInv, Unopened, Opened

LEMMA EditInv == ASSUME IInv, NEW n \in Page, Edit(n) PROVE IInv'
<1>1. PICK new \in Content \cup {None} : Summary(n, new) /\ wiki' = [wiki EXCEPT ![n] = new]
  <2> DEFINE c == IF wiki[n] = None THEN Blank ELSE wiki[n]
             marked(s) == [c EXCEPT !.range[s] = "edited"]
             noted == [c EXCEPT !.rest = "note"]
  <2>1. c \in Content /\ Summary(n, c)
    BY BlankPage DEF IInv, TypeInv, Wiki, Summaries, Summary, Blank
  <2>2. noted \in Content /\ Summary(n, noted)
    BY <2>1, Pages DEF Content, Summary
  <2>3. ASSUME NEW s \in Source, c.range[s] # "none"
        PROVE  marked(s) \in Content /\ Summary(n, marked(s))
    <3>1. marked(s) \in Content /\ marked(s).range = [c.range EXCEPT ![s] = "edited"]
      BY <2>1 DEF Content, Text
    <3>2. n \in Source => s = n
      BY <2>1, <2>3, Pages DEF Summary
    <3> HIDE DEF marked, c
    <3> QED  BY <2>1, <3>1, <3>2, Pages DEF Summary
  <2>4. Summary(n, None)
    BY DEF Summary
  <2> QED  BY <2>2, <2>3, <2>4 DEF Edit
<1>2. wiki' \in Wiki /\ Summaries(wiki')
  BY <1>1 DEF IInv, TypeInv, Wiki, Summaries
<1>3. events' \in 0..MaxEvents
  BY DEF Edit, IInv, TypeInv
<1> QED
  BY <1>2, <1>3 DEF Edit, IInv, TypeInv, ProposalInv, SessionInv, JournalInv, OwnershipInv, records, session

LEMMA RebaseInv == ASSUME IInv, NEW s \in Source, Rebase(s) PROVE IInv'
<1>1. basis' \in [Source -> Basis] /\ events' \in 0..MaxEvents
  BY DEF Rebase, IInv, TypeInv
<1> QED
  BY <1>1 DEF Rebase, IInv, TypeInv, ProposalInv, SessionInv, JournalInv, OwnershipInv, records, session

LEMMA StopInv == ASSUME IInv, Stop PROVE IInv'
BY DEF Stop, Leave, IInv, TypeInv, ProposalInv, SessionInv, JournalInv, OwnershipInv, records, Unopened, Opened

LEMMA UndoInv == ASSUME IInv, Undo PROVE IInv'
<1>1. journal \in Journal /\ Summaries(journal.wiki) /\ Earned(journal.ownership)
      /\ journal.ownership = journal.receipt
  BY DEF Undo, UndoOthers, IInv, JournalInv
<1>2. wiki' \in Wiki /\ Summaries(wiki')
  BY <1>1 DEF Undo, UndoOthers, IInv, TypeInv, Journal, Wiki, Summaries
<1> QED
  BY <1>1, <1>2 DEF Undo, UndoOthers, IInv, TypeInv, ProposalInv, SessionInv, JournalInv, OwnershipInv,
                    Journal, session, Unopened, Opened

LEMMA EnterInv == ASSUME IInv, NEW s \in Source, Enter(s) PROVE IInv'
BY DEF Enter, IInv, TypeInv, ProposalInv, SessionInv, JournalInv, OwnershipInv, records, Unopened, Opened

(* What is not protected has no edit that the generation could lose.       *)
LEMMA UnprotectedClean ==
    ASSUME IInv, NEW s \in Source, NEW n \in Page, NEW c \in Content \cup {None}, Summary(n, c),
           ~Protected(s, n, c)
    PROVE  Clean(s, n, c)
<1> SUFFICES ASSUME c # None PROVE Clean(s, n, c)
  BY DEF Clean
<1>1. ~RequiresReview(s, n, c)
  BY DEF Protected
<1>2. /\ ownership[s][n] \in Content \cup {None}
      /\ RangeOf(ownership[s][n])[s] # "edited" /\ (n = s => Edits(ownership[s][n]) = {})
  <2>1. ownership \in [Source -> [Page -> Content \cup {None}]]
    BY DEF IInv, OwnershipInv, Earned, Wiki
  <2>2. RangeOf(ownership[s][n])[s] # "edited" /\ (n = s => Edits(ownership[s][n]) = {})
    BY DEF IInv, OwnershipInv, Earned
  <2> QED  BY <2>1, <2>2
<1>3. CASE n = s
  BY <1>1, <1>2, <1>3 DEF RequiresReview, Clean
<1>4. CASE n # s
  <2>1. CASE n \in Source
    BY <1>4, <2>1, Pages DEF Summary, Clean
  <2>2. CASE n \in Concept
    BY <1>1, <1>2, <1>4, <2>2, Pages DEF RequiresReview, Clean
  <2> QED  BY <2>1, <2>2 DEF Page
<1> QED  BY <1>3, <1>4

LEMMA ProposeInv == ASSUME IInv, Propose PROVE IInv'
<1>1. PICK topics \in SUBSET Concept, text \in Generated :
        LET s == work.source
            before == work.before
            after == Compiled(before, s, topics, text)
            changed == {n \in Page : after[n] # before[n]
                          /\ ~(before[n] # None /\ after[n] # None /\ after[n] = ownership[s][n])}
            new == [source |-> s, basis |-> basis[s], before |-> before, registry |-> registry,
                    changes |-> [n \in changed |-> after[n]],
                    protected |-> {n \in changed : Protected(s, n, before[n])}]
        IN  /\ proposals' = proposals \cup {new}
            /\ Cardinality(proposals') <= MaxProposals
            /\ pc' = "publish" /\ work' = new
  BY Zenon DEF Propose
<1> DEFINE s == work.source
           before == work.before
           after == Compiled(before, s, topics, text)
           changed == {n \in Page : after[n] # before[n]
                        /\ ~(before[n] # None /\ after[n] # None /\ after[n] = ownership[s][n])}
           new == [source |-> s, basis |-> basis[s], before |-> before, registry |-> registry,
                   changes |-> [n \in changed |-> after[n]],
                   protected |-> {n \in changed : Protected(s, n, before[n])}]
<1>2. s \in Source /\ before \in Wiki /\ Summaries(before)
  BY DEF Propose, IInv, SessionInv
<1>3. ASSUME NEW n \in changed
      PROVE  /\ Mild(s, n, before[n], after[n])
             /\ Protected(s, n, before[n]) \/ Edits(before[n]) \subseteq Edits(after[n])
  <2>1. before[n] \in Content \cup {None} /\ Summary(n, before[n])
    BY <1>2 DEF Wiki, Summaries
  <2>2. s \in Source /\ before \in Wiki /\ Summaries(before) /\ n \in Page
    BY <1>2
  <2> DEFINE c == before[n]
             written == after[n]
  <2>3. written = Compiled(before, s, topics, text)[n]
    OBVIOUS
  <2> HIDE DEF s, before, after, changed, written
  <2>4. Mild(s, n, c, written) /\ (Clean(s, n, c) => Edits(c) \subseteq Edits(written))
    BY <2>2, <2>3, CompiledMild
  <2>5. Protected(s, n, c) \/ Clean(s, n, c)
    BY <2>1, <2>2, UnprotectedClean
  <2> QED  BY <2>4, <2>5 DEF written
<1>4. \A n \in changed : Protected(s, n, before[n]) => before[n] # None
  BY DEF Protected
<1>5. basis[s] \in Basis /\ registry \in [Source -> Basis \cup {None}]
  BY <1>2 DEF IInv, TypeInv
<1>6. changed \subseteq Page
  OBVIOUS
<1>7. proposals' = proposals \cup {new} /\ work' = new /\ pc' = "publish"
      /\ Cardinality(proposals') <= MaxProposals
  BY <1>1
<1> HIDE DEF s, before, after, changed
<1>8. Well(new)
  BY <1>2, <1>3, <1>4, <1>5, <1>6 DEF Well
<1> HIDE DEF new
<1> QED
  BY <1>7, <1>8 DEF Propose, IInv, TypeInv, ProposalInv, SessionInv, JournalInv, OwnershipInv, records,
                    Unopened, Opened

LEMMA ContinueInv == ASSUME IInv, NEW p \in proposals, Continue(p) PROVE IInv'
BY DEF Continue, IInv, TypeInv, ProposalInv, SessionInv, JournalInv, OwnershipInv, records, Unopened, Opened

LEMMA AcceptInv == ASSUME IInv, Accept PROVE IInv'
BY DEF Accept, Leave, IInv, TypeInv, ProposalInv, SessionInv, JournalInv, OwnershipInv, records, Unopened, Opened

LEMMA CheckInv == ASSUME IInv, Check PROVE IInv'
BY DEF Check, InputsMatch, Leave, IInv, TypeInv, ProposalInv, SessionInv, JournalInv, OwnershipInv, records,
       Unopened, Opened

(* The proposal a session works on is one of those that were made.         *)
LEMMA WorkWell == ASSUME IInv, pc \notin {"idle", "compile"} PROVE work \in proposals /\ Well(work)
BY DEF IInv, TypeInv, ProposalInv

LEMMA OpenInv == ASSUME IInv, Open PROVE IInv'
<1>1. DOMAIN work.changes \subseteq Page
  BY WorkWell DEF Open, Well
<1>2. journal = None /\ ownership = receipt /\ Earned(ownership) /\ ownership \in [Source -> Wiki]
  BY DEF Open, IInv, JournalInv, OwnershipInv, Unopened, Earned
<1>3. journal' = Backup /\ Backup \in Journal /\ Backup # None
  BY <1>1, <1>2 DEF Open, Backup, Journal, IInv, TypeInv
<1>4. /\ journal'.wiki = wiki /\ journal'.ownership = ownership /\ journal'.receipt = receipt
  BY <1>3 DEF Backup
<1> QED
  BY <1>1, <1>2, <1>3, <1>4 DEF Open, IInv, TypeInv, ProposalInv, SessionInv, JournalInv, OwnershipInv, records,
                                Unopened, Opened

LEMMA CopyInv == ASSUME IInv, NEW n \in Page, Copy(n) PROVE IInv'
<1>1. work.changes[n] \in Content \cup {None} /\ Summary(n, work.changes[n])
  BY WorkWell DEF Copy, IInv, SessionInv, Well, Mild
<1>2. wiki' \in Wiki /\ Summaries(wiki')
  BY <1>1 DEF Copy, IInv, TypeInv, Wiki, Summaries
<1> QED
  BY <1>2 DEF Copy, IInv, TypeInv, ProposalInv, SessionInv, JournalInv, OwnershipInv, records, Unopened, Opened

LEMMA WrittenWiki ==
    ASSUME Well(work), NEW old \in Wiki PROVE Written(old) \in Wiki
BY DEF Well, Mild, Written, Wiki

LEMMA WriteBaselinesInv == ASSUME IInv, WriteBaselines PROVE IInv'
<1>1. baselines' \in Wiki
  BY WorkWell, WrittenWiki DEF WriteBaselines, IInv, TypeInv
<1> QED
  BY <1>1 DEF WriteBaselines, IInv, TypeInv, ProposalInv, SessionInv, JournalInv, OwnershipInv, Unopened, Opened

LEMMA WriteRegistryInv == ASSUME IInv, WriteRegistry PROVE IInv'
<1>1. registry' \in [Source -> Basis \cup {None}]
  BY WorkWell DEF WriteRegistry, Well, IInv, TypeInv
<1> QED
  BY <1>1 DEF WriteRegistry, IInv, TypeInv, ProposalInv, SessionInv, JournalInv, OwnershipInv, Unopened, Opened

LEMMA WriteOwnershipInv == ASSUME IInv, WriteOwnership PROVE IInv'
<1> DEFINE s == work.source
<1>1. Well(work) /\ s \in Source
  BY WorkWell DEF WriteOwnership, Well
<1>2. ownership \in [Source -> Wiki] /\ Earned(ownership)
  BY DEF IInv, OwnershipInv, Earned
<1>3. Authored \in Wiki
  BY <1>1, <1>2, WrittenWiki DEF Authored
<1>4. ASSUME NEW n \in Page
      PROVE  RangeOf(Authored[n])[s] # "edited" /\ (n = s => Edits(Authored[n]) = {})
  <2>1. CASE n \in DOMAIN work.changes
    <3>1. Authored[n] = work.changes[n]
      BY <2>1 DEF Authored, Written
    <3> QED  BY <1>1, <2>1, <3>1 DEF Well, Mild
  <2>2. CASE n \notin DOMAIN work.changes
    <3>1. Authored[n] = ownership[s][n]
      BY <2>2 DEF Authored, Written
    <3> QED  BY <1>1, <1>2, <3>1 DEF Earned
  <2> QED  BY <2>1, <2>2
<1>5. ownership' = [ownership EXCEPT ![s] = Authored]
  BY DEF WriteOwnership
<1>6. ownership' \in [Source -> Wiki] /\ \A q \in Source : ownership'[q] = IF q = s THEN Authored ELSE ownership[q]
  BY <1>1, <1>2, <1>3, <1>5
<1> HIDE DEF s
<1>7. Earned(ownership')
  BY <1>2, <1>4, <1>6 DEF Earned
<1> QED
  BY <1>1, <1>6, <1>7
  DEF s, WriteOwnership, IInv, TypeInv, ProposalInv, SessionInv, JournalInv, OwnershipInv, Unopened, Opened

LEMMA WriteReceiptInv == ASSUME IInv, WriteReceipt PROVE IInv'
<1>1. work.source \in Source
  BY WorkWell DEF WriteReceipt, Well
<1>2. receipt' \in [Source -> Wiki] /\ receipt' = ownership
  BY <1>1 DEF WriteReceipt, IInv, OwnershipInv, Earned
<1> QED
  BY <1>2 DEF WriteReceipt, IInv, TypeInv, ProposalInv, SessionInv, JournalInv, OwnershipInv, Unopened, Opened

LEMMA CommitInv == ASSUME IInv, Commit PROVE IInv'
BY DEF Commit, Leave, IInv, TypeInv, ProposalInv, SessionInv, JournalInv, OwnershipInv, records, Unopened, Opened

LEMMA NextInv == IInv /\ [Next]_vars => IInv'
<1> SUFFICES ASSUME IInv, [Next]_vars PROVE IInv'
  OBVIOUS
<1>1. CASE UNCHANGED vars
  BY <1>1 DEF vars, IInv, TypeInv, ProposalInv, SessionInv, JournalInv, OwnershipInv
<1>2. CASE \E n \in Page : Edit(n) \/ Copy(n)
  BY <1>2, EditInv, CopyInv
<1>3. CASE \E s \in Source : Rebase(s) \/ Enter(s)
  BY <1>3, RebaseInv, EnterInv
<1>4. CASE \E p \in proposals : Continue(p)
  BY <1>4, ContinueInv
<1>5. CASE Propose \/ Accept \/ Stop \/ Undo
  BY <1>5, ProposeInv, AcceptInv, StopInv, UndoInv
<1>6. CASE Publish
  BY <1>6, CheckInv, OpenInv, WriteBaselinesInv, WriteRegistryInv, WriteOwnershipInv, WriteReceiptInv,
     CommitInv DEF Publish
<1> QED  BY <1>1, <1>2, <1>3, <1>4, <1>5, <1>6 DEF Next

-----------------------------------------------------------------------------
(* The inductive invariant: pages, proposals, the session, the scope and   *)
(* the ownership are as the code leaves them after every step.             *)
THEOREM Invariance == Spec => []IInv
<1>1. Init => IInv
  BY InitInv
<1>2. IInv /\ [Next]_vars => IInv'
  BY NextInv
<1> QED  BY <1>1, <1>2, PTL DEF Spec

(* Every variable has its type in every reachable state.                   *)
THEOREM TypeCorrect == Spec => []TypeOK
<1>1. IInv => TypeOK
  <2> SUFFICES ASSUME IInv PROVE TypeOK
    OBVIOUS
  <2>1. ownership \in [Source -> Wiki]
    BY DEF IInv, OwnershipInv, Earned
  <2>2. \A p \in proposals :
          /\ DOMAIN p.changes \subseteq Page /\ p.before \in Wiki
          /\ p.protected \subseteq {n \in DOMAIN p.changes : p.before[n] # None}
    BY DEF IInv, ProposalInv, Well
  <2> QED  BY <2>1, <2>2 DEF IInv, TypeInv, TypeOK, OwnershipInv, JournalInv, Unopened, Opened
<1> QED  BY <1>1, Invariance, PTL

(* A source never counts as its own words that people wrote.               *)
THEOREM OwnershipClean == Spec => []OwnershipEarned
<1>1. IInv => OwnershipEarned
  BY DEF IInv, OwnershipInv, Earned, OwnershipEarned
<1> QED  BY <1>1, Invariance, PTL

(* Outside a mutation scope the ownership is the one the receipts name:    *)
(* after a publication, and after one that was undone.                     *)
THEOREM ReceiptsAgree == Spec => []OwnershipMatchesReceipt
<1>1. IInv => OwnershipMatchesReceipt
  BY DEF IInv, OwnershipInv, OwnershipMatchesReceipt
<1> QED  BY <1>1, Invariance, PTL

(* A step that copies a page puts there what the proposal says.            *)
LEMMA Copying ==
    ASSUME IInv, [Next]_vars, NEW n \in Page, Copies(n)
    PROVE  /\ wiki'[n] = work.changes[n] /\ n \in DOMAIN work.changes /\ Well(work)
           /\ checked = work.before /\ (work.protected = {} \/ work \in accepted)
<1>1. pc = "copy" /\ pc' = "copy" /\ n \in todo /\ n \notin todo'
  BY DEF Copies
<1>2. \E m \in Page : Copy(m)
  BY <1>1 DEF Next, vars, Edit, Rebase, Enter, Continue, Propose, Accept, Publish, Check, Open, WriteBaselines,
              WriteRegistry, WriteOwnership, WriteReceipt, Commit, Stop, Undo, UndoOthers, Leave, session
<1>3. Copy(n)
  BY <1>1, <1>2 DEF Copy
<1>4. wiki'[n] = work.changes[n]
  BY <1>3 DEF Copy, IInv, TypeInv, Wiki
<1> QED  BY <1>1, <1>4, WorkWell DEF IInv, SessionInv, Opened

(* No publication loses what people wrote, unless they accepted it.        *)
THEOREM EditsKept == Spec => NoEditLost
<1>1. ASSUME IInv, [Next]_vars, NEW n \in Page, Copies(n)
      PROVE  Edits(checked[n]) \subseteq Edits(wiki'[n]) \/ (n \in work.protected /\ work \in accepted)
  BY <1>1, Copying DEF Well
<1>2. IInv /\ [Next]_vars => [\A n \in Page : Copies(n) =>
        Edits(checked[n]) \subseteq Edits(wiki'[n]) \/ (n \in work.protected /\ work \in accepted)]_vars
  BY <1>1
<1> QED  BY <1>2, Invariance, PTL DEF Spec, NoEditLost

(* No publication touches the contribution of another source.              *)
THEOREM OthersKept == Spec => OthersUntouched
<1>1. ASSUME IInv, [Next]_vars, NEW n \in Page, Copies(n), NEW q \in Source \ {work.source}
      PROVE  RangeOf(wiki'[n])[q] = RangeOf(checked[n])[q]
  BY <1>1, Copying DEF Well, Mild
<1>2. IInv /\ [Next]_vars => [\A n \in Page : Copies(n) =>
        \A q \in Source \ {work.source} : RangeOf(wiki'[n])[q] = RangeOf(checked[n])[q]]_vars
  BY <1>1
<1> QED  BY <1>2, Invariance, PTL DEF Spec, OthersUntouched
=============================================================================
