--------------------------- MODULE MutationProof ---------------------------
(***************************************************************************)
(* Safety of the mutation journal for any number of paths, journals,       *)
(* processes and nesting levels, whatever fails.  Readers, the repair      *)
(* barrier and the rule that only repair resumes a restoration follow from *)
(* what the writer knows (WriterInv); that undecided journals can be       *)
(* undone, and that they are disjoint, from what is on disk (JournalInv).  *)
(* The journals that a failed snapshot left behind (torn) are the          *)
(* exception to both, and a clash with one of them the exception to the    *)
(* refinement of AtomicKb.                                                 *)
(***************************************************************************)
EXTENDS Mutation, TLAPS

(* A journal that may still be used to undo something. *)
Held(j) == status[j] \in Open \/ level[j] > 0

(* Which variables are in use at each point of the writer. *)
ControlInv ==
    /\ writer = NoProc <=> pc = "idle"
    /\ pc = "idle" <=> ctx = "none"
    /\ pc \in {"drain", "check"} => ctx \in {"drain", "repair"}
    /\ pc \in {"work", "staging", "created", "unwind", "raised"} => ctx = "scope"
    /\ cur \in Journal <=> pc \in {"staging", "rollback", "discard", "unlink"}
    /\ ctx # "scope" => NoScope /\ exc = "none"
    /\ pc \notin {"created", "unwind", "rollback"} => inhand = NoPath
    /\ pc = "created" => inhand # NoPath
    /\ readers # {} => writer = NoProc
    /\ inhand # NoPath /\ pc = "rollback" => inhand \in targets[cur]

(* The exception in flight, and what a scope may still believe because of it. *)
ExceptionInv ==
    /\ pc \in {"work", "staging", "created"} => exc = "none"
    /\ pc = "unwind" => exc = "error"
    /\ pc = "raised" => exc # "none"
    /\ pc = "rollback" /\ ctx = "scope" => exc # "none"
    /\ ctx = "scope" /\ exc # "recovery"
         => ~marker /\ \A j \in Journal : status[j] = "recovering" => level[j] > 0

(* The journals of the scopes in memory. *)
ScopeInv ==
    /\ \A j, k \in Journal : level[j] > 0 /\ level[j] = level[k] => j = k
    /\ \A j \in Journal :
         level[j] > 0 /\ j # cur /\ status[j] # "active"
            => Top(j) /\ pc = "unwind" /\ status[j] = "committed"
    /\ pc = "staging" => status[cur] = "none" /\ staged[cur] /\ level[cur] = 0
    /\ pc \in {"rollback", "discard", "unlink"} /\ ctx = "scope" => Top(cur)
    /\ pc = "staging" => \A k \in Journal : level[k] < MaxDepth

(* The journal in hand. *)
HandInv ==
    /\ pc = "rollback" => status[cur] = "recovering"
    /\ pc \in {"discard", "unlink"} => status[cur] \in Terminal

(* The journals on disk, those of a failed snapshot apart. *)
JournalInv ==
    /\ ctx = "scope" /\ exc # "recovery"
         => \A j \in Journal : status[j] \in Open => level[j] > 0 \/ j \in torn
    /\ \A j \in Journal : status[j] \in Open => staged[j] \/ j \in torn
    /\ \A j \in Journal : status[j] = "recovering" => Valid(j)
    /\ \A j \in Journal : level[j] > 0 /\ j # cur => staged[j]
    /\ \A j, k \in Journal \ torn : Held(j) /\ Held(k) /\ j # k => targets[j] \cap targets[k] = {}
    /\ inhand # NoPath /\ pc \in {"created", "unwind"}
         => \A j \in Journal : Held(j) => inhand \notin targets[j]
    /\ \A j \in torn : status[j] # "none" /\ level[j] = 0

(* Recovery visits everything that was pending when it began. *)
DrainInv ==
    /\ ctx \in {"drain", "repair"} => Pending \subseteq todo
    /\ ctx = "drain" => ~marker
    /\ readers # {} => ~marker /\ Pending = {}

(* The writer knows where it is and what it may believe, whatever fails. *)
WriterInv == TypeOK /\ ControlInv /\ ExceptionInv /\ ScopeInv /\ HandInv /\ DrainInv

(* And the journals can be undone, each on its own. *)
IInv == WriterInv /\ JournalInv
-----------------------------------------------------------------------------
(* Two scopes are never both innermost, and the scopes around the innermost *)
(* one are all undecided.                                                   *)
LEMMA InnermostScope ==
    ASSUME TypeOK, ScopeInv, cur \notin Journal,
           NEW j \in Journal, Top(j), NEW k \in Journal, level[k] > 0, k # j
    PROVE  status[k] = "active"
<1>1. level[k] \in Nat /\ level[j] \in Nat
  BY ConstantsAssumption DEF TypeOK, Depth
<1>2. level[k] # level[j]
  BY DEF ScopeInv
<1>3. ~Top(k)
  BY <1>1, <1>2 DEF Top
<1>4. QED
  BY <1>3 DEF ScopeInv

LEMMA AcquireWriteStep ==
    ASSUME WriterInv, NEW p \in Process, AcquireWrite(p)
    PROVE  WriterInv'
<1> USE ConstantsAssumption DEF WriterInv, AcquireWrite, disk, memory, Path, Value, Depth, Open, Terminal, Top, NoScope, Pending
<1>1. TypeOK'
  BY DEF TypeOK, ControlInv, ScopeInv
<1>2. ControlInv'
  BY DEF TypeOK, ControlInv, ScopeInv, HandInv
<1>3. ExceptionInv'
  BY DEF TypeOK, ControlInv, ExceptionInv, ScopeInv, HandInv, DrainInv
<1>4. ScopeInv'
  BY DEF TypeOK, ControlInv, ExceptionInv, ScopeInv, HandInv
<1>5. HandInv'
  BY DEF TypeOK, ControlInv, ExceptionInv, ScopeInv, HandInv
<1>6. DrainInv'
  BY DEF TypeOK, ControlInv, ScopeInv, HandInv, DrainInv
<1>7. QED
  BY <1>1, <1>2, <1>3, <1>4, <1>5, <1>6

LEMMA AcquireRepairStep ==
    ASSUME WriterInv, NEW p \in Process, AcquireRepair(p)
    PROVE  WriterInv'
<1> USE ConstantsAssumption DEF WriterInv, AcquireRepair, disk, memory, Path, Value, Depth, Open, Terminal, Top, NoScope, Pending
<1>1. TypeOK'
  BY DEF TypeOK, ControlInv, ScopeInv
<1>2. ControlInv'
  BY DEF TypeOK, ControlInv, ScopeInv, HandInv
<1>3. ExceptionInv'
  BY DEF TypeOK, ControlInv, ExceptionInv, ScopeInv, HandInv, DrainInv
<1>4. ScopeInv'
  BY DEF TypeOK, ControlInv, ExceptionInv, ScopeInv, HandInv
<1>5. HandInv'
  BY DEF TypeOK, ControlInv, ExceptionInv, ScopeInv, HandInv
<1>6. DrainInv'
  BY DEF TypeOK, ControlInv, ScopeInv, HandInv, DrainInv
<1>7. QED
  BY <1>1, <1>2, <1>3, <1>4, <1>5, <1>6

LEMMA AcquireReadStep ==
    ASSUME WriterInv, NEW p \in Process, AcquireRead(p)
    PROVE  WriterInv'
<1> USE ConstantsAssumption DEF WriterInv, AcquireRead, disk, memory, Path, Value, Depth, Open, Terminal, Top, NoScope, Pending
<1>1. TypeOK'
  BY DEF TypeOK, ControlInv, ScopeInv
<1>2. ControlInv'
  BY DEF TypeOK, ControlInv, ScopeInv, HandInv
<1>3. ExceptionInv'
  BY DEF TypeOK, ControlInv, ExceptionInv, ScopeInv, HandInv, DrainInv
<1>4. ScopeInv'
  BY DEF TypeOK, ControlInv, ExceptionInv, ScopeInv, HandInv
<1>5. HandInv'
  BY DEF TypeOK, ControlInv, ExceptionInv, ScopeInv, HandInv
<1>6. DrainInv'
  BY DEF TypeOK, ControlInv, ScopeInv, HandInv, DrainInv
<1>7. QED
  BY <1>1, <1>2, <1>3, <1>4, <1>5, <1>6

LEMMA ReleaseReadStep ==
    ASSUME WriterInv, NEW p \in Process, ReleaseRead(p)
    PROVE  WriterInv'
<1> USE ConstantsAssumption DEF WriterInv, ReleaseRead, disk, memory, Path, Value, Depth, Open, Terminal, Top, NoScope, Pending
<1>1. TypeOK'
  BY DEF TypeOK, ControlInv, ScopeInv
<1>2. ControlInv'
  BY DEF TypeOK, ControlInv, ScopeInv, HandInv
<1>3. ExceptionInv'
  BY DEF TypeOK, ControlInv, ExceptionInv, ScopeInv, HandInv, DrainInv
<1>4. ScopeInv'
  BY DEF TypeOK, ControlInv, ExceptionInv, ScopeInv, HandInv
<1>5. HandInv'
  BY DEF TypeOK, ControlInv, ExceptionInv, ScopeInv, HandInv
<1>6. DrainInv'
  BY DEF TypeOK, ControlInv, ScopeInv, HandInv, DrainInv
<1>7. QED
  BY <1>1, <1>2, <1>3, <1>4, <1>5, <1>6

LEMMA ReleaseWriteStep ==
    ASSUME WriterInv, ReleaseWrite
    PROVE  WriterInv'
<1> USE ConstantsAssumption DEF WriterInv, ReleaseWrite, Forget, disk, memory, Path, Value, Depth, Open, Terminal, Top, NoScope, Pending
<1>1. TypeOK'
  BY DEF TypeOK, ControlInv, ScopeInv
<1>2. ControlInv'
  BY DEF TypeOK, ControlInv, ScopeInv, HandInv
<1>3. ExceptionInv'
  BY DEF TypeOK, ControlInv, ExceptionInv, ScopeInv, HandInv, DrainInv
<1>4. ScopeInv'
  BY DEF TypeOK, ControlInv, ExceptionInv, ScopeInv, HandInv
<1>5. HandInv'
  BY DEF TypeOK, ControlInv, ExceptionInv, ScopeInv, HandInv
<1>6. DrainInv'
  BY DEF TypeOK, ControlInv, ScopeInv, HandInv, DrainInv
<1>7. QED
  BY <1>1, <1>2, <1>3, <1>4, <1>5, <1>6

LEMMA CrashStep ==
    ASSUME WriterInv, Crash
    PROVE  WriterInv'
<1> USE ConstantsAssumption DEF WriterInv, Crash, Forget, disk, memory, Path, Value, Depth, Open, Terminal, Top, NoScope, Pending
<1>1. TypeOK'
  BY DEF TypeOK, ControlInv, ScopeInv
<1>2. ControlInv'
  BY DEF TypeOK, ControlInv, ScopeInv, HandInv
<1>3. ExceptionInv'
  BY DEF TypeOK, ControlInv, ExceptionInv, ScopeInv, HandInv, DrainInv
<1>4. ScopeInv'
  BY DEF TypeOK, ControlInv, ExceptionInv, ScopeInv, HandInv
<1>5. HandInv'
  BY DEF TypeOK, ControlInv, ExceptionInv, ScopeInv, HandInv
<1>6. DrainInv'
  BY DEF TypeOK, ControlInv, ScopeInv, HandInv, DrainInv
<1>7. QED
  BY <1>1, <1>2, <1>3, <1>4, <1>5, <1>6

LEMMA BeginSnapshotStep ==
    ASSUME WriterInv, NEW j \in Journal, BeginSnapshot(j)
    PROVE  WriterInv'
<1> USE ConstantsAssumption DEF WriterInv, BeginSnapshot, disk, memory, Path, Value, Depth, Open, Terminal, Top, NoScope, Pending
<1>1. TypeOK'
  BY DEF TypeOK, ControlInv, ScopeInv
<1>2. ControlInv'
  BY DEF TypeOK, ControlInv, ScopeInv, HandInv
<1>3. ExceptionInv'
  BY DEF TypeOK, ControlInv, ExceptionInv, ScopeInv, HandInv, DrainInv
<1>4. ScopeInv'
  BY DEF TypeOK, ControlInv, ExceptionInv, ScopeInv, HandInv
<1>5. HandInv'
  BY DEF TypeOK, ControlInv, ExceptionInv, ScopeInv, HandInv
<1>6. DrainInv'
  BY DEF TypeOK, ControlInv, ScopeInv, HandInv, DrainInv
<1>7. QED
  BY <1>1, <1>2, <1>3, <1>4, <1>5, <1>6

LEMMA WriteJournalStep ==
    ASSUME WriterInv, NEW S \in SUBSET Page, WriteJournal(S)
    PROVE  WriterInv'
<1> USE ConstantsAssumption DEF WriterInv, WriteJournal, OpenScopePaths, disk, memory, Path, Value, Depth, Open, Terminal, Top, NoScope, Pending
<1>1. TypeOK'
  BY DEF TypeOK, ControlInv, ScopeInv
<1>2. ControlInv'
  BY DEF TypeOK, ControlInv, ScopeInv, HandInv
<1>3. ExceptionInv'
  BY DEF TypeOK, ControlInv, ExceptionInv, ScopeInv, HandInv, DrainInv
<1>4. ScopeInv'
  BY DEF TypeOK, ControlInv, ExceptionInv, ScopeInv, HandInv
<1>5. HandInv'
  BY DEF TypeOK, ControlInv, ExceptionInv, ScopeInv, HandInv
<1>6. DrainInv'
  BY DEF TypeOK, ControlInv, ScopeInv, HandInv, DrainInv
<1>7. QED
  BY <1>1, <1>2, <1>3, <1>4, <1>5, <1>6

LEMMA SnapshotFailsStep ==
    ASSUME WriterInv, SnapshotFails
    PROVE  WriterInv'
<1> USE ConstantsAssumption DEF WriterInv, SnapshotFails, disk, memory, Path, Value, Depth, Open, Terminal, Top, NoScope, Pending
<1>1. TypeOK'
  BY DEF TypeOK, ControlInv, ScopeInv
<1>2. ControlInv'
  BY DEF TypeOK, ControlInv, ScopeInv, HandInv
<1>3. ExceptionInv'
  BY DEF TypeOK, ControlInv, ExceptionInv, ScopeInv, HandInv, DrainInv
<1>4. ScopeInv'
  BY DEF TypeOK, ControlInv, ExceptionInv, ScopeInv, HandInv
<1>5. HandInv'
  BY DEF TypeOK, ControlInv, ExceptionInv, ScopeInv, HandInv
<1>6. DrainInv'
  BY DEF TypeOK, ControlInv, ScopeInv, HandInv, DrainInv
<1>7. QED
  BY <1>1, <1>2, <1>3, <1>4, <1>5, <1>6

LEMMA SnapshotFailsLateStep ==
    ASSUME WriterInv, NEW S \in SUBSET Page, SnapshotFailsLate(S)
    PROVE  WriterInv'
<1> USE ConstantsAssumption DEF WriterInv, SnapshotFailsLate, disk, memory, Path, Value, Depth, Open, Terminal, Top, NoScope, Pending
<1>1. TypeOK'
  BY DEF TypeOK, ControlInv, ScopeInv
<1>2. ControlInv'
  BY DEF TypeOK, ControlInv, ScopeInv, HandInv
<1>3. ExceptionInv'
  BY DEF TypeOK, ControlInv, ExceptionInv, ScopeInv, HandInv, DrainInv
<1>4. ScopeInv'
  BY DEF TypeOK, ControlInv, ExceptionInv, ScopeInv, HandInv
<1>5. HandInv'
  BY DEF TypeOK, ControlInv, ExceptionInv, ScopeInv, HandInv
<1>6. DrainInv'
  BY DEF TypeOK, ControlInv, ScopeInv, HandInv, DrainInv
<1>7. QED
  BY <1>1, <1>2, <1>3, <1>4, <1>5, <1>6

LEMMA WriteStep ==
    ASSUME WriterInv, NEW j \in Journal, NEW p \in Path, NEW v \in Value, Write(j, p, v)
    PROVE  WriterInv'
<1> USE ConstantsAssumption DEF WriterInv, Write, disk, memory, Path, Value, Depth, Open, Terminal, Top, NoScope, Pending
<1>1. TypeOK'
  BY DEF TypeOK, ControlInv, ScopeInv
<1>2. ControlInv'
  BY DEF TypeOK, ControlInv, ScopeInv, HandInv
<1>3. ExceptionInv'
  BY DEF TypeOK, ControlInv, ExceptionInv, ScopeInv, HandInv, DrainInv
<1>4. ScopeInv'
  BY DEF TypeOK, ControlInv, ExceptionInv, ScopeInv, HandInv
<1>5. HandInv'
  BY DEF TypeOK, ControlInv, ExceptionInv, ScopeInv, HandInv
<1>6. DrainInv'
  BY DEF TypeOK, ControlInv, ScopeInv, HandInv, DrainInv
<1>7. QED
  BY <1>1, <1>2, <1>3, <1>4, <1>5, <1>6

LEMMA CreateArtifactStep ==
    ASSUME WriterInv, NEW a \in Artifact, NEW v \in Content, CreateArtifact(a, v)
    PROVE  WriterInv'
<1> USE ConstantsAssumption DEF WriterInv, CreateArtifact, Undecided, disk, memory, Path, Value, Depth, Open, Terminal, Top, NoScope, Pending
<1>1. TypeOK'
  BY DEF TypeOK, ControlInv, ScopeInv
<1>2. ControlInv'
  BY DEF TypeOK, ControlInv, ScopeInv, HandInv
<1>3. ExceptionInv'
  BY DEF TypeOK, ControlInv, ExceptionInv, ScopeInv, HandInv, DrainInv
<1>4. ScopeInv'
  BY DEF TypeOK, ControlInv, ExceptionInv, ScopeInv, HandInv
<1>5. HandInv'
  BY DEF TypeOK, ControlInv, ExceptionInv, ScopeInv, HandInv
<1>6. DrainInv'
  BY DEF TypeOK, ControlInv, ScopeInv, HandInv, DrainInv
<1>7. QED
  BY <1>1, <1>2, <1>3, <1>4, <1>5, <1>6

LEMMA TrackNewStep ==
    ASSUME WriterInv, NEW j \in Journal, TrackNew(j)
    PROVE  WriterInv'
<1> USE ConstantsAssumption DEF WriterInv, TrackNew, disk, memory, Path, Value, Depth, Open, Terminal, Top, NoScope, Pending
<1>1. TypeOK'
  BY DEF TypeOK, ControlInv, ScopeInv
<1>2. ControlInv'
  BY DEF TypeOK, ControlInv, ScopeInv, HandInv
<1>3. ExceptionInv'
  BY DEF TypeOK, ControlInv, ExceptionInv, ScopeInv, HandInv, DrainInv
<1>4. ScopeInv'
  BY DEF TypeOK, ControlInv, ExceptionInv, ScopeInv, HandInv
<1>5. HandInv'
  BY DEF TypeOK, ControlInv, ExceptionInv, ScopeInv, HandInv
<1>6. DrainInv'
  BY DEF TypeOK, ControlInv, ScopeInv, HandInv, DrainInv
<1>7. QED
  BY <1>1, <1>2, <1>3, <1>4, <1>5, <1>6

LEMMA TrackNewFailsStep ==
    ASSUME WriterInv, TrackNewFails
    PROVE  WriterInv'
<1> USE ConstantsAssumption DEF WriterInv, TrackNewFails, disk, memory, Path, Value, Depth, Open, Terminal, Top, NoScope, Pending
<1>1. TypeOK'
  BY DEF TypeOK, ControlInv, ScopeInv
<1>2. ControlInv'
  BY DEF TypeOK, ControlInv, ScopeInv, HandInv
<1>3. ExceptionInv'
  BY DEF TypeOK, ControlInv, ExceptionInv, ScopeInv, HandInv, DrainInv
<1>4. ScopeInv'
  BY DEF TypeOK, ControlInv, ExceptionInv, ScopeInv, HandInv
<1>5. HandInv'
  BY DEF TypeOK, ControlInv, ExceptionInv, ScopeInv, HandInv
<1>6. DrainInv'
  BY DEF TypeOK, ControlInv, ScopeInv, HandInv, DrainInv
<1>7. QED
  BY <1>1, <1>2, <1>3, <1>4, <1>5, <1>6

LEMMA BodyFailsStep ==
    ASSUME WriterInv, BodyFails
    PROVE  WriterInv'
<1> USE ConstantsAssumption DEF WriterInv, BodyFails, disk, memory, Path, Value, Depth, Open, Terminal, Top, NoScope, Pending
<1>1. TypeOK'
  BY DEF TypeOK, ControlInv, ScopeInv
<1>2. ControlInv'
  BY DEF TypeOK, ControlInv, ScopeInv, HandInv
<1>3. ExceptionInv'
  BY DEF TypeOK, ControlInv, ExceptionInv, ScopeInv, HandInv, DrainInv
<1>4. ScopeInv'
  BY DEF TypeOK, ControlInv, ExceptionInv, ScopeInv, HandInv
<1>5. HandInv'
  BY DEF TypeOK, ControlInv, ExceptionInv, ScopeInv, HandInv
<1>6. DrainInv'
  BY DEF TypeOK, ControlInv, ScopeInv, HandInv, DrainInv
<1>7. QED
  BY <1>1, <1>2, <1>3, <1>4, <1>5, <1>6

LEMMA CommitStep ==
    ASSUME WriterInv, NEW j \in Journal, Commit(j)
    PROVE  WriterInv'
<1> USE ConstantsAssumption DEF WriterInv, Commit, disk, memory, Path, Value, Depth, Open, Terminal, Top, NoScope, Pending
<1>1. TypeOK'
  BY DEF TypeOK, ControlInv, ScopeInv
<1>2. ControlInv'
  BY DEF TypeOK, ControlInv, ScopeInv, HandInv
<1>3. ExceptionInv'
  BY DEF TypeOK, ControlInv, ExceptionInv, ScopeInv, HandInv, DrainInv
<1>4. ScopeInv'
  BY DEF TypeOK, ControlInv, ExceptionInv, ScopeInv, HandInv
<1>5. HandInv'
  BY DEF TypeOK, ControlInv, ExceptionInv, ScopeInv, HandInv
<1>6. DrainInv'
  BY DEF TypeOK, ControlInv, ScopeInv, HandInv, DrainInv
<1>7. QED
  BY <1>1, <1>2, <1>3, <1>4, <1>5, <1>6

LEMMA CommitFailsStep ==
    ASSUME WriterInv, NEW j \in Journal, CommitFails(j)
    PROVE  WriterInv'
<1> USE ConstantsAssumption DEF WriterInv, CommitFails, disk, memory, Path, Value, Depth, Open, Terminal, Top, NoScope, Pending
<1>1. TypeOK'
  BY DEF TypeOK, ControlInv, ScopeInv
<1>2. ControlInv'
  BY DEF TypeOK, ControlInv, ScopeInv, HandInv
<1>3. ExceptionInv'
  BY DEF TypeOK, ControlInv, ExceptionInv, ScopeInv, HandInv, DrainInv
<1>4. ScopeInv'
  BY DEF TypeOK, ControlInv, ExceptionInv, ScopeInv, HandInv
<1>5. HandInv'
  BY DEF TypeOK, ControlInv, ExceptionInv, ScopeInv, HandInv
<1>6. DrainInv'
  BY DEF TypeOK, ControlInv, ScopeInv, HandInv, DrainInv
<1>7. QED
  BY <1>1, <1>2, <1>3, <1>4, <1>5, <1>6

LEMMA AbortStep ==
    ASSUME WriterInv, NEW j \in Journal, Abort(j)
    PROVE  WriterInv'
<1> USE ConstantsAssumption DEF WriterInv, Abort, disk, memory, Path, Value, Depth, Open, Terminal, Top, NoScope, Pending
<1>1. TypeOK'
  BY DEF TypeOK, ControlInv, ScopeInv
<1>2. ControlInv'
  BY DEF TypeOK, ControlInv, ScopeInv, HandInv
<1>3. ExceptionInv'
  BY DEF TypeOK, ControlInv, ExceptionInv, ScopeInv, HandInv, DrainInv
<1>4. ScopeInv'
  <2>1. cur \notin Journal
    BY DEF ControlInv
  <2>2. \A k \in Journal : level[k] > 0 /\ k # j => status[k] = "active"
    BY <2>1, InnermostScope
  <2>3. QED
    BY <2>1, <2>2 DEF TypeOK, ControlInv, ScopeInv
<1>5. HandInv'
  BY DEF TypeOK, ControlInv, ExceptionInv, ScopeInv, HandInv
<1>6. DrainInv'
  BY DEF TypeOK, ControlInv, ScopeInv, HandInv, DrainInv
<1>7. QED
  BY <1>1, <1>2, <1>3, <1>4, <1>5, <1>6

LEMMA AbortFailsStep ==
    ASSUME WriterInv, NEW j \in Journal, AbortFails(j)
    PROVE  WriterInv'
<1> USE ConstantsAssumption DEF WriterInv, AbortFails, ScopeRollbackFailed, MarkNeedsRepair, disk, memory, Path, Value, Depth, Open, Terminal, Top, NoScope, Pending
<1>1. TypeOK'
  <2>2. marker' \in BOOLEAN
    BY DEF TypeOK
  <2>3. level' \in [Journal -> 0 .. MaxDepth]
    BY DEF TypeOK
  <2>4. QED
    BY <2>2, <2>3 DEF TypeOK
<1>2. ControlInv'
  BY DEF TypeOK, ControlInv, ScopeInv, HandInv
<1>3. ExceptionInv'
  BY DEF TypeOK, ControlInv, ExceptionInv, ScopeInv, HandInv, DrainInv
<1>4. ScopeInv'
  <2>1. cur \notin Journal
    BY DEF ControlInv
  <2>2. \A k \in Journal : level[k] > 0 /\ k # j => status[k] = "active"
    BY <2>1, InnermostScope
  <2>3. QED
    BY <2>1, <2>2 DEF TypeOK, ControlInv, ScopeInv
<1>5. HandInv'
  BY DEF TypeOK, ControlInv, ExceptionInv, ScopeInv, HandInv
<1>6. DrainInv'
  BY DEF TypeOK, ControlInv, ScopeInv, HandInv, DrainInv
<1>7. QED
  BY <1>1, <1>2, <1>3, <1>4, <1>5, <1>6

LEMMA RemoveTargetStep ==
    ASSUME WriterInv, NEW p \in Path, RemoveTarget(p)
    PROVE  WriterInv'
<1> USE ConstantsAssumption DEF WriterInv, RemoveTarget, disk, memory, Path, Value, Depth, Open, Terminal, Top, NoScope, Pending
<1>1. TypeOK'
  BY DEF TypeOK, ControlInv, ScopeInv
<1>2. ControlInv'
  BY DEF TypeOK, ControlInv, ScopeInv, HandInv
<1>3. ExceptionInv'
  BY DEF TypeOK, ControlInv, ExceptionInv, ScopeInv, HandInv, DrainInv
<1>4. ScopeInv'
  BY DEF TypeOK, ControlInv, ExceptionInv, ScopeInv, HandInv
<1>5. HandInv'
  BY DEF TypeOK, ControlInv, ExceptionInv, ScopeInv, HandInv
<1>6. DrainInv'
  BY DEF TypeOK, ControlInv, ScopeInv, HandInv, DrainInv
<1>7. QED
  BY <1>1, <1>2, <1>3, <1>4, <1>5, <1>6

LEMMA RestoreTargetStep ==
    ASSUME WriterInv, RestoreTarget
    PROVE  WriterInv'
<1> USE ConstantsAssumption DEF WriterInv, RestoreTarget, disk, memory, Path, Value, Depth, Open, Terminal, Top, NoScope, Pending
<1>1. TypeOK'
  BY DEF TypeOK, ControlInv, ScopeInv
<1>2. ControlInv'
  BY DEF TypeOK, ControlInv, ScopeInv, HandInv
<1>3. ExceptionInv'
  BY DEF TypeOK, ControlInv, ExceptionInv, ScopeInv, HandInv, DrainInv
<1>4. ScopeInv'
  BY DEF TypeOK, ControlInv, ExceptionInv, ScopeInv, HandInv
<1>5. HandInv'
  BY DEF TypeOK, ControlInv, ExceptionInv, ScopeInv, HandInv
<1>6. DrainInv'
  BY DEF TypeOK, ControlInv, ScopeInv, HandInv, DrainInv
<1>7. QED
  BY <1>1, <1>2, <1>3, <1>4, <1>5, <1>6

LEMMA FinishRollbackStep ==
    ASSUME WriterInv, FinishRollback
    PROVE  WriterInv'
<1> USE ConstantsAssumption DEF WriterInv, FinishRollback, disk, memory, Path, Value, Depth, Open, Terminal, Top, NoScope, Pending
<1>1. TypeOK'
  BY DEF TypeOK, ControlInv, ScopeInv
<1>2. ControlInv'
  BY DEF TypeOK, ControlInv, ScopeInv, HandInv
<1>3. ExceptionInv'
  BY DEF TypeOK, ControlInv, ExceptionInv, ScopeInv, HandInv, DrainInv
<1>4. ScopeInv'
  BY DEF TypeOK, ControlInv, ExceptionInv, ScopeInv, HandInv
<1>5. HandInv'
  BY DEF TypeOK, ControlInv, ExceptionInv, ScopeInv, HandInv
<1>6. DrainInv'
  BY DEF TypeOK, ControlInv, ScopeInv, HandInv, DrainInv
<1>7. QED
  BY <1>1, <1>2, <1>3, <1>4, <1>5, <1>6

LEMMA ScopeRollbackFailsStep ==
    ASSUME WriterInv, ScopeRollbackFails
    PROVE  WriterInv'
<1> USE ConstantsAssumption DEF WriterInv, ScopeRollbackFails, ScopeRollbackFailed, MarkNeedsRepair, LateFinish, disk, memory, Path, Value, Depth, Open, Terminal, Top, NoScope, Pending
<1>1. TypeOK'
  <2>0. cur \in Journal
    BY DEF ControlInv
  <2>1. status' \in [Journal -> Open \cup Terminal \cup {"none"}]
    BY <2>0 DEF TypeOK
  <2>2. marker' \in BOOLEAN
    BY DEF TypeOK
  <2>3. level' \in [Journal -> 0 .. MaxDepth]
    BY <2>0 DEF TypeOK
  <2>4. QED
    BY <2>1, <2>2, <2>3 DEF TypeOK
<1>2. ControlInv'
  BY DEF TypeOK, ControlInv, ScopeInv, HandInv
<1>3. ExceptionInv'
  BY DEF TypeOK, ControlInv, ExceptionInv, ScopeInv, HandInv, DrainInv
<1>4. ScopeInv'
  BY DEF TypeOK, ControlInv, ExceptionInv, ScopeInv, HandInv
<1>5. HandInv'
  BY DEF TypeOK, ControlInv, ExceptionInv, ScopeInv, HandInv
<1>6. DrainInv'
  BY DEF TypeOK, ControlInv, ScopeInv, HandInv, DrainInv
<1>7. QED
  BY <1>1, <1>2, <1>3, <1>4, <1>5, <1>6

LEMMA DiscardBackupStep ==
    ASSUME WriterInv, DiscardBackup
    PROVE  WriterInv'
<1> USE ConstantsAssumption DEF WriterInv, DiscardBackup, disk, memory, Path, Value, Depth, Open, Terminal, Top, NoScope, Pending
<1>1. TypeOK'
  BY DEF TypeOK, ControlInv, ScopeInv
<1>2. ControlInv'
  BY DEF TypeOK, ControlInv, ScopeInv, HandInv
<1>3. ExceptionInv'
  BY DEF TypeOK, ControlInv, ExceptionInv, ScopeInv, HandInv, DrainInv
<1>4. ScopeInv'
  BY DEF TypeOK, ControlInv, ExceptionInv, ScopeInv, HandInv
<1>5. HandInv'
  BY DEF TypeOK, ControlInv, ExceptionInv, ScopeInv, HandInv
<1>6. DrainInv'
  BY DEF TypeOK, ControlInv, ScopeInv, HandInv, DrainInv
<1>7. QED
  BY <1>1, <1>2, <1>3, <1>4, <1>5, <1>6

LEMMA UnlinkJournalStep ==
    ASSUME WriterInv, UnlinkJournal
    PROVE  WriterInv'
<1> USE ConstantsAssumption DEF WriterInv, UnlinkJournal, Proceed, NoBackup, disk, memory, Path, Value, Depth, Open, Terminal, Top, NoScope, Pending
<1>1. TypeOK'
  BY DEF TypeOK, ControlInv, ScopeInv
<1>2. ControlInv'
  <2>1. writer # NoProc /\ ctx # "none" /\ cur' = NoJournal /\ inhand' = NoPath
    BY DEF ControlInv
  <2>2. CASE ctx = "scope"
    <3>1. pc' \in {"work", "raised"}
      BY <2>2
    <3>2. QED
      BY <2>1, <2>2, <3>1 DEF TypeOK, ControlInv
  <2>3. CASE ctx # "scope"
    <3>1. exc = "none" /\ \A j \in Journal : level[j] = 0
      BY <2>3 DEF ControlInv
    <3>2. \A j \in Journal : level'[j] = 0
      BY <3>1 DEF TypeOK
    <3>3. pc' = "drain"
      BY <2>3, <3>1
    <3>4. QED
      BY <2>1, <2>3, <3>1, <3>2, <3>3 DEF TypeOK, ControlInv
  <2>4. QED
    BY <2>2, <2>3
<1>3. ExceptionInv'
  BY DEF TypeOK, ControlInv, ExceptionInv, ScopeInv, HandInv, DrainInv
<1>4. ScopeInv'
  BY DEF TypeOK, ControlInv, ExceptionInv, ScopeInv, HandInv
<1>5. HandInv'
  BY DEF TypeOK, ControlInv, ExceptionInv, ScopeInv, HandInv
<1>6. DrainInv'
  BY DEF TypeOK, ControlInv, ScopeInv, HandInv, DrainInv
<1>7. QED
  BY <1>1, <1>2, <1>3, <1>4, <1>5, <1>6

LEMMA ScopeUnlinkFailsStep ==
    ASSUME WriterInv, ScopeUnlinkFails
    PROVE  WriterInv'
<1> USE ConstantsAssumption DEF WriterInv, ScopeUnlinkFails, Proceed, disk, memory, Path, Value, Depth, Open, Terminal, Top, NoScope, Pending
<1>1. TypeOK'
  BY DEF TypeOK, ControlInv, ScopeInv
<1>2. ControlInv'
  BY DEF TypeOK, ControlInv, ScopeInv, HandInv
<1>3. ExceptionInv'
  BY DEF TypeOK, ControlInv, ExceptionInv, ScopeInv, HandInv, DrainInv
<1>4. ScopeInv'
  BY DEF TypeOK, ControlInv, ExceptionInv, ScopeInv, HandInv
<1>5. HandInv'
  BY DEF TypeOK, ControlInv, ExceptionInv, ScopeInv, HandInv
<1>6. DrainInv'
  BY DEF TypeOK, ControlInv, ScopeInv, HandInv, DrainInv
<1>7. QED
  BY <1>1, <1>2, <1>3, <1>4, <1>5, <1>6

LEMMA CatchErrorStep ==
    ASSUME WriterInv, CatchError
    PROVE  WriterInv'
<1> USE ConstantsAssumption DEF WriterInv, CatchError, disk, memory, Path, Value, Depth, Open, Terminal, Top, NoScope, Pending
<1>1. TypeOK'
  BY DEF TypeOK, ControlInv, ScopeInv
<1>2. ControlInv'
  BY DEF TypeOK, ControlInv, ScopeInv, HandInv
<1>3. ExceptionInv'
  BY DEF TypeOK, ControlInv, ExceptionInv, ScopeInv, HandInv, DrainInv
<1>4. ScopeInv'
  BY DEF TypeOK, ControlInv, ExceptionInv, ScopeInv, HandInv
<1>5. HandInv'
  BY DEF TypeOK, ControlInv, ExceptionInv, ScopeInv, HandInv
<1>6. DrainInv'
  BY DEF TypeOK, ControlInv, ScopeInv, HandInv, DrainInv
<1>7. QED
  BY <1>1, <1>2, <1>3, <1>4, <1>5, <1>6

LEMMA DrainTerminalStep ==
    ASSUME WriterInv, NEW j \in Journal, DrainTerminal(j)
    PROVE  WriterInv'
<1> USE ConstantsAssumption DEF WriterInv, DrainTerminal, disk, memory, Path, Value, Depth, Open, Terminal, Top, NoScope, Pending
<1>1. TypeOK'
  BY DEF TypeOK, ControlInv, ScopeInv
<1>2. ControlInv'
  BY DEF TypeOK, ControlInv, ScopeInv, HandInv
<1>3. ExceptionInv'
  BY DEF TypeOK, ControlInv, ExceptionInv, ScopeInv, HandInv, DrainInv
<1>4. ScopeInv'
  BY DEF TypeOK, ControlInv, ExceptionInv, ScopeInv, HandInv
<1>5. HandInv'
  BY DEF TypeOK, ControlInv, ExceptionInv, ScopeInv, HandInv
<1>6. DrainInv'
  BY DEF TypeOK, ControlInv, ScopeInv, HandInv, DrainInv
<1>7. QED
  BY <1>1, <1>2, <1>3, <1>4, <1>5, <1>6

LEMMA DrainRollbackStep ==
    ASSUME WriterInv, NEW j \in Journal, DrainRollback(j)
    PROVE  WriterInv'
<1> USE ConstantsAssumption DEF WriterInv, DrainRollback, MayRollBack, Valid, disk, memory, Path, Value, Depth, Open, Terminal, Top, NoScope, Pending
<1>1. TypeOK'
  BY DEF TypeOK, ControlInv, ScopeInv
<1>2. ControlInv'
  BY DEF TypeOK, ControlInv, ScopeInv, HandInv
<1>3. ExceptionInv'
  BY DEF TypeOK, ControlInv, ExceptionInv, ScopeInv, HandInv, DrainInv
<1>4. ScopeInv'
  BY DEF TypeOK, ControlInv, ExceptionInv, ScopeInv, HandInv
<1>5. HandInv'
  BY DEF TypeOK, ControlInv, ExceptionInv, ScopeInv, HandInv
<1>6. DrainInv'
  BY DEF TypeOK, ControlInv, ScopeInv, HandInv, DrainInv
<1>7. QED
  BY <1>1, <1>2, <1>3, <1>4, <1>5, <1>6

LEMMA DrainRefusesStep ==
    ASSUME WriterInv, NEW j \in Journal, DrainRefuses(j)
    PROVE  WriterInv'
<1> USE ConstantsAssumption DEF WriterInv, DrainRefuses, RecoveryFailed, MarkNeedsRepair, Forget, MayRollBack, disk, memory, Path, Value, Depth, Open, Terminal, Top, NoScope, Pending
<1>1. TypeOK'
  BY DEF TypeOK, ControlInv, ScopeInv
<1>2. ControlInv'
  BY DEF TypeOK, ControlInv, ScopeInv, HandInv
<1>3. ExceptionInv'
  BY DEF TypeOK, ControlInv, ExceptionInv, ScopeInv, HandInv, DrainInv
<1>4. ScopeInv'
  BY DEF TypeOK, ControlInv, ExceptionInv, ScopeInv, HandInv
<1>5. HandInv'
  BY DEF TypeOK, ControlInv, ExceptionInv, ScopeInv, HandInv
<1>6. DrainInv'
  BY DEF TypeOK, ControlInv, ScopeInv, HandInv, DrainInv
<1>7. QED
  BY <1>1, <1>2, <1>3, <1>4, <1>5, <1>6

LEMMA DrainFailsStep ==
    ASSUME WriterInv, DrainFails
    PROVE  WriterInv'
<1> USE ConstantsAssumption DEF WriterInv, DrainFails, RecoveryFailed, MarkNeedsRepair, Forget, disk, memory, Path, Value, Depth, Open, Terminal, Top, NoScope, Pending
<1>1. TypeOK'
  BY DEF TypeOK, ControlInv, ScopeInv
<1>2. ControlInv'
  BY DEF TypeOK, ControlInv, ScopeInv, HandInv
<1>3. ExceptionInv'
  BY DEF TypeOK, ControlInv, ExceptionInv, ScopeInv, HandInv, DrainInv
<1>4. ScopeInv'
  BY DEF TypeOK, ControlInv, ExceptionInv, ScopeInv, HandInv
<1>5. HandInv'
  BY DEF TypeOK, ControlInv, ExceptionInv, ScopeInv, HandInv
<1>6. DrainInv'
  BY DEF TypeOK, ControlInv, ScopeInv, HandInv, DrainInv
<1>7. QED
  BY <1>1, <1>2, <1>3, <1>4, <1>5, <1>6

LEMMA DrainRollbackFailsStep ==
    ASSUME WriterInv, DrainRollbackFails
    PROVE  WriterInv'
<1> USE ConstantsAssumption DEF WriterInv, DrainRollbackFails, RecoveryFailed, MarkNeedsRepair, Forget, LateFinish, disk, memory, Path, Value, Depth, Open, Terminal, Top, NoScope, Pending
<1>1. TypeOK'
  BY DEF TypeOK, ControlInv, ScopeInv
<1>2. ControlInv'
  BY DEF TypeOK, ControlInv, ScopeInv, HandInv
<1>3. ExceptionInv'
  BY DEF TypeOK, ControlInv, ExceptionInv, ScopeInv, HandInv, DrainInv
<1>4. ScopeInv'
  BY DEF TypeOK, ControlInv, ExceptionInv, ScopeInv, HandInv
<1>5. HandInv'
  BY DEF TypeOK, ControlInv, ExceptionInv, ScopeInv, HandInv
<1>6. DrainInv'
  BY DEF TypeOK, ControlInv, ScopeInv, HandInv, DrainInv
<1>7. QED
  BY <1>1, <1>2, <1>3, <1>4, <1>5, <1>6

LEMMA DrainDoneStep ==
    ASSUME WriterInv, DrainDone
    PROVE  WriterInv'
<1> USE ConstantsAssumption DEF WriterInv, DrainDone, disk, memory, Path, Value, Depth, Open, Terminal, Top, NoScope, Pending
<1>1. TypeOK'
  BY DEF TypeOK, ControlInv, ScopeInv
<1>2. ControlInv'
  BY DEF TypeOK, ControlInv, ScopeInv, HandInv
<1>3. ExceptionInv'
  BY DEF TypeOK, ControlInv, ExceptionInv, ScopeInv, HandInv, DrainInv
<1>4. ScopeInv'
  BY DEF TypeOK, ControlInv, ExceptionInv, ScopeInv, HandInv
<1>5. HandInv'
  BY DEF TypeOK, ControlInv, ExceptionInv, ScopeInv, HandInv
<1>6. DrainInv'
  BY DEF TypeOK, ControlInv, ScopeInv, HandInv, DrainInv
<1>7. QED
  BY <1>1, <1>2, <1>3, <1>4, <1>5, <1>6

LEMMA RepairPassesStep ==
    ASSUME WriterInv, RepairPasses
    PROVE  WriterInv'
<1> USE ConstantsAssumption DEF WriterInv, RepairPasses, Forget, disk, memory, Path, Value, Depth, Open, Terminal, Top, NoScope, Pending
<1>1. TypeOK'
  BY DEF TypeOK, ControlInv, ScopeInv
<1>2. ControlInv'
  BY DEF TypeOK, ControlInv, ScopeInv, HandInv
<1>3. ExceptionInv'
  BY DEF TypeOK, ControlInv, ExceptionInv, ScopeInv, HandInv, DrainInv
<1>4. ScopeInv'
  BY DEF TypeOK, ControlInv, ExceptionInv, ScopeInv, HandInv
<1>5. HandInv'
  BY DEF TypeOK, ControlInv, ExceptionInv, ScopeInv, HandInv
<1>6. DrainInv'
  BY DEF TypeOK, ControlInv, ScopeInv, HandInv, DrainInv
<1>7. QED
  BY <1>1, <1>2, <1>3, <1>4, <1>5, <1>6

LEMMA RepairFailsStep ==
    ASSUME WriterInv, RepairFails
    PROVE  WriterInv'
<1> USE ConstantsAssumption DEF WriterInv, RepairFails, MarkNeedsRepair, Forget, disk, memory, Path, Value, Depth, Open, Terminal, Top, NoScope, Pending
<1>1. TypeOK'
  BY DEF TypeOK, ControlInv, ScopeInv
<1>2. ControlInv'
  BY DEF TypeOK, ControlInv, ScopeInv, HandInv
<1>3. ExceptionInv'
  BY DEF TypeOK, ControlInv, ExceptionInv, ScopeInv, HandInv, DrainInv
<1>4. ScopeInv'
  BY DEF TypeOK, ControlInv, ExceptionInv, ScopeInv, HandInv
<1>5. HandInv'
  BY DEF TypeOK, ControlInv, ExceptionInv, ScopeInv, HandInv
<1>6. DrainInv'
  BY DEF TypeOK, ControlInv, ScopeInv, HandInv, DrainInv
<1>7. QED
  BY <1>1, <1>2, <1>3, <1>4, <1>5, <1>6

LEMMA InitWriterInv == Init => WriterInv
<1> SUFFICES ASSUME Init PROVE WriterInv
  OBVIOUS
<1> USE ConstantsAssumption DEF Init, WriterInv, Path, Value, Depth, Open, Terminal, NoBackup, NoScope, Pending
<1>1. TypeOK
  <2>1. backup \in [Journal -> [Path -> Value]]
    OBVIOUS
  <2>2. level \in [Journal -> 0 .. MaxDepth]
    OBVIOUS
  <2>3. QED
    BY <2>1, <2>2 DEF TypeOK
<1>2. ControlInv /\ ExceptionInv
  BY DEF ControlInv, ExceptionInv
<1>3. ScopeInv /\ HandInv /\ DrainInv
  BY DEF ScopeInv, HandInv, DrainInv
<1>4. QED
  BY <1>1, <1>2, <1>3

LEMMA StutterWriterInv == WriterInv /\ UNCHANGED vars => WriterInv'
  BY DEF vars, WriterInv, TypeOK, ControlInv, ExceptionInv, ScopeInv, HandInv, DrainInv,
         Top, NoScope, Pending

(* Every step keeps the invariant of the writer. *)
LEMMA NextWriterInv ==
    ASSUME WriterInv, [Next]_vars
    PROVE  WriterInv'
<1>1. CASE Lease
  BY <1>1, AcquireWriteStep, AcquireRepairStep, AcquireReadStep, ReleaseReadStep,
     ReleaseWriteStep DEF Lease
<1>2. CASE Body
  <2>1. CASE \E j \in Journal : BeginSnapshot(j) \/ TrackNew(j) \/ Commit(j)
    BY <2>1, BeginSnapshotStep, TrackNewStep, CommitStep
  <2>2. CASE \E S \in SUBSET Page : WriteJournal(S)
    BY <2>2, WriteJournalStep
  <2>3. CASE \E j \in Journal, p \in Path, v \in Value : Write(j, p, v)
    BY <2>3, WriteStep
  <2>4. CASE \E a \in Artifact, v \in Content : CreateArtifact(a, v)
    BY <2>4, CreateArtifactStep
  <2>5. CASE CatchError
    BY <2>5, CatchErrorStep
  <2>6. QED
    BY <1>2, <2>1, <2>2, <2>3, <2>4, <2>5 DEF Body
<1>3. CASE Settle
  <2>1. CASE \E j \in Journal : Abort(j) \/ DrainTerminal(j) \/ DrainRollback(j) \/ DrainRefuses(j)
    BY <2>1, AbortStep, DrainTerminalStep, DrainRollbackStep, DrainRefusesStep
  <2>2. CASE \E p \in Path : RemoveTarget(p)
    BY <2>2, RemoveTargetStep
  <2>3. CASE RestoreTarget \/ FinishRollback \/ DiscardBackup \/ UnlinkJournal
    BY <2>3, RestoreTargetStep, FinishRollbackStep, DiscardBackupStep, UnlinkJournalStep
  <2>4. CASE DrainDone \/ RepairPasses
    BY <2>4, DrainDoneStep, RepairPassesStep
  <2>5. QED
    BY <1>3, <2>1, <2>2, <2>3, <2>4 DEF Settle
<1>4. CASE Fault
  <2>1. CASE SnapshotFails \/ TrackNewFails \/ BodyFails \/ Crash
    BY <2>1, SnapshotFailsStep, TrackNewFailsStep, BodyFailsStep, CrashStep
  <2>2. CASE \E j \in Journal : CommitFails(j) \/ AbortFails(j)
    BY <2>2, CommitFailsStep, AbortFailsStep
  <2>3. CASE ScopeRollbackFails \/ ScopeUnlinkFails
    BY <2>3, ScopeRollbackFailsStep, ScopeUnlinkFailsStep
  <2>4. CASE DrainFails \/ DrainRollbackFails \/ RepairFails
    BY <2>4, DrainFailsStep, DrainRollbackFailsStep, RepairFailsStep
  <2>5. CASE \E S \in SUBSET Page : SnapshotFailsLate(S)
    BY <2>5, SnapshotFailsLateStep
  <2>6. QED
    BY <1>4, <2>1, <2>2, <2>3, <2>4, <2>5 DEF Fault
<1>5. CASE UNCHANGED vars
  BY <1>5, StutterWriterInv
<1>6. QED
  BY <1>1, <1>2, <1>3, <1>4, <1>5 DEF Next

-----------------------------------------------------------------------------
(* Where the writer is and what it may believe, whatever fails.            *)
THEOREM WriterInvariance == Spec => []WriterInv
<1>1. WriterInv /\ [Next]_vars => WriterInv'
  BY NextWriterInv
<1>2. QED
  BY <1>1, InitWriterInv, PTL DEF Spec

(* The journal's variables keep their types. *)
THEOREM TypeCorrect == Spec => []TypeOK
<1>1. WriterInv => TypeOK
  BY DEF WriterInv
<1>2. QED
  BY <1>1, WriterInvariance, PTL

(* Readers never hold a lease beside an undecided mutation (kb_lock). *)
THEOREM ReadersSafe == Spec => []ReadersSeeDecided
<1>1. WriterInv => ReadersSeeDecided
  BY DEF WriterInv, DrainInv, Pending, Open, ReadersSeeDecided
<1>2. QED
  BY <1>1, WriterInvariance, PTL

(* No scope is open across the repair barrier (mutation_scope,             *)
(* recover_pending_journals, kb_lock).                                     *)
THEOREM BarrierSafe == Spec => []BarrierHolds
<1>1. ASSUME WriterInv PROVE BarrierHolds
  <2>1. ASSUME pc \in {"work", "staging", "created"}
        PROVE  ~marker /\ \A j \in Journal : status[j] # "recovering" \/ j = cur
    <3>1. ctx = "scope" /\ exc = "none"
      BY <1>1, <2>1 DEF WriterInv, ControlInv, ExceptionInv
    <3>2. ~marker /\ \A j \in Journal : status[j] = "recovering" => level[j] > 0
      BY <1>1, <3>1 DEF WriterInv, ExceptionInv
    <3>3. \A j \in Journal : level[j] > 0 /\ j # cur => status[j] = "active"
      BY <1>1, <2>1 DEF WriterInv, ScopeInv
    <3>4. QED
      BY <3>2, <3>3
  <2>2. QED
    BY <2>1 DEF BarrierHolds
<1>2. QED
  BY <1>1, WriterInvariance, PTL

(* Only BeginSnapshot, Commit, Abort and recovery take a journal in hand. *)
LEMMA TakesInHand ==
    ASSUME WriterInv, Next, NEW j \in Journal, cur # j, cur' = j
    PROVE  \/ status[j] # "recovering"
           \/ DrainRollback(j)
<1> USE ConstantsAssumption DEF disk, memory, Forget
<1>1. CASE Lease
  BY <1>1 DEF Lease, AcquireWrite, AcquireRepair, AcquireRead, ReleaseRead, ReleaseWrite
<1>2. CASE Body
  BY <1>2 DEF Body, BeginSnapshot, WriteJournal, Write, CreateArtifact, TrackNew, Commit,
              CatchError, WriterInv, ControlInv, ExceptionInv, ScopeInv, Top
<1>3. CASE Settle
  <2>1. CASE \E k \in Journal : Abort(k)
    <3>1. Abort(j)
      BY <2>1 DEF Abort
    <3>2. level[j] > 0 /\ j # cur
      BY <3>1 DEF Abort, Top
    <3>3. QED
      BY <3>2 DEF WriterInv, ScopeInv
  <2>2. CASE \E k \in Journal : DrainTerminal(k) \/ DrainRollback(k) \/ DrainRefuses(k)
    <3>1. DrainTerminal(j) \/ DrainRollback(j)
      BY <2>2 DEF DrainTerminal, DrainRollback, DrainRefuses, RecoveryFailed
    <3>2. QED
      BY <3>1 DEF DrainTerminal, Terminal
  <2>3. QED
    BY <1>3, <2>1, <2>2 DEF Settle, RemoveTarget, RestoreTarget, FinishRollback, DiscardBackup,
                            UnlinkJournal, Proceed, DrainDone, RepairPasses
<1>4. CASE Fault
  BY <1>4 DEF Fault, SnapshotFails, SnapshotFailsLate, TrackNewFails, BodyFails, CommitFails,
              AbortFails, ScopeRollbackFails, ScopeRollbackFailed, ScopeUnlinkFails, Proceed,
              DrainFails, DrainRollbackFails, RecoveryFailed, RepairFails, Crash
<1>5. QED
  BY <1>1, <1>2, <1>3, <1>4 DEF Next

(* Ordinary recovery never resumes a restoration that did not finish       *)
(* (_recover_pending_journals, status "recovering").                       *)
THEOREM NoRetrySafe == Spec => NoImplicitRetry
<1> DEFINE Step == \A j \in Journal :
                     status[j] = "recovering" /\ cur # j /\ cur' = j => ctx' = "repair"
<1>1. ASSUME WriterInv, [Next]_vars PROVE [Step]_vars
  <2>1. SUFFICES ASSUME Next, NEW j \in Journal, status[j] = "recovering", cur # j, cur' = j
                 PROVE  ctx' = "repair"
    BY <1>1
  <2>2. DrainRollback(j)
    BY <1>1, <2>1, TakesInHand
  <2>3. QED
    BY <2>1, <2>2 DEF DrainRollback, MayRollBack
<1>2. QED
  BY <1>1, WriterInvariance, PTL DEF Spec, NoImplicitRetry

-----------------------------------------------------------------------------
(* What is on disk. *)
LEMMA NextJournalInv ==
    ASSUME IInv, Next
    PROVE  JournalInv'
<1> USE ConstantsAssumption
    DEF IInv, WriterInv, TypeOK, ControlInv, ExceptionInv, ScopeInv, HandInv, JournalInv, Held,
        Valid, disk, memory, Path, Value, Depth, Open, Terminal, Top, NoScope
<1>1. CASE Lease
  <2>1. CASE \E p \in Process : AcquireWrite(p) \/ AcquireRepair(p)
    BY <2>1 DEF AcquireWrite, AcquireRepair
  <2>2. CASE \E p \in Process : AcquireRead(p) \/ ReleaseRead(p)
    BY <2>2 DEF AcquireRead, ReleaseRead
  <2>3. CASE ReleaseWrite
    BY <2>3 DEF ReleaseWrite, Forget
  <2> QED
    BY <1>1, <2>1, <2>2, <2>3 DEF Lease
<1>2. CASE Body
  <2>1. ASSUME NEW j \in Journal, BeginSnapshot(j) PROVE JournalInv'
    BY <2>1 DEF BeginSnapshot
  <2>2. ASSUME NEW j \in Journal, TrackNew(j) PROVE JournalInv'
    BY <2>2 DEF TrackNew
  <2>3. ASSUME NEW j \in Journal, Commit(j) PROVE JournalInv'
    BY <2>3 DEF Commit
  <2>4. ASSUME NEW S \in SUBSET Page, WriteJournal(S) PROVE JournalInv'
    BY <2>4 DEF WriteJournal, OpenScopePaths
  <2>5. ASSUME NEW j \in Journal, NEW p \in Path, NEW v \in Value, Write(j, p, v) PROVE JournalInv'
    BY <2>5 DEF Write
  <2>6. ASSUME NEW a \in Artifact, NEW v \in Content, CreateArtifact(a, v) PROVE JournalInv'
    BY <2>6 DEF CreateArtifact, Undecided
  <2>7. CASE CatchError
    BY <2>7 DEF CatchError
  <2> QED
    BY <1>2, <2>1, <2>2, <2>3, <2>4, <2>5, <2>6, <2>7 DEF Body
<1>3. CASE Settle
  <2>1. ASSUME NEW j \in Journal, Abort(j) PROVE JournalInv'
    BY <2>1 DEF Abort
  <2>2. ASSUME NEW p \in Path, RemoveTarget(p) PROVE JournalInv'
    BY <2>2 DEF RemoveTarget
  <2>3. CASE RestoreTarget
    BY <2>3 DEF RestoreTarget
  <2>4. CASE FinishRollback
    BY <2>4 DEF FinishRollback
  <2>5. CASE DiscardBackup
    BY <2>5 DEF DiscardBackup
  <2>6. CASE UnlinkJournal
    BY <2>6 DEF UnlinkJournal, Proceed
  <2>7. ASSUME NEW j \in Journal, DrainTerminal(j) PROVE JournalInv'
    BY <2>7 DEF DrainTerminal
  <2>8. ASSUME NEW j \in Journal, DrainRollback(j) PROVE JournalInv'
    BY <2>8 DEF DrainRollback, MayRollBack
  <2>9. ASSUME NEW j \in Journal, DrainRefuses(j) PROVE JournalInv'
    BY <2>9 DEF DrainRefuses, RecoveryFailed, Forget
  <2>10. CASE DrainDone
    BY <2>10 DEF DrainDone, DrainInv, Pending
  <2>11. CASE RepairPasses
    BY <2>11 DEF RepairPasses, Forget
  <2> QED
    BY <1>3, <2>1, <2>2, <2>3, <2>4, <2>5, <2>6, <2>7, <2>8, <2>9, <2>10, <2>11 DEF Settle
<1>4. CASE Fault
  <2>1. CASE SnapshotFails
    BY <2>1 DEF SnapshotFails
  <2>2. CASE TrackNewFails \/ BodyFails
    BY <2>2 DEF TrackNewFails, BodyFails
  <2>3. ASSUME NEW j \in Journal, CommitFails(j) PROVE JournalInv'
    BY <2>3 DEF CommitFails
  <2>4. ASSUME NEW j \in Journal, AbortFails(j) PROVE JournalInv'
    BY <2>4 DEF AbortFails, ScopeRollbackFailed
  <2>5. CASE ScopeRollbackFails
    BY <2>5 DEF ScopeRollbackFails, ScopeRollbackFailed, LateFinish
  <2>6. CASE ScopeUnlinkFails
    BY <2>6 DEF ScopeUnlinkFails, Proceed
  <2>7. CASE DrainFails
    BY <2>7 DEF DrainFails, RecoveryFailed, Forget
  <2>8. CASE DrainRollbackFails
    BY <2>8 DEF DrainRollbackFails, RecoveryFailed, Forget, LateFinish
  <2>9. CASE RepairFails \/ Crash
    BY <2>9 DEF RepairFails, Crash, Forget
  <2>10. ASSUME NEW S \in SUBSET Page, SnapshotFailsLate(S) PROVE JournalInv'
    BY <2>10 DEF SnapshotFailsLate
  <2> QED
    BY <1>4, <2>1, <2>2, <2>3, <2>4, <2>5, <2>6, <2>7, <2>8, <2>9, <2>10 DEF Fault
<1> QED
  BY <1>1, <1>2, <1>3, <1>4 DEF Next

LEMMA InitIInv == Init => IInv
  BY InitWriterInv DEF Init, IInv, JournalInv, Held, Open

LEMMA NextIInv ==
    ASSUME IInv, [Next]_vars
    PROVE  IInv'
<1>1. WriterInv'
  BY NextWriterInv DEF IInv
<1>2. CASE Next
  BY <1>1, <1>2, NextJournalInv DEF IInv
<1>3. CASE UNCHANGED vars
  BY <1>1, <1>3 DEF IInv, JournalInv, Held, Valid, vars
<1> QED
  BY <1>2, <1>3

(* Every journal is owned or will be visited, and can be undone, unless    *)
(* its snapshot failed after the journal was in place.                     *)
THEOREM Invariance == Spec => []IInv
<1>1. IInv /\ [Next]_vars => IInv'
  BY NextIInv
<1>2. QED
  BY <1>1, InitIInv, PTL DEF Spec

(* A journal that is not decided has all its backups, through crashes,     *)
(* failed rollbacks, drains and repairs (MutationSnapshot.discard,         *)
(* recover_pending_journals), or is one that a failed snapshot left and    *)
(* whose restoration never begins (mutation.py:399-406).                   *)
THEOREM EvidenceSafe == Spec => []JournalHasEvidence
<1>1. IInv => JournalHasEvidence
  BY DEF IInv, JournalInv, JournalHasEvidence, Valid, Open
<1>2. QED
  BY <1>1, Invariance, PTL

(* Undecided journals are pairwise disjoint, so recovery undoes no commit  *)
(* but its own and ends in the same content in any order of the journals;  *)
(* only a journal that a failed snapshot left may overlap another.         *)
THEOREM RecoveryUnambiguous == Spec => []UndecidedDisjoint
<1>1. IInv => UndecidedDisjoint
  BY DEF IInv, JournalInv, UndecidedDisjoint, Undecided, Held
<1>2. QED
  BY <1>1, Invariance, PTL

-----------------------------------------------------------------------------
(* The refinement of AtomicKb.  Beyond IInv, it needs what the rollback in *)
(* hand has done so far, and that a path without an entry is no page.      *)
RestoredInv == pc = "rollback" => \A p \in done : live[p] = backup[cur][p]
UntrackedInv == inhand # NoPath /\ pc \in {"created", "unwind"} => inhand \in Artifact

RInv == IInv /\ RestoredInv /\ UntrackedInv

(* Outside a clash no page is protected twice. *)
PagesDisjoint ==
    \A j, k \in Journal, p \in Page : Undecided(j, p) /\ Undecided(k, p) => j = k

LEMMA NoClashDisjoint == IInv /\ ~Clash => PagesDisjoint
  BY DEF IInv, WriterInv, TypeOK, JournalInv, PagesDisjoint, Clash, Undecided, Held

LEMMA NoClashDisjointNext == IInv' /\ ~Clash' => PagesDisjoint'
  BY DEF IInv, WriterInv, TypeOK, JournalInv, PagesDisjoint, Clash, Undecided, Held

LEMMA InitRInv == Init => RInv
  BY InitIInv DEF Init, RInv, RestoredInv, UntrackedInv

LEMMA NextRInv ==
    ASSUME RInv, [Next]_vars
    PROVE  RInv'
<1>1. IInv /\ IInv'
  BY NextIInv DEF RInv
<1> USE <1>1, ConstantsAssumption DEF RInv, RestoredInv, UntrackedInv, disk, memory, Forget
<1>2. CASE Lease
  BY <1>2 DEF Lease, AcquireWrite, AcquireRepair, AcquireRead, ReleaseRead, ReleaseWrite
<1>3. CASE Body
  BY <1>3 DEF Body, BeginSnapshot, WriteJournal, Write, CreateArtifact, TrackNew, Commit, CatchError
<1>4. CASE Settle
  <2>1. CASE \E j \in Journal : Abort(j) \/ DrainTerminal(j) \/ DrainRollback(j) \/ DrainRefuses(j)
    BY <2>1 DEF Abort, DrainTerminal, DrainRollback, DrainRefuses, RecoveryFailed
  <2>2. ASSUME NEW q \in Path, RemoveTarget(q) PROVE RInv'
    BY <2>2 DEF RemoveTarget, IInv, WriterInv, TypeOK
  <2>3. CASE RestoreTarget
    <3>1. \A q \in done' : live'[q] = backup[cur][q]
      BY <2>3 DEF RestoreTarget, IInv, WriterInv, TypeOK
    <3> QED
      BY <2>3, <3>1 DEF RestoreTarget
  <2>4. CASE FinishRollback \/ DiscardBackup \/ UnlinkJournal \/ DrainDone \/ RepairPasses
    BY <2>4 DEF FinishRollback, DiscardBackup, UnlinkJournal, Proceed, DrainDone, RepairPasses
  <2> QED
    BY <1>4, <2>1, <2>2, <2>3, <2>4 DEF Settle
<1>5. CASE Fault
  BY <1>5 DEF Fault, SnapshotFails, SnapshotFailsLate, TrackNewFails, BodyFails, CommitFails,
              AbortFails, ScopeRollbackFails, ScopeRollbackFailed, ScopeUnlinkFails, Proceed,
              DrainFails, DrainRollbackFails, RecoveryFailed, RepairFails, Crash,
              IInv, WriterInv, ControlInv
<1>6. CASE UNCHANGED vars
  BY <1>6 DEF vars
<1> QED
  BY <1>2, <1>3, <1>4, <1>5, <1>6 DEF Next

(* What the knowledge base shows of a page, before a step and after it. *)
Shows(p, v) ==
    \/ \E j \in Journal : Undecided(j, p) /\ v = backup[j][p]
    \/ (\A j \in Journal : ~Undecided(j, p)) /\ v = live[p]

WillShow(p, v) ==
    \/ \E j \in Journal : Undecided(j, p)' /\ v = backup'[j][p]
    \/ (\A j \in Journal : ~Undecided(j, p)') /\ v = live'[p]

Drafted(j) == {q \in Page : level[j] > 0 /\ status[j] = "active" /\ q \in targets[j]}

LEMMA ContentShown ==
    ASSUME NEW p \in Page
    PROVE  Shows(p, KbContent[p])
  BY DEF Shows, KbContent

LEMMA ShownIsContent ==
    ASSUME PagesDisjoint, NEW p \in Page, NEW v, Shows(p, v)
    PROVE  KbContent[p] = v
<1>2. ASSUME NEW j \in Journal, Undecided(j, p), v = backup[j][p]
      PROVE  KbContent[p] = v
  <2>1. (CHOOSE i \in Journal : Undecided(i, p)) = j
    BY <1>2 DEF PagesDisjoint
  <2> QED
    BY <1>2, <2>1 DEF KbContent
<1> QED
  BY <1>2 DEF Shows, KbContent

LEMMA NextContent ==
    ASSUME PagesDisjoint', NEW x, x = [p \in Page |-> x[p]], \A p \in Page : WillShow(p, x[p])
    PROVE  KbContent' = x
<1> SUFFICES ASSUME NEW p \in Page PROVE KbContent'[p] = x[p]
  BY DEF KbContent
<1>2. ASSUME NEW j \in Journal, Undecided(j, p)', x[p] = backup'[j][p]
      PROVE  KbContent'[p] = x[p]
  <2>1. (CHOOSE i \in Journal : Undecided(i, p)') = j
    BY <1>2 DEF PagesDisjoint
  <2> QED
    BY <1>2, <2>1 DEF KbContent
<1> QED
  BY <1>2 DEF WillShow, KbContent

LEMMA DraftKept ==
    ASSUME \A j \in Journal : Drafted(j)' = Drafted(j),
           \A j \in Journal : \A p \in Drafted(j) : live'[p] = live[p]
    PROVE  KbDraft' = KbDraft
<1>1. /\ KbDraft = [j \in Journal |-> [p \in Drafted(j) |-> live[p]]]
      /\ KbDraft' = [j \in Journal |-> [p \in Drafted(j)' |-> live'[p]]]
  BY DEF KbDraft, Drafted
<1> QED
  BY <1>1

LEMMA DraftDropped ==
    ASSUME NEW j \in Journal, Drafted(j)' = {},
           \A k \in Journal \ {j} : Drafted(k)' = Drafted(k),
           live' = live
    PROVE  KbDraft' = [KbDraft EXCEPT ![j] = Kb!NoDraft]
<1>1. /\ KbDraft = [k \in Journal |-> [p \in Drafted(k) |-> live[p]]]
      /\ KbDraft' = [k \in Journal |-> [p \in Drafted(k)' |-> live'[p]]]
  BY DEF KbDraft, Drafted
<1>2. KbDraft'[j] = Kb!NoDraft
  BY <1>1 DEF Kb!NoDraft
<1>3. \A k \in Journal \ {j} : KbDraft'[k] = KbDraft[k]
  BY <1>1
<1> QED
  BY <1>1, <1>2, <1>3

LEMMA NothingDrafted ==
    ASSUME \A j \in Journal : ~(level[j] > 0)
    PROVE  KbDraft = [j \in Journal |-> Kb!NoDraft]
<1>1. KbDraft = [j \in Journal |-> [p \in Drafted(j) |-> live[p]]]
  BY DEF KbDraft, Drafted
<1>2. \A j \in Journal : Drafted(j) = {}
  BY DEF Drafted
<1> QED
  BY <1>1, <1>2 DEF Kb!NoDraft

LEMMA NoDoubt ==
    ASSUME InDoubt = {}
    PROVE  KbFallback = NoVersion
  BY DEF KbFallback

LEMMA ContentKept ==
    ASSUME PagesDisjoint', \A p \in Page : Shows(p, KbContent[p]) => WillShow(p, KbContent[p])
    PROVE  KbContent' = KbContent
<1>1. \A p \in Page : WillShow(p, KbContent[p])
  BY ContentShown
<1>2. KbContent = [p \in Page |-> KbContent[p]]
  BY DEF KbContent
<1> QED
  BY <1>1, <1>2, NextContent

(* A scope that is open before the handler of an exception is not decided. *)
LEMMA OpenScopeActive ==
    ASSUME IInv, pc \in {"work", "created"}, NEW j \in Journal, level[j] > 0
    PROVE  status[j] = "active"
  BY ConstantsAssumption DEF IInv, WriterInv, ControlInv, ScopeInv

LEMMA NoDoubtElsewhere == pc # "unwind" => InDoubt = {}
  BY DEF InDoubt

(* A step the abstract specification does not see. *)
LEMMA Stutter ==
    ASSUME KbContent' = KbContent, KbDraft' = KbDraft, InDoubt = {}, InDoubt' = {},
           readers' = readers
    PROVE  UNCHANGED Kb!vars
<1>1. KbFallback = NoVersion /\ KbFallback' = NoVersion
  BY DEF KbFallback
<1> QED
  BY <1>1 DEF Kb!vars

(* A step that touches neither the files nor what the journals say of them. *)
LEMMA FilesKept ==
    ASSUME RInv, PagesDisjoint, PagesDisjoint', UNCHANGED <<live, status, targets, backup, readers>>,
           \A j \in Journal : status[j] = "active" => level'[j] = level[j],
           InDoubt = {}, InDoubt' = {}
    PROVE  UNCHANGED Kb!vars
<1>1. KbContent' = KbContent
  BY ContentKept DEF Shows, WillShow, Undecided
<1>2. KbDraft' = KbDraft
  <2>1. \A j \in Journal : Drafted(j)' = Drafted(j)
    BY DEF Drafted
  <2> QED
    BY <2>1, DraftKept
<1> QED
  BY <1>1, <1>2, Stutter

LEMMA QuietSteps ==
    ASSUME RInv, PagesDisjoint, PagesDisjoint',
           \/ \E p \in Process : AcquireWrite(p) \/ AcquireRepair(p)
           \/ ReleaseWrite \/ SnapshotFails \/ CatchError \/ DiscardBackup \/ DrainDone
           \/ \E j \in Journal : BeginSnapshot(j) \/ DrainTerminal(j) \/ DrainRefuses(j)
           \/ DrainFails \/ RepairPasses \/ RepairFails
    PROVE  UNCHANGED Kb!vars
<1> USE DEF AcquireWrite, AcquireRepair, ReleaseWrite, SnapshotFails, CatchError, DiscardBackup,
            DrainDone, BeginSnapshot, DrainTerminal, DrainRefuses, DrainFails, RepairPasses,
            RepairFails, RecoveryFailed, Forget, disk, memory
<1>1. UNCHANGED <<live, status, targets, backup, readers>>
  OBVIOUS
<1>2. pc # "unwind" /\ pc' # "unwind"
  BY DEF RInv, IInv, WriterInv, ControlInv
<1>3. InDoubt = {} /\ InDoubt' = {}
  BY <1>2 DEF InDoubt
<1>4. \A j \in Journal : level'[j] = level[j]
  <2>1. CASE UNCHANGED level
    BY <2>1
  <2>2. CASE level' = [j \in Journal |-> 0] /\ NoScope
    BY <2>2, ConstantsAssumption DEF NoScope
  <2>3. ctx # "scope" => NoScope
    BY DEF RInv, IInv, WriterInv, ControlInv
  <2>4. pc \in {"drain", "check"} => ctx # "scope"
    BY DEF RInv, IInv, WriterInv, ControlInv
  <2> QED
    BY <2>1, <2>2, <2>3, <2>4
<1> QED
  BY <1>1, <1>3, <1>4, FilesKept

LEMMA FailureSteps ==
    ASSUME RInv, PagesDisjoint, PagesDisjoint', TrackNewFails \/ BodyFails
    PROVE  UNCHANGED Kb!vars
<1> USE DEF TrackNewFails, BodyFails, disk
<1>1. UNCHANGED <<live, status, targets, backup, readers, level>> /\ pc \in {"work", "created"}
  OBVIOUS
<1>2. InDoubt = {}
  BY <1>1 DEF InDoubt
<1>3. InDoubt' = {}
  <2>1. \A j \in Journal : level[j] > 0 => status[j] = "active"
    BY <1>1, OpenScopeActive DEF RInv
  <2> QED
    BY <1>1, <2>1 DEF InDoubt, Top
<1> QED
  BY <1>1, <1>2, <1>3, FilesKept

LEMMA ProceedSteps ==
    ASSUME RInv, PagesDisjoint, PagesDisjoint', UnlinkJournal \/ ScopeUnlinkFails
    PROVE  UNCHANGED Kb!vars
<1> USE DEF UnlinkJournal, ScopeUnlinkFails, Proceed, disk
<1>1. /\ pc = "unlink" /\ cur \in Journal /\ status[cur] \in Terminal
      /\ level \in [Journal -> Depth] /\ status \in [Journal -> Open \cup Terminal \cup {"none"}]
      /\ targets \in [Journal -> SUBSET Path] /\ backup \in [Journal -> [Path -> Value]]
  BY DEF RInv, IInv, WriterInv, ControlInv, HandInv, TypeOK
<1>2. /\ live' = live /\ readers' = readers /\ level' = [level EXCEPT ![cur] = 0]
      /\ \A j \in Journal \ {cur} : /\ status'[j] = status[j] /\ targets'[j] = targets[j]
                                    /\ backup'[j] = backup[j] /\ level'[j] = level[j]
      /\ status'[cur] \in Terminal \cup {"none"}
  BY <1>1
<1>3. InDoubt = {} /\ InDoubt' = {}
  BY <1>1 DEF InDoubt
<1>4. \A j \in Journal, p \in Page : Undecided(j, p)' <=> Undecided(j, p)
  BY <1>1, <1>2 DEF Undecided, Open, Terminal
<1>5. KbContent' = KbContent
  BY <1>1, <1>2, <1>4, ContentKept DEF Shows, WillShow, Undecided, Open, Terminal
<1>6. \A j \in Journal : Drafted(j)' = Drafted(j)
  BY <1>1, <1>2 DEF Drafted, Terminal
<1>7. KbDraft' = KbDraft
  BY <1>2, <1>6, DraftKept
<1> QED
  BY <1>2, <1>3, <1>5, <1>7, Stutter

(* Undoing a journal is invisible: what it names is shown from its backups *)
(* until every one of them is back in place.                               *)
LEMMA RestoreSteps ==
    ASSUME RInv, PagesDisjoint, PagesDisjoint', RestoreTarget \/ \E p \in Path : RemoveTarget(p)
    PROVE  UNCHANGED Kb!vars
<1> USE DEF RestoreTarget, RemoveTarget
<1>1. /\ pc = "rollback" /\ pc' = "rollback" /\ cur \in Journal /\ status[cur] = "recovering"
      /\ live \in [Path -> Value] /\ UNCHANGED <<status, targets, backup, readers, level>>
  BY DEF RInv, IInv, WriterInv, ControlInv, HandInv, TypeOK
<1>2. PICK q \in targets[cur] : \A p \in Path : p # q => live'[p] = live[p]
  BY <1>1 DEF RInv, IInv, WriterInv, ControlInv, TypeOK
<1>3. InDoubt = {} /\ InDoubt' = {}
  BY <1>1 DEF InDoubt
<1>4. Undecided(cur, q)
  BY <1>1, <1>2 DEF Undecided, Open
<1>5. KbContent' = KbContent
  BY <1>1, <1>2, <1>4, ContentKept DEF Shows, WillShow, Undecided, Path
<1>6. \A j \in Journal : Drafted(j)' = Drafted(j)
  BY <1>1 DEF Drafted
<1>7. \A j \in Journal : q \notin Drafted(j)
  BY <1>1, <1>2, <1>4 DEF Drafted, PagesDisjoint, Undecided, Open
<1>8. KbDraft' = KbDraft
  <2>1. \A j \in Journal : \A p \in Drafted(j) : live'[p] = live[p]
    BY <1>2, <1>7 DEF Drafted, Path
  <2> QED
    BY <1>6, <2>1, DraftKept
<1> QED
  BY <1>1, <1>3, <1>5, <1>8, Stutter

(* The end of a restoration, in its order or as the last write of a failing *)
(* one: the files are by then what the backups are.                         *)
LEMMA FinishSteps ==
    ASSUME RInv, PagesDisjoint, PagesDisjoint', FinishRollback \/ ScopeRollbackFails \/ DrainRollbackFails
    PROVE  UNCHANGED Kb!vars
<1> USE DEF FinishRollback, ScopeRollbackFails, DrainRollbackFails, ScopeRollbackFailed,
            RecoveryFailed, Forget, LateFinish
<1>1. /\ pc = "rollback" /\ cur \in Journal /\ status[cur] = "recovering"
      /\ status \in [Journal -> Open \cup Terminal \cup {"none"}] /\ level \in [Journal -> Depth]
      /\ \A p \in done : live[p] = backup[cur][p]
      /\ UNCHANGED <<live, targets, backup, readers>> /\ pc' # "unwind"
  BY DEF RInv, RestoredInv, IInv, WriterInv, ControlInv, HandInv, TypeOK
<1>2. \/ status' = status
      \/ status' = [status EXCEPT ![cur] = "rolled_back"] /\ done = targets[cur]
  OBVIOUS
<1>3. InDoubt = {} /\ InDoubt' = {}
  BY <1>1 DEF InDoubt
<1>4. KbContent' = KbContent
  <2>1. CASE status' = status
    BY <1>1, <2>1, ContentKept DEF Shows, WillShow, Undecided
  <2>2. CASE status' = [status EXCEPT ![cur] = "rolled_back"] /\ done = targets[cur]
    <3>1. \A j \in Journal \ {cur}, p \in Page : Undecided(j, p)' <=> Undecided(j, p)
      BY <1>1, <2>2 DEF Undecided
    <3>2. \A j \in Journal, p \in Page : j = cur => ~Undecided(j, p)'
      BY <1>1, <2>2 DEF Undecided, Open
    <3>3. \A j \in Journal, p \in Page : Undecided(j, p) /\ Undecided(cur, p) => j = cur
      BY <1>1 DEF PagesDisjoint
    <3>4. ASSUME NEW p \in Page, Shows(p, KbContent[p])
          PROVE  WillShow(p, KbContent[p])
      <4>1. CASE Undecided(cur, p)
        <5>1. p \in done /\ live[p] = backup[cur][p]
          BY <1>1, <2>2, <4>1 DEF Undecided
        <5>2. \A j \in Journal : ~Undecided(j, p)'
          BY <3>1, <3>2, <3>3, <4>1
        <5>3. KbContent[p] = backup[cur][p]
          BY <3>3, <3>4, <4>1, <1>1 DEF Shows
        <5> QED
          BY <1>1, <5>1, <5>2, <5>3 DEF WillShow
      <4>2. CASE ~Undecided(cur, p)
        BY <1>1, <3>1, <3>2, <3>4, <4>2 DEF Shows, WillShow
      <4> QED
        BY <4>1, <4>2
    <3> QED
      BY <3>4, ContentKept
  <2> QED
    BY <1>2, <2>1, <2>2
<1>5. \A j \in Journal : Drafted(j)' = Drafted(j)
  <2>1. \A j \in Journal \ {cur} : level'[j] = level[j] /\ status'[j] = status[j]
    <3>1. CASE ctx = "scope"
      BY <1>1, <1>2, <3>1
    <3>2. CASE ctx # "scope"
      <4>1. \A j \in Journal : level[j] = 0
        BY <3>2, ConstantsAssumption DEF RInv, IInv, WriterInv, ControlInv, NoScope
      <4> QED
        BY <1>1, <1>2, <3>2, <4>1
    <3> QED
      BY <3>1, <3>2
  <2>2. status[cur] # "active" /\ status'[cur] # "active"
    BY <1>1, <1>2
  <2> QED
    BY <1>1, <2>1, <2>2 DEF Drafted
<1>6. KbDraft' = KbDraft
  BY <1>1, <1>5, DraftKept
<1> QED
  BY <1>1, <1>3, <1>4, <1>6, Stutter

LEMMA DrainRollbackQuiet ==
    ASSUME RInv, PagesDisjoint, PagesDisjoint', NEW j \in Journal, DrainRollback(j)
    PROVE  UNCHANGED Kb!vars
<1> USE DEF DrainRollback, MayRollBack
<1>1. /\ status \in [Journal -> Open \cup Terminal \cup {"none"}] /\ status[j] \in Open
      /\ pc # "unwind" /\ pc' # "unwind" /\ NoScope
      /\ UNCHANGED <<live, targets, backup, readers, level>>
  BY DEF RInv, IInv, WriterInv, ControlInv, TypeOK
<1>2. \A k \in Journal, p \in Page : Undecided(k, p)' <=> Undecided(k, p)
  BY <1>1 DEF Undecided, Open
<1>3. InDoubt = {} /\ InDoubt' = {}
  BY <1>1 DEF InDoubt
<1>4. KbContent' = KbContent
  BY <1>1, <1>2, ContentKept DEF Shows, WillShow
<1>5. \A k \in Journal : Drafted(k)' = Drafted(k)
  BY <1>1, ConstantsAssumption DEF Drafted, NoScope
<1>6. KbDraft' = KbDraft
  BY <1>1, <1>5, DraftKept
<1> QED
  BY <1>1, <1>3, <1>4, <1>6, Stutter

(* A path that got its name while the mutation ran is no page. *)
LEMMA ArtifactSteps ==
    ASSUME RInv, PagesDisjoint, PagesDisjoint',
           \/ \E a \in Artifact, v \in Content : CreateArtifact(a, v)
           \/ \E j \in Journal : TrackNew(j)
    PROVE  UNCHANGED Kb!vars
<1> USE DEF CreateArtifact, TrackNew, disk, memory
<1>1. /\ live \in [Path -> Value] /\ targets \in [Journal -> SUBSET Path]
      /\ backup \in [Journal -> [Path -> Value]]
      /\ UNCHANGED <<status, readers, level>> /\ pc # "unwind" /\ pc' # "unwind"
      /\ Page \subseteq Path /\ Page \cap Artifact = {} /\ Artifact \subseteq Path
  BY ConstantsAssumption DEF RInv, IInv, WriterInv, ControlInv, TypeOK, Path
<1>2. \A p \in Page : live'[p] = live[p]
  BY <1>1
<1>3. \A k \in Journal, p \in Page : /\ p \in targets'[k] <=> p \in targets[k]
                                     /\ backup'[k][p] = backup[k][p]
  <2>1. CASE \E j \in Journal : TrackNew(j)
    <3>1. PICK j \in Journal : TrackNew(j)
      BY <2>1
    <3>2. inhand \in Artifact
      BY <3>1 DEF RInv, UntrackedInv, IInv, WriterInv, ControlInv
    <3>3. /\ targets' = [targets EXCEPT ![j] = targets[j] \cup {inhand}]
          /\ backup' = [backup EXCEPT ![j][inhand] = Absent]
      BY <3>1
    <3> QED
      BY <1>1, <3>2, <3>3
  <2>2. CASE UNCHANGED <<targets, backup>>
    BY <2>2
  <2> QED
    BY <2>1, <2>2
<1>4. InDoubt = {} /\ InDoubt' = {}
  BY <1>1 DEF InDoubt
<1>5. \A k \in Journal, p \in Page : Undecided(k, p)' <=> Undecided(k, p)
  BY <1>1, <1>3 DEF Undecided
<1>6. KbContent' = KbContent
  BY <1>2, <1>3, <1>5, ContentKept DEF Shows, WillShow
<1>7. \A k \in Journal : Drafted(k)' = Drafted(k)
  BY <1>1, <1>3 DEF Drafted
<1>8. KbDraft' = KbDraft
  BY <1>2, <1>7, DraftKept DEF Drafted
<1> QED
  BY <1>1, <1>4, <1>6, <1>8, Stutter

(* WriteJournal is Begin: the backups are what the knowledge base shows,    *)
(* because the undecided journals are those of other pages.                *)
LEMMA BeginRefines ==
    ASSUME RInv, PagesDisjoint, PagesDisjoint', NEW S \in SUBSET Page, WriteJournal(S)
    PROVE  Kb!Begin(cur, S)
<1> USE DEF WriteJournal
<1>1. /\ pc = "staging" /\ pc' = "work" /\ cur \in Journal
      /\ level[cur] = 0 /\ status[cur] = "none" /\ live \in [Path -> Value]
      /\ status \in [Journal -> Open \cup Terminal \cup {"none"}]
      /\ targets \in [Journal -> SUBSET Path] /\ backup \in [Journal -> [Path -> Value]]
      /\ level \in [Journal -> Depth]
      /\ S \subseteq Path /\ UNCHANGED <<live, readers>>
  BY DEF RInv, IInv, WriterInv, ControlInv, ScopeInv, TypeOK, Path
<1>2. /\ \A j \in Journal \ {cur} : /\ status'[j] = status[j] /\ targets'[j] = targets[j]
                                    /\ backup'[j] = backup[j] /\ level'[j] = level[j]
      /\ status'[cur] = "active" /\ targets'[cur] = S /\ level'[cur] > 0
      /\ \A p \in S : backup'[cur][p] = live[p]
  BY <1>1
<1>3. readers = {} /\ InDoubt = {} /\ InDoubt' = {}
  BY <1>1 DEF InDoubt, RInv, IInv, WriterInv, ControlInv
<1>4. KbFallback = NoVersion /\ KbFallback' = NoVersion
  BY <1>3 DEF KbFallback
<1>5. \A k \in Journal : targets[k] \cap S = {} \/ (~(level[k] > 0) /\ status[k] \notin Open)
  <2>1. ASSUME NEW k \in Journal, status[k] \in Open, NEW p \in targets[k] \cap S
        PROVE  FALSE
    <3>1. k # cur
      BY <1>1, <2>1 DEF Open
    <3>2. Undecided(k, p)'
      BY <1>2, <2>1, <3>1 DEF Undecided
    <3>3. \A i \in Journal : i = cur => Undecided(i, p)'
      BY <1>2, <2>1 DEF Undecided, Open
    <3> QED
      BY <1>1, <2>1, <3>1, <3>2, <3>3 DEF PagesDisjoint
  <2>2. \A k \in Journal : level[k] > 0 => targets[k] \cap S = {}
    BY DEF OpenScopePaths
  <2> QED
    BY <2>1, <2>2
<1>6. \A p \in S : KbContent[p] = live[p]
  <2>1. \A p \in S, k \in Journal : ~Undecided(k, p)
    BY <1>5 DEF Undecided
  <2> QED
    BY <2>1 DEF KbContent
<1>7. KbContent' = KbContent
  <2>1. \A k \in Journal \ {cur}, p \in Page : Undecided(k, p)' <=> Undecided(k, p)
    BY <1>2 DEF Undecided
  <2>2. \A p \in Page : ~Undecided(cur, p)
    BY <1>1 DEF Undecided, Open
  <2>3. ASSUME NEW p \in Page, Shows(p, KbContent[p])
        PROVE  WillShow(p, KbContent[p])
    <3>1. CASE p \in S
      <4>1. status'[cur] \in Open /\ p \in targets'[cur] /\ backup'[cur][p] = KbContent[p]
        BY <1>2, <1>6, <3>1 DEF Open
      <4>2. PICK k \in Journal : k = cur
        BY <1>1
      <4>3. Undecided(k, p)' /\ KbContent[p] = backup'[k][p]
        BY <4>1, <4>2 DEF Undecided
      <4> QED
        BY <4>3 DEF WillShow
    <3>2. CASE p \notin S
      <4>1. \A k \in Journal : Undecided(k, p)' <=> Undecided(k, p)
        BY <1>1, <1>2, <2>1, <2>2, <3>2 DEF Undecided
      <4>2. \A k \in Journal : Undecided(k, p) => backup'[k] = backup[k]
        BY <1>2, <2>2
      <4> QED
        BY <1>1, <2>3, <4>1, <4>2 DEF Shows, WillShow
    <3> QED
      BY <3>1, <3>2
  <2> QED
    BY <2>3, ContentKept
<1>8. /\ KbDraft = [j \in Journal |-> [p \in Drafted(j) |-> live[p]]]
      /\ KbDraft' = [j \in Journal |-> [p \in Drafted(j)' |-> live'[p]]]
  BY DEF KbDraft, Drafted
<1>9. KbDraft' = [KbDraft EXCEPT ![cur] = [p \in S |-> KbContent[p]]]
  <2>1. \A j \in Journal \ {cur} : Drafted(j)' = Drafted(j)
    BY <1>2 DEF Drafted
  <2>2. \A j \in Journal : j = cur => Drafted(j)' = S
    BY <1>2 DEF Drafted
  <2>3. \A j \in Journal \ {cur} : KbDraft'[j] = KbDraft[j]
    BY <1>1, <1>8, <2>1
  <2>4. [p \in S |-> live'[p]] = [p \in S |-> KbContent[p]]
    BY <1>1, <1>6
  <2>5. \A j \in Journal : j = cur => KbDraft'[j] = [p \in S |-> KbContent[p]]
    BY <1>8, <2>2, <2>4
  <2> QED
    BY <1>1, <1>8, <2>3, <2>5
<1>10. \A k \in Journal : DOMAIN KbDraft[k] \cap S = {}
  BY <1>5, <1>8 DEF Drafted
<1> QED
  BY <1>1, <1>3, <1>4, <1>7, <1>9, <1>10 DEF Kb!Begin

(* A snapshot that fails late leaves a journal on disk which nobody sees,   *)
(* as long as it protects no page of another one.                          *)
LEMMA SnapshotFailsLateQuiet ==
    ASSUME RInv, PagesDisjoint, PagesDisjoint', NEW S \in SUBSET Page, SnapshotFailsLate(S)
    PROVE  UNCHANGED Kb!vars
<1> USE DEF SnapshotFailsLate
<1>1. /\ pc = "staging" /\ pc' = "raised" /\ cur \in Journal
      /\ level[cur] = 0 /\ status[cur] = "none" /\ live \in [Path -> Value]
      /\ status \in [Journal -> Open \cup Terminal \cup {"none"}]
      /\ targets \in [Journal -> SUBSET Path] /\ backup \in [Journal -> [Path -> Value]]
      /\ S \subseteq Path /\ UNCHANGED <<live, readers, level>>
  BY DEF RInv, IInv, WriterInv, ControlInv, ScopeInv, TypeOK, Path
<1>2. /\ \A j \in Journal \ {cur} : /\ status'[j] = status[j] /\ targets'[j] = targets[j]
                                    /\ backup'[j] = backup[j]
      /\ status'[cur] = "active" /\ targets'[cur] = S
      /\ \A p \in S : backup'[cur][p] = live[p]
  BY <1>1
<1>3. InDoubt = {} /\ InDoubt' = {}
  BY <1>1 DEF InDoubt
<1>4. PICK c \in Journal : c = cur
  BY <1>1
<1>5. \A p \in Page : Undecided(c, p)' <=> p \in S
  BY <1>2, <1>4 DEF Undecided, Open
<1>6. \A k \in Journal \ {c}, p \in Page : Undecided(k, p)' <=> Undecided(k, p)
  BY <1>2, <1>4 DEF Undecided
<1>7. \A p \in Page : ~Undecided(c, p)
  BY <1>1, <1>4 DEF Undecided, Open
<1>8. KbContent' = KbContent
  <2>1. ASSUME NEW p \in Page, Shows(p, KbContent[p])
        PROVE  WillShow(p, KbContent[p])
    <3>1. CASE p \in S
      <4>1. \A k \in Journal \ {c} : ~Undecided(k, p)
        BY <1>5, <1>6, <3>1 DEF PagesDisjoint
      <4>2. KbContent[p] = live[p]
        BY <1>7, <2>1, <4>1 DEF Shows
      <4> QED
        BY <1>2, <1>4, <1>5, <3>1, <4>2 DEF WillShow
    <3>2. CASE p \notin S
      <4>1. \A k \in Journal : Undecided(k, p)' <=> Undecided(k, p)
        BY <1>5, <1>6, <1>7, <3>2
      <4>2. \A k \in Journal : Undecided(k, p) => backup'[k] = backup[k]
        BY <1>2, <1>4, <1>7
      <4> QED
        BY <1>1, <2>1, <4>1, <4>2 DEF Shows, WillShow
    <3> QED
      BY <3>1, <3>2
  <2> QED
    BY <2>1, ContentKept
<1>9. \A j \in Journal : Drafted(j)' = Drafted(j)
  BY <1>1, <1>2 DEF Drafted
<1>10. KbDraft' = KbDraft
  BY <1>1, <1>9, DraftKept
<1> QED
  BY <1>1, <1>3, <1>8, <1>10, Stutter

(* A write of the body changes the draft of its scope, and of no other. *)
LEMMA WriteRefines ==
    ASSUME RInv, PagesDisjoint, PagesDisjoint', NEW j \in Journal, NEW q \in Path, NEW v \in Value, Write(j, q, v)
    PROVE  (q \in Page /\ Kb!Edit(j, q, v)) \/ UNCHANGED Kb!vars
<1> USE DEF Write, memory
<1>1. /\ pc = "work" /\ level[j] > 0 /\ q \in targets[j] /\ live \in [Path -> Value]
      /\ live' = [live EXCEPT ![q] = v]
      /\ UNCHANGED <<status, targets, backup, readers, level, pc>>
  BY ConstantsAssumption DEF RInv, IInv, WriterInv, TypeOK, Top, Depth
<1>2. status[j] = "active"
  BY <1>1, OpenScopeActive DEF RInv
<1>3. \A p \in Path : p # q => live'[p] = live[p]
  BY <1>1
<1>4. InDoubt = {} /\ InDoubt' = {}
  BY <1>1 DEF InDoubt
<1>5. KbContent' = KbContent
  <2>1. Undecided(j, q)
    BY <1>1, <1>2 DEF Undecided, Open
  <2> QED
    BY <1>1, <1>3, <2>1, ContentKept DEF Shows, WillShow, Undecided, Path
<1>6. \A k \in Journal : Drafted(k)' = Drafted(k)
  BY <1>1 DEF Drafted
<1>7. CASE q \notin Page
  <2>1. KbDraft' = KbDraft
    BY <1>3, <1>6, <1>7, DraftKept DEF Drafted, Path
  <2> QED
    BY <1>1, <1>4, <1>5, <2>1, Stutter
<1>8. CASE q \in Page
  <2>1. /\ KbDraft = [k \in Journal |-> [p \in Drafted(k) |-> live[p]]]
        /\ KbDraft' = [k \in Journal |-> [p \in Drafted(k) |-> live'[p]]]
    BY <1>6 DEF KbDraft, Drafted
  <2>2. q \in Drafted(j)
    BY <1>1, <1>2, <1>8 DEF Drafted
  <2>3. \A k \in Journal \ {j} : q \notin Drafted(k)
    BY <1>1, <1>2 DEF Drafted, RInv, IInv, WriterInv, JournalInv, Held, Open
  <2>4. \A k \in Journal \ {j} : KbDraft'[k] = KbDraft[k]
    BY <1>3, <2>1, <2>3 DEF Drafted, Path
  <2>5. KbDraft'[j] = [KbDraft[j] EXCEPT ![q] = v]
    BY <1>1, <1>3, <2>1, <2>2 DEF Drafted, Path
  <2>6. KbDraft' = [KbDraft EXCEPT ![j][q] = v]
    BY <2>1, <2>4, <2>5
  <2>7. KbFallback' = KbFallback
    BY <1>4 DEF KbFallback
  <2> QED
    BY <1>1, <1>5, <1>8, <2>1, <2>2, <2>6, <2>7 DEF Kb!Edit
<1> QED
  BY <1>7, <1>8

(* The committed status makes the draft of its scope the content at once;  *)
(* what was shown before is in the backups.                                *)
LEMMA CommittedShown ==
    ASSUME RInv, PagesDisjoint, PagesDisjoint', NEW j \in Journal, pc = "work", Top(j),
           status' = [status EXCEPT ![j] = "committed"],
           UNCHANGED <<live, targets, backup, level, readers>>
    PROVE  /\ KbContent' = [p \in Page |-> IF p \in DOMAIN KbDraft[j] THEN KbDraft[j][p]
                                                                      ELSE KbContent[p]]
           /\ KbContent = [p \in Page |-> IF p \in targets[j] THEN backup[j][p]
                                                             ELSE KbContent'[p]]
           /\ KbDraft' = [KbDraft EXCEPT ![j] = Kb!NoDraft]
<1>1. /\ level[j] > 0 /\ status[j] = "active"
      /\ status \in [Journal -> Open \cup Terminal \cup {"none"}]
  BY ConstantsAssumption, OpenScopeActive DEF RInv, IInv, WriterInv, TypeOK, Top, Depth
<1>2. /\ status'[j] = "committed"
      /\ \A k \in Journal \ {j} : status'[k] = status[k]
  BY <1>1
<1>3. /\ \A k \in Journal \ {j}, p \in Page : Undecided(k, p)' <=> Undecided(k, p)
      /\ \A p \in Page : ~Undecided(j, p)'
      /\ \A p \in Page : Undecided(j, p) <=> p \in targets[j]
  BY <1>1, <1>2 DEF Undecided, Open
<1>4. \A k \in Journal, p \in Page : Undecided(k, p) /\ Undecided(j, p) => k = j
  BY DEF PagesDisjoint
<1>5. /\ KbDraft = [k \in Journal |-> [p \in Drafted(k) |-> live[p]]]
      /\ Drafted(j) = {p \in Page : p \in targets[j]}
  BY <1>1 DEF KbDraft, Drafted
<1>6. KbContent = [p \in Page |-> IF p \in targets[j] THEN backup[j][p] ELSE KbContent[p]]
  <2>1. \A p \in Page : p \in targets[j] => Shows(p, backup[j][p])
    BY <1>3 DEF Shows
  <2>2. \A p \in Page : p \in targets[j] => KbContent[p] = backup[j][p]
    BY <2>1, ShownIsContent DEF RInv
  <2> QED
    BY <2>2 DEF KbContent
<1>7. KbContent' = [p \in Page |-> IF p \in targets[j] THEN live[p] ELSE KbContent[p]]
  <2> DEFINE new == [p \in Page |-> IF p \in targets[j] THEN live[p] ELSE KbContent[p]]
  <2>1. ASSUME NEW p \in Page PROVE WillShow(p, new[p])
    <3>1. CASE p \in targets[j]
      BY <1>3, <1>4, <3>1 DEF WillShow
    <3>2. CASE p \notin targets[j]
      BY <1>3, <3>2, ContentShown DEF Shows, WillShow
    <3> QED
      BY <3>1, <3>2
  <2>2. new = [p \in Page |-> new[p]]
    OBVIOUS
  <2> HIDE DEF new
  <2>3. KbContent' = new
    BY <2>1, <2>2, NextContent
  <2> QED
    BY <2>3 DEF new
<1>8. KbDraft' = [KbDraft EXCEPT ![j] = Kb!NoDraft]
  <2>1. Drafted(j)' = {} /\ \A k \in Journal \ {j} : Drafted(k)' = Drafted(k)
    BY <1>2 DEF Drafted
  <2> QED
    BY <2>1, DraftDropped
<1>9. \A p \in Page : /\ p \in DOMAIN KbDraft[j] <=> p \in targets[j]
                      /\ p \in targets[j] => KbDraft[j][p] = live[p]
  BY <1>5
<1>10. KbContent' = [p \in Page |-> IF p \in DOMAIN KbDraft[j] THEN KbDraft[j][p]
                                                             ELSE KbContent[p]]
  BY <1>7, <1>9
<1>11. KbContent = [p \in Page |-> IF p \in targets[j] THEN backup[j][p] ELSE KbContent'[p]]
  BY <1>6, <1>7
<1> QED
  BY <1>8, <1>10, <1>11

LEMMA CommitRefines ==
    ASSUME RInv, PagesDisjoint, PagesDisjoint', NEW j \in Journal, Commit(j)
    PROVE  Kb!Commit(j)
<1> USE DEF Commit
<1>1. readers = {} /\ InDoubt = {} /\ InDoubt' = {}
  BY DEF InDoubt, RInv, IInv, WriterInv, ControlInv
<1>2. KbFallback = NoVersion /\ KbFallback' = NoVersion
  BY <1>1 DEF KbFallback
<1> QED
  BY <1>1, <1>2, CommittedShown DEF Kb!Commit

LEMMA OneTop ==
    ASSUME IInv, NEW j \in Journal, NEW k \in Journal, Top(j), Top(k)
    PROVE  j = k
<1>1. level[j] \in Nat /\ level[k] \in Nat /\ level[j] > 0
  BY ConstantsAssumption DEF IInv, WriterInv, TypeOK, Depth, Top
<1>2. level[j] = level[k]
  BY <1>1 DEF Top
<1> QED
  BY <1>1, <1>2 DEF IInv, WriterInv, ScopeInv

LEMMA CommitFailsRefines ==
    ASSUME RInv, PagesDisjoint, PagesDisjoint', NEW j \in Journal, CommitFails(j)
    PROVE  Kb!Commit(j) \/ UNCHANGED Kb!vars
<1> USE DEF CommitFails
<1>1. /\ readers = {} /\ InDoubt = {} /\ level[j] > 0 /\ pc = "work" /\ pc' = "unwind"
      /\ UNCHANGED <<live, targets, backup, level, readers>>
  BY DEF InDoubt, RInv, IInv, WriterInv, ControlInv, Top
<1>2. CASE status' = status
  <2>1. InDoubt' = {}
    <3>1. \A k \in Journal : level[k] > 0 => status[k] = "active"
      BY <1>1, OpenScopeActive DEF RInv
    <3> QED
      BY <1>1, <1>2, <3>1 DEF InDoubt, Top
  <2> QED
    BY <1>1, <1>2, <2>1, FilesKept
<1>3. CASE status' = [status EXCEPT ![j] = "committed"]
  <2>1. InDoubt' = {j}
    <3>1. Top(j)' /\ status'[j] = "committed"
      BY <1>1, <1>3 DEF Top, RInv, IInv, WriterInv, TypeOK
    <3>2. \A k \in Journal : Top(k)' => k = j
      BY <1>1, OneTop DEF Top, RInv
    <3> QED
      BY <1>1, <3>1, <3>2 DEF InDoubt
  <2>2. KbFallback = NoVersion
    BY <1>1 DEF KbFallback
  <2>3. KbFallback' = KbContent
    <3>1. KbFallback' = [p \in Page |-> IF p \in targets[j] THEN backup[j][p]
                                                            ELSE KbContent'[p]]
      BY <1>1, <2>1 DEF KbFallback
    <3> QED
      BY <1>1, <1>3, <3>1, CommittedShown
  <2> QED
    BY <1>1, <1>3, <2>2, <2>3, CommittedShown DEF Kb!Commit
<1> QED
  BY <1>2, <1>3

(* The handler of an exception finds its scope either undecided or in doubt. *)
LEMMA HandlerCases ==
    ASSUME RInv, pc \in {"unwind", "raised"}, NEW j \in Journal, Top(j)
    PROVE  \/ status[j] = "active" /\ InDoubt = {}
           \/ status[j] = "committed" /\ InDoubt = {j}
<1>1. cur \notin Journal /\ level[j] > 0
  BY DEF RInv, IInv, WriterInv, ControlInv, Top
<1>2. \A k \in Journal : Top(k) => k = j
  BY OneTop DEF RInv
<1>3. CASE status[j] = "active"
  BY <1>2, <1>3 DEF InDoubt
<1>4. CASE status[j] # "active"
  <2>1. pc = "unwind" /\ status[j] = "committed"
    BY <1>1, <1>4 DEF RInv, IInv, WriterInv, ScopeInv
  <2> QED
    BY <1>2, <2>1 DEF InDoubt
<1> QED
  BY <1>3, <1>4

(* Undoing a change abandons it; undoing one whose commit is in doubt      *)
(* brings the version before it back.                                      *)
LEMMA AbortRefines ==
    ASSUME RInv, PagesDisjoint, PagesDisjoint', NEW j \in Journal, Abort(j)
    PROVE  Kb!Abandon(j) \/ Kb!Revert
<1> USE DEF Abort
<1>1. /\ status \in [Journal -> Open \cup Terminal \cup {"none"}]
      /\ targets \in [Journal -> SUBSET Path] /\ level[j] > 0
      /\ UNCHANGED <<live, backup, level, readers>> /\ pc' = "rollback"
  BY DEF RInv, IInv, WriterInv, TypeOK, Top
<1>2. /\ status'[j] = "recovering"
      /\ \A k \in Journal \ {j} : status'[k] = status[k] /\ targets'[k] = targets[k]
  BY <1>1
<1>3. \A p \in Page : p \in targets'[j] <=> p \in targets[j]
  <2>1. inhand \in Artifact \cup {NoPath}
    BY DEF RInv, UntrackedInv, IInv, WriterInv, ControlInv, TypeOK, Path
  <2> QED
    BY <1>1, <2>1, ConstantsAssumption
<1>4. InDoubt' = {} /\ KbFallback' = NoVersion
  BY <1>1 DEF InDoubt, KbFallback
<1>5. /\ \A k \in Journal \ {j}, p \in Page : Undecided(k, p)' <=> Undecided(k, p)
      /\ \A p \in Page : Undecided(j, p)' <=> p \in targets[j]
  BY <1>2, <1>3 DEF Undecided, Open
<1>6. CASE status[j] = "active" /\ InDoubt = {}
  <2>1. \A p \in Page : Undecided(j, p) <=> p \in targets[j]
    BY <1>6 DEF Undecided, Open
  <2>2. \A k \in Journal, p \in Page : Undecided(k, p)' <=> Undecided(k, p)
    BY <1>5, <2>1
  <2>3. KbContent' = KbContent
    BY <1>1, <2>2, ContentKept DEF Shows, WillShow
  <2>4. Drafted(j)' = {} /\ \A k \in Journal \ {j} : Drafted(k)' = Drafted(k)
    BY <1>1, <1>2 DEF Drafted
  <2>5. KbDraft' = [KbDraft EXCEPT ![j] = Kb!NoDraft]
    BY <1>1, <2>4, DraftDropped
  <2>6. KbFallback = NoVersion
    BY <1>6 DEF KbFallback
  <2> QED
    BY <1>1, <1>4, <2>3, <2>5, <2>6 DEF Kb!Abandon
<1>7. CASE status[j] = "committed" /\ InDoubt = {j}
  <2>1. KbFallback = [p \in Page |-> IF p \in targets[j] THEN backup[j][p] ELSE KbContent[p]]
    BY <1>7 DEF KbFallback
  <2>2. KbFallback \in [Page -> Value]
    <3>1. \A p \in Page : KbContent[p] \in Value /\ backup[j][p] \in Value
      BY DEF KbContent, RInv, IInv, WriterInv, TypeOK, Path
    <3> QED
      BY <2>1, <3>1
  <2>3. KbFallback # NoVersion
    BY <2>2, ConstantsAssumption DEF Value
  <2>4. ASSUME NEW p \in Page PROVE WillShow(p, KbFallback[p])
    <3>1. CASE p \in targets[j]
      BY <1>1, <1>5, <2>1, <3>1 DEF WillShow
    <3>2. CASE p \notin targets[j]
      <4>1. \A k \in Journal : Undecided(k, p)' <=> Undecided(k, p)
        BY <1>5, <3>2 DEF Undecided
      <4>2. KbFallback[p] = KbContent[p]
        BY <2>1, <3>2
      <4> QED
        BY <1>1, <4>1, <4>2, ContentShown DEF Shows, WillShow
    <3> QED
      BY <3>1, <3>2
  <2>5. KbContent' = KbFallback
    <3>1. KbFallback = [p \in Page |-> KbFallback[p]]
      BY <2>1
    <3> QED
      BY <2>4, <3>1, NextContent
  <2>6. \A k \in Journal : Drafted(k)' = Drafted(k)
    BY <1>1, <1>2, <1>7 DEF Drafted
  <2>7. KbDraft' = KbDraft
    BY <1>1, <2>6, DraftKept
  <2> QED
    BY <1>1, <1>4, <2>3, <2>5, <2>7 DEF Kb!Revert
<1> QED
  BY <1>6, <1>7, HandlerCases

(* If it cannot even be announced, recovery has to undo the change, or a    *)
(* commit in doubt stands.                                                  *)
LEMMA AbortFailsRefines ==
    ASSUME RInv, PagesDisjoint, PagesDisjoint', NEW j \in Journal, AbortFails(j)
    PROVE  Kb!Abandon(j) \/ Kb!Settle
<1> USE DEF AbortFails, ScopeRollbackFailed
<1>1. /\ level \in [Journal -> Depth] /\ pc' = "raised"
      /\ level' = [level EXCEPT ![j] = 0]
      /\ UNCHANGED <<live, status, targets, backup, readers>>
  BY DEF RInv, IInv, WriterInv, TypeOK
<1>2. InDoubt' = {} /\ KbFallback' = NoVersion
  BY <1>1 DEF InDoubt, KbFallback
<1>3. KbContent' = KbContent
  BY <1>1, ContentKept DEF Shows, WillShow, Undecided
<1>4. Drafted(j)' = {} /\ \A k \in Journal \ {j} : Drafted(k)' = Drafted(k)
  BY <1>1 DEF Drafted
<1>5. CASE status[j] = "active" /\ InDoubt = {}
  <2>1. KbDraft' = [KbDraft EXCEPT ![j] = Kb!NoDraft]
    BY <1>1, <1>4, DraftDropped
  <2>2. KbFallback = NoVersion
    BY <1>5 DEF KbFallback
  <2> QED
    BY <1>1, <1>2, <1>3, <2>1, <2>2 DEF Kb!Abandon
<1>6. CASE status[j] = "committed" /\ InDoubt = {j}
  <2>1. Drafted(j) = {}
    BY <1>6 DEF Drafted
  <2>2. KbDraft' = KbDraft
    BY <1>1, <1>4, <2>1, DraftKept
  <2> QED
    BY <1>1, <1>2, <1>3, <2>2 DEF Kb!Settle
<1> QED
  BY <1>5, <1>6, HandlerCases

LEMMA CrashRefines ==
    ASSUME RInv, PagesDisjoint, PagesDisjoint', Crash
    PROVE  Kb!Die
<1> USE DEF Crash, Forget, disk
<1>1. UNCHANGED <<live, status, targets, backup, readers>> /\ pc' = "idle"
  OBVIOUS
<1>2. KbContent' = KbContent
  BY <1>1, ContentKept DEF Shows, WillShow, Undecided
<1>3. KbFallback' = NoVersion
  BY <1>1 DEF InDoubt, KbFallback
<1>4. KbDraft' = [j \in Journal |-> Kb!NoDraft]
  <2>1. KbDraft' = [j \in Journal |-> [p \in Drafted(j)' |-> live'[p]]]
    BY DEF KbDraft, Drafted
  <2>2. \A j \in Journal : Drafted(j)' = {}
    BY DEF Drafted
  <2> QED
    BY <2>1, <2>2 DEF Kb!NoDraft
<1> QED
  BY <1>1, <1>2, <1>3, <1>4 DEF Kb!Die

(* A reader enters between two mutations. *)
LEMMA ReadRefines ==
    ASSUME RInv, PagesDisjoint, PagesDisjoint', NEW u \in Process, AcquireRead(u) \/ ReleaseRead(u)
    PROVE  Kb!Enter(u) \/ Kb!Leave(u)
<1> USE DEF AcquireRead, ReleaseRead, disk, memory
<1>1. UNCHANGED <<live, status, targets, backup, level, pc>>
  OBVIOUS
<1>2. KbContent' = KbContent
  BY <1>1, ContentKept DEF Shows, WillShow, Undecided
<1>3. KbDraft' = KbDraft
  <2>1. \A j \in Journal : Drafted(j)' = Drafted(j)
    BY <1>1 DEF Drafted
  <2> QED
    BY <1>1, <2>1, DraftKept
<1>4. KbFallback' = KbFallback
  <2>1. InDoubt' = InDoubt
    BY <1>1 DEF InDoubt, Top
  <2> QED
    BY <1>1, <1>2, <2>1 DEF KbFallback
<1>5. CASE AcquireRead(u)
  <2>1. pc = "idle" /\ \A j \in Journal : ~(level[j] > 0)
    BY <1>5, ConstantsAssumption DEF RInv, IInv, WriterInv, ControlInv, NoScope
  <2>2. InDoubt = {} /\ KbFallback = NoVersion
    BY <2>1 DEF InDoubt, KbFallback
  <2>3. \A j \in Journal : KbDraft[j] = Kb!NoDraft
    BY <2>1, NothingDrafted
  <2> QED
    BY <1>2, <1>3, <1>4, <1>5, <2>2, <2>3 DEF Kb!Enter
<1>6. CASE ReleaseRead(u)
  BY <1>2, <1>3, <1>4, <1>6 DEF Kb!Leave
<1> QED
  BY <1>5, <1>6

LEMMA InitRefines == Init => Kb!Init
<1> SUFFICES ASSUME Init PROVE Kb!Init
  OBVIOUS
<1>1. KbContent \in [Page -> Value]
  BY DEF Init, KbContent, Undecided, Open, Path
<1>2. KbFallback = NoVersion
  BY DEF Init, InDoubt, KbFallback
<1>3. KbDraft = [j \in Journal |-> Kb!NoDraft]
  BY NothingDrafted DEF Init
<1> QED
  BY <1>1, <1>2, <1>3 DEF Init, Kb!Init, Kb!Version

(* Every step outside a clash is a step of the abstract knowledge base, or *)
(* none.                                                                   *)
LEMMA NextRefines ==
    ASSUME RInv, ~Clash, ~Clash', [Next]_vars
    PROVE  [Kb!Next]_(Kb!vars)
<1>1. IInv /\ PagesDisjoint /\ PagesDisjoint'
  BY NextRInv, NoClashDisjoint, NoClashDisjointNext DEF RInv
<1>2. CASE Lease
  <2>1. CASE \E u \in Process : AcquireRead(u) \/ ReleaseRead(u)
    BY <1>1, <2>1, ReadRefines DEF Kb!Next
  <2> QED
    BY <1>1, <1>2, <2>1, QuietSteps DEF Lease
<1>3. CASE Body
  <2>1. ASSUME NEW S \in SUBSET Page, WriteJournal(S) PROVE Kb!Next
    <3>1. cur \in Journal
      BY <1>1, <2>1 DEF IInv, WriterInv, ControlInv, WriteJournal
    <3> QED
      BY <1>1, <2>1, <3>1, BeginRefines DEF Kb!Next
  <2>2. ASSUME NEW j \in Journal, NEW p \in Path, NEW v \in Value, Write(j, p, v)
        PROVE  [Kb!Next]_(Kb!vars)
    BY <1>1, <2>2, WriteRefines DEF Kb!Next
  <2>3. ASSUME NEW j \in Journal, Commit(j) PROVE Kb!Next
    BY <1>1, <2>3, CommitRefines DEF Kb!Next
  <2> QED
    BY <1>1, <1>3, <2>1, <2>2, <2>3, QuietSteps, ArtifactSteps DEF Body
<1>4. CASE Settle
  <2>1. ASSUME NEW j \in Journal, Abort(j) PROVE Kb!Next
    BY <1>1, <2>1, AbortRefines DEF Kb!Next
  <2>2. ASSUME NEW j \in Journal, DrainTerminal(j) \/ DrainRollback(j) \/ DrainRefuses(j)
        PROVE  UNCHANGED Kb!vars
    BY <1>1, <2>2, QuietSteps, DrainRollbackQuiet
  <2>3. CASE RestoreTarget \/ \E p \in Path : RemoveTarget(p)
    BY <1>1, <2>3, RestoreSteps
  <2>4. CASE FinishRollback \/ UnlinkJournal
    BY <1>1, <2>4, FinishSteps, ProceedSteps
  <2>5. CASE DiscardBackup \/ DrainDone \/ RepairPasses
    BY <1>1, <2>5, QuietSteps
  <2> QED
    BY <1>4, <2>1, <2>2, <2>3, <2>4, <2>5 DEF Settle
<1>5. CASE Fault
  <2>1. ASSUME NEW j \in Journal, CommitFails(j) PROVE [Kb!Next]_(Kb!vars)
    BY <1>1, <2>1, CommitFailsRefines DEF Kb!Next
  <2>2. ASSUME NEW j \in Journal, AbortFails(j) PROVE Kb!Next
    BY <1>1, <2>2, AbortFailsRefines DEF Kb!Next
  <2>3. CASE Crash
    BY <1>1, <2>3, CrashRefines DEF Kb!Next
  <2>4. CASE SnapshotFails \/ DrainFails \/ RepairFails
    BY <1>1, <2>4, QuietSteps
  <2>5. CASE TrackNewFails \/ BodyFails
    BY <1>1, <2>5, FailureSteps
  <2>6. CASE ScopeRollbackFails \/ DrainRollbackFails
    BY <1>1, <2>6, FinishSteps
  <2>7. CASE ScopeUnlinkFails
    BY <1>1, <2>7, ProceedSteps
  <2>8. CASE \E S \in SUBSET Page : SnapshotFailsLate(S)
    BY <1>1, <2>8, SnapshotFailsLateQuiet
  <2> QED
    BY <1>5, <2>1, <2>2, <2>3, <2>4, <2>5, <2>6, <2>7, <2>8 DEF Fault
<1>6. CASE UNCHANGED vars
  <2>1. UNCHANGED <<live, status, targets, backup, readers, level, pc>>
    BY <1>6 DEF vars
  <2>2. KbContent' = KbContent
    BY <1>1, <2>1, ContentKept DEF Shows, WillShow, Undecided
  <2>3. KbDraft' = KbDraft
    BY <2>1 DEF KbDraft
  <2>4. KbFallback' = KbFallback
    BY <2>1, <2>2 DEF KbFallback, InDoubt, Top
  <2> QED
    BY <2>1, <2>2, <2>3, <2>4 DEF Kb!vars
<1> QED
  BY <1>2, <1>3, <1>4, <1>5, <1>6 DEF Next

(* Protected changes of any number of pages, journals, scopes and          *)
(* processes are atomic changes of the knowledge base, through any failed   *)
(* write, exception, crash, rollback, drain and repair (mutation.py), for   *)
(* as long as no journal left by a failed snapshot protects a page of      *)
(* another undecided one.                                                  *)
THEOREM Atomicity == Spec => KbSpec
<1>1. RInv /\ [Next]_vars => RInv'
  BY NextRInv
<1>2. RInv /\ [Next]_vars => [~Clash /\ ~Clash' => Kb!Next]_(Kb!vars)
  BY NextRefines
<1> QED
  BY <1>1, <1>2, InitRInv, InitRefines, PTL DEF Spec, KbSpec
=============================================================================
