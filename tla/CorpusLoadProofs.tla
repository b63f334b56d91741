------------------------- MODULE CorpusLoadProofs -------------------------
(***************************************************************************)
(* What the bulk loader guarantees for a corpus of any size and windows of *)
(* any length above one.  The inductive invariant says that a checkpoint,  *)
(* on disk or in memory, never claims more than is committed (Truthful),   *)
(* and that the phases a load has left behind have nothing pending.        *)
(***************************************************************************)
EXTENDS CorpusLoad, TLAPS

\* The claims have the rows of a corpus, or another one came first.
Landed(p, corpus, claims) ==
  \A i \in claims : Written(p, corpus, i) \/ Taken(p, corpus, i)

\* What a checkpoint claims is in the tables.
Truthful(s) ==
  \A p \in Phases :
    /\ s.phases[p] # 1 =>
         s.phases[p] <= s.requested /\ Landed(p, s.corpus, Claims(p, 0, s.phases[p]))
    /\ s.phases[p] = 1 /\ p \notin s.early => Landed(p, s.corpus, Claims(p, 0, s.requested))

Loading == load.pc \in {"phase", "batch", "committed", "verify", "recorded", "loaded"}

Finishing == load.pc \in {"verify", "recorded", "loaded"}

\* Phases before the current one, or all of them, are complete.
LeftBehind ==
  /\ load.state.requested = load.options.size /\ load.state.corpus = load.options.corpus
  /\ Truthful(load.state)
  /\ \A i \in DOMAIN LOAD_PHASES :
       i < load.number \/ Finishing => ~Pending(load.state, LOAD_PHASES[i], load.options.size)
  /\ load.pc = "committed" =>
       Pending(load.state, Phase, load.options.size) /\ Landed(Phase, load.options.corpus, Batch)
  /\ load.pc \in {"recorded", "loaded"} => recorded = load.options.corpus
  /\ load.options.strategy = "defer" /\ (load.number > 5 \/ Finishing) => hnsw

IInv ==
  /\ TypeOK /\ TablesHaveNoGaps
  /\ file # None => Truthful(file)
  /\ older # None => Truthful(older)
  /\ Loading => LeftBehind

-----------------------------------------------------------------------------
LEMMA PhaseOrder ==
  /\ DOMAIN LOAD_PHASES = 1 .. 8 /\ Len(LOAD_PHASES) = 8
  /\ \A i \in 1 .. 8 : LOAD_PHASES[i] \in Phases
  /\ \A p \in Phases : \E i \in 1 .. 8 : p = LOAD_PHASES[i]
  /\ \A i \in 1 .. 8 : LOAD_PHASES[i] = "embeddings" <=> i = 5
<1>1. DOMAIN LOAD_PHASES = 1 .. 8 /\ Len(LOAD_PHASES) = 8
  BY DEF LOAD_PHASES
<1>2. \A i \in 1 .. 8 : LOAD_PHASES[i] = "embeddings" <=> i = 5
  BY DEF LOAD_PHASES
<1> QED
  BY <1>1, <1>2 DEF Phases

LEMMA Counts ==
  /\ MaxClaims \in Nat
  /\ \A n \in Sizes : n \in Nat /\ n <= MaxClaims
<1> QED
  BY LoadAssumption

\* The first so many claims of a phase.
Gapless(p, set) == \E m \in 0 .. MaxClaims : set = Claims(p, 0, m)

\* Appending the next batch to a table without gaps leaves none.
LEMMA BatchFits ==
  ASSUME NEW p, NEW n \in Nat, NEW from \in Nat, NEW upto \in Nat,
         Claims(p, 0, from) \subseteq Claims(p, 0, n), n <= MaxClaims, upto <= MaxClaims
  PROVE  Gapless(p, Claims(p, 0, n) \cup Claims(p, from, upto))
<1>0. MaxClaims \in Nat
  BY LoadAssumption
<1>1. CASE upto <= n
  <2>1. Claims(p, 0, n) \cup Claims(p, from, upto) = Claims(p, 0, n)
    BY <1>0, <1>1 DEF Claims
  <2> QED
    BY <2>1, <1>0 DEF Gapless
<1>2. CASE n < upto
  <2>1. Claims(p, 0, n) \cup Claims(p, from, upto) \subseteq Claims(p, 0, upto)
    BY <1>0, <1>2 DEF Claims
  <2>2. Claims(p, 0, upto) \subseteq Claims(p, 0, from) \cup Claims(p, from, upto)
    BY <1>0 DEF Claims
  <2>3. Claims(p, 0, n) \cup Claims(p, from, upto) = Claims(p, 0, upto)
    BY <2>1, <2>2
  <2> QED
    BY <2>3, <1>0 DEF Gapless
<1> QED
  BY <1>1, <1>2

\* What has landed is held, and stays where it is while tables grow.
LEMMA LandedIsHeld ==
  ASSUME NEW p, NEW corpus, NEW claims, Landed(p, corpus, claims)
  PROVE  claims \subseteq Held(p)
<1> SUFFICES ASSUME NEW i \in claims PROVE i \in Held(p)
  OBVIOUS
<1>1. CASE Written(p, corpus, i)
  BY <1>1 DEF Written, Held
<1>2. CASE Taken(p, corpus, i)
  BY <1>2 DEF Taken, Held
<1> QED
  BY <1>1, <1>2 DEF Landed

LEMMA LandedLasts ==
  ASSUME NEW p, NEW corpus, NEW claims, Landed(p, corpus, claims), rows[p] \subseteq rows'[p]
  PROVE  Landed(p, corpus, claims)'
  BY DEF Landed, Written, Taken

\* A checkpoint that tells the truth goes on doing so while tables grow.
LEMMA TruthLasts ==
  ASSUME NEW s, Truthful(s), \A p \in Phases : rows[p] \subseteq rows'[p]
  PROVE  Truthful(s)'
<1> SUFFICES ASSUME NEW p \in Phases
             PROVE  /\ s.phases[p] # 1 => s.phases[p] <= s.requested
                    /\ s.phases[p] # 1 => Landed(p, s.corpus, Claims(p, 0, s.phases[p]))'
                    /\ s.phases[p] = 1 /\ p \notin s.early =>
                         Landed(p, s.corpus, Claims(p, 0, s.requested))'
  BY DEF Truthful, Claims
<1>1. CASE s.phases[p] # 1
  <2>1. s.phases[p] <= s.requested /\ Landed(p, s.corpus, Claims(p, 0, s.phases[p]))
    BY <1>1 DEF Truthful
  <2>2. Landed(p, s.corpus, Claims(p, 0, s.phases[p]))'
    BY <2>1, LandedLasts
  <2> QED
    BY <1>1, <2>1, <2>2
<1>2. CASE s.phases[p] = 1 /\ p \notin s.early
  <2>1. Landed(p, s.corpus, Claims(p, 0, s.requested))
    BY <1>2 DEF Truthful
  <2> QED
    BY <1>2, <2>1, LandedLasts
<1> QED
  BY <1>1, <1>2

LEMMA FreshIsTruthful ==
  ASSUME NEW options \in Options
  PROVE  Fresh(options) \in Checkpoints /\ Truthful(Fresh(options))
<1>0. options.size \in Sizes /\ options.corpus \in Corpora
  BY DEF Options
<1>1. options.size \in Nat
  BY <1>0, Counts
<1>2. Fresh(options) \in Checkpoints
  BY <1>0, <1>1, Counts DEF Fresh, Checkpoints
<1>3. \A p \in Phases : Claims(p, 0, 0) = {}
  BY LoadAssumption DEF Claims
<1> QED
  BY <1>1, <1>2, <1>3 DEF Fresh, Truthful, Landed

LEMMA ResumedIsTruthful ==
  ASSUME NEW options \in Options, file \in Checkpoints, Truthful(file), Resumable(options)
  PROVE  Resumed(options) \in Checkpoints /\ Truthful(Resumed(options))
<1>0. options.size \in Sizes /\ file.requested \in Sizes
  BY DEF Options, Checkpoints
<1>1. options.size \in Nat
  BY <1>0, Counts
<1>2. file.requested \in Nat /\ file.requested <= options.size
  BY <1>0, Counts DEF Resumable
<1>3. /\ Resumed(options) \in Checkpoints
      /\ Resumed(options).phases = file.phases
      /\ Resumed(options).requested = options.size /\ Resumed(options).corpus = file.corpus
      /\ file.early \subseteq Resumed(options).early
      /\ file.requested < options.size =>
           \A p \in Phases : file.phases[p] = 1 => p \in Resumed(options).early
  BY <1>0, <1>1 DEF Resumed, Checkpoints
<1>4. \A p \in Phases : file.phases[p] \in Nat
  BY Counts DEF Checkpoints
<1> SUFFICES ASSUME NEW p \in Phases
             PROVE  /\ file.phases[p] # 1 =>
                         file.phases[p] <= options.size /\ Landed(p, file.corpus, Claims(p, 0, file.phases[p]))
                    /\ file.phases[p] = 1 /\ p \notin Resumed(options).early =>
                         Landed(p, file.corpus, Claims(p, 0, options.size))
  BY <1>3 DEF Truthful
<1>5. file.phases[p] # 1 =>
        file.phases[p] <= options.size /\ Landed(p, file.corpus, Claims(p, 0, file.phases[p]))
  BY <1>1, <1>2, <1>4 DEF Truthful
<1>6. ASSUME file.phases[p] = 1, p \notin Resumed(options).early
      PROVE  Landed(p, file.corpus, Claims(p, 0, options.size))
  <2>1. file.requested = options.size
    BY <1>1, <1>2, <1>3, <1>6
  <2>2. p \notin file.early
    BY <1>3, <1>6
  <2> QED
    BY <2>1, <2>2, <1>6 DEF Truthful
<1> QED
  BY <1>5, <1>6

\* A load in progress, taken apart.
LEMMA LoadShape ==
  ASSUME TypeOK, Loading
  PROVE  /\ load.number \in 1 .. 8 /\ Phase \in Phases
         /\ load.options \in Options /\ load.options.size \in Nat /\ load.options.size \in Sizes
         /\ load.options.size <= MaxClaims
         /\ load.state \in Checkpoints
         /\ \A p \in Phases : load.state.phases[p] \in Nat
         /\ load = [pc |-> load.pc, number |-> load.number, options |-> load.options,
                    state |-> load.state]
         /\ DOMAIN load = {"pc", "number", "options", "state"}
<1>1. load \in [pc : {"phase", "batch", "committed", "verify", "recorded", "loaded"},
                number : DOMAIN LOAD_PHASES, options : Options, state : Checkpoints]
  BY DEF TypeOK, Loads, Loading
<1>2. load.number \in 1 .. 8 /\ Phase \in Phases
  BY <1>1, PhaseOrder DEF Phase
<1>3. load.options.size \in Sizes
  BY <1>1 DEF Options
<1>4. load.options.size \in Nat /\ load.options.size <= MaxClaims
  BY <1>3, Counts
<1>5. \A p \in Phases : load.state.phases[p] \in Nat
  BY <1>1, Counts DEF Checkpoints
<1> QED
  BY <1>1, <1>2, <1>3, <1>4, <1>5

-----------------------------------------------------------------------------
LEMMA Initially == Init => IInv
<1> SUFFICES ASSUME Init PROVE IInv
  OBVIOUS
<1>1. TypeOK
  BY Counts, LoadAssumption DEF Init, TypeOK, Options, Loads, Idle
<1>2. TablesHaveNoGaps
  <2>1. \A p \in Phases : Claims(p, 0, 0) = {}
    BY Counts DEF Claims
  <2> QED
    BY <2>1, Counts DEF Init, TablesHaveNoGaps, Held
<1>3. file = None /\ older = None /\ ~Loading
  BY DEF Init, Idle, Loading
<1> QED
  BY <1>1, <1>2, <1>3 DEF IInv

\* A step that leaves the tables and the checkpoints alone keeps what is said
\* of them.
LEMMA DataKept ==
  ASSUME IInv, UNCHANGED <<rows, file, older>>
  PROVE  /\ TablesHaveNoGaps'
         /\ file' # None => Truthful(file)'
         /\ older' # None => Truthful(older)'
<1>1. TablesHaveNoGaps'
  BY DEF IInv, TablesHaveNoGaps, Held, Claims
<1>2. file' # None => Truthful(file)'
  BY DEF IInv, Truthful, Landed, Written, Taken, Claims
<1>3. older' # None => Truthful(older)'
  BY DEF IInv, Truthful, Landed, Written, Taken, Claims
<1> QED
  BY <1>1, <1>2, <1>3

\* A load that ends, or has not begun, has nothing to keep.
LEMMA Ended ==
  ASSUME IInv, UNCHANGED <<rows, file, older>>, TypeOK', ~Loading'
  PROVE  IInv'
  BY DataKept DEF IInv

LEMMA ChangeKeeps == ASSUME IInv, Change PROVE IInv'
<1>1. TypeOK'
  BY Counts, LoadAssumption DEF IInv, Change, TypeOK, Options, Loads, Idle
<1>2. ~Loading' /\ UNCHANGED <<rows, file, older>>
  BY DEF Change, Loading, Idle
<1> QED
  BY <1>1, <1>2, Ended

LEMMA RejectKeeps == ASSUME IInv, Reject PROVE IInv'
<1>1. TypeOK'
  BY DEF IInv, Reject, TypeOK, Loads
<1>2. ~Loading' /\ UNCHANGED <<rows, file, older>>
  BY DEF Reject, Loading
<1> QED
  BY <1>1, <1>2, Ended

LEMMA CrashKeeps == ASSUME IInv, Crash PROVE IInv'
<1>1. TypeOK'
  <2>1. faults' \in 0 .. MaxFaults
    BY LoadAssumption DEF IInv, Crash, TypeOK
  <2>2. load' \in Loads
    BY DEF Crash, Loads
  <2> QED
    BY <2>1, <2>2 DEF IInv, Crash, TypeOK
<1>2. ~Loading' /\ UNCHANGED <<rows, file, older>>
  BY DEF Crash, Loading
<1> QED
  BY <1>1, <1>2, Ended

LEMMA MisplaceKeeps == ASSUME IInv, Misplace PROVE IInv'
<1>1. TypeOK'
  <2>1. faults' \in 0 .. MaxFaults
    BY LoadAssumption DEF IInv, Misplace, TypeOK
  <2>2. file' \in Checkpoints \cup {None}
    BY DEF IInv, Misplace, TypeOK
  <2> QED
    BY <2>1, <2>2 DEF IInv, Misplace, TypeOK
<1>2. UNCHANGED <<rows, recorded, hnsw, older, load>> /\ file' \in {None, older}
  BY DEF Misplace
<1>3. TablesHaveNoGaps'
  BY <1>2 DEF IInv, TablesHaveNoGaps, Held, Claims
<1>4. older' # None => Truthful(older)'
  BY <1>2 DEF IInv, Truthful, Landed, Written, Taken, Claims
<1>5. file' # None => Truthful(file)'
  BY <1>2 DEF IInv, Truthful, Landed, Written, Taken, Claims
<1>6. Loading' => LeftBehind'
  BY <1>2 DEF IInv, Loading, LeftBehind, Truthful, Finishing, Pending, Phase, Batch, Landed,
              Written, Taken, Claims, BatchEnd
<1> QED
  BY <1>1, <1>3, <1>4, <1>5, <1>6 DEF IInv

LEMMA BeginKeeps == ASSUME IInv, Begin PROVE IInv'
<1> DEFINE start == IF Resumable(want) THEN Resumed(want) ELSE Fresh(want)
<1>1. want \in Options
  BY DEF IInv, TypeOK
<1>2. start \in Checkpoints /\ Truthful(start)
  <2>1. CASE Resumable(want)
    <3>1. file \in Checkpoints /\ Truthful(file)
      BY <2>1 DEF Resumable, IInv, TypeOK
    <3> QED
      BY <1>1, <2>1, <3>1, ResumedIsTruthful
  <2>2. CASE ~Resumable(want)
    BY <1>1, <2>2, FreshIsTruthful
  <2> QED
    BY <2>1, <2>2
<1>3. start.requested = want.size /\ start.corpus = want.corpus
  BY <1>1 DEF Resumed, Fresh, Resumable, IInv, TypeOK, Checkpoints
<1>4. /\ load' = [pc |-> "phase", number |-> 1, options |-> want, state |-> start]
      /\ UNCHANGED <<rows, recorded, hnsw, file, older, want, changes, faults>>
  BY DEF Begin
<1> HIDE DEF start
<1>5. load' \in Loads
  BY <1>1, <1>2, <1>4, PhaseOrder DEF Loads
<1>6. TypeOK'
  BY <1>4, <1>5 DEF IInv, TypeOK
<1>7. LeftBehind'
  <2>1. Truthful(load.state)'
    BY <1>2, <1>4 DEF Truthful, Landed, Written, Taken, Claims
  <2>2. /\ load'.number = 1 /\ load'.pc = "phase" /\ load'.options = want
        /\ load'.state.requested = want.size /\ load'.state.corpus = want.corpus
    BY <1>3, <1>4
  <2>3. \A i \in DOMAIN LOAD_PHASES : ~(i < load'.number \/ Finishing')
    BY <2>2, PhaseOrder DEF Finishing
  <2>4. ~(load'.number > 5 \/ Finishing') /\ load'.pc \notin {"committed", "recorded", "loaded"}
    BY <2>2 DEF Finishing
  <2> QED
    BY <2>1, <2>2, <2>3, <2>4 DEF LeftBehind
<1> QED
  BY <1>4, <1>6, <1>7, DataKept DEF IInv

LEMMA EnterKeeps == ASSUME IInv, Enter PROVE IInv'
<1>1. Loading /\ LeftBehind /\ load.pc = "phase"
  BY DEF IInv, Enter, Loading
<1>2. PICK was : was = load
  OBVIOUS
<1>3. load' = [pc |-> "batch", number |-> load.number, options |-> load.options, state |-> load.state]
  BY <1>1, LoadShape DEF IInv, Enter
<1>4. TypeOK'
  <2>1. load' \in Loads
    BY <1>1, <1>3, LoadShape, PhaseOrder DEF IInv, Loads
  <2>2. hnsw' \in BOOLEAN
    BY DEF Enter, IInv, TypeOK
  <2> QED
    BY <2>1, <2>2 DEF Enter, IInv, TypeOK
<1>5. LeftBehind'
  <2>1. Truthful(load.state)'
    BY <1>1, <1>3 DEF LeftBehind, Truthful, Landed, Written, Taken, Claims, Enter
  <2>2. load'.state.requested = load'.options.size /\ load'.state.corpus = load'.options.corpus
    BY <1>1, <1>3 DEF LeftBehind
  <2>3. \A i \in DOMAIN LOAD_PHASES :
          i < load'.number \/ Finishing' => ~Pending(load'.state, LOAD_PHASES[i], load'.options.size)
    BY <1>1, <1>3 DEF LeftBehind, Finishing
  <2>4. load'.options.strategy = "defer" /\ (load'.number > 5 \/ Finishing') => hnsw'
    <3>1. ~Finishing' /\ ~Finishing
      BY <1>1, <1>3 DEF Finishing
    <3>2. load.number > 5 => ~Deferred
      BY <1>1, LoadShape, PhaseOrder DEF Deferred, Phase, IInv
    <3> QED
      BY <1>1, <1>3, <3>1, <3>2 DEF Enter, LeftBehind
  <2>5. load'.pc \notin {"committed", "recorded", "loaded"}
    BY <1>3
  <2> QED
    BY <2>1, <2>2, <2>3, <2>4, <2>5 DEF LeftBehind
<1> QED
  BY <1>4, <1>5, DataKept DEF IInv, Enter

\* The next batch begins where the committed rows of its phase still reach.
LEMMA BatchBounds ==
  ASSUME TypeOK, Loading, LeftBehind, Pending(load.state, Phase, load.options.size)
  PROVE  LET from == load.state.phases[Phase]
             upto == BatchEnd(from, load.options.size)
         IN  /\ from \in Nat /\ upto \in Nat /\ from < upto /\ upto <= load.options.size
             /\ upto < load.options.size => upto # 1
             /\ from # 1 /\ Landed(Phase, load.options.corpus, Claims(Phase, 0, from))
<1> DEFINE from == load.state.phases[Phase]
<1>1. Phase \in Phases /\ from \in Nat /\ load.options.size \in Nat /\ from < load.options.size
  BY LoadShape DEF Pending
<1>2. from # 1 /\ Landed(Phase, load.options.corpus, Claims(Phase, 0, from))
  BY <1>1 DEF Pending, LeftBehind, Truthful
<1> HIDE DEF from
<1>3. LET upto == BatchEnd(from, load.options.size)
      IN  /\ upto \in Nat /\ from < upto /\ upto <= load.options.size
          /\ upto < load.options.size => upto # 1
  BY <1>1, LoadAssumption DEF BatchEnd
<1> QED
  BY <1>1, <1>2, <1>3 DEF from

LEMMA CommitKeeps == ASSUME IInv, Commit PROVE IInv'
<1>1. Loading /\ LeftBehind /\ load.pc = "batch"
  BY DEF IInv, Commit, Loading
<1>2. Pending(load.state, Phase, load.options.size)
  BY DEF Commit
<1>3. load' = [pc |-> "committed", number |-> load.number, options |-> load.options, state |-> load.state]
  BY <1>1, LoadShape DEF IInv, Commit
<1>4. Phase' = Phase /\ Batch' = Batch /\ load'.options.corpus = load.options.corpus
  BY <1>3 DEF Phase, Batch, Claims, BatchEnd
<1> DEFINE corpus == load.options.corpus
           more == Inserted(Phase, Batch, corpus)
<1>5. /\ Batch \subseteq 0 .. MaxClaims - 1 /\ Phase \in Phases /\ corpus \in Corpora
      /\ rows \in [Phases -> SUBSET ((0 .. MaxClaims - 1) \X (Corpora \cup {None}))]
  BY <1>1, LoadShape DEF IInv, TypeOK, Options, Batch, Claims
<1>6. /\ rows' \in [Phases -> SUBSET ((0 .. MaxClaims - 1) \X (Corpora \cup {None}))]
      /\ rows'[Phase] = rows[Phase] \cup more
      /\ \A p \in Phases : rows[p] \subseteq rows'[p]
      /\ \A p \in Phases : p # Phase => rows'[p] = rows[p]
      /\ \A p \in Phases : \A row \in rows'[p] : \E c \in Corpora : row[2] = Content(p, c)
  <2>1. more \subseteq (0 .. MaxClaims - 1) \X (Corpora \cup {None})
    BY <1>5 DEF Inserted, Content
  <2>2. rows' = [rows EXCEPT ![Phase] = rows[Phase] \cup more]
    BY DEF Commit
  <2>3. \A row \in more : row[2] = Content(Phase, corpus)
    BY DEF Inserted
  <2> HIDE DEF more, corpus
  <2>4. /\ rows' \in [Phases -> SUBSET ((0 .. MaxClaims - 1) \X (Corpora \cup {None}))]
        /\ rows'[Phase] = rows[Phase] \cup more
        /\ \A p \in Phases : p # Phase => rows'[p] = rows[p]
    BY <2>1, <2>2, <1>5
  <2>5. \A p \in Phases : \A row \in rows[p] : \E c \in Corpora : row[2] = Content(p, c)
    BY DEF IInv, TypeOK
  <2> QED
    BY <2>3, <2>4, <2>5, <1>5
<1>7. TypeOK'
  <2>1. load' \in Loads
    BY <1>1, <1>3, LoadShape, PhaseOrder DEF IInv, Loads
  <2> QED
    BY <1>6, <2>1 DEF Commit, IInv, TypeOK
<1> HIDE DEF more, corpus
<1>8. Held(Phase)' = Held(Phase) \cup Batch
  <2>1. Held(Phase)' = Held(Phase) \cup {row[1] : row \in more}
    BY <1>4, <1>6 DEF Held
  <2>2. {row[1] : row \in more} = {i \in Batch : Phase \in KeyedByContent \/ i \notin Held(Phase)}
    <3> DEFINE free == {i \in Batch : Phase \in KeyedByContent \/ i \notin Held(Phase)}
               say == Content(Phase, corpus)
    <3>1. more = free \X {say}
      BY DEF more, Inserted
    <3> HIDE DEF free, say
    <3>2. \A i \in free : <<i, say>> \in more /\ <<i, say>>[1] = i
      BY <3>1
    <3>3. \A row \in more : row[1] \in free
      BY <3>1
    <3>4. {row[1] : row \in more} = free
      BY <3>2, <3>3
    <3> QED
      BY <3>4 DEF free
  <2> QED
    BY <2>1, <2>2
<1>9. Landed(Phase, corpus, Batch)'
  <2> SUFFICES ASSUME NEW i \in Batch
               PROVE  Written(Phase, corpus, i)' \/ Taken(Phase, corpus, i)'
    BY <1>4 DEF Landed, corpus
  <2>1. CASE Phase \in KeyedByContent \/ i \notin Held(Phase)
    <3>1. <<i, Content(Phase, corpus)>> \in more
      BY <2>1 DEF more, Inserted
    <3> QED
      BY <3>1, <1>4, <1>6 DEF Written, Content, corpus
  <2>2. CASE Phase \notin KeyedByContent /\ i \in Held(Phase)
    <3>1. PICK row \in rows[Phase] : row[1] = i
      BY <2>2 DEF Held
    <3>2. PICK c \in Corpora : row[2] = Content(Phase, c)
      BY <1>5 DEF IInv, TypeOK
    <3>3. row = <<i, Content(Phase, c)>>
      BY <1>5, <3>1, <3>2
    <3>4. <<i, Content(Phase, c)>> \in rows'[Phase]
      BY <3>1, <3>3, <1>5, <1>6
    <3> QED
      BY <2>2, <3>4, <1>4 DEF Written, Taken, Content, corpus
  <2> QED
    BY <2>1, <2>2
<1>10. TablesHaveNoGaps'
  <2> SUFFICES ASSUME NEW p \in Phases
               PROVE  \E m \in 0 .. MaxClaims : Held(p)' = Claims(p, 0, m)
    BY DEF TablesHaveNoGaps, Claims
  <2>1. PICK n \in 0 .. MaxClaims : Held(p) = Claims(p, 0, n)
    BY DEF IInv, TablesHaveNoGaps
  <2>2. CASE p # Phase
    BY <1>6, <2>1, <2>2 DEF Held
  <2>3. CASE p = Phase
    <3> DEFINE from == load.state.phases[Phase]
               upto == BatchEnd(from, load.options.size)
    <3>1. /\ from \in Nat /\ upto \in Nat /\ upto <= MaxClaims
          /\ Claims(Phase, 0, from) \subseteq Held(Phase)
      BY <1>1, <1>2, BatchBounds, LandedIsHeld, LoadShape, Counts DEF IInv
    <3>2. Held(p)' = Claims(p, 0, n) \cup Claims(p, from, upto)
      BY <1>4, <1>8, <2>1, <2>3 DEF Batch, Held
    <3> HIDE DEF from, upto
    <3>3. n \in Nat /\ n <= MaxClaims
      BY Counts
    <3>4. Claims(p, 0, from) \subseteq Claims(p, 0, n)
      BY <3>1, <2>1, <2>3
    <3>5. Gapless(p, Claims(p, 0, n) \cup Claims(p, from, upto))
      BY <3>1, <3>3, <3>4, BatchFits
    <3> QED
      BY <3>2, <3>5 DEF Gapless
  <2> QED
    BY <2>2, <2>3
<1>11. UNCHANGED <<hnsw, file, older>>
  BY DEF Commit
<1>12. file' # None => Truthful(file)'
  BY <1>6, <1>11, TruthLasts DEF IInv
<1>13. older' # None => Truthful(older)'
  BY <1>6, <1>11, TruthLasts DEF IInv
<1>14. LeftBehind'
  <2>1. Truthful(load.state)'
    BY <1>1, <1>3, <1>6, TruthLasts DEF LeftBehind
  <2>2. load'.state.requested = load'.options.size /\ load'.state.corpus = load'.options.corpus
    BY <1>1, <1>3 DEF LeftBehind
  <2>3. \A i \in DOMAIN LOAD_PHASES :
          i < load'.number \/ Finishing' => ~Pending(load'.state, LOAD_PHASES[i], load'.options.size)
    BY <1>1, <1>3 DEF LeftBehind, Finishing
  <2>4. load'.options.strategy = "defer" /\ (load'.number > 5 \/ Finishing') => hnsw'
    BY <1>1, <1>3, <1>11 DEF LeftBehind, Finishing
  <2>5. Pending(load'.state, Phase', load'.options.size) /\ Landed(Phase, load.options.corpus, Batch)'
    BY <1>2, <1>3, <1>4, <1>9 DEF corpus
  <2>6. load'.pc \notin {"recorded", "loaded"}
    BY <1>3
  <2> QED
    BY <2>1, <2>2, <2>3, <2>4, <2>5, <2>6 DEF LeftBehind
<1> QED
  BY <1>7, <1>10, <1>12, <1>13, <1>14 DEF IInv

LEMMA CheckpointKeeps == ASSUME IInv, Checkpoint PROVE IInv'
<1> DEFINE total == load.options.size
           upto == BatchEnd(load.state.phases[Phase], total)
           next == Marked(load.state, Phase, upto, total)
<1>1. Loading /\ LeftBehind /\ load.pc = "committed"
  BY DEF IInv, Checkpoint, Loading
<1>2. /\ Pending(load.state, Phase, total) /\ Landed(Phase, load.options.corpus, Batch)
      /\ load.state.requested = total /\ load.state.corpus = load.options.corpus /\ Truthful(load.state)
  BY <1>1 DEF LeftBehind
<1>3. /\ total \in Nat /\ total <= MaxClaims /\ Phase \in Phases
      /\ load.state \in Checkpoints /\ MaxClaims \in Nat
  BY <1>1, LoadShape, Counts DEF IInv
<1>4. load' = [pc |-> "batch", number |-> load.number, options |-> load.options, state |-> next]
  BY <1>1, LoadShape DEF IInv, Checkpoint
<1>5. /\ upto \in Nat /\ upto <= total /\ (upto < total => upto # 1)
      /\ Landed(Phase, load.options.corpus, Claims(Phase, 0, load.state.phases[Phase]))
      /\ load.state.phases[Phase] \in Nat /\ load.state.phases[Phase] < upto
  BY <1>1, <1>2, BatchBounds DEF IInv
<1>6. /\ next \in Checkpoints /\ next.requested = total /\ next.early = load.state.early
      /\ next.corpus = load.options.corpus
      /\ next.phases[Phase] = IF upto >= total THEN 1 ELSE upto
      /\ \A p \in Phases : p # Phase => next.phases[p] = load.state.phases[p]
  <2> DEFINE mark == IF upto >= total THEN 1 ELSE upto
  <2>1. mark \in 0 .. MaxClaims
    BY <1>3, <1>5
  <2>2. next = [load.state EXCEPT !.phases[Phase] = mark]
    BY DEF Marked
  <2> HIDE DEF mark, next, upto
  <2>3. load.state.phases \in [Phases -> 0 .. MaxClaims]
    BY <1>3 DEF Checkpoints
  <2>4. next = [load.state EXCEPT !.phases = [load.state.phases EXCEPT ![Phase] = mark]]
    BY <2>2
  <2>5. [load.state.phases EXCEPT ![Phase] = mark] \in [Phases -> 0 .. MaxClaims]
    BY <2>1, <2>3
  <2> QED
    BY <2>1, <2>3, <2>4, <2>5, <1>2, <1>3 DEF Checkpoints, mark
<1>7. Landed(Phase, load.options.corpus, Claims(Phase, 0, upto))
  <2>1. Landed(Phase, load.options.corpus, Claims(Phase, load.state.phases[Phase], upto))
    BY <1>2 DEF Batch
  <2>2. Claims(Phase, 0, upto) \subseteq
          Claims(Phase, 0, load.state.phases[Phase]) \cup Claims(Phase, load.state.phases[Phase], upto)
    BY <1>5, <1>3 DEF Claims
  <2> QED
    BY <2>1, <2>2, <1>5 DEF Landed
<1>8. file' = next /\ older' = file /\ UNCHANGED <<rows, recorded, hnsw, want, changes, faults>>
  BY DEF Checkpoint
<1>9. Phase' = Phase
  BY <1>4 DEF Phase
<1> HIDE DEF next, upto
<1>10. Truthful(next)
  <2> SUFFICES ASSUME NEW p \in Phases
               PROVE  /\ next.phases[p] # 1 =>
                           next.phases[p] <= total /\ Landed(p, load.options.corpus, Claims(p, 0, next.phases[p]))
                      /\ next.phases[p] = 1 /\ p \notin next.early =>
                           Landed(p, load.options.corpus, Claims(p, 0, total))
    BY <1>6 DEF Truthful
  <2>1. CASE p # Phase
    BY <1>2, <1>6, <2>1 DEF Truthful
  <2>2. CASE p = Phase /\ upto < total
    BY <1>3, <1>5, <1>6, <1>7, <2>2
  <2>3. CASE p = Phase /\ ~(upto < total)
    <3>1. upto = total /\ next.phases[p] = 1
      BY <1>3, <1>5, <1>6, <2>3
    <3> QED
      BY <3>1, <1>7, <2>3
  <2> QED
    BY <2>1, <2>2, <2>3
<1>11. TypeOK'
  <2>1. load' \in Loads
    BY <1>1, <1>4, <1>6, LoadShape, PhaseOrder DEF IInv, Loads
  <2> QED
    BY <1>6, <1>8, <2>1 DEF IInv, TypeOK
<1>12. Truthful(file)'
  BY <1>8, <1>10 DEF Truthful, Landed, Written, Taken, Claims
<1>13. older' # None => Truthful(older)'
  BY <1>8 DEF IInv, Truthful, Landed, Written, Taken, Claims
<1>14. TablesHaveNoGaps'
  BY <1>8 DEF IInv, TablesHaveNoGaps, Held, Claims
<1>15. LeftBehind'
  <2>1. Truthful(load.state)'
    BY <1>4, <1>8, <1>10 DEF Truthful, Landed, Written, Taken, Claims
  <2>2. load'.state.requested = load'.options.size /\ load'.state.corpus = load'.options.corpus
    BY <1>4, <1>6
  <2>3. \A i \in DOMAIN LOAD_PHASES :
          i < load'.number \/ Finishing' => ~Pending(load'.state, LOAD_PHASES[i], load'.options.size)
    <3>1. ~Finishing'
      BY <1>4 DEF Finishing
    <3> SUFFICES ASSUME NEW i \in DOMAIN LOAD_PHASES, i < load.number
                 PROVE  ~Pending(next, LOAD_PHASES[i], total)
      BY <3>1, <1>4
    <3>2. ~Pending(load.state, LOAD_PHASES[i], total)
      BY <1>1 DEF LeftBehind
    <3>3. LOAD_PHASES[i] # Phase /\ LOAD_PHASES[i] \in Phases
      BY <3>2, <1>2, PhaseOrder
    <3> QED
      BY <3>2, <3>3, <1>6 DEF Pending
  <2>4. load'.options.strategy = "defer" /\ (load'.number > 5 \/ Finishing') => hnsw'
    <3>1. ~Finishing'
      BY <1>4 DEF Finishing
    <3> QED
      BY <3>1, <1>1, <1>4, <1>8 DEF LeftBehind
  <2>5. load'.pc \notin {"committed", "recorded", "loaded"}
    BY <1>4
  <2> QED
    BY <2>1, <2>2, <2>3, <2>4, <2>5 DEF LeftBehind
<1> QED
  BY <1>11, <1>12, <1>13, <1>14, <1>15 DEF IInv

LEMMA LeaveKeeps == ASSUME IInv, Leave PROVE IInv'
<1>1. Loading /\ LeftBehind /\ load.pc = "batch" /\ ~Finishing
  BY DEF IInv, Leave, Loading, Finishing
<1>2. ~Pending(load.state, Phase, load.options.size)
  BY DEF Leave
<1>3. load' = [pc |-> IF load.number < 8 THEN "phase" ELSE "verify",
               number |-> IF load.number < 8 THEN load.number + 1 ELSE load.number,
               options |-> load.options, state |-> load.state]
  BY <1>1, LoadShape, PhaseOrder DEF IInv, Leave, Following
<1>4. load.number \in 1 .. 8 /\ load.options \in Options /\ load.state \in Checkpoints
  BY <1>1, LoadShape DEF IInv
<1>5. TypeOK'
  <2>1. load' \in Loads
    BY <1>3, <1>4, PhaseOrder DEF Loads
  <2>2. hnsw' \in BOOLEAN
    BY DEF Leave, IInv, TypeOK
  <2> QED
    BY <2>1, <2>2 DEF Leave, IInv, TypeOK
<1>6. LeftBehind'
  <2>1. Truthful(load.state)'
    <3>1. rows' = rows /\ load'.state = load.state
      BY <1>3 DEF Leave
    <3> QED
      BY <1>1, <3>1 DEF LeftBehind, Truthful, Landed, Written, Taken, Claims
  <2>2. load'.state.requested = load'.options.size /\ load'.state.corpus = load'.options.corpus
    BY <1>1, <1>3 DEF LeftBehind
  <2>3. \A i \in DOMAIN LOAD_PHASES :
          i < load'.number \/ Finishing' => ~Pending(load'.state, LOAD_PHASES[i], load'.options.size)
    <3> SUFFICES ASSUME NEW i \in DOMAIN LOAD_PHASES, i < load'.number \/ Finishing'
                 PROVE  ~Pending(load.state, LOAD_PHASES[i], load.options.size)
      BY <1>3
    <3>1. i < load.number \/ i = load.number
      BY <1>3, <1>4, PhaseOrder DEF Finishing
    <3> QED
      BY <3>1, <1>1, <1>2 DEF LeftBehind, Phase
  <2>4. load'.options.strategy = "defer" /\ (load'.number > 5 \/ Finishing') => hnsw'
    <3> SUFFICES ASSUME load.options.strategy = "defer", load'.number > 5 \/ Finishing'
                 PROVE  hnsw'
      BY <1>3
    <3>1. load.number > 5 \/ load.number = 5
      BY <1>3, <1>4 DEF Finishing
    <3>2. CASE load.number = 5
      BY <3>2, PhaseOrder DEF Leave, Deferred, Phase
    <3>3. CASE load.number > 5
      BY <3>3, <1>1 DEF Leave, LeftBehind
    <3> QED
      BY <3>1, <3>2, <3>3
  <2>5. load'.pc \notin {"committed", "recorded", "loaded"}
    BY <1>3
  <2> QED
    BY <2>1, <2>2, <2>3, <2>4, <2>5 DEF LeftBehind
<1> QED
  BY <1>5, <1>6, DataKept DEF IInv, Leave

LEMMA RefuseKeeps == ASSUME IInv, Refuse PROVE IInv'
<1>1. load' = [pc |-> "refused"] /\ UNCHANGED <<rows, recorded, hnsw, file, older, want, changes, faults>>
  BY DEF Refuse
<1>2. TypeOK' /\ ~Loading'
  BY <1>1 DEF IInv, TypeOK, Loads, Loading
<1> QED
  BY <1>1, <1>2, Ended

\* A load that has left all phases behind goes on to say so.
LEMMA LastStepsKeep ==
  ASSUME IInv, Finishing, load.pc # "loaded", UNCHANGED <<rows, hnsw, file, older, want, changes, faults>>,
         recorded' = load.options.corpus,
         \/ load' = [load EXCEPT !.pc = "recorded"]
         \/ load' = [load EXCEPT !.pc = "loaded"]
  PROVE  IInv'
<1>1. Loading /\ LeftBehind
  BY DEF IInv, Loading, Finishing
<1>2. PICK pc \in {"recorded", "loaded"} :
        load' = [pc |-> pc, number |-> load.number, options |-> load.options, state |-> load.state]
  BY <1>1, LoadShape DEF IInv
<1>3. TypeOK'
  <2>1. load' \in Loads
    BY <1>1, <1>2, LoadShape, PhaseOrder DEF IInv, Loads
  <2>2. recorded' \in Corpora \cup {None}
    BY <1>1, LoadShape DEF IInv, Options
  <2> QED
    BY <2>1, <2>2 DEF IInv, TypeOK
<1>4. LeftBehind'
  <2>1. Truthful(load.state)'
    BY <1>1, <1>2 DEF LeftBehind, Truthful, Landed, Written, Taken, Claims
  <2>2. /\ load'.state.requested = load'.options.size /\ load'.state.corpus = load'.options.corpus
        /\ load'.options.strategy = "defer" => hnsw'
        /\ \A i \in DOMAIN LOAD_PHASES :
             ~Pending(load'.state, LOAD_PHASES[i], load'.options.size)
    BY <1>1, <1>2 DEF LeftBehind
  <2>3. load'.pc # "committed" /\ recorded' = load'.options.corpus
    BY <1>2
  <2> QED
    BY <2>1, <2>2, <2>3 DEF LeftBehind
<1> QED
  BY <1>3, <1>4, DataKept DEF IInv

LEMMA VerifyKeeps == ASSUME IInv, Verify PROVE IInv'
  BY LastStepsKeep DEF Verify, Finishing

LEMMA ReportKeeps == ASSUME IInv, Report PROVE IInv'
<1>1. Loading /\ LeftBehind
  BY DEF IInv, Report, Loading
<1>2. recorded' = load.options.corpus
  BY <1>1 DEF Report, LeftBehind
<1> QED
  BY <1>2, LastStepsKeep DEF Report, Finishing

LEMMA StutterKeeps == ASSUME IInv, UNCHANGED vars PROVE IInv'
<1>1. UNCHANGED <<rows, recorded, hnsw, file, older, want, load, changes, faults>>
  BY DEF vars
<1>2. TypeOK'
  BY <1>1 DEF IInv, TypeOK
<1>3. Loading' => LeftBehind'
  BY <1>1 DEF IInv, Loading, LeftBehind, Truthful, Finishing, Pending, Phase, Batch, Landed, Written, Taken, Claims, BatchEnd
<1> QED
  BY <1>1, <1>2, <1>3, DataKept DEF IInv

THEOREM Invariance == Spec => []IInv
<1>1. IInv /\ [Next]_vars => IInv'
  BY ChangeKeeps, BeginKeeps, EnterKeeps, CommitKeeps, RejectKeeps, CheckpointKeeps, LeaveKeeps,
     RefuseKeeps, VerifyKeeps, ReportKeeps, CrashKeeps, MisplaceKeeps, StutterKeeps DEF Next
<1> QED
  BY Initially, <1>1, PTL DEF Spec

-----------------------------------------------------------------------------
\* Every variable keeps to its type.
THEOREM TypeCorrect == Spec => []TypeOK
<1>1. IInv => TypeOK
  BY DEF IInv
<1> QED
  BY Invariance, <1>1, PTL

\* Kills, repetitions and lost or older checkpoints never leave a gap in a
\* table (runPhase() of load.ts).
THEOREM LoadsLeaveNoGaps == Spec => []TablesHaveNoGaps
<1>1. IInv => TablesHaveNoGaps
  BY DEF IInv
<1> QED
  BY Invariance, <1>1, PTL

\* A load that reports success has loaded every claim of its corpus into
\* every phase that was not complete for fewer claims before, except where
\* another corpus had put a row of the same key, and its model is the one
\* recorded (loadCorpus() of load.ts).
THEOREM LoadsAreWhole == Spec => []SuccessMeansWhole
<1>1. IInv => SuccessMeansWhole
  <2> SUFFICES ASSUME IInv, load.pc = "loaded"
               PROVE  /\ recorded = load.options.corpus
                      /\ \A p \in Phases \ load.state.early :
                           Landed(p, load.options.corpus, Claims(p, 0, load.options.size))
    BY DEF SuccessMeansWhole, Landed
  <2>1. Loading /\ LeftBehind /\ Finishing
    BY DEF IInv, Loading, Finishing
  <2>2. recorded = load.options.corpus
    BY <2>1 DEF LeftBehind
  <2>3. ASSUME NEW p \in Phases, p \notin load.state.early
        PROVE  Landed(p, load.options.corpus, Claims(p, 0, load.options.size))
    <3>1. ~Pending(load.state, p, load.options.size)
      BY <2>1, PhaseOrder DEF LeftBehind
    <3>2. CASE load.state.phases[p] = 1
      BY <2>1, <2>3, <3>2 DEF LeftBehind, Truthful
    <3>3. CASE load.state.phases[p] # 1
      <4>1. /\ load.state.phases[p] \in Nat /\ load.options.size \in Nat
            /\ load.state.phases[p] <= load.options.size
        BY <2>1, <3>3, LoadShape DEF IInv, LeftBehind, Truthful
      <4>2. load.state.phases[p] = load.options.size
        BY <3>1, <3>3, <4>1 DEF Pending
      <4> QED
        BY <2>1, <3>3, <4>2 DEF LeftBehind, Truthful
    <3> QED
      BY <3>2, <3>3
  <2> QED
    BY <2>2, <2>3
<1> QED
  BY Invariance, <1>1, PTL

\* A deferred load that reports success leaves the vector index behind.
THEOREM IndexReturns == Spec => []DeferredIndexReturns
<1>1. IInv => DeferredIndexReturns
  BY DEF IInv, DeferredIndexReturns, Loading, LeftBehind, Finishing
<1> QED
  BY Invariance, <1>1, PTL
=============================================================================
