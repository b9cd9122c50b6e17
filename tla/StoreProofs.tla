----------------------------- MODULE StoreProofs -----------------------------
(***************************************************************************)
(* Proofs about the records the platform keeps of its strategies and of    *)
(* its users: StrategyStore, for any ids, names, parameters, number of     *)
(* requests at a time, depth, and number of versions, children and runs,   *)
(* and UserAccess, for any addresses, subjects, roles, statuses, number of *)
(* requests at a time and number of crashes.                               *)
(***************************************************************************)
EXTENDS StrategyStore, UserAccess, FiniteSetTheorems, TLAPS
------------------------------------------------------------------------------
(* Strategies *)

Defs == [name : Names, paths : SUBSET Seq(Pinned)]

\* The tables hold sequences of definitions; so does the request that is
\* about to save one.
ShapeInv ==
    /\ versions \in [Ids -> Seq(Defs)]
    /\ work = [t \in Threads |-> work[t]]
    /\ \A t \in Threads : work[t].op = "save" =>
          work[t].id \in Ids /\ work[t].def \in Defs

\* The walk from the root still holds of a definition when it is saved: it is
\* about the embedded paths and the id alone, and both are in the request.
WalkInv ==
    /\ \A i \in Ids : \A v \in DOMAIN versions[i] : Walk(i, versions[i][v])
    /\ \A t \in Threads : work[t].op = "save" => Walk(work[t].id, work[t].def)

StoreInv == ShapeInv /\ WalkInv /\ ReferencesResolve

\* An empty store refers to nothing.
LEMMA StoreInit == Init => StoreInv
  <1> SUFFICES ASSUME Init PROVE StoreInv
    OBVIOUS
  <1>1. versions = [i \in Ids |-> <<>>] /\ runs = {}
    BY DEF Init
  <1>2. work = [t \in Threads |-> Idle]
    BY DEF Init
  <1>3. \A i \in Ids : versions[i] = <<>> /\ DOMAIN versions[i] = {}
    BY <1>1
  <1>4. \A t \in Threads : work[t].op # "save"
    BY <1>2 DEF Idle
  <1>5. ShapeInv
    BY <1>1, <1>2, <1>4 DEF ShapeInv
  <1>6. WalkInv
    BY <1>3, <1>4 DEF WalkInv
  <1>7. \A c \in Stored : c[1] \in Ids /\ c[2] \in DOMAIN versions[c[1]]
    BY DEF Stored, Pinned
  <1>8. ReferencesResolve
    BY <1>1, <1>3, <1>7 DEF ReferencesResolve
  <1> QED
    BY <1>5, <1>6, <1>8 DEF StoreInv

\* What a stored pair is.
LEMMA StoredPair ==
    ASSUME NEW c \in Stored
    PROVE  /\ c = <<c[1], c[2]>> /\ c[1] \in Ids
           /\ c[2] \in DOMAIN versions[c[1]]
  BY DEF Stored, Pinned

\* The definition that _validated_definition builds: the embedded paths start
\* with a child and go on with a path of a stored version.
LEMMA EmbedShape ==
    ASSUME ShapeInv, NEW cs \in SUBSET Pinned, \A c \in cs : Exists(c)
    PROVE  Embed(cs) \in SUBSET Seq(Pinned)
  <1> SUFFICES ASSUME NEW q \in Embed(cs) PROVE q \in Seq(Pinned)
    OBVIOUS
  <1>1. PICK c \in cs :
          q \in {<<c>>} \cup {<<c>> \o p : p \in versions[c[1]][c[2]].paths}
    BY DEF Embed
  <1>2. c \in Pinned /\ <<c>> \in Seq(Pinned)
    OBVIOUS
  <1>3. c[1] \in Ids /\ c[2] \in 1..Len(versions[c[1]])
    BY DEF Exists
  <1>4. versions[c[1]] \in Seq(Defs)
    BY <1>3 DEF ShapeInv
  <1>5. versions[c[1]][c[2]] \in Defs
    BY <1>3, <1>4
  <1>6. \A p \in versions[c[1]][c[2]].paths : p \in Seq(Pinned)
    BY <1>5 DEF Defs
  <1>7. \A p \in versions[c[1]][c[2]].paths : <<c>> \o p \in Seq(Pinned)
    BY <1>2, <1>6
  <1> QED
    BY <1>1, <1>2, <1>7

\* A request that takes one step keeps the other requests as they are.
LEMMA BecomeShape ==
    ASSUME ShapeInv, NEW t \in Threads, NEW w, Become(t, w),
           w.op = "save" => w.id \in Ids /\ w.def \in Defs /\ Walk(w.id, w.def),
           WalkInv
    PROVE  /\ work' = [u \in Threads |-> work'[u]]
           /\ \A u \in Threads : work'[u].op = "save" =>
                 /\ work'[u].id \in Ids /\ work'[u].def \in Defs
                 /\ Walk(work'[u].id, work'[u].def)
  <1>1. work' = [work EXCEPT ![t] = w]
    BY DEF Become
  <1>2. work = [u \in Threads |-> work[u]]
    BY DEF ShapeInv
  <1>3. work' = [u \in Threads |-> IF u = t THEN w ELSE work[u]]
    BY <1>1, <1>2
  <1>4. ASSUME NEW u \in Threads, work'[u].op = "save"
        PROVE  /\ work'[u].id \in Ids /\ work'[u].def \in Defs
               /\ Walk(work'[u].id, work'[u].def)
    <2>1. CASE u = t
      <3>1. work'[u] = w
        BY <1>3, <2>1
      <3> QED
        BY <1>4, <3>1
    <2>2. CASE u # t
      <3>1. work'[u] = work[u]
        BY <1>3, <2>2
      <3> QED
        BY <1>4, <3>1 DEF ShapeInv, WalkInv
    <2> QED
      BY <2>1, <2>2
  <1> QED
    BY <1>3, <1>4

\* A step that leaves the versions and the runs alone keeps the invariant
\* when it keeps what is known of the requests.
LEMMA WorkStep ==
    ASSUME StoreInv, UNCHANGED <<versions, runs>>,
           work' = [u \in Threads |-> work'[u]],
           \A u \in Threads : work'[u].op = "save" =>
              /\ work'[u].id \in Ids /\ work'[u].def \in Defs
              /\ Walk(work'[u].id, work'[u].def)
    PROVE  StoreInv'
  <1>1. ShapeInv'
    BY DEF StoreInv, ShapeInv, Defs, Pinned
  <1>2. WalkInv'
    BY DEF StoreInv, WalkInv, Walk
  <1>3. ReferencesResolve'
    BY DEF StoreInv, ReferencesResolve, Stored, Pinned, Exists, Children
  <1> QED
    BY <1>1, <1>2, <1>3 DEF StoreInv

\* What a validated definition hands to the save.
LEMMA StartSaveStep ==
    ASSUME StoreInv, NEW t \in Threads, NEW i \in Ids, NEW n \in Names,
           StartSave(t, i, n), UNCHANGED <<versions, runs>>
    PROVE  StoreInv'
  <1>1. PICK cs \in ChildSets :
          /\ \A c \in cs : Exists(c)
          /\ Walk(i, Definition(n, Embed(cs)))
          /\ Become(t, [op |-> "save", id |-> i,
                        def |-> Definition(n, Embed(cs))])
    BY DEF StartSave, Validated
  <1>2. cs \in SUBSET Pinned
    BY DEF ChildSets
  <1>3. ShapeInv /\ WalkInv
    BY DEF StoreInv
  <1>4. Embed(cs) \in SUBSET Seq(Pinned)
    BY <1>1, <1>2, <1>3, EmbedShape
  <1>5. Definition(n, Embed(cs)) \in Defs
    BY <1>4 DEF Definition, Defs
  <1> DEFINE w == [op |-> "save", id |-> i, def |-> Definition(n, Embed(cs))]
  <1>6. w.id = i /\ w.def = Definition(n, Embed(cs))
    OBVIOUS
  <1>7. w.id \in Ids /\ w.def \in Defs /\ Walk(w.id, w.def)
    BY <1>1, <1>5, <1>6
  <1>8. Become(t, w)
    BY <1>1
  <1> HIDE DEF w
  <1>9. /\ work' = [u \in Threads |-> work'[u]]
        /\ \A u \in Threads : work'[u].op = "save" =>
              /\ work'[u].id \in Ids /\ work'[u].def \in Defs
              /\ Walk(work'[u].id, work'[u].def)
    BY <1>3, <1>7, <1>8, BecomeShape
  <1> QED
    BY <1>9, WorkStep

\* A request that goes on without a definition to save.
LEMMA OtherStep ==
    ASSUME StoreInv, NEW t \in Threads, NEW w, Become(t, w), w.op # "save"
    PROVE  /\ work' = [u \in Threads |-> work'[u]]
           /\ \A u \in Threads : work'[u].op = "save" =>
                 /\ work'[u].id \in Ids /\ work'[u].def \in Defs
                 /\ Walk(work'[u].id, work'[u].def)
  <1>1. ShapeInv /\ WalkInv
    BY DEF StoreInv
  <1> QED
    BY <1>1, BecomeShape

\* create_composite saves what it validated under a new id.
LEMMA CreateStep ==
    ASSUME StoreInv, NEW t \in Threads, Create(t) PROVE StoreInv'
  <1>1. PICK i \in Ids, n \in Names : StartSave(t, i, n)
    BY DEF Create
  <1>2. UNCHANGED <<versions, runs>>
    BY DEF Create, store
  <1> QED
    BY <1>1, <1>2, StartSaveStep

\* update_composite saves under the same id, or a new one for a new name.
LEMMA UpdateStep ==
    ASSUME StoreInv, NEW t \in Threads, Update(t) PROVE StoreInv'
  <1>1. \E i \in Ids, n \in Names : StartSave(t, i, n)
    BY DEF Update
  <1>2. UNCHANGED <<versions, runs>>
    BY DEF Update, store
  <1> QED
    BY <1>1, <1>2, StartSaveStep

\* What Append does to a sequence of definitions.
LEMMA AppendKeeps ==
    ASSUME NEW s \in Seq(Defs), NEW d \in Defs
    PROVE  /\ \A v \in DOMAIN s :
                 v \in DOMAIN Append(s, d) /\ Append(s, d)[v] = s[v]
           /\ \A v \in DOMAIN Append(s, d) :
                 v \in DOMAIN s \/ Append(s, d)[v] = d
           /\ Append(s, d) # <<>>
           /\ s = SubSeq(Append(s, d), 1, Len(s))
  <1>1. Len(s) \in Nat /\ DOMAIN s = 1..Len(s)
    OBVIOUS
  <1>2. /\ Append(s, d) \in Seq(Defs) /\ Len(Append(s, d)) = Len(s) + 1
        /\ DOMAIN Append(s, d) = 1..(Len(s) + 1)
    OBVIOUS
  <1>3. \A v \in 1..Len(s) : Append(s, d)[v] = s[v]
    OBVIOUS
  <1>4. Append(s, d)[Len(s) + 1] = d
    OBVIOUS
  <1> HIDE DEF Defs
  <1>5. SubSeq(Append(s, d), 1, Len(s)) = [v \in 1..Len(s) |-> Append(s, d)[v]]
    BY <1>1, <1>2
  <1>6. s = SubSeq(Append(s, d), 1, Len(s))
    BY <1>1, <1>3, <1>5
  <1>7. Append(s, d) # <<>>
    BY <1>1, <1>2
  <1> QED
    BY <1>1, <1>2, <1>3, <1>4, <1>6, <1>7

\* The save: the definition joins the versions with its walk still sound, and
\* its children are looked up in the same transaction.
LEMMA SaveStep ==
    ASSUME StoreInv, NEW t \in Threads, Save(t) PROVE StoreInv'
  <1> DEFINE w == work[t]
  <1>1. w.op = "save" /\ Become(t, Idle) /\ runs' = runs
    BY DEF Save, Done
  <1>2. w.id \in Ids /\ w.def \in Defs /\ Walk(w.id, w.def)
    BY <1>1 DEF StoreInv, ShapeInv, WalkInv
  <1>3. Idle.op # "save"
    BY DEF Idle
  <1>4. /\ work' = [u \in Threads |-> work'[u]]
        /\ \A u \in Threads : work'[u].op = "save" =>
              /\ work'[u].id \in Ids /\ work'[u].def \in Defs
              /\ Walk(work'[u].id, work'[u].def)
    BY <1>1, <1>3, OtherStep
  <1>5. CASE versions' = versions
    BY <1>1, <1>4, <1>5, WorkStep
  <1>6. CASE /\ \A c \in Children(w.def) : Exists(c)
             /\ versions' = [versions EXCEPT ![w.id] = Append(@, w.def)]
    <2> HIDE DEF w
    <2>1. versions \in [Ids -> Seq(Defs)]
      BY DEF StoreInv, ShapeInv
    <2>2. versions' \in [Ids -> Seq(Defs)]
      BY <1>2, <1>6, <2>1
    <2>3. \A i \in Ids : versions'[i] =
             IF i = w.id THEN Append(versions[i], w.def) ELSE versions[i]
      BY <1>6, <2>1
    <2>4. ASSUME NEW i \in Ids
          PROVE  /\ \A v \in DOMAIN versions[i] :
                       /\ v \in DOMAIN versions'[i]
                       /\ versions'[i][v] = versions[i][v]
                 /\ \A v \in DOMAIN versions'[i] :
                       \/ v \in DOMAIN versions[i]
                       \/ i = w.id /\ versions'[i][v] = w.def
      <3>1. CASE i = w.id
        <4>1. versions'[i] = Append(versions[i], w.def)
          BY <2>3, <3>1
        <4>2. versions[i] \in Seq(Defs)
          BY <2>1
        <4> QED
          BY <1>2, <3>1, <4>1, <4>2, AppendKeeps
      <3>2. CASE i # w.id
        <4>1. versions'[i] = versions[i]
          BY <2>3, <3>2
        <4> QED
          BY <4>1
      <3> QED
        BY <3>1, <3>2
    <2>5. \A i \in Ids : \A v \in DOMAIN versions'[i] :
             \/ v \in DOMAIN versions[i]
             \/ i = w.id /\ versions'[i][v] = w.def
      BY <2>4
    <2>6. ShapeInv'
      BY <1>4, <2>2 DEF ShapeInv, Defs, Pinned
    <2>7. WalkInv'
      <3>1. \A i \in Ids : \A v \in DOMAIN versions[i] :
               Walk(i, versions[i][v])
        BY DEF StoreInv, WalkInv
      <3>2. \A i \in Ids : \A v \in DOMAIN versions'[i] :
               Walk(i, versions'[i][v])
        BY <1>2, <2>4, <2>5, <3>1
      <3> QED
        BY <1>4, <3>2 DEF WalkInv, Walk
    <2>8. \A i \in Ids : 1..Len(versions[i]) = DOMAIN versions[i]
                         /\ 1..Len(versions'[i]) = DOMAIN versions'[i]
      BY <2>1, <2>2
    <2>9. \A k : Exists(k) => Exists(k)'
      BY <2>4, <2>8 DEF Exists
    <2>10. ReferencesResolve'
      <3>1. ASSUME NEW c \in Stored', NEW k \in Children(versions'[c[1]][c[2]])
            PROVE  Exists(k)'
        <4>1. c \in Pinned /\ c[1] \in Ids /\ c[2] \in DOMAIN versions'[c[1]]
          BY DEF Stored, Pinned
        <4>2. CASE c[2] \in DOMAIN versions[c[1]]
          <5>1. c \in Stored
            BY <4>1, <4>2 DEF Stored
          <5>2. versions'[c[1]][c[2]] = versions[c[1]][c[2]]
            BY <2>4, <4>1, <4>2
          <5> QED
            BY <2>9, <5>1, <5>2 DEF StoreInv, ReferencesResolve
        <4>3. CASE versions'[c[1]][c[2]] = w.def
          BY <1>6, <2>9, <4>3
        <4> QED
          BY <2>5, <4>1, <4>2, <4>3
      <3>2. \A r \in runs' : r.id # Atomic => Exists(<<r.id, r.version>>)'
        BY <1>1, <2>9 DEF StoreInv, ReferencesResolve
      <3>3. \A c \in Stored' : \A k \in Children(versions[c[1]][c[2]])' :
               Exists(k)'
        BY <3>1 DEF Children
      <3> QED
        BY <3>2, <3>3 DEF ReferencesResolve
    <2> QED
      BY <2>6, <2>7, <2>10 DEF StoreInv
  <1> QED
    BY <1>5, <1>6 DEF Save

\* The purge: no id that goes is named by a version that stays or by a run.
LEMMA PurgeStep ==
    ASSUME StoreInv, NEW s \in SUBSET Ids, Purge(s) PROVE StoreInv'
  <1>1. runs' = runs /\ work' = work
    BY DEF Purge
  <1>2. /\ work' = [u \in Threads |-> work'[u]]
        /\ \A u \in Threads : work'[u].op = "save" =>
              /\ work'[u].id \in Ids /\ work'[u].def \in Defs
              /\ Walk(work'[u].id, work'[u].def)
    BY <1>1 DEF StoreInv, ShapeInv, WalkInv
  <1>3. CASE versions' = versions
    BY <1>1, <1>2, <1>3, WorkStep
  <1>4. CASE versions' = [i \in Ids |-> IF i \in s THEN <<>> ELSE versions[i]]
    <2>1. versions \in [Ids -> Seq(Defs)]
      BY DEF StoreInv, ShapeInv
    <2>2. versions' \in [Ids -> Seq(Defs)]
      BY <1>4, <2>1
    <2>3. \A i \in Ids : i \notin s => versions'[i] = versions[i]
      BY <1>4
    <2>4. \A i \in Ids : \A v \in DOMAIN versions'[i] : i \notin s
      BY <1>4
    <2>5. ShapeInv'
      BY <1>2, <2>2 DEF ShapeInv, Defs, Pinned
    <2>6. WalkInv'
      <3>1. \A i \in Ids : \A v \in DOMAIN versions'[i] :
               Walk(i, versions'[i][v])
        BY <2>3, <2>4 DEF StoreInv, WalkInv
      <3> QED
        BY <1>2, <3>1 DEF WalkInv, Walk
    <2>7. ASSUME NEW k, Exists(k), k[1] \notin s
          PROVE  Exists(k)'
      BY <2>3, <2>7 DEF Exists
    <2>8. ASSUME NEW c \in Stored', NEW k \in Children(versions'[c[1]][c[2]])
          PROVE  Exists(k)'
      <3>1. c \in Pinned /\ c[1] \in Ids /\ c[2] \in DOMAIN versions'[c[1]]
        BY DEF Stored, Pinned
      <3>2. c[1] \notin s /\ versions'[c[1]] = versions[c[1]]
        BY <2>3, <2>4, <3>1
      <3>3. k \in Children(versions[c[1]][c[2]])
        BY <3>2
      <3>4. c \in Stored
        BY <3>1, <3>2 DEF Stored
      <3>5. Exists(k)
        BY <3>3, <3>4 DEF StoreInv, ReferencesResolve
      <3>6. k[1] \notin s
        BY <3>1, <3>2, <3>3 DEF Purge, Purgeable
      <3> QED
        BY <2>7, <3>5, <3>6
    <2>9. ASSUME NEW r \in runs', r.id # Atomic
          PROVE  Exists(<<r.id, r.version>>)'
      <3>1. Exists(<<r.id, r.version>>)
        BY <1>1, <2>9 DEF StoreInv, ReferencesResolve
      <3>2. r.id \notin s
        BY <1>1 DEF Purge, Purgeable
      <3> QED
        BY <2>7, <3>1, <3>2
    <2>10. \A c \in Stored' : \A k \in Children(versions[c[1]][c[2]])' :
              Exists(k)'
      BY <2>8 DEF Children
    <2>11. ReferencesResolve'
      BY <2>9, <2>10 DEF ReferencesResolve
    <2> QED
      BY <2>5, <2>6, <2>11 DEF StoreInv
  <1> QED
    BY <1>3, <1>4 DEF Purge

\* Steps that leave the versions alone, and a run that is stored only when
\* its version is there.
LEMMA RunsStep ==
    ASSUME StoreInv, versions' = versions,
           \A r \in runs' : \/ r \in runs
                            \/ r.id = Atomic
                            \/ Exists(<<r.id, r.version>>),
           work' = [u \in Threads |-> work'[u]],
           \A u \in Threads : work'[u].op = "save" =>
              /\ work'[u].id \in Ids /\ work'[u].def \in Defs
              /\ Walk(work'[u].id, work'[u].def)
    PROVE  StoreInv'
  <1>1. ShapeInv'
    BY DEF StoreInv, ShapeInv, Defs, Pinned
  <1>2. WalkInv'
    BY DEF StoreInv, WalkInv, Walk
  <1>3. \A k : Exists(k)' = Exists(k)
    BY DEF Exists
  <1>4. \A c \in Stored : \A k \in Children(versions[c[1]][c[2]]) : Exists(k)
    BY DEF StoreInv, ReferencesResolve
  <1>5. (\A c \in Stored : \A k \in Children(versions[c[1]][c[2]]) : Exists(k))'
    BY <1>4 DEF Stored, Pinned, Exists, Children
  <1>6. \A r \in runs' : r.id # Atomic => Exists(<<r.id, r.version>>)
    BY DEF StoreInv, ReferencesResolve
  <1>7. \A r \in runs' : r.id # Atomic => Exists(<<r.id, r.version>>)'
    BY <1>6 DEF Exists
  <1>8. ReferencesResolve'
    BY <1>5, <1>7 DEF ReferencesResolve
  <1> QED
    BY <1>1, <1>2, <1>8 DEF StoreInv

\* save_backtest_run stores a run only while its foreign key holds.
LEMMA SaveRunStep ==
    ASSUME StoreInv, NEW t \in Threads, SaveRun(t) PROVE StoreInv'
  <1> DEFINE w == work[t]
  <1>1. versions' = versions /\ Become(t, Idle)
    BY DEF SaveRun, Done
  <1>2. Idle.op # "save"
    BY DEF Idle
  <1>3. /\ work' = [u \in Threads |-> work'[u]]
        /\ \A u \in Threads : work'[u].op = "save" =>
              /\ work'[u].id \in Ids /\ work'[u].def \in Defs
              /\ Walk(work'[u].id, work'[u].def)
    BY <1>1, <1>2, OtherStep
  <1>4. CASE runs' = runs
    BY <1>1, <1>3, <1>4, RunsStep
  <1>5. CASE /\ w.id = Atomic \/ Exists(<<w.id, w.version>>)
             /\ \E r \in FreshRun :
                   runs' = runs \cup {[run |-> r, id |-> w.id,
                                       version |-> w.version,
                                       snapshot |-> w.snapshot,
                                       used |-> w.used]}
    <2>1. \A r \in runs' : r \in runs \/ (r.id = w.id /\ r.version = w.version)
      BY <1>5
    <2>2. \A r \in runs' : \/ r \in runs
                           \/ r.id = Atomic
                           \/ Exists(<<r.id, r.version>>)
      BY <1>5, <2>1
    <2> QED
      BY <1>1, <1>3, <2>2, RunsStep
  <1> QED
    BY <1>4, <1>5 DEF SaveRun, RunAccepted

\* Every action keeps the invariant.
LEMMA StoreNext == StoreInv /\ [Next]_vars => StoreInv'
  <1> SUFFICES ASSUME StoreInv, [Next]_vars PROVE StoreInv'
    OBVIOUS
  <1>1. /\ work = [u \in Threads |-> work[u]]
        /\ \A u \in Threads : work[u].op = "save" =>
              /\ work[u].id \in Ids /\ work[u].def \in Defs
              /\ Walk(work[u].id, work[u].def)
    BY DEF StoreInv, ShapeInv, WalkInv
  <1>2. ASSUME NEW t \in Threads, NEW w, Become(t, w), w.op # "save",
               UNCHANGED <<versions, runs>>
        PROVE  StoreInv'
    BY <1>2, OtherStep, WorkStep
  <1>3. ASSUME NEW t \in Threads, NEW c \in Pinned, StartRun(t, c)
        PROVE  StoreInv'
    BY <1>2, <1>3 DEF StartRun, store
  <1>4. ASSUME NEW t \in Threads, ExecuteComposite(t) PROVE StoreInv'
    BY <1>2, <1>4 DEF ExecuteComposite, store, Done, Idle
  <1>5. ASSUME NEW t \in Threads, ExecuteAtomic(t) PROVE StoreInv'
    BY <1>2, <1>5 DEF ExecuteAtomic, store
  <1>6. ASSUME NEW t \in Threads, Snapshot(t) PROVE StoreInv'
    BY <1>2, <1>6 DEF Snapshot, store
  <1>7. ASSUME NEW i \in Ids, Archive(i) PROVE StoreInv'
    BY <1>1, <1>7, WorkStep DEF Archive
  <1>8. ASSUME NEW rs \in SUBSET runs, DeleteRuns(rs) PROVE StoreInv'
    BY <1>1, <1>8, RunsStep DEF DeleteRuns
  <1>9. ASSUME NEW p \in Parameters, UpdateParameters(p) PROVE StoreInv'
    BY <1>1, <1>9, WorkStep DEF UpdateParameters
  <1>10. CASE UNCHANGED vars
    BY <1>1, <1>10, WorkStep DEF vars, store
  <1> QED
    BY <1>3, <1>4, <1>5, <1>6, <1>7, <1>8, <1>9, <1>10, CreateStep, UpdateStep,
       SaveStep, PurgeStep, SaveRunStep DEF Next

\* The invariant holds of every behaviour.
LEMMA StoreSafe == Spec => []StoreInv
  BY StoreInit, StoreNext, PTL DEF Spec

\* However purges, saves of new parents and ends of running backtests
\* interleave, every stored version and every run finds what it refers to
\* (save_composite_strategy, purge_archived_composite_strategies,
\* save_backtest_run).
THEOREM References == Spec => []ReferencesResolve
  <1>1. StoreInv => ReferencesResolve
    BY DEF StoreInv
  <1> QED
    BY <1>1, StoreSafe, PTL

\* The ids on a walk that is sound are as many as its steps, and the root.
LEMMA WalkCounts ==
    ASSUME NEW i \in Ids, NEW p \in Seq(Pinned),
           \A j \in DOMAIN p : p[j][1] # i,
           \A j, k \in DOMAIN p : p[j][1] = p[k][1] => j = k
    PROVE  Cardinality({i} \cup {p[j][1] : j \in DOMAIN p}) = Len(p) + 1
  <1> DEFINE n == Len(p)
             S == {p[j][1] : j \in 1..n}
             f == [j \in 1..n |-> p[j][1]]
  <1>1. n \in Nat /\ DOMAIN p = 1..n
    OBVIOUS
  <1> HIDE DEF n
  <1>2. f \in Bijection(1..n, S)
    BY <1>1 DEF Bijection, Injection, Surjection, IsInjective
  <1>3. ExistsBijection(1..n, S)
    BY <1>2 DEF ExistsBijection
  <1>4. IsFiniteSet(1..n) /\ Cardinality(1..n) = n
    BY <1>1, FS_Interval
  <1>5. IsFiniteSet(S) /\ Cardinality(S) = n
    BY <1>1, <1>3, <1>4, FS_CountingElements, FS_Bijection
  <1>6. i \notin S
    BY <1>1
  <1>7. Cardinality(S \cup {i}) = n + 1
    BY <1>5, <1>6, FS_AddElement
  <1>8. S \cup {i} = {i} \cup {p[j][1] : j \in DOMAIN p}
    BY <1>1
  <1> QED
    BY <1>7, <1>8 DEF n

\* A strategy never reaches itself, and its tree is no deeper than
\* MAX_COMPOSITE_DEPTH, whatever was saved, archived or purged between the
\* validation of its definition and its save (validate_composite_dependencies).
THEOREM BoundedTrees == Spec => []TreesBounded
  <1>1. StoreInv => TreesBounded
    <2> HAVE StoreInv
    <2>1. ASSUME NEW c \in Stored, NEW p \in versions[c[1]][c[2]].paths
          PROVE  /\ Len(p) < MaxDepth
                 /\ Cardinality({c[1]} \cup {p[j][1] : j \in DOMAIN p})
                      = Len(p) + 1
      <3>1. c[1] \in Ids /\ c[2] \in DOMAIN versions[c[1]]
        BY StoredPair
      <3>2. Walk(c[1], versions[c[1]][c[2]])
        BY <3>1 DEF StoreInv, WalkInv
      <3>3. versions[c[1]] \in Seq(Defs)
        BY <3>1 DEF StoreInv, ShapeInv
      <3>4. versions[c[1]][c[2]] \in Defs
        BY <3>1, <3>3
      <3>5. p \in Seq(Pinned)
        BY <3>4 DEF Defs
      <3> QED
        BY <3>1, <3>2, <3>5, WalkCounts DEF Walk
    <2> QED
      BY <2>1 DEF TreesBounded
  <1> QED
    BY <1>1, StoreSafe, PTL

\* No step gives an archived strategy a further version, and the versions
\* that are kept only grow at their end, also when the update was validated
\* before the strategy was archived (save_composite_strategy).
THEOREM FrozenArchive == Spec => ArchivedFrozen
  <1> DEFINE Frozen ==
        \A i \in Ids : versions'[i] # <<>> =>
           /\ i \in archived => versions'[i] = versions[i]
           /\ versions[i] = SubSeq(versions'[i], 1, Len(versions[i]))
  <1>1. StoreInv /\ [Next]_vars => [Frozen]_vars
    <2> SUFFICES ASSUME StoreInv, Next PROVE Frozen
      OBVIOUS
    <2>1. versions \in [Ids -> Seq(Defs)]
      BY DEF StoreInv, ShapeInv
    <2>2. ASSUME NEW i \in Ids, versions'[i] = versions[i]
          PROVE  versions[i] = SubSeq(versions'[i], 1, Len(versions[i]))
      BY <2>1, <2>2
    <2>3. ASSUME NEW t \in Threads, Save(t) PROVE Frozen
      <3> DEFINE w == work[t]
      <3>1. w.id \in Ids /\ w.def \in Defs
        BY <2>3 DEF Save, StoreInv, ShapeInv
      <3>2. CASE versions' = versions
        BY <2>2, <3>2
      <3>3. CASE /\ ~SaveRefused(w.id, w.def)
                 /\ versions' = [versions EXCEPT ![w.id] = Append(@, w.def)]
        <4>1. w.id \notin archived
          BY <3>3 DEF SaveRefused
        <4> HIDE DEF w
        <4>2. \A i \in Ids \ {w.id} : versions'[i] = versions[i]
          BY <2>1, <3>3
        <4>3. versions'[w.id] = Append(versions[w.id], w.def)
          BY <2>1, <3>1, <3>3
        <4>4. versions[w.id] \in Seq(Defs)
          BY <2>1, <3>1
        <4>5. versions[w.id] =
                 SubSeq(versions'[w.id], 1, Len(versions[w.id]))
          BY <3>1, <4>3, <4>4, AppendKeeps
        <4> QED
          BY <2>2, <4>1, <4>2, <4>5
      <3> QED
        BY <2>3, <3>2, <3>3 DEF Save
    <2>4. ASSUME NEW s \in SUBSET Ids, Purge(s) PROVE Frozen
      <3>1. \A i \in Ids : versions'[i] # <<>> => versions'[i] = versions[i]
        BY <2>4 DEF Purge
      <3> QED
        BY <2>2, <3>1
    <2>5. CASE versions' = versions
      BY <2>2, <2>5
    <2> HIDE DEF Frozen
    <2> QED
      BY <2>3, <2>4, <2>5 DEF Next, Create, Update, StartRun, ExecuteComposite,
         ExecuteAtomic, Snapshot, SaveRun, Archive, DeleteRuns,
         UpdateParameters, store
  <1> QED
    BY <1>1, StoreSafe, PTL DEF Spec, ArchivedFrozen
------------------------------------------------------------------------------
(* Users *)

Account == [subject : Subjects \cup {None}, role : Roles \cup {"researcher", None},
            status : Statuses \cup {None}]

\* The tables hold records, and a request that passed the middleware as an
\* administrator's knows its caller.
AccessInv ==
    /\ account \in [Emails -> Account]
    /\ request \in [Emails -> [subject : Subjects \cup {None},
                               status : {"pending", "approved", "rejected",
                                         None}]]
    /\ provider \in [Subjects -> Emails]
    /\ task = [t \in Callers |-> task[t]]
    /\ \A t \in Callers :
          \/ task[t] = Rest
          \/ \E e \in Emails : task[t] = [op |-> "admin", actor |-> e]
          \/ task[t].op = "audit"

\* A request only takes one of the three shapes.
LEMMA AssignShape ==
    ASSUME AccessInv, NEW t \in Callers, NEW w, Assign(t, w),
           \/ w = Rest
           \/ \E e \in Emails : w = [op |-> "admin", actor |-> e]
           \/ w.op = "audit"
    PROVE  /\ task' = [u \in Callers |-> task'[u]]
           /\ \A u \in Callers :
                 \/ task'[u] = Rest
                 \/ \E e \in Emails : task'[u] = [op |-> "admin", actor |-> e]
                 \/ task'[u].op = "audit"
  <1>1. task' = [task EXCEPT ![t] = w]
    BY DEF Assign
  <1>2. task = [u \in Callers |-> task[u]]
    BY DEF AccessInv
  <1>3. task' = [u \in Callers |-> IF u = t THEN w ELSE task[u]]
    BY <1>1, <1>2
  <1>4. task' = [u \in Callers |-> task'[u]]
    BY <1>3
  <1>5. ASSUME NEW u \in Callers
        PROVE  \/ task'[u] = Rest
               \/ \E e \in Emails : task'[u] = [op |-> "admin", actor |-> e]
               \/ task'[u].op = "audit"
    <2>1. CASE u = t
      BY <1>3, <2>1
    <2>2. CASE u # t
      <3>1. task'[u] = task[u]
        BY <1>3, <2>2
      <3> QED
        BY <3>1 DEF AccessInv
    <2> QED
      BY <2>1, <2>2
  <1> QED
    BY <1>4, <1>5

LEMMA AccessStart == AccessInit => AccessInv
  BY AccessAssumption
     DEF AccessInit, AccessInv, NoAccount, NoRequest, Account, Rest

LEMMA AccessStep == AccessInv /\ [AccessNext]_accessVars => AccessInv'
  <1> SUFFICES ASSUME AccessInv, [AccessNext]_accessVars PROVE AccessInv'
    OBVIOUS
  <1>t. /\ account \in [Emails -> Account]
        /\ request \in [Emails -> [subject : Subjects \cup {None},
                                   status : {"pending", "approved",
                                             "rejected", None}]]
        /\ provider \in [Subjects -> Emails]
    BY DEF AccessInv
  <1>1. ASSUME NEW t \in Callers, NEW s \in Subjects, Authorize(t, s)
        PROVE  AccessInv'
    <2>1. PICK e \in Emails :
            /\ account' = [account EXCEPT ![e].subject = s]
            /\ IF IsAdmin(e) THEN Assign(t, [op |-> "admin", actor |-> e])
               ELSE UNCHANGED task
      BY <1>1 DEF Authorize, Resolved, Bound
    <2>2. account' \in [Emails -> Account]
      BY <2>1, <1>t DEF Account
    <2>3. CASE IsAdmin(e)
      BY <2>1, <2>2, <2>3, <1>1, <1>t, AssignShape DEF AccessInv, Authorize
    <2>4. CASE ~IsAdmin(e)
      BY <2>1, <2>2, <2>4, <1>1 DEF AccessInv, Authorize
    <2> QED
      BY <2>3, <2>4
  <1>2. ASSUME NEW t \in Callers, NEW e \in Emails, NEW r \in Roles,
               NEW st \in Statuses, CreateUser(t, e, r, st)
        PROVE  AccessInv'
    <2>0. account' \in [Emails -> Account]
      BY <1>2, <1>t, SMTT(30) DEF CreateUser, Account
    <2>1. request' \in [Emails -> [subject : Subjects \cup {None},
                                   status : {"pending", "approved",
                                             "rejected", None}]]
      <3>1. \/ request' = request
            \/ request' = [request EXCEPT ![e].status = "approved"]
        BY <1>2 DEF CreateUser
      <3> QED
        BY <3>1, <1>t
    <2>2. PICK w : Assign(t, w) /\ (w = Rest \/ w.op = "audit")
      <3>1. CASE Assign(t, Rest)
        BY <3>1
      <3>2. ASSUME NEW events, Audited(t, events)
            PROVE  \E w : Assign(t, w) /\ w.op = "audit"
        <4> DEFINE w == [op |-> "audit", events |-> events]
        <4>1. Assign(t, w) /\ w.op = "audit"
          BY <3>2 DEF Audited
        <4> QED
          BY <4>1
      <3> QED
        BY <1>2, <3>1, <3>2 DEF CreateUser
    <2> QED
      BY <2>0, <2>1, <2>2, <1>2, <1>t, AssignShape DEF AccessInv, CreateUser
  <1>3. ASSUME NEW t \in Callers, NEW e \in Emails, NEW r \in Roles,
               NEW st \in Statuses, UpdateUser(t, e, r, st)
        PROVE  AccessInv'
    <2>1. account' \in [Emails -> Account]
      BY <1>3, <1>t, ZenonT(60) DEF UpdateUser, Account
    <2> QED
      BY <2>1, <1>3, <1>t, AssignShape DEF AccessInv, UpdateUser
  <1>4. ASSUME NEW t \in Callers, NEW e \in Emails, Approve(t, e)
        PROVE  AccessInv'
    <2>0. account' \in [Emails -> Account]
      BY <1>4, <1>t, AccessAssumption DEF Approve, Account
    <2>1. request' \in [Emails -> [subject : Subjects \cup {None},
                                   status : {"pending", "approved",
                                             "rejected", None}]]
      <3>1. \/ request' = request
            \/ request' = [request EXCEPT ![e].status = "approved"]
        BY <1>4 DEF Approve
      <3> QED
        BY <3>1, <1>t
    <2>2. PICK w : Assign(t, w) /\ (w = Rest \/ w.op = "audit")
      <3>1. CASE Assign(t, Rest)
        BY <3>1
      <3>2. ASSUME NEW events, Audited(t, events)
            PROVE  \E w : Assign(t, w) /\ w.op = "audit"
        <4> DEFINE w == [op |-> "audit", events |-> events]
        <4>1. Assign(t, w) /\ w.op = "audit"
          BY <3>2 DEF Audited
        <4> QED
          BY <4>1
      <3> QED
        BY <1>4, <3>1, <3>2 DEF Approve
    <2> QED
      BY <2>0, <2>1, <2>2, <1>4, <1>t, AssignShape DEF AccessInv, Approve
  <1>5. ASSUME NEW t \in Callers, NEW e \in Emails, Reject(t, e)
        PROVE  AccessInv'
    <2>1. request' \in [Emails -> [subject : Subjects \cup {None},
                                   status : {"pending", "approved",
                                             "rejected", None}]]
      BY <1>5, <1>t DEF Reject
    <2> QED
      BY <2>1, <1>5, <1>t, AssignShape DEF AccessInv, Reject
  <1>6. ASSUME NEW t \in Callers, AppendAudit(t)
        PROVE  AccessInv'
    <2>1. PICK w : Assign(t, w) /\ (w = Rest \/ w.op = "audit")
      BY <1>6 DEF AppendAudit
    <2> QED
      BY <2>1, <1>6, <1>t, AssignShape DEF AccessInv, AppendAudit
  <1>7. ASSUME NEW s \in Subjects, Submit(s)
        PROVE  AccessInv'
    <2>1. request' \in [Emails -> [subject : Subjects \cup {None},
                                   status : {"pending", "approved",
                                             "rejected", None}]]
      BY <1>7, <1>t DEF Submit
    <2> QED
      BY <2>1, <1>7 DEF AccessInv, Submit
  <1>8. ASSUME NEW s \in Subjects, NEW e \in Emails, ChangeEmail(s, e)
        PROVE  AccessInv'
    BY <1>8 DEF AccessInv, ChangeEmail, database
  <1>9. CASE Start
    <2>1. account' \in [Emails -> Account]
      BY <1>9, <1>t, AccessAssumption DEF Start, Account
    <2> QED
      BY <2>1, <1>9 DEF AccessInv, Start
  <1>10. CASE Crash
    <2>1. task' = [t \in Callers |-> Rest]
      BY <1>10 DEF Crash
    <2> QED
      BY <2>1, <1>10 DEF AccessInv, Crash, database
  <1>11. CASE UNCHANGED accessVars
    BY <1>11 DEF AccessInv, accessVars, database
  <1> QED
    BY <1>1, <1>2, <1>3, <1>4, <1>5, <1>6, <1>7, <1>8, <1>9, <1>10, <1>11
       DEF AccessNext

\* No step binds a bound account again: the middleware binds only the free
\* account of the e-mail, an approval and a new account only fill an address
\* that has none.
LEMMA StepKeepsSubject ==
    ASSUME AccessInv, [AccessNext]_accessVars, NEW e \in Emails, account[e].subject # None
    PROVE  account'[e].subject = account[e].subject
  <1>t. account \in [Emails -> Account]
    BY DEF AccessInv
  <1>n. account[e] # NoAccount
    BY DEF NoAccount
  <1>1. ASSUME NEW t \in Callers, NEW s \in Subjects, Authorize(t, s)
        PROVE  account'[e].subject = account[e].subject
    <2>1. PICK f \in Emails : /\ f \in Resolved(s)
                              /\ account' = [account EXCEPT ![f].subject = s]
      BY <1>1 DEF Authorize, Resolved, Bound
    <2>2. account[f].subject \in {s, None}
      BY <2>1 DEF Resolved, Bound, MayBind
    <2> QED
      BY <2>1, <2>2, <1>t DEF Account
  <1>2. ASSUME NEW t \in Callers, NEW f \in Emails, NEW r \in Roles,
               NEW st \in Statuses, CreateUser(t, f, r, st)
        PROVE  account'[e].subject = account[e].subject
    BY <1>2, <1>t, <1>n DEF CreateUser, Registered
  <1>3. ASSUME NEW t \in Callers, NEW f \in Emails, NEW r \in Roles,
               NEW st \in Statuses, UpdateUser(t, f, r, st)
        PROVE  account'[e].subject = account[e].subject
    BY <1>3, <1>t DEF UpdateUser, Account
  <1>4. ASSUME NEW t \in Callers, NEW f \in Emails, Approve(t, f)
        PROVE  account'[e].subject = account[e].subject
    BY <1>4, <1>t, <1>n DEF Approve, InsertFails, Registered
  <1>5. CASE Start
    BY <1>5, <1>n DEF Start, Registered
  <1>6. CASE UNCHANGED account
    BY <1>6
  <1> QED
    BY <1>1, <1>2, <1>3, <1>4, <1>5, <1>6
       DEF AccessNext, Reject, AppendAudit, Submit, ChangeEmail, Crash, accessVars,
           database

\* Whoever loses the last administrator is an administrator's request whose
\* caller is not one any more: it changed another account than its own.
LEMMA StepKeepsAdmin ==
    ASSUME AccessInv, [AccessNext]_accessVars, NEW a \in Emails, IsAdmin(a),
           \A e \in Emails : ~IsAdmin(e)'
    PROVE  \E t \in Callers : /\ task[t].op = "admin" /\ task'[t] # task[t]
                              /\ ~IsAdmin(task[t].actor)
  <1>t. account \in [Emails -> Account]
    BY DEF AccessInv
  <1>n. account[a] # NoAccount /\ ~IsAdmin(a)'
    BY DEF NoAccount, IsAdmin, None
  <1>1. ASSUME NEW t \in Callers, NEW s \in Subjects, Authorize(t, s)
        PROVE  FALSE
    <2>1. PICK f \in Emails : account' = [account EXCEPT ![f].subject = s]
      BY <1>1 DEF Authorize, Resolved, Bound
    <2>2. account'[a].role = account[a].role
          /\ account'[a].status = account[a].status
      BY <2>1, <1>t DEF Account
    <2> QED
      BY <2>2, <1>n DEF IsAdmin
  <1>2. ASSUME NEW t \in Callers, NEW f \in Emails, NEW r \in Roles,
               NEW st \in Statuses, CreateUser(t, f, r, st)
        PROVE  FALSE
    <2>1. account'[a] = account[a]
      BY <1>2, <1>t, <1>n DEF CreateUser, Registered
    <2> QED
      BY <2>1, <1>n DEF IsAdmin
  <1>3. ASSUME NEW t \in Callers, NEW f \in Emails, NEW r \in Roles,
               NEW st \in Statuses, UpdateUser(t, f, r, st)
        PROVE  /\ task[t].op = "admin" /\ task'[t] # task[t]
               /\ ~IsAdmin(task[t].actor)
    <2>1. task[t].op = "admin" /\ Assign(t, Rest)
      BY <1>3 DEF UpdateUser
    <2>2. PICK b \in Emails : task[t] = [op |-> "admin", actor |-> b]
      BY <2>1 DEF AccessInv, Rest
    <2>3. task'[t] # task[t]
      <3>1. task'[t] = Rest
        BY <2>1 DEF Assign, AccessInv
      <3> QED
        BY <3>1, <2>1 DEF Rest
    <2>4. CASE account' = account
      BY <2>4, <1>n DEF IsAdmin
    <2>5. CASE account' # account
      <3>1. /\ account' = [account EXCEPT ![f].role = r, ![f].status = st]
            /\ ~UpdateRefused(task[t].actor, f, r, st)
        BY <1>3, <2>5 DEF UpdateUser
      <3>2. account'[f].role = r /\ account'[f].status = st
        BY <3>1, <1>t DEF Account
      <3>3. f # b
        <4>1. task[t].actor = b
          BY <2>2
        <4>2. ~(r = "admin" /\ st = "active")
          BY <3>2 DEF IsAdmin
        <4> QED
          BY <3>1, <4>1, <4>2 DEF UpdateRefused
      <3>4. account'[b] = account[b]
        BY <3>1, <3>3, <1>t
      <3> QED
        BY <2>1, <2>2, <2>3, <3>4 DEF IsAdmin
    <2> QED
      BY <2>4, <2>5
  <1>4. ASSUME NEW t \in Callers, NEW f \in Emails, Approve(t, f)
        PROVE  FALSE
    <2>1. account'[a] = account[a]
      BY <1>4, <1>t, <1>n DEF Approve, InsertFails, Registered
    <2> QED
      BY <2>1, <1>n DEF IsAdmin
  <1>5. CASE Start
    <2>1. account'[a] = account[a]
      BY <1>5, <1>n DEF Start, Registered
    <2> QED
      BY <2>1, <1>n DEF IsAdmin
  <1>6. CASE UNCHANGED account
    BY <1>6, <1>n DEF IsAdmin
  <1> QED
    BY <1>1, <1>2, <1>3, <1>4, <1>5, <1>6
       DEF AccessNext, Reject, AppendAudit, Submit, ChangeEmail, Crash, accessVars,
           database

\* The tables and requests of the access store keep their shape
\* (auth/repository.py).
THEOREM AccessSafe == AccessSpec => []AccessInv
  <1>1. AccessInit => AccessInv
    BY AccessStart
  <1>2. AccessInv /\ [AccessNext]_accessVars => AccessInv'
    BY AccessStep
  <1> QED
    BY <1>1, <1>2, PTL DEF AccessSpec

\* An account stays with its subject (resolve_identity, create_user and
\* approve_access_request of auth/repository.py), whatever addresses the
\* provider reassigns and however requests interleave.
THEOREM SubjectStays == AccessSpec => SubjectFixed
  <1>1. AccessInv /\ [AccessNext]_accessVars =>
          [\A e \in Emails : account[e].subject # None =>
              account'[e].subject = account[e].subject]_accessVars
    BY StepKeepsSubject
  <1> QED
    BY <1>1, AccessSafe, PTL DEF AccessSpec, SubjectFixed

\* The last active administrator is lost only through a stale check
\* (update_admin_user in live/api_routes/admin.py).
THEOREM AdminStays == AccessSpec => AdminLostOnlyByStale
  <1>1. AccessInv /\ [AccessNext]_accessVars => [KeepsAdmin]_accessVars
    BY StepKeepsAdmin DEF KeepsAdmin, HasAdmin, StaleRequest
  <1> QED
    BY <1>1, AccessSafe, PTL DEF AccessSpec, AdminLostOnlyByStale
=============================================================================
