---------------------------- MODULE Files_proofs ----------------------------
(***************************************************************************)
(* Proofs about Files: its types, that nothing is left open, and that what *)
(* was written is stored, for any number of File variables, objects, paths *)
(* and files.                                                              *)
(***************************************************************************)
EXTENDS Files, TLAPS

\* The object of the call under way: there is one from the constructor's stat to
\* the end of the probe, no File refers to it, and before fopen or opendir it has
\* nothing open.
CallOwns ==
    call # Idle =>
        /\ call.step \in {"opendir1", "stat", "act"} => call.temp = NoImpl
        /\ call.step \in {"fopen", "built"} =>
              call.temp \in Impls /\ \A h \in Handles : handle[h] # call.temp
        /\ call.step = "fopen" =>
              /\ impl[call.temp].f = NoFile
              /\ ~impl[call.temp].d /\ ~impl[call.temp].isDirectory

\* End, in a state where files are l long.
EndIn(l, r) == (IF r.mode = "a" THEN l[r.f] ELSE r.pos) + r.buf

\* What the writers of x were told is there, or some stream holds it back: one
\* that appends holds it back behind whatever the file is by now.
Promised(x, o, l, objects) ==
    \/ o[x] <= l[x]
    \/ \E i \in Impls : /\ objects[i].f = x /\ objects[i].buf # 0
                        /\ o[x] <= EndIn(l, objects[i])

OwedKept == \A x \in Inodes : Promised(x, owed, len, impl)

Inv == TypeOK /\ CallOwns /\ NothingLeaks /\ OwedKept

\* The type of an object.
ObjectOK(r) == r \in Members /\ (r.d => r.isDirectory)
                             /\ (r.isDirectory => r.f = NoFile)

\* What is left of TypeOK.
LEMMA TypesOf ==
    TypeOK <=> /\ tree \in [Names -> Inodes \cup Kinds]
               /\ len \in [Inodes -> Nat]
               /\ owed \in [Inodes -> Nat]
               /\ handle \in [Handles -> Impls \cup {NoImpl}]
               /\ DOMAIN impl = Impls /\ impl = [i \in Impls |-> impl[i]]
               /\ \A i \in Impls : ObjectOK(impl[i])
               /\ call \in Calls \cup {Idle}
  BY DEF TypeOK, ObjectOK

-----------------------------------------------------------------------------
(* Streams.                                                                *)

\* Storing keeps the types, shortens no file, and makes that of the stream as
\* long as its writer was told.
LEMMA StoredGrows ==
    ASSUME len \in [Inodes -> Nat], NEW r \in Members
    PROVE  /\ Stored(r) \in [Inodes -> Nat]
           /\ \A x \in Inodes : len[x] <= Stored(r)[x]
           /\ r.f # NoFile /\ r.buf # 0 => EndIn(len, r) <= Stored(r)[r.f]
  BY DEF Members, Stored, Larger, EndIn

\* The end of a stream moves with its file, and only forward.
LEMMA EndGrows ==
    ASSUME NEW l \in [Inodes -> Nat], NEW k \in [Inodes -> Nat],
           NEW r \in Members, r.f \in Inodes, l[r.f] <= k[r.f]
    PROVE  /\ EndIn(l, r) \in Nat /\ EndIn(k, r) \in Nat
           /\ EndIn(l, r) <= EndIn(k, r)
  BY DEF Members, EndIn

\* While no file gets shorter, a promise is kept by the object that kept it.
LEMMA PromiseMoves ==
    ASSUME NEW x \in Inodes, NEW o \in [Inodes -> Nat],
           NEW l \in [Inodes -> Nat], NEW k \in [Inodes -> Nat], l[x] <= k[x],
           NEW objects, NEW others, NEW i \in Impls,
           objects[i] \in Members, others[i] = objects[i],
           objects[i].f = x, objects[i].buf # 0, o[x] <= EndIn(l, objects[i])
    PROVE  Promised(x, o, k, others)
  <1>1. /\ EndIn(l, objects[i]) \in Nat /\ EndIn(k, objects[i]) \in Nat
        /\ EndIn(l, objects[i]) <= EndIn(k, objects[i])
    BY EndGrows
  <1>2. o[x] <= EndIn(k, others[i])
    BY <1>1
  <1> QED  BY <1>2 DEF Promised

\* A step of one object that stores what it held back loses nothing, whatever
\* becomes of the object.
LEMMA StoringKeepsOwed ==
    ASSUME TypeOK, OwedKept, NEW i \in Impls,
           owed' = owed, len' = Stored(impl[i]),
           \A j \in Impls \ {i} : impl'[j] = impl[j]
    PROVE  OwedKept'
  <1> SUFFICES ASSUME NEW x \in Inodes PROVE Promised(x, owed, len', impl')
    BY DEF OwedKept
  <1> impl[i] \in Members /\ len \in [Inodes -> Nat] /\ owed \in [Inodes -> Nat]
    BY DEF TypeOK
  <1>1. /\ len' \in [Inodes -> Nat] /\ len[x] <= len'[x]
        /\ impl[i].f = x /\ impl[i].buf # 0 => EndIn(len, impl[i]) <= len'[x]
    BY StoredGrows, FilesAssumption DEF FilesAssumption, Names
  <1>2. CASE owed[x] <= len[x]
    BY <1>1, <1>2 DEF Promised
  <1>3. ASSUME NEW j \in Impls, impl[j].f = x, impl[j].buf # 0,
               owed[x] <= EndIn(len, impl[j])
        PROVE  Promised(x, owed, len', impl')
    <2>1. impl[j] \in Members
      BY DEF TypeOK
    <2>2. EndIn(len, impl[j]) \in Nat
      BY <1>3, <2>1, EndGrows
    <2>3. CASE j = i
      BY <1>1, <1>3, <2>2, <2>3 DEF Promised
    <2>4. CASE j # i
      BY <1>1, <1>3, <2>1, <2>4, PromiseMoves
    <2> QED  BY <2>3, <2>4
  <1> QED  BY <1>2, <1>3 DEF OwedKept, Promised

-----------------------------------------------------------------------------
(* Closing an object, and letting a File refer to another one.             *)

Clean(r) == r.f = NoFile /\ ~r.d

\* Closing stores what a stream held back: an object whose DIR it closes has none.
LEMMA CloseStores ==
    ASSUME TypeOK, NEW i \in Impls, Close(i)
    PROVE  len' = Stored(impl[i])
  BY TypesOf DEF Close, ClosesDir, ObjectOK, Stored

\* Closing keeps the types and leaves nothing open.
LEMMA CloseKeeps ==
    ASSUME TypeOK, NEW i \in Impls, Close(i)
    PROVE  /\ len' \in [Inodes -> Nat]
           /\ impl' \in [Impls -> Members]
           /\ \A j \in Impls : ObjectOK(impl'[j])
           /\ Clean(impl'[i])
           /\ \A j \in Impls \ {i} : impl'[j] = impl[j]
  <1>1. impl \in [Impls -> Members] /\ impl[i] \in Members
    BY DEF TypeOK
  <1>2. len' \in [Inodes -> Nat]
    BY <1>1, CloseStores, StoredGrows DEF TypeOK
  <1>3. Closed(impl[i]) \in Members /\ ObjectOK(Closed(impl[i]))
        /\ Clean(Closed(impl[i]))
    BY <1>1, TypesOf DEF Closed, ClosesDir, Fresh, Members, Modes, ObjectOK, Clean
  <1>4. /\ impl' = [impl EXCEPT ![i] = Closed(impl[i])]
        /\ \A j \in Impls : ObjectOK(impl[j])
    BY TypesOf DEF Close
  <1> QED  BY <1>1, <1>2, <1>3, <1>4

\* A File that takes another object keeps the types, and destroys at most the
\* object that nothing refers to then, which is left clean.
LEMMA AssignKeeps ==
    ASSUME TypeOK, NEW h \in Handles, NEW j \in Impls \cup {NoImpl},
           Assign(h, j)
    PROVE  /\ handle' \in [Handles -> Impls \cup {NoImpl}]
           /\ len' \in [Inodes -> Nat]
           /\ impl' \in [Impls -> Members]
           /\ \A i \in Impls : ObjectOK(impl'[i])
           /\ handle' = [handle EXCEPT ![h] = j]
           /\ \A i \in Impls :
                 \/ /\ impl'[i] = impl[i]
                    /\ (\E g \in Handles : handle[g] = i) =>
                          \E g \in Handles : handle'[g] = i
                 \/ Clean(impl'[i]) /\ \E g \in Handles : handle[g] = i
  <1>1. /\ handle' = [handle EXCEPT ![h] = j]
        /\ handle \in [Handles -> Impls \cup {NoImpl}]
        /\ handle[h] \in Impls \cup {NoImpl}
    BY DEF Assign, TypeOK
  <1>2. CASE /\ \/ handle[h] = NoImpl \/ handle[h] = j
                \/ \E g \in Handles \ {h} : handle[g] = handle[h]
             /\ UNCHANGED <<len, impl>>
    BY <1>1, <1>2, TypesOf, FilesAssumption DEF FilesAssumption, TypeOK
  <1>3. CASE handle[h] \in Impls /\ Close(handle[h])
    BY <1>1, <1>3, CloseKeeps
  <1> QED  BY <1>1, <1>2, <1>3 DEF Assign

\* ... and loses nothing that was written.
LEMMA AssignKeepsOwed ==
    ASSUME TypeOK, OwedKept, NEW h \in Handles, NEW j, Assign(h, j),
           owed' = owed
    PROVE  OwedKept'
  <1>1. CASE UNCHANGED <<len, impl>>
    BY <1>1 DEF OwedKept
  <1>2. CASE handle[h] \in Impls /\ Close(handle[h])
    <2>1. /\ len' = Stored(impl[handle[h]])
          /\ \A k \in Impls \ {handle[h]} : impl'[k] = impl[k]
      BY <1>2, CloseStores, CloseKeeps
    <2> QED  BY <1>2, <2>1, StoringKeepsOwed
  <1> QED  BY <1>1, <1>2 DEF Assign, TypeOK

-----------------------------------------------------------------------------
(* Every step keeps the types.                                             *)

\* The steps of the calls that take a path keep the types.
LEMMA PathCallsType == Inv /\ PathCalls => TypeOK'
  <1> SUFFICES ASSUME TypeOK, CallOwns, PathCalls PROVE TypeOK'
    BY DEF Inv
  <1> USE FilesAssumption DEF FilesAssumption
  <1>0. Idle \notin Calls
    BY DEF Idle, Calls, Ops
  <1>1. ASSUME NEW h \in Handles, NEW p \in Names, NEW m \in Modes,
               Open(h, p, m)
        PROVE  TypeOK'
    <2>1. call' \in Calls \cup {Idle}
      BY <1>1 DEF Open, Calling, Calls, Ops, Steps, TypeOK
    <2>2. CASE Assign(h, NoImpl)
      BY <1>1, <2>1, <2>2, AssignKeeps, TypesOf
         DEF Open, TypeOK, ObjectOK
    <2>3. CASE UNCHANGED <<len, handle, impl>>
      BY <1>1, <2>1, <2>3 DEF Open, TypeOK
    <2> QED  BY <1>1, <2>2, <2>3 DEF Open
  <1>2. ASSUME NEW h \in Handles, OpenTryDir(h) PROVE TypeOK'
    <2>1. CASE call' = Idle /\ Assign(h, NoImpl)
      BY <1>2, <2>1, AssignKeeps DEF OpenTryDir, TypeOK, ObjectOK
    <2>2. CASE Goes("stat") /\ UNCHANGED <<len, handle, impl>>
      BY <1>2, <2>2 DEF OpenTryDir, At, Goes, TypeOK, Calls, Steps
    <2> QED  BY <1>2, <2>1, <2>2 DEF OpenTryDir
  <1>3. ASSUME NEW i \in Impls, NEW c \in Calls, ConstructStat(i, c)
        PROVE  TypeOK'
    <2>1. call' \in Calls
      BY <1>3 DEF ConstructStat, Calls, Steps, IsFile, TypeOK, Kinds
    <2>2. PICK s \in Nat : impl' = [impl EXCEPT ![i] = Fresh(c.path, c.mode, s)]
      <3> DEFINE n == tree[c.path]
                 Sizes == IF IsFile(n) THEN {len[n]}
                          ELSE IF n = "none" /\ c.mode # "r" THEN 0 .. MaxLen
                          ELSE {0}
      <3>1. PICK s \in Sizes :
               impl' = [impl EXCEPT ![i] = Fresh(c.path, c.mode, s)]
        BY <1>3, Zenon DEF ConstructStat
      <3>2. Sizes \subseteq Nat
        BY DEF IsFile, TypeOK
      <3> QED  BY <3>1, <3>2
    <2>3. ObjectOK(Fresh(c.path, c.mode, s))
      BY <2>2 DEF Fresh, ObjectOK, Members, Calls
    <2> QED  BY <1>3, <2>1, <2>2, <2>3, TypesOf DEF ConstructStat, TypeOK, ObjectOK
  <1>4. ASSUME NEW p \in Names, Probe(p) PROVE TypeOK'
    <2>1. Calling("probe", p, "r", "stat") \in Calls
      BY DEF Calling, Calls, Ops, Steps, Modes
    <2> QED  BY <1>3, <1>4, <2>1 DEF Probe
  <1>5. ASSUME NEW i \in Impls, Construct(i) PROVE TypeOK'
    BY <1>0, <1>3, <1>5 DEF Construct, At, TypeOK
  <1>6. ASSUME At("fopen"), Goes("built")
        PROVE  /\ call' \in Calls \cup {Idle} /\ call.temp \in Impls
               /\ call.path \in Names
               /\ impl[call.temp].f = NoFile /\ ~impl[call.temp].d
               /\ ~impl[call.temp].isDirectory
    BY <1>6 DEF At, Goes, TypeOK, Calls, Steps, CallOwns
  <1>7. CASE ConstructFile
    <2>1. ASSUME NEW x \in Inodes \cup {NoFile}, Takes(x),
                 len' \in [Inodes -> Nat], owed' \in [Inodes -> Nat],
                 tree' \in [Names -> Inodes \cup Kinds]
          PROVE  TypeOK'
      <3>1. impl' = [impl EXCEPT ![call.temp].f = x] /\ UNCHANGED handle
        BY <1>7, <2>1 DEF ConstructFile, Takes
      <3>2. ObjectOK(impl[call.temp])
        BY <1>6, <1>7, TypesOf DEF ConstructFile
      <3>3. ObjectOK([impl[call.temp] EXCEPT !.f = x])
        BY <1>6, <1>7, <3>2 DEF ObjectOK, Members, ConstructFile
      <3> QED
        BY <1>6, <1>7, <2>1, <3>1, <3>3 DEF TypeOK, ObjectOK, ConstructFile
    <2> QED
      BY <1>6, <1>7, <2>1 DEF ConstructFile, TypeOK, IsFile
  <1>8. CASE ConstructDir
    <2>1. PICK found \in BOOLEAN :
             impl' = [impl EXCEPT ![call.temp].d = found,
                        ![call.temp].isDirectory = (found \/ call.seen = "dir")]
      BY <1>8 DEF ConstructDir
    <2>2. ObjectOK(impl[call.temp])
      BY <1>6, <1>8, TypesOf DEF ConstructDir
    <2>3. ObjectOK([impl[call.temp] EXCEPT !.d = found,
                        !.isDirectory = (found \/ call.seen = "dir")])
      BY <1>6, <1>8, <2>2 DEF ObjectOK, Members, ConstructDir
    <2> QED
      BY <1>6, <1>8, <2>1, <2>3 DEF ConstructDir, TypeOK, ObjectOK
  <1>9. CASE ConstructOther
    BY <1>6, <1>9 DEF ConstructOther, TypeOK
  <1>10. ASSUME NEW h \in Handles, Given(h) PROVE TypeOK'
    <2>1. call.temp \in Impls
      BY <1>10 DEF Given, At, CallOwns, TypeOK, Calls
    <2> QED  BY <1>10, <2>1, AssignKeeps DEF Given, TypeOK, ObjectOK
  <1>11. ASSUME NEW next \in Calls \cup {Idle}, Probed(next) PROVE TypeOK'
    <2>1. call.temp \in Impls
      BY <1>11 DEF Probed, At, CallOwns, TypeOK, Calls
    <2> QED  BY <1>11, <2>1, CloseKeeps DEF Probed, TypeOK, ObjectOK
  <1>12. CASE Exists \/ Remove \/ RmDir \/ MkDir \/ Rename
    <2>1. ASSUME NEW op \in Ops PROVE At("built") => Acting(op) \in Calls
      BY DEF Acting, Calling, Calls, Ops, Steps, Modes, At, TypeOK
    <2> QED
      BY <1>11, <1>12, <2>1
         DEF Exists, Remove, RmDir, MkDir, Rename, Probed, Ops
  <1>13. ASSUME NEW op \in Ops, Act(op),
                tree' \in [Names -> Inodes \cup Kinds]
         PROVE  TypeOK'
    BY <1>13 DEF Act, TypeOK
  <1>14. CASE Fails
    BY <1>13, <1>14 DEF Fails, TypeOK
  <1>15. CASE Unlink
    BY <1>13, <1>15 DEF Unlink, TypeOK, Kinds, Ops
  <1>16. CASE Make
    BY <1>13, <1>16 DEF Make, TypeOK, Kinds, Ops
  <1>17. ASSUME NEW q \in Names, Move(q) PROVE TypeOK'
    <2>1. call.path \in Names
      BY <1>17 DEF Move, Act, At, TypeOK, Calls
    <2> QED  BY <1>13, <1>17, <2>1 DEF Move, TypeOK, Kinds, Ops
  <1> QED
    BY <1>1, <1>2, <1>4, <1>5, <1>7, <1>8, <1>9, <1>10, <1>12, <1>14, <1>15,
       <1>16, <1>17 DEF PathCalls

\* The calls of a File use an object, with the members it has.
LEMMA UsedObject ==
    ASSUME TypeOK, NEW h \in Handles, Uses(h)
    PROVE  /\ handle[h] \in Impls /\ File(h) = impl[handle[h]]
           /\ File(h) \in Members /\ ObjectOK(File(h))
           /\ HasFile(h) => File(h).f \in Inodes
  BY TypesOf, FilesAssumption
     DEF FilesAssumption, Uses, File, HasFile, TypeOK, ObjectOK, Members

\* A step that changes one object and the lengths of files keeps the types.
LEMMA ObjectType ==
    ASSUME TypeOK, NEW i \in Impls, NEW r, ObjectOK(r),
           impl' = [impl EXCEPT ![i] = r],
           len' \in [Inodes -> Nat], owed' \in [Inodes -> Nat],
           UNCHANGED <<tree, handle, call>>
    PROVE  TypeOK'
  BY DEF TypeOK, ObjectOK

\* The object whose stream is flushed.
LEMMA FlushedType ==
    ASSUME NEW r, ObjectOK(r)
    PROVE  ObjectOK(Flushed(r))
  <1> DEFINE q == IF r.mode = "w" THEN r.pos + r.buf ELSE r.pos
  <1>1. r \in Members /\ q \in Nat
    BY DEF ObjectOK, Members
  <1>2. Flushed(r) = [r EXCEPT !.pos = q, !.buf = 0]
    BY Zenon DEF Flushed
  <1> HIDE DEF q
  <1>3. [r EXCEPT !.pos = q, !.buf = 0] \in Members
    BY <1>1 DEF Members
  <1>4. LET s == [r EXCEPT !.pos = q, !.buf = 0]
        IN  s.d = r.d /\ s.isDirectory = r.isDirectory /\ s.f = r.f
    BY <1>1 DEF Members
  <1> QED  BY <1>2, <1>3, <1>4, Zenon DEF ObjectOK

\* The steps of the calls of a File keep the types.
LEMMA FileCallsType == Inv /\ FileCalls => TypeOK'
  <1> SUFFICES ASSUME TypeOK, NEW h \in Handles,
                      \/ \E n \in 1 .. MaxLen : Write(h, n)
                      \/ Flush(h)
                      \/ \E p \in 0 .. MaxLen : Seek(h, p)
                      \/ Size(h) \/ GetLastWrite(h) \/ FileClose(h)
                      \/ \E g \in Handles : Copy(h, g)
                      \/ Drop(h)
               PROVE  TypeOK'
    BY DEF Inv, FileCalls
  <1> USE FilesAssumption DEF FilesAssumption
  <1>0. len \in [Inodes -> Nat] /\ owed \in [Inodes -> Nat]
    BY DEF TypeOK
  <1>1. ASSUME NEW n \in 1 .. MaxLen, Write(h, n) PROVE TypeOK'
    <2> DEFINE i == handle[h]
               r == [File(h) EXCEPT !.written = TRUE, !.buf = @ + n]
    <2>1. i \in Impls /\ File(h) = impl[i] /\ ObjectOK(File(h))
          /\ File(h).f \in Inodes
      BY <1>1, UsedObject DEF Write, HasFile
    <2>2. ObjectOK(r) /\ r.f = File(h).f /\ End(r) \in Nat
      <3> DEFINE b == File(h).buf + n
      <3>0. b \in Nat
        BY <2>1 DEF ObjectOK, Members
      <3>1. ObjectOK(r) /\ r.f = File(h).f
        <4>1. r = [File(h) EXCEPT !.written = TRUE, !.buf = b]
          BY Zenon
        <4> HIDE DEF b, r
        <4> QED  BY <2>1, <3>0, <4>1 DEF ObjectOK, Members
      <3> HIDE DEF r
      <3> QED  BY <1>0, <2>1, <3>1 DEF ObjectOK, Members, End
    <2>3. ObjectOK(Flushed(r)) /\ Stored(r) \in [Inodes -> Nat]
      BY <1>0, <2>2, FlushedType, StoredGrows DEF ObjectOK
    <2>4. CASE impl' = [impl EXCEPT ![i].written = TRUE] /\ UNCHANGED <<len, owed>>
      <3>1. ObjectOK([impl[i] EXCEPT !.written = TRUE])
        BY <2>1 DEF ObjectOK, Members
      <3> QED  BY <1>0, <1>1, <2>1, <2>4, <3>1, ObjectType DEF Write
    <2>5. CASE owed' = [owed EXCEPT ![r.f] = Larger(@, End(r))]
      <3>1. owed' \in [Inodes -> Nat]
        BY <1>0, <2>1, <2>2, <2>5 DEF Larger
      <3>2. \/ impl' = [impl EXCEPT ![i] = r] /\ UNCHANGED len
            \/ impl' = [impl EXCEPT ![i] = Flushed(r)] /\ len' = Stored(r)
            \/ impl' = [impl EXCEPT ![i].written = TRUE] /\ UNCHANGED <<len, owed>>
        BY <1>1 DEF Write
      <3> QED
        BY <1>0, <1>1, <2>1, <2>2, <2>3, <2>4, <3>1, <3>2, ObjectType DEF Write
    <2> QED  BY <1>1, <2>4, <2>5 DEF Write
  <1>2. ASSUME NEW p \in Nat, HasFile(h),
               \/ impl' = [impl EXCEPT ![handle[h]] = Flushed(@)]
               \/ impl' = [impl EXCEPT ![handle[h]] = [Flushed(@) EXCEPT !.pos = p]],
               len' = Stored(File(h)), UNCHANGED <<tree, owed, handle, call>>
        PROVE  TypeOK'
    <2>1. handle[h] \in Impls /\ File(h) = impl[handle[h]] /\ ObjectOK(File(h))
      BY <1>2, UsedObject DEF HasFile
    <2>2. /\ ObjectOK(Flushed(impl[handle[h]]))
          /\ ObjectOK([Flushed(impl[handle[h]]) EXCEPT !.pos = p])
      BY <2>1, FlushedType DEF ObjectOK, Members
    <2>3. len' \in [Inodes -> Nat]
      BY <1>0, <1>2, <2>1, StoredGrows DEF ObjectOK
    <2> QED  BY <1>0, <1>2, <2>1, <2>2, <2>3, ObjectType
  <1>3. CASE Flush(h)
    BY <1>2, <1>3 DEF Flush
  <1>4. ASSUME NEW p \in 0 .. MaxLen, Seek(h, p) PROVE TypeOK'
    <2>1. p \in Nat
      OBVIOUS
    <2>2. /\ HasFile(h) /\ len' = Stored(File(h))
          /\ impl' = [impl EXCEPT ![handle[h]] = [Flushed(@) EXCEPT !.pos = p]]
          /\ UNCHANGED <<tree, owed, handle, call>>
      BY <1>4 DEF Seek
    <2> QED  BY <1>2, <2>1, <2>2
  <1>5. ASSUME Uses(h), GetStat(h), UNCHANGED <<tree, len, owed, handle, call>>
        PROVE  TypeOK'
    <2>1. handle[h] \in Impls /\ File(h) = impl[handle[h]] /\ ObjectOK(File(h))
      BY <1>5, UsedObject
    <2> DEFINE n == tree[File(h).path]
               Sizes == IF IsFile(n) THEN {len[n]}
                        ELSE IF File(h).f # NoFile THEN 0 .. MaxLen
                        ELSE {0}
    <2>2. Sizes \subseteq Nat
      BY <1>0 DEF IsFile
    <2>3. ASSUME NEW s \in Sizes,
                 impl' = [impl EXCEPT ![handle[h]].size = s,
                                      ![handle[h]].written = FALSE]
          PROVE  TypeOK'
      <3>1. ObjectOK([impl[handle[h]] EXCEPT !.size = s, !.written = FALSE])
        BY <2>1, <2>2, <2>3 DEF ObjectOK, Members
      <3>2. impl' = [impl EXCEPT ![handle[h]] =
                        [impl[handle[h]] EXCEPT !.size = s, !.written = FALSE]]
        BY <2>1, <2>3 DEF TypeOK
      <3> QED  BY <1>0, <1>5, <2>1, <3>1, <3>2, ObjectType
    <2>4. CASE UNCHANGED impl
      BY <1>5, <2>4 DEF TypeOK
    <2> QED  BY <1>5, <2>3, <2>4, Zenon DEF GetStat
  <1>6. CASE Size(h) \/ GetLastWrite(h)
    BY <1>5, <1>6 DEF Size, GetLastWrite, HasFile
  <1>7. CASE FileClose(h)
    BY <1>7, UsedObject, CloseKeeps DEF FileClose, TypeOK, ObjectOK
  <1>8. ASSUME NEW g \in Handles, Copy(h, g) PROVE TypeOK'
    <2>1. handle[g] \in Impls \cup {NoImpl}
      BY DEF TypeOK
    <2> QED  BY <1>8, <2>1, AssignKeeps DEF Copy, TypeOK, ObjectOK
  <1>9. CASE Drop(h)
    BY <1>9, AssignKeeps DEF Drop, TypeOK, ObjectOK
  <1> QED
    BY <1>1, <1>3, <1>4, <1>6, <1>7, <1>8, <1>9

\* Every step keeps the types.
LEMMA TypeStep == Inv /\ [Next]_vars => TypeOK'
  <1> SUFFICES ASSUME Inv, TypeOK, [Next]_vars PROVE TypeOK'
    BY DEF Inv
  <1> USE FilesAssumption DEF FilesAssumption
  <1>1. ASSUME NEW h \in Handles, NEW e \in Names, NEW m \in Modes,
               OpenNextFile(h, e, m)
        PROVE  TypeOK'
    BY <1>1 DEF OpenNextFile, Calling, Calls, Ops, Steps, TypeOK
  <1>2. ASSUME NEW h \in Handles, NEW g \in Handles, DirectoryEnds(h, g)
        PROVE  TypeOK'
    BY <1>2, AssignKeeps DEF DirectoryEnds, TypeOK, ObjectOK
  <1>3. ASSUME NEW p \in Paths, OthersChange(p) PROVE TypeOK'
    BY <1>3 DEF OthersChange, TypeOK, Kinds
  <1>4. ASSUME NEW p \in Paths, OthersReplace(p) PROVE TypeOK'
    <2>1. PICK x \in Inodes, n \in 0 .. MaxLen :
             /\ tree' = [tree EXCEPT ![p] = x]
             /\ len' = [len EXCEPT ![x] = n]
             /\ owed' = [owed EXCEPT ![x] = 0]
      BY <1>4, Zenon DEF OthersReplace
    <2>2. UNCHANGED <<handle, impl, call>>
      BY <1>4 DEF OthersReplace
    <2>3. n \in Nat
      OBVIOUS
    <2> QED  BY <2>1, <2>2, <2>3 DEF TypeOK
  <1>5. CASE UNCHANGED vars
    BY <1>5 DEF vars, TypeOK
  <1> QED
    BY <1>1, <1>2, <1>3, <1>4, <1>5, PathCallsType, FileCallsType
       DEF Next, DirectoryCalls, Others

-----------------------------------------------------------------------------
(* Every step keeps the object of the call under way.                      *)

\* The steps of the program that are no call with a path are taken when none is
\* under way, or leave what the call has alone.
LEMMA OtherStepsCall ==
    ASSUME TypeOK, CallOwns, [Next]_vars, ~PathCalls
    PROVE  \/ UNCHANGED call /\ (call = Idle \/ UNCHANGED <<handle, impl>>)
           \/ call' # Idle /\ call'.step = "stat" /\ call'.temp = NoImpl
  <1>1. CASE FileCalls
    <2>1. ASSUME NEW h \in Handles, Uses(h), UNCHANGED call PROVE call = Idle
      BY <2>1 DEF Uses
    <2> QED
      BY <1>1, <2>1 DEF FileCalls, Write, Flush, Seek, Size, GetLastWrite,
           FileClose, Copy, Drop, HasFile, Uses
  <1>2. CASE DirectoryCalls
    <2>1. ASSUME NEW h \in Handles, NEW e \in Names, NEW m \in Modes,
                 OpenNextFile(h, e, m)
          PROVE  call' # Idle /\ call'.step = "stat" /\ call'.temp = NoImpl
      BY <2>1 DEF OpenNextFile, Calling, Idle
    <2>2. ASSUME NEW h \in Handles, NEW g \in Handles, DirectoryEnds(h, g)
          PROVE  UNCHANGED call /\ call = Idle
      BY <2>2 DEF DirectoryEnds, HasDir, Uses
    <2> QED  BY <1>2, <2>1, <2>2 DEF DirectoryCalls
  <1>3. CASE Others \/ UNCHANGED vars
    BY <1>3 DEF Others, OthersChange, OthersReplace, vars
  <1> QED  BY <1>1, <1>2, <1>3 DEF Next

\* Every step keeps what is known of the call under way.
LEMMA CallStep == Inv /\ [Next]_vars => CallOwns'
  <1> SUFFICES ASSUME Inv, TypeOK, CallOwns, [Next]_vars PROVE CallOwns'
    BY DEF Inv
  <1> USE FilesAssumption DEF FilesAssumption
  <1>1. ASSUME call' = Idle \/ (call'.step \in {"opendir1", "stat", "act"}
                                /\ call'.temp = NoImpl)
        PROVE  CallOwns'
    BY <1>1 DEF CallOwns
  <1>2. CASE ~PathCalls
    BY <1>1, <1>2, OtherStepsCall DEF CallOwns
  <1>3. ASSUME NEW h \in Handles, NEW p \in Names, NEW m \in Modes,
               Open(h, p, m)
        PROVE  CallOwns'
    BY <1>1, <1>3 DEF Open, Calling
  <1>4. ASSUME NEW h \in Handles, OpenTryDir(h) PROVE CallOwns'
    <2>1. CASE call' = Idle
      BY <1>1, <2>1
    <2>2. CASE At("opendir1") /\ Goes("stat")
      <3>1. call'.step = "stat" /\ call'.temp = NoImpl
        BY <2>2 DEF At, Goes, CallOwns, TypeOK, Calls
      <3> QED  BY <1>1, <3>1
    <2> QED  BY <1>4, <2>1, <2>2 DEF OpenTryDir
  <1>5. ASSUME NEW i \in Impls, NEW c \in Calls, ConstructStat(i, c)
        PROVE  CallOwns'
    <2>1. /\ call'.step = "fopen" /\ call'.temp = i
          /\ \A h \in Handles : handle[h] # i
          /\ UNCHANGED handle
      BY <1>5 DEF ConstructStat, Unused, Calls
    <2>2. /\ impl'[i].f = NoFile
          /\ ~impl'[i].d /\ ~impl'[i].isDirectory
      <3>1. PICK s : impl' = [impl EXCEPT ![i] = Fresh(c.path, c.mode, s)]
        BY <1>5, Zenon DEF ConstructStat
      <3> QED  BY <3>1 DEF Fresh, TypeOK
    <2> QED  BY <2>1, <2>2 DEF CallOwns
  <1>6. ASSUME NEW p \in Names, Probe(p) PROVE CallOwns'
    <2>1. Calling("probe", p, "r", "stat") \in Calls
      BY DEF Calling, Calls, Ops, Steps, Modes
    <2> QED  BY <1>5, <1>6, <2>1 DEF Probe
  <1>7. ASSUME NEW i \in Impls, Construct(i) PROVE CallOwns'
    BY <1>5, <1>7 DEF Construct, At, TypeOK
  <1>8. ASSUME At("fopen"), Goes("built"), UNCHANGED handle PROVE CallOwns'
    <2>1. call \in Calls /\ call # Idle /\ call.step = "fopen"
      BY <1>8 DEF At, TypeOK
    <2>2. call'.step = "built" /\ call'.temp = call.temp
      BY <1>8, <2>1 DEF Goes, Calls
    <2> QED  BY <1>8, <2>1, <2>2 DEF CallOwns
  <1>9. CASE ConstructFile \/ ConstructDir \/ ConstructOther
    BY <1>8, <1>9 DEF ConstructFile, ConstructDir, ConstructOther
  <1>10. CASE (\E h \in Handles : Given(h)) \/ Exists
    BY <1>1, <1>10 DEF Given, Exists, Probed
  <1>11. CASE Remove \/ RmDir \/ MkDir \/ Rename
    <2>1. \A op : Acting(op).step = "act" /\ Acting(op).temp = NoImpl
      BY DEF Acting, Calling
    <2> QED
      BY <1>1, <1>11, <2>1 DEF Remove, RmDir, MkDir, Rename, Probed
  <1>12. CASE Fails \/ Unlink \/ Make \/ \E q \in Names : Move(q)
    BY <1>1, <1>12 DEF Fails, Unlink, Make, Move, Act
  <1> QED
    BY <1>2, <1>3, <1>4, <1>6, <1>7, <1>9, <1>10, <1>11, <1>12
       DEF PathCalls

-----------------------------------------------------------------------------
(* Every step leaves nothing open that nobody refers to.                   *)

\* An object that is unused after a step was so before and is as it was, or is
\* clean.
LEMMA LeakFrame ==
    ASSUME NothingLeaks,
           \A i \in Impls : Unused(i)' => \/ Unused(i) /\ impl'[i] = impl[i]
                                          \/ Clean(impl'[i])
    PROVE  NothingLeaks'
  BY DEF NothingLeaks, Clean

\* Another object for a File, when the call under way, if any, has none or
\* gives its own.
LEMMA AssignLeaks ==
    ASSUME TypeOK, NothingLeaks,
           NEW h \in Handles, NEW j \in Impls \cup {NoImpl}, Assign(h, j),
           call = Idle \/ call.temp = NoImpl \/ call.temp = j
    PROVE  NothingLeaks'
  <1>1. ASSUME NEW i \in Impls, Unused(i)'
        PROVE  (Unused(i) /\ impl'[i] = impl[i]) \/ Clean(impl'[i])
    <2>1. /\ \A g \in Handles : handle'[g] # i
          /\ handle' = [handle EXCEPT ![h] = j]
          /\ \/ impl'[i] = impl[i] /\ \A g \in Handles : handle[g] # i
             \/ Clean(impl'[i])
      BY <1>1, AssignKeeps DEF Unused
    <2>2. j # i
      BY <2>1 DEF TypeOK
    <2>3. ~InCall(i)
      BY <2>2, FilesAssumption DEF InCall, FilesAssumption
    <2> QED  BY <2>1, <2>3 DEF Unused
  <1> QED  BY <1>1, LeakFrame

\* A step in which nobody lets go of an object.
LEMMA HeldLeaks ==
    ASSUME TypeOK, NothingLeaks, UNCHANGED handle,
           \A i \in Impls : InCall(i) => InCall(i)',
           \A i \in Impls : impl'[i] # impl[i] =>
               \/ \E h \in Handles : handle[h] = i
               \/ InCall(i)'
               \/ Clean(impl'[i])
    PROVE  NothingLeaks'
  <1>1. ASSUME NEW i \in Impls, Unused(i)'
        PROVE  (Unused(i) /\ impl'[i] = impl[i]) \/ Clean(impl'[i])
    BY <1>1 DEF Unused
  <1> QED  BY <1>1, LeakFrame

\* A step of the call under way that keeps its object, and may change it.
LEMMA OwnLeaks ==
    ASSUME TypeOK, NothingLeaks, UNCHANGED handle, call # Idle,
           call' # Idle, call'.temp = call.temp,
           \A i \in Impls : impl'[i] # impl[i] => i = call.temp
    PROVE  NothingLeaks'
  BY HeldLeaks DEF InCall

\* Every step of a call with a path leaves nothing open that nobody refers to.
LEMMA PathCallsLeak == Inv /\ PathCalls => NothingLeaks'
  <1> SUFFICES ASSUME TypeOK, CallOwns, NothingLeaks, PathCalls
               PROVE  NothingLeaks'
    BY DEF Inv
  <1> USE FilesAssumption DEF FilesAssumption
  <1>1. ASSUME call = Idle \/ call.temp = NoImpl, UNCHANGED <<handle, impl>>
        PROVE  NothingLeaks'
    BY <1>1, HeldLeaks DEF InCall
  <1>2. ASSUME NEW h \in Handles, NEW p \in Names, NEW m \in Modes,
               Open(h, p, m)
        PROVE  NothingLeaks'
    BY <1>1, <1>2, AssignLeaks DEF Open
  <1>3. ASSUME NEW h \in Handles, OpenTryDir(h) PROVE NothingLeaks'
    BY <1>1, <1>3, AssignLeaks DEF OpenTryDir, At, CallOwns
  <1>4. ASSUME NEW i \in Impls, NEW c \in Calls, ConstructStat(i, c),
               call = Idle \/ call.temp = NoImpl
        PROVE  NothingLeaks'
    <2>1. PICK s : impl' = [impl EXCEPT ![i] = Fresh(c.path, c.mode, s)]
      BY <1>4, Zenon DEF ConstructStat
    <2>2. \A j \in Impls : j # i => impl'[j] = impl[j]
      BY <2>1 DEF TypeOK
    <2>3. Clean(impl'[i]) /\ UNCHANGED handle
      BY <1>4, <2>1 DEF Clean, Fresh, TypeOK, ConstructStat
    <2> QED  BY <1>4, <2>2, <2>3, HeldLeaks DEF InCall
  <1>5. ASSUME NEW p \in Names, Probe(p) PROVE NothingLeaks'
    <2>1. Calling("probe", p, "r", "stat") \in Calls
      BY DEF Calling, Calls, Ops, Steps, Modes
    <2> QED  BY <1>4, <1>5, <2>1 DEF Probe
  <1>6. ASSUME NEW i \in Impls, Construct(i) PROVE NothingLeaks'
    BY <1>4, <1>6 DEF Construct, At, TypeOK, CallOwns
  <1>7. ASSUME At("fopen"), Goes("built")
        PROVE  call # Idle /\ call' # Idle /\ call'.temp = call.temp
    <2>1. call \in Calls /\ call # Idle
      BY <1>7 DEF At, TypeOK
    <2>2. call' \in Calls /\ call'.temp = call.temp
      BY <1>7, <2>1 DEF Goes, Calls, Steps
    <2> QED  BY <2>1, <2>2 DEF Calls, Idle, Ops
  <1>8. CASE ConstructFile
    <2>1. PICK x : impl' = [impl EXCEPT ![call.temp].f = x]
      BY <1>8 DEF ConstructFile, Takes
    <2>2. \A i \in Impls : i # call.temp => impl'[i] = impl[i]
      BY <2>1 DEF TypeOK
    <2> QED  BY <1>7, <1>8, <2>2, OwnLeaks DEF ConstructFile
  <1>9. CASE ConstructDir
    <2>1. PICK found :
             impl' = [impl EXCEPT ![call.temp].d = found,
                        ![call.temp].isDirectory = (found \/ call.seen = "dir")]
      BY <1>9 DEF ConstructDir
    <2>2. \A i \in Impls : i # call.temp => impl'[i] = impl[i]
      BY <2>1 DEF TypeOK
    <2> QED  BY <1>7, <1>9, <2>2, OwnLeaks DEF ConstructDir
  <1>10. CASE ConstructOther
    BY <1>7, <1>10, OwnLeaks DEF ConstructOther
  <1>11. ASSUME NEW h \in Handles, Given(h) PROVE NothingLeaks'
    BY <1>11, AssignLeaks DEF Given, At, CallOwns
  <1>12. ASSUME NEW next, Probed(next) PROVE NothingLeaks'
    <2>1. call # Idle /\ call.temp \in Impls
      BY <1>12 DEF Probed, At, CallOwns
    <2>2. /\ Clean(impl'[call.temp])
          /\ \A j \in Impls \ {call.temp} : impl'[j] = impl[j]
          /\ UNCHANGED handle
      BY <1>12, <2>1, CloseKeeps DEF Probed
    <2>3. \A j \in Impls \ {call.temp} : Unused(j)' => Unused(j)
      BY <2>2 DEF Unused, InCall
    <2> QED  BY <2>2, <2>3, LeakFrame
  <1>13. CASE Exists \/ Remove \/ RmDir \/ MkDir \/ Rename
    BY <1>12, <1>13 DEF Exists, Remove, RmDir, MkDir, Rename
  <1>14. CASE Fails \/ Unlink \/ Make \/ \E q \in Names : Move(q)
    BY <1>1, <1>14 DEF Fails, Unlink, Make, Move, Act, At, CallOwns
  <1> QED
    BY <1>2, <1>3, <1>5, <1>6, <1>8, <1>9, <1>10, <1>11, <1>13, <1>14
       DEF PathCalls

\* Every step leaves nothing open that nobody refers to.
LEMMA LeaksStep == Inv /\ [Next]_vars => NothingLeaks'
  <1> SUFFICES ASSUME TypeOK, NothingLeaks, Inv, [Next]_vars
               PROVE  NothingLeaks'
    BY DEF Inv
  <1>1. ASSUME NEW h \in Handles, Uses(h), UNCHANGED <<handle, call>>,
               \A i \in Impls : impl'[i] # impl[i] => i = handle[h]
        PROVE  NothingLeaks'
    BY <1>1, HeldLeaks DEF InCall
  <1>2. ASSUME NEW h \in Handles, NEW n, Write(h, n) PROVE NothingLeaks'
    <2>1. PICK r : \/ impl' = [impl EXCEPT ![handle[h]].written = TRUE]
                   \/ impl' = [impl EXCEPT ![handle[h]] = r]
      BY <1>2 DEF Write
    <2> QED  BY <1>1, <1>2, <2>1 DEF Write, HasFile, TypeOK
  <1>3. ASSUME NEW h \in Handles, Flush(h) \/ \E p \in 0 .. MaxLen : Seek(h, p)
        PROVE  NothingLeaks'
    <2>1. PICK r : impl' = [impl EXCEPT ![handle[h]] = r]
      BY <1>3 DEF Flush, Seek
    <2> QED  BY <1>1, <1>3, <2>1 DEF Flush, Seek, HasFile, TypeOK
  <1>4. ASSUME NEW h \in Handles, Size(h) \/ GetLastWrite(h)
        PROVE  NothingLeaks'
    <2>1. GetStat(h) /\ Uses(h) /\ UNCHANGED <<handle, call>>
      BY <1>4 DEF Size, GetLastWrite, HasFile
    <2>2. PICK s : \/ UNCHANGED impl
                   \/ impl' = [impl EXCEPT ![handle[h]].size = s,
                                           ![handle[h]].written = FALSE]
      BY <2>1, Zenon DEF GetStat
    <2> QED  BY <1>1, <2>1, <2>2 DEF TypeOK
  <1>5. ASSUME NEW h \in Handles, FileClose(h) PROVE NothingLeaks'
    <2>1. /\ handle[h] \in Impls /\ call = Idle /\ UNCHANGED call
          /\ handle' = [handle EXCEPT ![h] = NoImpl]
          /\ Clean(impl'[handle[h]])
          /\ \A j \in Impls \ {handle[h]} : impl'[j] = impl[j]
      BY <1>5, UsedObject, CloseKeeps DEF FileClose, Uses
    <2>2. \A j \in Impls \ {handle[h]} : Unused(j)' => Unused(j)
      BY <2>1 DEF Unused, InCall, TypeOK
    <2> QED  BY <2>1, <2>2, LeakFrame
  <1>6. ASSUME NEW h \in Handles, NEW g \in Handles, Copy(h, g)
        PROVE  NothingLeaks'
    BY <1>6, AssignLeaks DEF Copy, TypeOK
  <1>7. ASSUME NEW h \in Handles, Drop(h) PROVE NothingLeaks'
    BY <1>7, AssignLeaks DEF Drop, Uses
  <1>8. CASE FileCalls
    BY <1>2, <1>3, <1>4, <1>5, <1>6, <1>7, <1>8 DEF FileCalls
  <1>9. ASSUME NEW h \in Handles, NEW e \in Names, NEW m \in Modes,
               OpenNextFile(h, e, m)
        PROVE  NothingLeaks'
    BY <1>9, HeldLeaks DEF OpenNextFile, HasDir, Uses, InCall
  <1>10. ASSUME NEW h \in Handles, NEW g \in Handles, DirectoryEnds(h, g)
         PROVE  NothingLeaks'
    BY <1>10, AssignLeaks DEF DirectoryEnds, HasDir, Uses
  <1>11. CASE Others \/ UNCHANGED vars
    BY <1>11, HeldLeaks DEF Others, OthersChange, OthersReplace, vars, InCall
  <1> QED
    BY <1>8, <1>9, <1>10, <1>11, PathCallsLeak DEF Next, DirectoryCalls

-----------------------------------------------------------------------------
(* Every step keeps what was promised to writers.                          *)

\* A step that leaves streams as they are, and files too, except for those that
\* nothing is promised of afterwards.
LEMMA FrameKeepsOwed ==
    ASSUME TypeOK, OwedKept, owed' \in [Inodes -> Nat], len' \in [Inodes -> Nat],
           \A x \in Inodes : owed'[x] = 0 \/ (owed'[x] = owed[x] /\ len'[x] = len[x]),
           \A i \in Impls : impl[i].f \in Inodes =>
               /\ impl'[i].f = impl[i].f /\ impl'[i].mode = impl[i].mode
               /\ impl'[i].pos = impl[i].pos /\ impl'[i].buf = impl[i].buf
    PROVE  OwedKept'
  <1> SUFFICES ASSUME NEW x \in Inodes PROVE Promised(x, owed', len', impl')
    BY DEF OwedKept
  <1>1. CASE owed'[x] = 0 \/ owed[x] <= len[x]
    BY <1>1 DEF Promised
  <1>2. ASSUME owed'[x] = owed[x], len'[x] = len[x],
               NEW i \in Impls, impl[i].f = x, impl[i].buf # 0,
               owed[x] <= EndIn(len, impl[i])
        PROVE  Promised(x, owed', len', impl')
    <2>1. EndIn(len', impl'[i]) = EndIn(len, impl[i])
      BY <1>2 DEF EndIn
    <2> QED  BY <1>2, <2>1 DEF Promised
  <1> QED  BY <1>1, <1>2 DEF OwedKept, Promised

\* A write to the stream of i, which is r then, or has stored that.
LEMMA WriteKeepsOwed ==
    ASSUME TypeOK, OwedKept, NEW i \in Impls, NEW r \in Members,
           r.f = impl[i].f, r.f \in Inodes, r.buf # 0,
           EndIn(len, impl[i]) <= EndIn(len, r),
           owed' = [owed EXCEPT ![r.f] = Larger(owed[r.f], EndIn(len, r))],
           \/ impl'[i] = r /\ len' = len
           \/ len' = Stored(r),
           \A j \in Impls \ {i} : impl'[j] = impl[j]
    PROVE  OwedKept'
  <1> SUFFICES ASSUME NEW x \in Inodes PROVE Promised(x, owed', len', impl')
    BY DEF OwedKept
  <1>1. /\ len \in [Inodes -> Nat] /\ owed \in [Inodes -> Nat]
        /\ impl[i] \in Members
        /\ EndIn(len, r) \in Nat /\ EndIn(len, impl[i]) \in Nat
    BY EndGrows DEF TypeOK
  <1>2. len' \in [Inodes -> Nat] /\ \A y \in Inodes : len[y] <= len'[y]
    BY <1>1, StoredGrows
  <1>3. r.f # NoFile
    BY FilesAssumption DEF FilesAssumption
  <1>4. EndIn(len, r) <= len'[r.f] \/ (impl'[i] = r /\ len' = len)
    BY <1>1, <1>3, StoredGrows
  <1>5. ASSUME x = r.f, owed'[x] <= EndIn(len, r)
        PROVE  Promised(x, owed', len', impl')
    <2>1. owed'[x] \in Nat
      BY <1>1 DEF Larger
    <2> QED  BY <1>1, <1>2, <1>4, <1>5, <2>1 DEF Promised
  <1>6. owed' \in [Inodes -> Nat]
    BY <1>1 DEF Larger
  <1>7. \/ x = r.f /\ owed'[x] <= EndIn(len, r)
        \/ owed'[x] = owed[x]
    BY <1>1 DEF Larger
  <1>8. CASE owed'[x] = owed[x] /\ owed[x] <= len[x]
    BY <1>1, <1>2, <1>8 DEF Promised
  <1>9. ASSUME owed'[x] = owed[x], NEW j \in Impls, impl[j].f = x,
               impl[j].buf # 0, owed[x] <= EndIn(len, impl[j])
        PROVE  Promised(x, owed', len', impl')
    <2>1. CASE j = i
      BY <1>1, <1>5, <1>9, <2>1
    <2>2. CASE j # i
      <3>1. impl[j] \in Members /\ impl'[j] = impl[j]
        BY <2>2 DEF TypeOK
      <3>2. owed'[x] <= EndIn(len, impl[j]) /\ len[x] <= len'[x]
        BY <1>2, <1>9
      <3> QED  BY <1>1, <1>2, <1>6, <1>9, <3>1, <3>2, PromiseMoves
    <2> QED  BY <2>1, <2>2
  <1> QED  BY <1>5, <1>7, <1>8, <1>9 DEF OwedKept, Promised

\* Every step of a call with a path keeps what was promised.
LEMMA PathCallsOwed == Inv /\ PathCalls => OwedKept'
  <1> SUFFICES ASSUME TypeOK, CallOwns, NothingLeaks, OwedKept, PathCalls
               PROVE  OwedKept'
    BY DEF Inv
  <1> USE FilesAssumption DEF FilesAssumption
  <1>0. len \in [Inodes -> Nat] /\ owed \in [Inodes -> Nat]
    BY DEF TypeOK
  <1>1. ASSUME UNCHANGED <<len, owed, impl>> PROVE OwedKept'
    BY <1>0, <1>1, FrameKeepsOwed
  <1>2. ASSUME NEW h \in Handles, NEW p \in Names, NEW m \in Modes,
               Open(h, p, m)
        PROVE  OwedKept'
    BY <1>1, <1>2, AssignKeepsOwed DEF Open
  <1>3. ASSUME NEW h \in Handles, OpenTryDir(h) PROVE OwedKept'
    BY <1>1, <1>3, AssignKeepsOwed DEF OpenTryDir
  <1>4. ASSUME NEW i \in Impls, NEW c, ConstructStat(i, c) PROVE OwedKept'
    <2>1. PICK s : impl' = [impl EXCEPT ![i] = Fresh(c.path, c.mode, s)]
      BY <1>4, Zenon DEF ConstructStat
    <2>2. \A j \in Impls : j # i => impl'[j] = impl[j]
      BY <2>1 DEF TypeOK
    <2>3. impl[i].f = NoFile /\ UNCHANGED <<len, owed>>
      BY <1>4 DEF ConstructStat, NothingLeaks
    <2> QED  BY <1>0, <2>2, <2>3, FrameKeepsOwed
  <1>5. CASE (\E p \in Names : Probe(p)) \/ \E i \in Impls : Construct(i)
    BY <1>4, <1>5 DEF Probe, Construct
  <1>6. ASSUME At("fopen"), \A i \in Impls : i # call.temp => impl'[i] = impl[i],
               owed' \in [Inodes -> Nat], len' \in [Inodes -> Nat],
               \A x \in Inodes :
                   owed'[x] = 0 \/ (owed'[x] = owed[x] /\ len'[x] = len[x])
        PROVE  OwedKept'
    <2>1. impl[call.temp].f = NoFile
      BY <1>6 DEF At, CallOwns
    <2> QED  BY <1>6, <2>1, FrameKeepsOwed
  <1>7. CASE ConstructFile
    <2>1. PICK x : impl' = [impl EXCEPT ![call.temp].f = x]
      BY <1>7 DEF ConstructFile, Takes
    <2>2. \A i \in Impls : i # call.temp => impl'[i] = impl[i]
      BY <2>1 DEF TypeOK
    <2>3. \/ UNCHANGED <<len, owed>>
          \/ \E y \in Inodes : /\ len' = [len EXCEPT ![y] = 0]
                               /\ owed' = [owed EXCEPT ![y] = 0]
      BY <1>7 DEF ConstructFile, IsFile
    <2> QED  BY <1>0, <1>6, <1>7, <2>2, <2>3 DEF ConstructFile
  <1>8. CASE ConstructDir
    <2>1. PICK found :
             impl' = [impl EXCEPT ![call.temp].d = found,
                        ![call.temp].isDirectory = (found \/ call.seen = "dir")]
      BY <1>8 DEF ConstructDir
    <2>2. \A i \in Impls : i # call.temp => impl'[i] = impl[i]
      BY <2>1 DEF TypeOK
    <2> QED  BY <1>0, <1>6, <1>8, <2>2 DEF ConstructDir
  <1>9. CASE ConstructOther
    BY <1>1, <1>9 DEF ConstructOther
  <1>10. ASSUME NEW h \in Handles, Given(h) PROVE OwedKept'
    BY <1>10, AssignKeepsOwed DEF Given
  <1>11. ASSUME NEW next, Probed(next) PROVE OwedKept'
    <2>1. call.temp \in Impls
      BY <1>11 DEF Probed, At, CallOwns
    <2>2. /\ len' = Stored(impl[call.temp]) /\ UNCHANGED owed
          /\ \A j \in Impls \ {call.temp} : impl'[j] = impl[j]
      BY <1>11, <2>1, CloseStores, CloseKeeps DEF Probed
    <2> QED  BY <2>1, <2>2, StoringKeepsOwed
  <1>12. CASE Exists \/ Remove \/ RmDir \/ MkDir \/ Rename
    BY <1>11, <1>12 DEF Exists, Remove, RmDir, MkDir, Rename
  <1>13. CASE Fails \/ Unlink \/ Make \/ \E q \in Names : Move(q)
    BY <1>1, <1>13 DEF Fails, Unlink, Make, Move, Act
  <1> QED
    BY <1>2, <1>3, <1>5, <1>7, <1>8, <1>9, <1>10, <1>12, <1>13
       DEF PathCalls

\* A write keeps what was promised, and what it promises itself.
LEMMA WriteOwed ==
    ASSUME Inv, NEW h \in Handles, NEW n \in 1 .. MaxLen, Write(h, n)
    PROVE  OwedKept'
  <1> DEFINE i == handle[h]
             b == impl[i].buf + n
             r == [impl[i] EXCEPT !.written = TRUE, !.buf = b]
  <1>0. TypeOK /\ OwedKept /\ len \in [Inodes -> Nat] /\ owed \in [Inodes -> Nat]
    BY DEF Inv, TypeOK
  <1>1. /\ i \in Impls /\ File(h) = impl[i] /\ impl[i] \in Members
        /\ impl[i].f \in Inodes
    BY <1>0, UsedObject DEF Write, HasFile
  <1>2. b \in Nat /\ b # 0 /\ impl[i].buf \in Nat /\ impl[i].buf <= b
    BY <1>1, FilesAssumption DEF Members, FilesAssumption
  <1>3. r \in Members /\ r.f = impl[i].f /\ r.buf = b
        /\ r.mode = impl[i].mode /\ r.pos = impl[i].pos
    <2> HIDE DEF b
    <2> QED  BY <1>1, <1>2 DEF Members
  <1>4. [File(h) EXCEPT !.written = TRUE, !.buf = @ + n] = r
    BY <1>1, Zenon
  <1>5. CASE impl' = [impl EXCEPT ![i].written = TRUE] /\ UNCHANGED <<len, owed>>
    BY <1>0, <1>5, FrameKeepsOwed DEF TypeOK, Members
  <1>6. CASE /\ owed' = [owed EXCEPT ![r.f] = Larger(@, End(r))]
             /\ \/ impl' = [impl EXCEPT ![i] = r] /\ UNCHANGED len
                \/ impl' = [impl EXCEPT ![i] = Flushed(r)] /\ len' = Stored(r)
    <2>1. EndIn(len, impl[i]) <= EndIn(len, r)
      <3> HIDE DEF b, r
      <3> QED  BY <1>0, <1>1, <1>2, <1>3 DEF EndIn, Members
    <2>2. owed' = [owed EXCEPT ![r.f] = Larger(owed[r.f], EndIn(len, r))]
      BY <1>6, Zenon DEF End, EndIn
    <2> HIDE DEF r
    <2>3. /\ \/ impl'[i] = r /\ len' = len
             \/ len' = Stored(r)
          /\ \A j \in Impls \ {i} : impl'[j] = impl[j]
      BY <1>0, <1>1, <1>6 DEF TypeOK
    <2> QED  BY <1>0, <1>1, <1>2, <1>3, <2>1, <2>2, <2>3, WriteKeepsOwed
  <1>7. \/ impl' = [impl EXCEPT ![i].written = TRUE] /\ UNCHANGED <<len, owed>>
        \/ /\ owed' = [owed EXCEPT ![r.f] = Larger(@, End(r))]
           /\ \/ impl' = [impl EXCEPT ![i] = r] /\ UNCHANGED len
              \/ impl' = [impl EXCEPT ![i] = Flushed(r)] /\ len' = Stored(r)
    BY <1>4, Zenon DEF Write
  <1> QED  BY <1>5, <1>6, <1>7

\* Every step keeps what was promised.
LEMMA OwedStep == Inv /\ [Next]_vars => OwedKept'
  <1> SUFFICES ASSUME Inv, TypeOK, OwedKept, [Next]_vars PROVE OwedKept'
    BY DEF Inv
  <1>0. len \in [Inodes -> Nat] /\ owed \in [Inodes -> Nat]
    BY DEF TypeOK
  <1>1. ASSUME NEW h \in Handles, Uses(h), UNCHANGED owed,
               len' = Stored(impl[handle[h]]),
               \A j \in Impls \ {handle[h]} : impl'[j] = impl[j]
        PROVE  OwedKept'
    BY <1>1, UsedObject, StoringKeepsOwed
  <1>2. ASSUME NEW h \in Handles, Flush(h) \/ \E p \in 0 .. MaxLen : Seek(h, p)
        PROVE  OwedKept'
    <2>1. PICK r : impl' = [impl EXCEPT ![handle[h]] = r]
      BY <1>2 DEF Flush, Seek
    <2> QED
      BY <1>1, <1>2, <2>1 DEF Flush, Seek, HasFile, File, TypeOK
  <1>3. ASSUME NEW h \in Handles, Size(h) \/ GetLastWrite(h) PROVE OwedKept'
    <2>1. GetStat(h) /\ UNCHANGED <<len, owed>>
      BY <1>3 DEF Size, GetLastWrite
    <2>2. PICK s : \/ UNCHANGED impl
                   \/ impl' = [impl EXCEPT ![handle[h]].size = s,
                                           ![handle[h]].written = FALSE]
      BY <2>1, Zenon DEF GetStat
    <2> QED  BY <1>0, <2>1, <2>2, FrameKeepsOwed DEF TypeOK, Members
  <1>4. ASSUME NEW h \in Handles, FileClose(h) PROVE OwedKept'
    <2>1. handle[h] \in Impls /\ Close(handle[h]) /\ Uses(h) /\ UNCHANGED owed
      BY <1>4, UsedObject DEF FileClose
    <2> QED  BY <1>1, <2>1, CloseStores, CloseKeeps
  <1>5. ASSUME NEW h \in Handles, (\E g \in Handles : Copy(h, g)) \/ Drop(h)
        PROVE  OwedKept'
    BY <1>5, AssignKeepsOwed DEF Copy, Drop
  <1>6. CASE FileCalls
    BY <1>2, <1>3, <1>4, <1>5, <1>6, WriteOwed DEF FileCalls
  <1>7. CASE DirectoryCalls
    <2>1. ASSUME NEW h \in Handles, NEW e \in Names, NEW m \in Modes,
                 OpenNextFile(h, e, m)
          PROVE  OwedKept'
      BY <1>0, <2>1, FrameKeepsOwed DEF OpenNextFile
    <2>2. ASSUME NEW h \in Handles, NEW g \in Handles, DirectoryEnds(h, g)
          PROVE  OwedKept'
      BY <2>2, AssignKeepsOwed DEF DirectoryEnds
    <2> QED  BY <1>7, <2>1, <2>2 DEF DirectoryCalls
  <1>8. CASE Others
    <2>1. ASSUME NEW p \in Paths, OthersChange(p) PROVE OwedKept'
      BY <1>0, <2>1, FrameKeepsOwed DEF OthersChange
    <2>2. ASSUME NEW p \in Paths, OthersReplace(p) PROVE OwedKept'
      <3>1. PICK x \in Inodes, n \in 0 .. MaxLen :
               /\ len' = [len EXCEPT ![x] = n]
               /\ owed' = [owed EXCEPT ![x] = 0]
        BY <2>2, Zenon DEF OthersReplace
      <3>2. UNCHANGED impl /\ n \in Nat
        BY <2>2 DEF OthersReplace
      <3> QED  BY <1>0, <3>1, <3>2, FrameKeepsOwed
    <2> QED  BY <1>8, <2>1, <2>2 DEF Others
  <1>9. CASE UNCHANGED vars
    BY <1>0, <1>9, FrameKeepsOwed DEF vars
  <1> QED  BY <1>6, <1>7, <1>8, <1>9, PathCallsOwed DEF Next

-----------------------------------------------------------------------------
(* What holds in every state.                                              *)

\* The start: nothing is open, and nothing promised.
LEMMA InvInit == Init => Inv
  <1> SUFFICES ASSUME Init PROVE Inv
    OBVIOUS
  <1> USE FilesAssumption DEF FilesAssumption
  <1>1. Fresh(NoFile, "r", 0) \in Members
    BY DEF Fresh, Members, Modes
  <1>2. TypeOK
    BY <1>1 DEF Init, TypeOK, Fresh, Kinds
  <1>3. CallOwns
    BY DEF Init, CallOwns
  <1>4. NothingLeaks
    BY DEF Init, NothingLeaks, Fresh
  <1>5. OwedKept
    BY DEF Init, OwedKept, Promised
  <1> QED  BY <1>2, <1>3, <1>4, <1>5 DEF Inv

\* The inductive invariant holds in every state.
LEMMA InvAlways == Spec => []Inv
  <1>1. Inv /\ [Next]_vars => Inv'
    BY TypeStep, CallStep, LeaksStep, OwedStep DEF Inv
  <1> QED  BY InvInit, <1>1, PTL DEF Spec

\* The members of every object keep their types through every call, and no
\* object is a file and a directory at once.
THEOREM TypeCorrect == Spec => []TypeOK
  <1>1. Inv => TypeOK
    BY DEF Inv
  <1> QED  BY <1>1, InvAlways, PTL

\* However paths change while calls are made, and whichever copy of a File is
\* closed or dropped first, no FILE and no DIR stays open that nothing refers to.
THEOREM NoLeak == Spec => []NothingLeaks
  <1>1. Inv => NothingLeaks
    BY DEF Inv
  <1> QED  BY <1>1, InvAlways, PTL

\* What write has accepted is in the file once no stream holds bytes back for
\* it, however many Files write it, in whatever mode.
THEOREM WritesStored == Spec => []WrittenStored
  <1>1. Inv => WrittenStored
    BY DEF Inv, OwedKept, Promised, WrittenStored
  <1> QED  BY <1>1, InvAlways, PTL
=============================================================================
