----------------------------- MODULE StorageProofs -----------------------------
(***************************************************************************)
(* Proofs about Cloud Storage: the metadata log keeps what was             *)
(* acknowledged, and a resumable upload makes the file it was given.       *)
(***************************************************************************)
EXTENDS StorageLog, StorageUploads, SequenceTheorems, FiniteSetTheorems,
        WellFoundedInduction, TLAPS

------------------------------------------------------------------------------
(***************************************************************************)
(* Resumable uploads.  What a session, stored or held by a handler, has    *)
(* received is a first part of the file, and all of it once a handler      *)
(* finishes.                                                               *)
(***************************************************************************)
FirstPart(s) == /\ s \in Seq(Nat) /\ Len(s) <= Total
                /\ \A i \in 1..Len(s) : s[i] = i
Session == [there: BOOLEAN, age: {"live", "expired", "gone"}, chunks: Seq(Nat),
            done: BOOLEAN, absent: BOOLEAN]
UploadInv ==
    /\ session \in Session /\ FirstPart(session.chunks)
    /\ handler \in [Handlers -> [at: {"none", "put", "finish", "done", "drop"}, u: Session,
                                 named: BOOLEAN, awaited: BOOLEAN]]
    /\ \A r \in Handlers :
          /\ FirstPart(handler[r].u.chunks)
          /\ handler[r].at \in {"finish", "done"} => Received(handler[r].u) = Total
    /\ versions \in Seq(Seq(Nat)) /\ ObjectIsWhole

\* A first part as long as the file is the file.
LEMMA WholeIsFile ==
    ASSUME NEW s, FirstPart(s), Len(s) = Total PROVE s = File
  BY UploadsAssumption DEF FirstPart, File

\* What resumableChunk skips and what it keeps of a request that starts at
\* first: the bytes that continue the ones received.
LEMMA RestContinues ==
    ASSUME NEW u, FirstPart(u.chunks),
           NEW first \in 0..Total, NEW past \in 0..Total, first <= past,
           first <= Received(u)
    PROVE  FirstPart(u.chunks \o Rest(u, SubSeq(File, first + 1, past), first))
  <1> DEFINE sent == SubSeq(File, first + 1, past)
             n == Received(u)
             rest == Rest(u, sent, first)
  <1> USE UploadsAssumption
  <1>1. n \in 0..Total /\ first <= n /\ u.chunks \in Seq(Nat) /\ Len(u.chunks) = n
    BY DEF FirstPart, Received
  <1>2. File \in Seq(Nat) /\ Len(File) = Total /\ \A i \in 1..Total : File[i] = i
    BY DEF File
  <1>3. sent \in Seq(Nat) /\ Len(sent) = past - first
        /\ \A i \in 1..(past - first) : sent[i] = first + i
    BY <1>2
  <1>4. rest \in Seq(Nat) /\ Len(rest) = (IF n < past THEN past - n ELSE 0)
        /\ \A i \in 1..Len(rest) : rest[i] = n + i
    <2> DEFINE from == n - first + 1
               to == past - first
    <2>1. rest = SubSeq(sent, from, to)
      BY <1>3, Zenon DEF Rest
    <2> HIDE DEF sent, n, rest
    <2>2. from \in Int /\ to \in Int /\ from >= 1 /\ to = Len(sent) /\ to - from + 1 = past - n
      BY <1>1, <1>3
    <2> HIDE DEF from, to
    <2>3. \A i \in from..to : sent[i] \in Nat
      BY <1>3, <2>2, SMTT(30)
    <2>4. /\ rest \in Seq(Nat) /\ Len(rest) = IF from <= to THEN to - from + 1 ELSE 0
          /\ \A i \in 1..to - from + 1 : rest[i] = sent[from + i - 1]
      <3>1. from \in Int /\ to \in Int
        BY <2>2
      <3>2. SubSeq(sent, from, to) \in Seq(Nat)
        BY <2>3, <3>1, SubSeqProperties
      <3>3. Len(SubSeq(sent, from, to)) = IF from <= to THEN to - from + 1 ELSE 0
        BY <2>3, <3>1, SubSeqProperties
      <3>4. \A i \in 1..to - from + 1 : SubSeq(sent, from, to)[i] = sent[from + i - 1]
        BY <2>3, <3>1, SubSeqProperties
      <3> QED BY <2>1, <3>2, <3>3, <3>4
    <2>5. Len(rest) = IF n < past THEN past - n ELSE 0
      BY <1>1, <2>2, <2>4 DEF from, to
    <2>6. ASSUME NEW i \in 1..Len(rest) PROVE rest[i] = n + i
      <3>1. i \in 1..to - from + 1 /\ from + i - 1 \in 1..(past - first)
        BY <1>1, <2>2, <2>5 DEF from, to
      <3>2. rest[i] = first + (from + i - 1)
        BY <1>3, <2>4, <3>1, Zenon
      <3> QED BY <1>1, <3>1, <3>2 DEF from
    <2> QED BY <2>4, <2>5, <2>6
  <1> HIDE DEF sent, n, rest
  <1>5. /\ u.chunks \o rest \in Seq(Nat) /\ Len(u.chunks \o rest) = n + Len(rest)
        /\ \A i \in 1..(n + Len(rest)) :
              (u.chunks \o rest)[i] = IF i <= n THEN u.chunks[i] ELSE rest[i - n]
    <2>1. /\ u.chunks \o rest \in Seq(Nat)
          /\ Len(u.chunks \o rest) = Len(u.chunks) + Len(rest)
          /\ \A i \in 1..Len(u.chunks) + Len(rest) :
                (u.chunks \o rest)[i] = IF i <= Len(u.chunks) THEN u.chunks[i]
                                        ELSE rest[i - Len(u.chunks)]
      BY <1>1, <1>4, ConcatProperties, ZenonT(30)
    <2> QED BY <1>1, <2>1, Zenon
  <1>6. n + Len(rest) <= Total /\ Len(rest) \in Nat
    BY <1>1, <1>4
  <1>7. ASSUME NEW i \in 1..(n + Len(rest)) PROVE (u.chunks \o rest)[i] = i
    <2>1. CASE i <= n
      BY <1>1, <1>5, <1>7, <2>1 DEF FirstPart
    <2>2. CASE i > n
      <3>1. i - n \in 1..Len(rest) /\ ~(i <= n) /\ n + (i - n) = i
        BY <1>1, <1>6, <1>7, <2>2
      <3>2. (u.chunks \o rest)[i] = rest[i - n]
        BY <1>5, <1>7, <3>1
      <3> QED BY <1>4, <3>1, <3>2
    <2> QED BY <1>1, <1>6, <2>1, <2>2
  <1> QED BY <1>5, <1>6, <1>7, Zenon DEF FirstPart, rest, sent

\* A handler that ends or goes on with the session it holds.
LEMMA HandlerMoves ==
    ASSUME UploadInv, NEW r \in Handlers,
           \/ Returns(r)
           \/ Proceeds(r, "done") /\ handler[r].at = "finish"
           \/ Proceeds(r, "finish") /\ Received(handler[r].u) = Total
           \/ handler' = [handler EXCEPT ![r].awaited = FALSE]
           \/ handler' = [q \in Handlers |-> NoHandler]
    PROVE  /\ handler' \in [Handlers -> [at: {"none", "put", "finish", "done", "drop"},
                                         u: Session, named: BOOLEAN, awaited: BOOLEAN]]
           /\ \A q \in Handlers :
                 /\ FirstPart(handler'[q].u.chunks)
                 /\ handler'[q].at \in {"finish", "done"} => Received(handler'[q].u) = Total
  <1> USE DEF UploadInv
  <1>1. NoSession \in Session /\ FirstPart(NoSession.chunks)
    BY UploadsAssumption DEF NoSession, Session, FirstPart
  <1>2. NoHandler \in [at: {"none", "put", "finish", "done", "drop"}, u: Session,
                       named: BOOLEAN, awaited: BOOLEAN]
        /\ NoHandler.at = "none" /\ NoHandler.u = NoSession
    BY <1>1 DEF NoHandler
  <1>3. CASE Returns(r)
    BY <1>1, <1>2, <1>3 DEF Returns
  <1>4. CASE Proceeds(r, "done") /\ handler[r].at = "finish"
    BY <1>4, SMTT(30) DEF Proceeds
  <1>5. CASE Proceeds(r, "finish") /\ Received(handler[r].u) = Total
    BY <1>5 DEF Proceeds
  <1>6. CASE handler' = [handler EXCEPT ![r].awaited = FALSE]
    <2>1. handler \in [Handlers -> [at: {"none", "put", "finish", "done", "drop"},
                                    u: Session, named: BOOLEAN, awaited: BOOLEAN]]
      BY Zenon
    <2>2. [handler[r] EXCEPT !.awaited = FALSE]
             \in [at: {"none", "put", "finish", "done", "drop"},
                  u: Session, named: BOOLEAN, awaited: BOOLEAN]
      BY <2>1, ZenonT(30)
    <2>3. handler' = [handler EXCEPT ![r] = [handler[r] EXCEPT !.awaited = FALSE]]
      BY <1>6, Zenon
    <2>4. handler' \in [Handlers -> [at: {"none", "put", "finish", "done", "drop"},
                                     u: Session, named: BOOLEAN, awaited: BOOLEAN]]
      BY <2>1, <2>2, <2>3
    <2>5. ASSUME NEW q \in Handlers
          PROVE  handler'[q].u = handler[q].u /\ handler'[q].at = handler[q].at
      BY <2>1, <2>3
    <2> QED BY <2>4, <2>5, Zenon DEF Received
  <1>7. CASE handler' = [q \in Handlers |-> NoHandler]
    BY <1>1, <1>2, <1>7
  <1> QED BY <1>3, <1>4, <1>5, <1>6, <1>7

\* A handler that begins with a session of which it has a first part.
LEMMA HandlerBegins ==
    ASSUME UploadInv, NEW r \in Handlers, NEW at \in {"put", "finish", "drop"},
           NEW u \in Session, FirstPart(u.chunks), at = "finish" => Received(u) = Total,
           NEW named \in BOOLEAN, handler' = [handler EXCEPT ![r] = Serving(at, u, named)]
    PROVE  /\ handler' \in [Handlers -> [at: {"none", "put", "finish", "done", "drop"},
                                         u: Session, named: BOOLEAN, awaited: BOOLEAN]]
           /\ \A q \in Handlers :
                 /\ FirstPart(handler'[q].u.chunks)
                 /\ handler'[q].at \in {"finish", "done"} => Received(handler'[q].u) = Total
  BY DEF UploadInv, Serving

\* Every request, step of a handler, failure and week keeps the invariant.
LEMMA UploadStep == UploadInv /\ [UploadsNext]_uploadVars => UploadInv'
  <1> SUFFICES ASSUME UploadInv, [UploadsNext]_uploadVars PROVE UploadInv'
    OBVIOUS
  <1> DEFINE HandlersKept ==
        /\ handler' \in [Handlers -> [at: {"none", "put", "finish", "done", "drop"},
                                      u: Session, named: BOOLEAN, awaited: BOOLEAN]]
        /\ \A q \in Handlers :
              /\ FirstPart(handler'[q].u.chunks)
              /\ handler'[q].at \in {"finish", "done"} => Received(handler'[q].u) = Total
  <1>0. /\ NoSession \in Session /\ FirstPart(NoSession.chunks)
        /\ session \in Session /\ FirstPart(session.chunks)
        /\ \A r \in Handlers : handler[r].u \in Session /\ FirstPart(handler[r].u.chunks)
    BY UploadsAssumption DEF NoSession, Session, FirstPart, UploadInv
  <1>a. ASSUME session' \in Session, FirstPart(session'.chunks),
               UNCHANGED handler \/ HandlersKept, UNCHANGED versions
        PROVE  UploadInv'
    BY <1>a DEF UploadInv, ObjectIsWhole
  <1>1. CASE StartSession
    BY <1>0, <1>1, <1>a, ZenonT(30) DEF StartSession, NoSession, Session
  <1>2. ASSUME NEW r \in Handlers, NEW first \in 0..Total, NEW past \in 0..Total,
               NEW named \in BOOLEAN, first <= past, Chunk(r, first, past, named)
        PROVE  UploadInv'
    <2> DEFINE rest == Rest(session, SubSeq(File, first + 1, past), first)
               u == [session EXCEPT !.chunks = @ \o rest]
               at == IF rest # <<>> THEN "put" ELSE "finish"
    <2>1. /\ first <= Received(session)
          /\ rest # <<>> \/ Complete(session, named)
          /\ handler' = [handler EXCEPT ![r] = Serving(at, u, named)]
          /\ UNCHANGED <<session, versions>>
      BY <1>2 DEF Chunk
    <2>2. FirstPart(session.chunks \o rest)
      BY <1>0, <1>2, <2>1, RestContinues
    <2> HIDE DEF rest
    <2>3. u \in Session /\ u.chunks = session.chunks \o rest /\ FirstPart(u.chunks)
      BY <1>0, <2>2, Zenon DEF Session, FirstPart
    <2>4. ASSUME at = "finish" PROVE Received(u) = Total
      <3>1. rest = <<>> /\ Received(session) = Total
        BY <2>1, <2>4 DEF Complete
      <3>2. session.chunks \o rest = session.chunks
        BY <1>0, <3>1 DEF FirstPart
      <3> QED BY <2>3, <3>1, <3>2 DEF Received
    <2>5. at \in {"put", "finish", "drop"}
      OBVIOUS
    <2>6. HandlersKept
      <3> HIDE DEF u, at
      <3> QED BY <2>1, <2>3, <2>4, <2>5, HandlerBegins, Zenon
    <2> QED BY <1>0, <1>a, <2>1, <2>6, Zenon
  <1>3. ASSUME NEW r \in Handlers, PutChunk(r) PROVE UploadInv'
    <2>1. session' = handler[r].u /\ UNCHANGED versions
      BY <1>3 DEF PutChunk
    <2>2. HandlersKept
      BY <1>3, HandlerMoves DEF PutChunk, Complete
    <2> QED BY <1>0, <1>a, <2>1, <2>2
  <1>4. ASSUME NEW r \in Handlers, Finish(r) PROVE UploadInv'
    <2>1. UNCHANGED session /\ HandlersKept
      BY <1>4, HandlerMoves DEF Finish
    <2>2. handler[r].at = "finish"
      BY <1>4 DEF Finish
    <2>3. CASE UNCHANGED versions
      BY <1>0, <1>a, <2>1, <2>3
    <2>4. CASE versions' = Append(versions, handler[r].u.chunks)
      <3>1. handler[r].u.chunks = File
        BY <1>0, <2>2, WholeIsFile DEF UploadInv, Received
      <3>2. versions' \in Seq(Seq(Nat)) /\ ObjectIsWhole'
        BY <1>0, <2>4, <3>1 DEF UploadInv, ObjectIsWhole, Session
      <3> QED BY <1>0, <2>1, <3>2 DEF UploadInv
    <2> QED BY <1>4, <2>3, <2>4 DEF Finish
  <1>5. ASSUME NEW r \in Handlers, RecordDone(r) PROVE UploadInv'
    <2>1. UNCHANGED versions /\ HandlersKept
      BY <1>5, HandlerMoves DEF RecordDone
    <2>2. session' \in Session /\ FirstPart(session'.chunks)
      BY <1>0, <1>5, Zenon DEF RecordDone, Session
    <2> QED BY <1>a, <2>1, <2>2
  <1>6. CASE AnsweredAtOnce
    BY <1>0, <1>6, <1>a DEF AnsweredAtOnce
  <1>7. ASSUME NEW r \in Handlers, Cancel(r) PROVE UploadInv'
    <2>1. UNCHANGED <<session, versions>> /\ HandlersKept
      BY <1>0, <1>7, HandlerBegins, Zenon DEF Cancel
    <2> QED BY <1>0, <1>a, <2>1
  <1>8. ASSUME NEW r \in Handlers, Drop(r) PROVE UploadInv'
    <2>1. UNCHANGED versions /\ HandlersKept
      BY <1>8, HandlerMoves DEF Drop
    <2>2. session' \in Session /\ FirstPart(session'.chunks)
      BY <1>0, <1>8 DEF Drop
    <2> QED BY <1>a, <2>1, <2>2
  <1>9. ASSUME NEW r \in Handlers, GiveUp(r) PROVE UploadInv'
    <2>1. UNCHANGED <<session, versions>> /\ HandlersKept
      BY <1>9, HandlerMoves, Zenon DEF GiveUp
    <2> QED BY <1>0, <1>a, <2>1
  <1>10. CASE HandlersEnd
    <2>1. UNCHANGED <<session, versions>>
      BY <1>10 DEF HandlersEnd
    <2>2. CASE \E r \in Handlers : Returns(r)
      BY <1>0, <1>a, <2>1, <2>2, HandlerMoves
    <2>3. CASE handler' = [q \in Handlers |-> NoHandler]
      <3>1. CASE Handlers = {}
        BY <2>1, <2>3, <3>1 DEF UploadInv, ObjectIsWhole
      <3>2. CASE \E r \in Handlers : TRUE
        BY <1>0, <1>a, <2>1, <2>3, <3>2, HandlerMoves, SMTT(30)
      <3> QED BY <3>1, <3>2
    <2> QED BY <1>10, <2>2, <2>3 DEF HandlersEnd
  <1>11. CASE Weeks
    <2>1. session' \in Session /\ FirstPart(session'.chunks) /\ UNCHANGED <<handler, versions>>
      BY <1>0, <1>11, Zenon DEF Weeks, Session
    <2> QED BY <1>a, <2>1
  <1>12. CASE UNCHANGED uploadVars
    BY <1>0, <1>12, <1>a DEF uploadVars
  <1> QED BY <1>1, <1>2, <1>3, <1>4, <1>5, <1>6, <1>7, <1>8, <1>9, <1>10, <1>11, <1>12, SMTT(30)
          DEF UploadsNext, ClientSends, HandlerStep

(***************************************************************************)
(* Every version a resumable upload makes is the file, for files of any    *)
(* size, any number of requests served at once and any number of failures, *)
(* requests given up and sessions revived by a stale write.                *)
(***************************************************************************)
THEOREM UploadsWhole == UploadsSpec => []ObjectIsWhole
  <1>1. UploadsInit => UploadInv
    <2>1. NoSession \in Session /\ FirstPart(NoSession.chunks)
      BY UploadsAssumption DEF NoSession, Session, FirstPart
    <2>2. /\ NoHandler.at = "none" /\ NoHandler.u = NoSession
          /\ NoHandler \in [at: {"none", "put", "finish", "done", "drop"}, u: Session,
                            named: BOOLEAN, awaited: BOOLEAN]
      BY <2>1 DEF NoHandler
    <2> QED BY <2>1, <2>2 DEF UploadsInit, UploadInv, ObjectIsWhole
  <1>2. UploadInv => ObjectIsWhole
    BY DEF UploadInv
  <1> QED BY <1>1, <1>2, UploadStep, PTL DEF UploadsSpec

------------------------------------------------------------------------------
(***************************************************************************)
(* The metadata log.  A replay is a function of the lines replayed before. *)
(* What it computes is proved by induction on their number, which is had   *)
(* from the well-foundedness of the naturals (Least, SetInduction).        *)
(***************************************************************************)

\* A set of naturals has a least element: the order of the naturals is well
\* founded.
LEMMA Least ==
    ASSUME NEW T \in SUBSET Nat, T # {}
    PROVE  \E n \in T : \A m \in T : n <= m
  <1> DEFINE less == {ss \in Nat \X Nat : ss[1] < ss[2]}
  <1>1. IsWellFoundedOn(less, Nat)
    BY NatLessThanWellFounded, Zenon DEF OpToRel
  <1>2. PICK n \in T : \A m \in T : <<m, n>> \notin less
    BY <1>1, WFMin, Zenon
  <1>3. ASSUME NEW m \in T PROVE n <= m
    <2>1. m \in Nat /\ n \in Nat /\ (m < n => <<m, n>> \in less)
      BY Zenon
    <2> QED BY <2>1, <1>2
  <1> QED BY <1>3, Zenon

\* Induction, over a set instead of a predicate.
LEMMA SetInduction ==
    ASSUME NEW S, 0 \in S, \A n \in Nat : n \in S => n + 1 \in S
    PROVE  \A n \in Nat : n \in S
  <1>1. SUFFICES ASSUME Nat \ S # {} PROVE FALSE
    BY Zenon
  <1>2. PICK n \in Nat \ S : \A m \in Nat \ S : n <= m
    BY <1>1, Least, Zenon
  <1>3. n - 1 \in Nat /\ n = (n - 1) + 1 /\ ~(n <= n - 1)
    BY <1>2
  <1> QED BY <1>2, <1>3, Zenon

------------------------------------------------------------------------------
\* f is the function that ApplyOps recurs through, and that Loads does.
Applying(m, ops, f) ==
    f = [n \in 0..Len(ops) |-> IF n = 0 THEN m ELSE ApplyOp(f[n - 1], ops[n])]
Loading(m, j, f) ==
    f = [n \in 0..Len(j) |-> IF n = 0 THEN m ELSE ApplyOps(f[n - 1], j[n].ops)]

\* There is such a function, and the value of the operator is its last.
LEMMA ApplyingExists ==
    ASSUME NEW m, NEW ops, Len(ops) \in Nat
    PROVE  \E f : Applying(m, ops, f) /\ ApplyOps(m, ops) = f[Len(ops)]
  <1> DEFINE Upto(n, f) ==
                 f = [i \in 0..n |-> IF i = 0 THEN m ELSE ApplyOp(f[i - 1], ops[i])]
             S == {n \in Nat : \E f : Upto(n, f)}
  <1>1. 0 \in S
    <2> DEFINE f == [i \in 0..0 |-> m]
    <2>1. f = [i \in 0..0 |-> IF i = 0 THEN m ELSE ApplyOp(f[i - 1], ops[i])]
      OBVIOUS
    <2> QED BY <2>1, Zenon
  <1>2. ASSUME NEW n \in Nat, n \in S PROVE n + 1 \in S
    <2>1. PICK f : Upto(n, f)
      BY <1>2, Zenon
    <2> DEFINE g == [i \in 0..(n + 1) |-> IF i = n + 1 THEN ApplyOp(f[n], ops[n + 1]) ELSE f[i]]
    <2>2. \A i \in 0..(n + 1) : g[i] = IF i = 0 THEN m ELSE ApplyOp(g[i - 1], ops[i])
      <3> SUFFICES ASSUME NEW i \in 0..(n + 1)
                   PROVE  g[i] = IF i = 0 THEN m ELSE ApplyOp(g[i - 1], ops[i])
        BY Zenon
      <3>1. CASE i = n + 1
        <4>1. g[i] = ApplyOp(f[n], ops[i]) /\ g[i - 1] = f[n]
          BY <3>1
        <4> QED BY <4>1, <3>1
      <3>2. CASE i # n + 1
        <4>1. i \in 0..n /\ g[i] = f[i] /\ (i # 0 => g[i - 1] = f[i - 1])
          BY <3>2
        <4>2. f[i] = IF i = 0 THEN m ELSE ApplyOp(f[i - 1], ops[i])
          BY <4>1, <2>1, Zenon
        <4> QED BY <4>1, <4>2, Zenon
      <3> QED BY <3>1, <3>2, Zenon
    <2> HIDE DEF g
    <2>3. Upto(n + 1, g)
      BY <2>2, Zenon DEF g
    <2> QED BY <2>3
  <1> HIDE DEF S
  <1>3. \E f : Upto(Len(ops), f)
    <2>1. Len(ops) \in S
      BY <1>1, <1>2, SetInduction, Zenon
    <2> QED BY <2>1, Zenon DEF S
  <1>4. \E f : Applying(m, ops, f)
    BY <1>3, Zenon DEF Applying
  <1> DEFINE a == CHOOSE f : Applying(m, ops, f)
  <1>5. Applying(m, ops, a)
    BY <1>4, Zenon
  <1>6. ApplyOps(m, ops) = a[Len(ops)]
    BY Zenon DEF ApplyOps, Applying
  <1> QED BY <1>5, <1>6, Zenon
LEMMA LoadingExists ==
    ASSUME NEW m, NEW j, Len(j) \in Nat
    PROVE  \E f : Loading(m, j, f) /\ Loads(m, j) = f[Len(j)]
  <1> DEFINE Upto(n, f) ==
                 f = [i \in 0..n |-> IF i = 0 THEN m ELSE ApplyOps(f[i - 1], j[i].ops)]
             S == {n \in Nat : \E f : Upto(n, f)}
  <1>1. 0 \in S
    <2> DEFINE f == [i \in 0..0 |-> m]
    <2>1. f = [i \in 0..0 |-> IF i = 0 THEN m ELSE ApplyOps(f[i - 1], j[i].ops)]
      OBVIOUS
    <2> QED BY <2>1, Zenon
  <1>2. ASSUME NEW n \in Nat, n \in S PROVE n + 1 \in S
    <2>1. PICK f : Upto(n, f)
      BY <1>2, Zenon
    <2> DEFINE g == [i \in 0..(n + 1) |-> IF i = n + 1 THEN ApplyOps(f[n], j[n + 1].ops) ELSE f[i]]
    <2>2. \A i \in 0..(n + 1) : g[i] = IF i = 0 THEN m ELSE ApplyOps(g[i - 1], j[i].ops)
      <3> SUFFICES ASSUME NEW i \in 0..(n + 1)
                   PROVE  g[i] = IF i = 0 THEN m ELSE ApplyOps(g[i - 1], j[i].ops)
        BY Zenon
      <3>1. CASE i = n + 1
        <4>1. g[i] = ApplyOps(f[n], j[i].ops) /\ g[i - 1] = f[n]
          BY <3>1
        <4> QED BY <4>1, <3>1
      <3>2. CASE i # n + 1
        <4>1. i \in 0..n /\ g[i] = f[i] /\ (i # 0 => g[i - 1] = f[i - 1])
          BY <3>2
        <4>2. f[i] = IF i = 0 THEN m ELSE ApplyOps(f[i - 1], j[i].ops)
          BY <4>1, <2>1, Zenon
        <4> QED BY <4>1, <4>2, Zenon
      <3> QED BY <3>1, <3>2, Zenon
    <2> HIDE DEF g
    <2>3. Upto(n + 1, g)
      BY <2>2, Zenon DEF g
    <2> QED BY <2>3
  <1> HIDE DEF S
  <1>3. \E f : Upto(Len(j), f)
    <2>1. Len(j) \in S
      BY <1>1, <1>2, SetInduction, Zenon
    <2> QED BY <2>1, Zenon DEF S
  <1>4. \E f : Loading(m, j, f)
    BY <1>3, Zenon DEF Loading
  <1> DEFINE a == CHOOSE f : Loading(m, j, f)
  <1>5. Loading(m, j, a)
    BY <1>4, Zenon
  <1>6. Loads(m, j) = a[Len(j)]
    BY Zenon DEF Loads, Loading
  <1> QED BY <1>5, <1>6, Zenon

\* Loading nothing, and one line more.
LEMMA LoadsNothing == ASSUME NEW m PROVE Loads(m, <<>>) = m
  <1>1. PICK f : Loading(m, <<>>, f) /\ Loads(m, <<>>) = f[Len(<<>>)]
    BY LoadingExists, Zenon
  <1> QED BY <1>1 DEF Loading

LEMMA LoadsOneMore ==
    ASSUME NEW m, NEW S, NEW j \in Seq(S), NEW l \in S
    PROVE  Loads(m, Append(j, l)) = ApplyOps(Loads(m, j), l.ops)
  <1> DEFINE N == Len(j) k == Append(j, l)
  <1>1. N \in Nat /\ Len(k) = N + 1 /\ k[N + 1] = l /\ \A i \in 1..N : k[i] = j[i]
    OBVIOUS
  <1>2. PICK f : Loading(m, j, f) /\ Loads(m, j) = f[N]
    BY <1>1, LoadingExists, Zenon
  <1>3. PICK h : Loading(m, k, h) /\ Loads(m, k) = h[N + 1]
    <2> HIDE DEF k
    <2>1. Len(k) \in Nat /\ Len(k) = N + 1
      BY <1>1
    <2> QED BY <2>1, LoadingExists, Zenon
  <1> HIDE DEF N, k
  <1> DEFINE T == {n \in Nat : n <= N => h[n] = f[n]}
  <1>4. 0 \in T
    BY <1>1, <1>2, <1>3 DEF Loading, N
  <1>5. ASSUME NEW n \in Nat, n \in T PROVE n + 1 \in T
    <2> SUFFICES ASSUME n + 1 <= N PROVE h[n + 1] = f[n + 1]
      OBVIOUS
    <2>1. h[n] = f[n] /\ n + 1 \in 0..N /\ n + 1 \in 0..(N + 1) /\ n + 1 # 0 /\ (n + 1) - 1 = n
      BY <1>1, <1>5
    <2>2. f[n + 1] = ApplyOps(f[n], j[n + 1].ops)
      BY <2>1, <1>2, Zenon DEF Loading, N
    <2>3. h[n + 1] = ApplyOps(h[n], k[n + 1].ops)
      BY <2>1, <1>1, <1>3, Zenon DEF Loading
    <2> QED BY <2>1, <2>2, <2>3, <1>1
  <1> HIDE DEF T
  <1>6. h[N] = f[N]
    <2>1. N \in T
      BY <1>1, <1>4, <1>5, SetInduction, Zenon
    <2> QED BY <2>1, <1>1 DEF T
  <1>7. h[N + 1] = ApplyOps(h[N], k[N + 1].ops)
    BY <1>1, <1>3 DEF Loading
  <1> QED BY <1>1, <1>2, <1>3, <1>6, <1>7, Zenon DEF k
------------------------------------------------------------------------------
\* Types without a universe: a sequence is one of its own elements.
IsSeq(s) == s \in Seq(ToSet(s))
IsMeta(m) == m = [k \in MetaKeys |-> m[k]] /\ \A k \in MetaKeys : IsSeq(m[k])
IsOp(o) == o.key \in MetaKeys /\ IsSeq(o.val)
IsOps(ops) == IsSeq(ops) /\ \A i \in 1..Len(ops) : IsOp(ops[i])
IsLog(j) == IsSeq(j) /\ \A i \in 1..Len(j) : IsOps(j[i].ops)

\* What operations do to the versions under a key: they write the value anew,
\* or they only add to it.
Overwrites(ops, k) == \E i \in 1..Len(ops) : ops[i].key = k /\ ops[i].kind # "append"
Adds(ops, k, g) ==
    \E i \in 1..Len(ops) : ops[i].key = k /\ ops[i].kind = "append" /\ g \in ToSet(ops[i].val)
Replaced(j, k) == \E i \in 1..Len(j) : Overwrites(j[i].ops, k)
Added(j, k, g) == \E i \in 1..Len(j) : Adds(j[i].ops, k, g)

LEMMA SeqFacts ==
    ASSUME NEW S, NEW s \in Seq(S)
    PROVE  IsSeq(s) /\ DOMAIN s = 1..Len(s) /\ Len(s) \in Nat /\ ToSet(s) = {s[i] : i \in 1..Len(s)}
  BY DEF IsSeq, ToSet

LEMMA Joined ==
    ASSUME NEW s, NEW t, IsSeq(s), IsSeq(t)
    PROVE  IsSeq(s \o t) /\ \A g : g \in ToSet(s \o t) <=> g \in ToSet(s) \/ g \in ToSet(t)
  <1> DEFINE S == ToSet(s) \cup ToSet(t)
  <1>1. s \in Seq(S) /\ t \in Seq(S)
    BY DEF IsSeq
  <1> HIDE DEF S
  <1>2. /\ s \o t \in Seq(S) /\ Len(s \o t) = Len(s) + Len(t)
        /\ \A i \in 1..Len(s) : (s \o t)[i] = s[i]
        /\ \A i \in 1..Len(t) : (s \o t)[Len(s) + i] = t[i]
        /\ \A i \in 1..(Len(s) + Len(t)) :
              (s \o t)[i] = IF i <= Len(s) THEN s[i] ELSE t[i - Len(s)]
    BY <1>1
  <1> DEFINE u == s \o t
  <1>3. IsSeq(u)
    BY <1>2, SeqFacts, Zenon
  <1> HIDE DEF u
  <1>4. ASSUME NEW g PROVE g \in ToSet(u) <=> g \in ToSet(s) \/ g \in ToSet(t)
    <2>1. /\ ToSet(u) = {u[i] : i \in 1..(Len(s) + Len(t))}
          /\ ToSet(s) = {s[i] : i \in 1..Len(s)} /\ ToSet(t) = {t[i] : i \in 1..Len(t)}
          /\ Len(s) \in Nat /\ Len(t) \in Nat
      <3>1. /\ ToSet(s) = {s[i] : i \in 1..Len(s)} /\ ToSet(t) = {t[i] : i \in 1..Len(t)}
            /\ Len(s) \in Nat /\ Len(t) \in Nat
        BY <1>1, SeqFacts, Zenon
      <3>2. ToSet(u) = {u[i] : i \in 1..Len(u)} /\ Len(u) = Len(s) + Len(t)
        BY <1>2, SeqFacts, Zenon DEF u
      <3> QED BY <3>1, <3>2, Zenon
    <2>2. ASSUME g \in ToSet(u) PROVE g \in ToSet(s) \/ g \in ToSet(t)
      <3>1. PICK i \in 1..(Len(s) + Len(t)) : g = u[i]
        BY <2>1, <2>2, Zenon
      <3>2. g = IF i <= Len(s) THEN s[i] ELSE t[i - Len(s)]
        BY <3>1, <1>2, Zenon DEF u
      <3>3. (i <= Len(s) => i \in 1..Len(s)) /\ (~(i <= Len(s)) => i - Len(s) \in 1..Len(t))
        BY <2>1
      <3> QED BY <3>2, <3>3, <2>1, Zenon
    <2>3. ASSUME g \in ToSet(s) PROVE g \in ToSet(u)
      <3>1. PICK i \in 1..Len(s) : g = s[i]
        BY <2>1, <2>3, Zenon
      <3>2. i \in 1..(Len(s) + Len(t)) /\ u[i] = s[i]
        BY <2>1, <1>2 DEF u
      <3> QED BY <3>1, <3>2, <2>1, Zenon
    <2>4. ASSUME g \in ToSet(t) PROVE g \in ToSet(u)
      <3>1. PICK i \in 1..Len(t) : g = t[i]
        BY <2>1, <2>4, Zenon
      <3>2. Len(s) + i \in 1..(Len(s) + Len(t)) /\ u[Len(s) + i] = t[i]
        BY <2>1, <1>2 DEF u
      <3> QED BY <3>1, <3>2, <2>1, Zenon
    <2> QED BY <2>2, <2>3, <2>4, Zenon
  <1> QED BY <1>3, <1>4, Zenon DEF u

\* One operation: the value is written anew, or grows, or is let be.
Becomes(m, n, o, k) ==
    /\ IsMeta(n)
    /\ o.key # k => n[k] = m[k]
    /\ o.key = k /\ o.kind # "append" => n[k] = o.val
    /\ o.key = k /\ o.kind = "append" =>
          \A g : g \in ToSet(n[k]) <=> g \in ToSet(m[k]) \/ g \in ToSet(o.val)

LEMMA OneOp ==
    ASSUME NEW m, IsMeta(m), NEW o, IsOp(o), NEW k \in MetaKeys
    PROVE  Becomes(m, ApplyOp(m, o), o, k)
  <1> DEFINE n == ApplyOp(m, o)
             w == IF o.kind = "append" THEN m[o.key] \o o.val ELSE o.val
  <1>1. IsSeq(w) /\ (o.kind = "append" =>
                        \A g : g \in ToSet(w) <=> g \in ToSet(m[o.key]) \/ g \in ToSet(o.val))
    BY Joined, Zenon DEF IsMeta, IsOp
  <1> HIDE DEF w
  <1>2. n = [i \in MetaKeys |-> IF i = o.key THEN w ELSE m[i]]
    BY Zenon DEF ApplyOp, IsMeta, w
  <1> HIDE DEF n
  <1>3. n[o.key] = w /\ (o.key # k => n[k] = m[k])
    BY <1>2, Zenon DEF IsOp
  <1>4. IsMeta(n)
    BY <1>1, <1>2, Zenon DEF IsMeta
  <1> QED BY <1>1, <1>3, <1>4, Zenon DEF n, w, Becomes
\* A list of operations, from two states at once: a key that is overwritten
\* has the same versions whatever there was before, another keeps its versions
\* and has those that are added.
OpsBecome(m, n, mm, nn, ops, k) ==
    /\ IsMeta(mm) /\ IsMeta(nn)
    /\ Overwrites(ops, k) => ToSet(mm[k]) = ToSet(nn[k])
    /\ ~Overwrites(ops, k) =>
          \A g : /\ g \in ToSet(mm[k]) <=> g \in ToSet(m[k]) \/ Adds(ops, k, g)
                 /\ g \in ToSet(nn[k]) <=> g \in ToSet(n[k]) \/ Adds(ops, k, g)

LEMMA OpsEffect ==
    ASSUME NEW m, IsMeta(m), NEW n, IsMeta(n), NEW ops, IsOps(ops), NEW k \in MetaKeys
    PROVE  OpsBecome(m, n, ApplyOps(m, ops), ApplyOps(n, ops), ops, k)
  <1> DEFINE N == Len(ops)
  <1>1. N \in Nat
    BY SeqFacts, Zenon DEF IsOps, IsSeq
  <1>2. PICK f : Applying(m, ops, f) /\ ApplyOps(m, ops) = f[N]
    BY <1>1, ApplyingExists, Zenon
  <1>3. PICK h : Applying(n, ops, h) /\ ApplyOps(n, ops) = h[N]
    BY <1>1, ApplyingExists, Zenon
  <1> HIDE DEF N
  <1> DEFINE Over(q) == \E i \in 1..q : ops[i].key = k /\ ops[i].kind # "append"
             More(q, g) == \E i \in 1..q : ops[i].key = k /\ ops[i].kind = "append"
                                              /\ g \in ToSet(ops[i].val)
             Step(q) == /\ IsMeta(f[q]) /\ IsMeta(h[q])
                        /\ Over(q) => ToSet(f[q][k]) = ToSet(h[q][k])
                        /\ ~Over(q) => \A g : /\ g \in ToSet(f[q][k]) <=> g \in ToSet(m[k]) \/ More(q, g)
                                              /\ g \in ToSet(h[q][k]) <=> g \in ToSet(n[k]) \/ More(q, g)
             T == {q \in Nat : q <= N => Step(q)}
  <1>4. 0 \in T
    <2>1. f[0] = m /\ h[0] = n
      BY <1>1, <1>2, <1>3 DEF Applying, N
    <2>2. ~Over(0) /\ \A g : ~More(0, g)
      OBVIOUS
    <2> HIDE DEF Over, More
    <2> QED BY <2>1, <2>2, Zenon
  <1>5. ASSUME NEW q \in Nat, q \in T PROVE q + 1 \in T
    <2> SUFFICES ASSUME q + 1 <= N PROVE Step(q + 1)
      OBVIOUS
    <2> DEFINE o == ops[q + 1]
    <2>1. q <= N /\ q + 1 \in 0..N /\ q + 1 \in 1..N /\ q + 1 # 0 /\ (q + 1) - 1 = q
      BY <1>1
    <2>2. f[q + 1] = ApplyOp(f[q], o) /\ h[q + 1] = ApplyOp(h[q], o)
      BY <2>1, <1>2, <1>3, Zenon DEF Applying, N
    <2>3. IsOp(o)
      BY <2>1, Zenon DEF IsOps, N
    <2>4. Step(q)
      BY <1>5, <2>1, Zenon
    <2>5. /\ Over(q + 1) <=> Over(q) \/ (o.key = k /\ o.kind # "append")
          /\ \A g : More(q + 1, g) <=> More(q, g) \/ (o.key = k /\ o.kind = "append" /\ g \in ToSet(o.val))
      <3>1. \A i : i \in 1..(q + 1) <=> i \in 1..q \/ i = q + 1
        OBVIOUS
      <3> QED BY <3>1, Zenon
    <2> HIDE DEF o, Over, More
    <2> DEFINE a == f[q] c == h[q] aa == f[q + 1] bb == h[q + 1]
    <2>6. Becomes(a, aa, o, k)
      BY <2>2, <2>3, <2>4, OneOp, Zenon
    <2>7. Becomes(c, bb, o, k)
      BY <2>2, <2>3, <2>4, OneOp, Zenon
    <2> HIDE DEF a, c, aa, bb
    <2>11. /\ Over(q) => ToSet(a[k]) = ToSet(c[k])
           /\ ~Over(q) => \A g : /\ g \in ToSet(a[k]) <=> g \in ToSet(m[k]) \/ More(q, g)
                                 /\ g \in ToSet(c[k]) <=> g \in ToSet(n[k]) \/ More(q, g)
      BY <2>4, Zenon DEF a, c
    <2>8. Over(q + 1) => ToSet(aa[k]) = ToSet(bb[k])
      <3> SUFFICES ASSUME Over(q + 1), NEW g PROVE g \in ToSet(aa[k]) <=> g \in ToSet(bb[k])
        BY Zenon
      <3> QED BY <2>11, <2>5, <2>6, <2>7, Zenon DEF Becomes
    <2>9. ~Over(q + 1) => \A g : /\ g \in ToSet(aa[k]) <=> g \in ToSet(m[k]) \/ More(q + 1, g)
                                 /\ g \in ToSet(bb[k]) <=> g \in ToSet(n[k]) \/ More(q + 1, g)
      <3> SUFFICES ASSUME ~Over(q + 1), NEW g
                   PROVE  /\ g \in ToSet(aa[k]) <=> g \in ToSet(m[k]) \/ More(q + 1, g)
                          /\ g \in ToSet(bb[k]) <=> g \in ToSet(n[k]) \/ More(q + 1, g)
        BY Zenon
      <3> QED BY <2>11, <2>5, <2>6, <2>7, Zenon DEF Becomes
    <2> QED BY <2>6, <2>7, <2>8, <2>9, Zenon DEF aa, bb, Becomes
  <1> HIDE DEF T
  <1>6. N \in T
    BY <1>1, <1>4, <1>5, SetInduction, Zenon
  <1>7. N <= N
    BY <1>1
  <1>8. Step(N)
    BY <1>6, <1>7, Zenon DEF T
  <1> QED BY <1>2, <1>3, <1>8, Zenon DEF Overwrites, Adds, N, OpsBecome
\* The same of a log.
LogBecomes(m, n, mm, nn, j, k) ==
    /\ IsMeta(mm) /\ IsMeta(nn)
    /\ Replaced(j, k) => ToSet(mm[k]) = ToSet(nn[k])
    /\ ~Replaced(j, k) =>
          \A g : /\ g \in ToSet(mm[k]) <=> g \in ToSet(m[k]) \/ Added(j, k, g)
                 /\ g \in ToSet(nn[k]) <=> g \in ToSet(n[k]) \/ Added(j, k, g)

LEMMA LogEffect ==
    ASSUME NEW m, IsMeta(m), NEW n, IsMeta(n), NEW j, IsLog(j), NEW k \in MetaKeys
    PROVE  LogBecomes(m, n, Loads(m, j), Loads(n, j), j, k)
  <1> DEFINE N == Len(j)
  <1>1. N \in Nat
    BY SeqFacts, Zenon DEF IsLog, IsSeq
  <1>2. PICK f : Loading(m, j, f) /\ Loads(m, j) = f[N]
    BY <1>1, LoadingExists, Zenon
  <1>3. PICK h : Loading(n, j, h) /\ Loads(n, j) = h[N]
    BY <1>1, LoadingExists, Zenon
  <1> HIDE DEF N
  <1> DEFINE Over(q) == \E i \in 1..q : Overwrites(j[i].ops, k)
             More(q, g) == \E i \in 1..q : Adds(j[i].ops, k, g)
             Step(q) == /\ IsMeta(f[q]) /\ IsMeta(h[q])
                        /\ Over(q) => ToSet(f[q][k]) = ToSet(h[q][k])
                        /\ ~Over(q) => \A g : /\ g \in ToSet(f[q][k]) <=> g \in ToSet(m[k]) \/ More(q, g)
                                              /\ g \in ToSet(h[q][k]) <=> g \in ToSet(n[k]) \/ More(q, g)
             T == {q \in Nat : q <= N => Step(q)}
  <1>4. 0 \in T
    <2>1. f[0] = m /\ h[0] = n
      BY <1>1, <1>2, <1>3 DEF Loading, N
    <2>2. ~Over(0) /\ \A g : ~More(0, g)
      OBVIOUS
    <2> HIDE DEF Over, More
    <2> QED BY <2>1, <2>2, Zenon
  <1>5. ASSUME NEW q \in Nat, q \in T PROVE q + 1 \in T
    <2> SUFFICES ASSUME q + 1 <= N PROVE Step(q + 1)
      OBVIOUS
    <2> DEFINE o == j[q + 1].ops
    <2>1. q <= N /\ q + 1 \in 0..N /\ q + 1 \in 1..N /\ q + 1 # 0 /\ (q + 1) - 1 = q
      BY <1>1
    <2>2. f[q + 1] = ApplyOps(f[q], o) /\ h[q + 1] = ApplyOps(h[q], o)
      BY <2>1, <1>2, <1>3, Zenon DEF Loading, N
    <2>3. IsOps(o)
      BY <2>1, Zenon DEF IsLog, N
    <2>4. Step(q)
      BY <1>5, <2>1, Zenon
    <2>5. /\ Over(q + 1) <=> Over(q) \/ Overwrites(o, k)
          /\ \A g : More(q + 1, g) <=> More(q, g) \/ Adds(o, k, g)
      <3>1. \A i : i \in 1..(q + 1) <=> i \in 1..q \/ i = q + 1
        OBVIOUS
      <3> QED BY <3>1, Zenon
    <2> HIDE DEF o, Over, More
    <2> DEFINE a == f[q] c == h[q] aa == f[q + 1] bb == h[q + 1]
    <2>6. OpsBecome(a, c, aa, bb, o, k)
      BY <2>2, <2>3, <2>4, OpsEffect, Zenon
    <2> HIDE DEF a, c, aa, bb
    <2>7. /\ Over(q) => ToSet(a[k]) = ToSet(c[k])
          /\ ~Over(q) => \A g : /\ g \in ToSet(a[k]) <=> g \in ToSet(m[k]) \/ More(q, g)
                                /\ g \in ToSet(c[k]) <=> g \in ToSet(n[k]) \/ More(q, g)
      BY <2>4, Zenon DEF a, c
    <2>8. Over(q + 1) => ToSet(aa[k]) = ToSet(bb[k])
      <3> SUFFICES ASSUME Over(q + 1), NEW g PROVE g \in ToSet(aa[k]) <=> g \in ToSet(bb[k])
        BY Zenon
      <3> QED BY <2>5, <2>6, <2>7, Zenon DEF OpsBecome
    <2>9. ~Over(q + 1) => \A g : /\ g \in ToSet(aa[k]) <=> g \in ToSet(m[k]) \/ More(q + 1, g)
                                 /\ g \in ToSet(bb[k]) <=> g \in ToSet(n[k]) \/ More(q + 1, g)
      <3> SUFFICES ASSUME ~Over(q + 1), NEW g
                   PROVE  /\ g \in ToSet(aa[k]) <=> g \in ToSet(m[k]) \/ More(q + 1, g)
                          /\ g \in ToSet(bb[k]) <=> g \in ToSet(n[k]) \/ More(q + 1, g)
        BY Zenon
      <3> QED BY <2>5, <2>6, <2>7, Zenon DEF OpsBecome
    <2> QED BY <2>6, <2>8, <2>9, Zenon DEF aa, bb, OpsBecome
  <1> HIDE DEF T
  <1>6. N \in T
    BY <1>1, <1>4, <1>5, SetInduction, Zenon
  <1>7. N <= N
    BY <1>1
  <1>8. Step(N)
    BY <1>6, <1>7, Zenon DEF T
  <1> QED BY <1>2, <1>3, <1>8, Zenon DEF Replaced, Added, N, LogBecomes
\* m and n differ only in versions that the log will write or add anyway.
Near(m, n, j) ==
    \A k \in MetaKeys :
       Replaced(j, k)
       \/ \A g : Added(j, k, g) \/ (g \in ToSet(m[k]) <=> g \in ToSet(n[k]))

\* The same transaction on states with the same versions.
LEMMA OpsSame ==
    ASSUME NEW m, IsMeta(m), NEW n, IsMeta(n), NEW ops, IsOps(ops), SameVersions(m, n)
    PROVE  SameVersions(ApplyOps(m, ops), ApplyOps(n, ops))
  <1> SUFFICES ASSUME NEW k \in MetaKeys
               PROVE  ToSet(ApplyOps(m, ops)[k]) = ToSet(ApplyOps(n, ops)[k])
    BY Zenon DEF SameVersions
  <1>1. ToSet(m[k]) = ToSet(n[k])
    BY Zenon DEF SameVersions
  <1>2. OpsBecome(m, n, ApplyOps(m, ops), ApplyOps(n, ops), ops, k)
    BY OpsEffect, Zenon
  <1> QED BY <1>1, <1>2, Zenon DEF OpsBecome

LEMMA OpsMeta ==
    ASSUME NEW m, IsMeta(m), NEW ops, IsOps(ops) PROVE IsMeta(ApplyOps(m, ops))
  <1>1. "object" \in MetaKeys
    BY Zenon DEF MetaKeys
  <1> QED BY <1>1, OpsEffect, Zenon DEF OpsBecome

LEMMA LoadsMeta ==
    ASSUME NEW m, IsMeta(m), NEW j, IsLog(j) PROVE IsMeta(Loads(m, j))
  <1>1. "object" \in MetaKeys
    BY Zenon DEF MetaKeys
  <1> QED BY <1>1, LogEffect, Zenon DEF LogBecomes
\* A log with one line more.
LEMMA Grows ==
    ASSUME NEW j, IsLog(j), NEW l, IsOps(l.ops)
    PROVE  /\ IsLog(Append(j, l)) /\ Append(j, l) # <<>>
           /\ Len(j) \in Nat /\ Len(Append(j, l)) = Len(j) + 1
           /\ \A i \in 1..Len(j) : Append(j, l)[i] = j[i]
           /\ Append(j, l)[Len(j) + 1] = l
           /\ Front(Append(j, l)) = j
           /\ \A k : Replaced(Append(j, l), k) <=> Replaced(j, k) \/ Overwrites(l.ops, k)
           /\ \A k, g : Added(Append(j, l), k, g) <=> Added(j, k, g) \/ Adds(l.ops, k, g)
  <1> DEFINE S == ToSet(j) \cup {l}
  <1>1. j \in Seq(S) /\ l \in S
    BY DEF IsLog, IsSeq
  <1> HIDE DEF S
  <1> DEFINE a == Append(j, l)
  <1>2. /\ a \in Seq(S) /\ a # <<>> /\ Len(j) \in Nat /\ Len(a) = Len(j) + 1
        /\ \A i \in 1..Len(j) : a[i] = j[i]
        /\ a[Len(j) + 1] = l
    BY <1>1
  <1>3. SubSeq(a, 1, Len(j)) = j
    BY <1>1, <1>2
  <1> HIDE DEF a
  <1>4. Front(a) = j
    BY <1>2, <1>3 DEF Front
  <1>5. \A i : i \in 1..Len(a) <=> i \in 1..Len(j) \/ i = Len(j) + 1
    BY <1>2
  <1>6. IsLog(a)
    BY <1>2, <1>5, SeqFacts, Zenon DEF IsLog
  <1>7. \A k : Replaced(a, k) <=> Replaced(j, k) \/ Overwrites(l.ops, k)
    BY <1>2, <1>5, Zenon DEF Replaced
  <1>8. \A k, g : Added(a, k, g) <=> Added(j, k, g) \/ Adds(l.ops, k, g)
    BY <1>2, <1>5, Zenon DEF Added
  <1> QED BY <1>2, <1>4, <1>6, <1>7, <1>8, Zenon DEF a

LEMMA LoadsGrow ==
    ASSUME NEW m, NEW j, IsLog(j), NEW l
    PROVE  Loads(m, Append(j, l)) = ApplyOps(Loads(m, j), l.ops)
  <1> DEFINE S == ToSet(j) \cup {l}
  <1>1. j \in Seq(S) /\ l \in S
    BY DEF IsLog, IsSeq
  <1> HIDE DEF S
  <1> QED BY <1>1, LoadsOneMore, Zenon

\* Replaying the log over near states gives the same versions.
LEMMA NearLoads ==
    ASSUME NEW m, IsMeta(m), NEW n, IsMeta(n), NEW j, IsLog(j), Near(m, n, j)
    PROVE  SameVersions(Loads(m, j), Loads(n, j))
  <1> SUFFICES ASSUME NEW k \in MetaKeys
               PROVE  ToSet(Loads(m, j)[k]) = ToSet(Loads(n, j)[k])
    BY Zenon DEF SameVersions
  <1>1. Replaced(j, k) \/ \A g : Added(j, k, g) \/ (g \in ToSet(m[k]) <=> g \in ToSet(n[k]))
    BY Zenon DEF Near
  <1>2. LogBecomes(m, n, Loads(m, j), Loads(n, j), j, k)
    BY LogEffect, Zenon
  <1> DEFINE mm == Loads(m, j)[k] nn == Loads(n, j)[k]
  <1>3. CASE Replaced(j, k)
    BY <1>2, <1>3, Zenon DEF LogBecomes
  <1>4. CASE ~Replaced(j, k)
    <2> SUFFICES ASSUME NEW g PROVE g \in ToSet(mm) <=> g \in ToSet(nn)
      BY Zenon
    <2> QED BY <1>1, <1>2, <1>4, Zenon DEF LogBecomes
  <1> QED BY <1>3, <1>4, Zenon

\* A state is near to itself, and to what the log makes of it.
LEMMA NearSelf == ASSUME NEW m, NEW j PROVE Near(m, m, j)
  BY Zenon DEF Near

LEMMA NearLoaded ==
    ASSUME NEW m, IsMeta(m), NEW j, IsLog(j) PROVE Near(m, Loads(m, j), j)
  <1> SUFFICES ASSUME NEW k \in MetaKeys
               PROVE  Replaced(j, k) \/ \A g : Added(j, k, g) \/ (g \in ToSet(m[k]) <=> g \in ToSet(Loads(m, j)[k]))
    BY Zenon DEF Near
  <1>1. LogBecomes(m, m, Loads(m, j), Loads(m, j), j, k)
    BY LogEffect, Zenon
  <1> QED BY <1>1, Zenon DEF LogBecomes

\* A transaction written to the log, whether or not it is committed.
LEMMA NearGrows ==
    ASSUME NEW m, IsMeta(m), NEW n, IsMeta(n), NEW j, IsLog(j), Near(m, n, j), NEW l, IsOps(l.ops)
    PROVE  /\ Near(m, n, Append(j, l))
           /\ Near(m, ApplyOps(n, l.ops), Append(j, l))
  <1> DEFINE a == Append(j, l) nn == ApplyOps(n, l.ops)
  <1>1. /\ \A k : Replaced(a, k) <=> Replaced(j, k) \/ Overwrites(l.ops, k)
        /\ \A k, g : Added(a, k, g) <=> Added(j, k, g) \/ Adds(l.ops, k, g)
    BY Grows, Zenon
  <1>2. \A k \in MetaKeys : OpsBecome(n, n, nn, nn, l.ops, k)
    BY OpsEffect, Zenon
  <1> HIDE DEF a, nn
  <1>3. Near(m, n, a)
    BY <1>1, Zenon DEF Near
  <1>4. Near(m, nn, a)
    <2> SUFFICES ASSUME NEW k \in MetaKeys, ~Replaced(a, k), NEW g, ~Added(a, k, g)
                 PROVE  g \in ToSet(m[k]) <=> g \in ToSet(nn[k])
      BY Zenon DEF Near
    <2>1. ~Replaced(j, k) /\ ~Overwrites(l.ops, k) /\ ~Added(j, k, g) /\ ~Adds(l.ops, k, g)
      BY <1>1, Zenon
    <2>2. g \in ToSet(m[k]) <=> g \in ToSet(n[k])
      BY <2>1, Zenon DEF Near
    <2>3. g \in ToSet(nn[k]) <=> g \in ToSet(n[k])
      BY <2>1, <1>2, Zenon DEF OpsBecome
    <2> QED BY <2>2, <2>3, Zenon
  <1> QED BY <1>3, <1>4, Zenon DEF a, nn
------------------------------------------------------------------------------
AllWhole(j) == \A i \in 1..Len(j) : j[i].whole
\* No line was written after a torn one.
Tidy(j) == \A i \in 1..Len(j) - 1 : j[i].whole

\* What replay reads is a log of whole lines; of a log of whole lines, with or
\* without a torn one at its end, it is that log.
LEMMA ReplayReads ==
    ASSUME NEW j, IsLog(j)
    PROVE  /\ IsLog(WholePart(j)) /\ AllWhole(WholePart(j))
           /\ AllWhole(j) => WholePart(j) = j
  <1> DEFINE torn == {i \in DOMAIN j : ~j[i].whole}
             n == IF torn = {} THEN Len(j) ELSE Min(torn) - 1
  <1>1. IsSeq(j) /\ j \in Seq(ToSet(j)) /\ DOMAIN j = 1..Len(j) /\ Len(j) \in Nat
    BY SeqFacts, Zenon DEF IsLog, IsSeq
  <1>2. torn \in SUBSET Nat
    BY <1>1
  <1>3. torn # {} => Min(torn) \in torn /\ \A i \in torn : Min(torn) <= i
    BY <1>2, Least, Zenon DEF Min
  <1>4. n \in 0..Len(j) /\ \A i \in 1..n : j[i].whole
    <2>1. CASE torn = {}
      BY <2>1, <1>1
    <2>2. CASE torn # {}
      <3>1. Min(torn) \in 1..Len(j) /\ n = Min(torn) - 1
        BY <2>2, <1>1, <1>3, Zenon
      <3>2. ASSUME NEW i \in 1..n PROVE i \in 1..Len(j) /\ ~(Min(torn) <= i)
        BY <3>1, <1>1
      <3>3. \A i \in 1..n : j[i].whole
        BY <3>2, <1>1, <1>3, <2>2, Zenon
      <3> QED BY <3>1, <3>3, <1>1
    <2> QED BY <2>1, <2>2, Zenon
  <1>5. WholePart(j) = SubSeq(j, 1, n)
    BY Zenon DEF WholePart
  <1>6. AllWhole(j) => n = Len(j)
    BY <1>1, Zenon DEF AllWhole
  <1> HIDE DEF n
  <1> DEFINE w == SubSeq(j, 1, n)
  <1>7. w \in Seq(ToSet(j)) /\ Len(w) = n /\ \A i \in 1..n : w[i] = j[i]
    BY <1>1, <1>4
  <1>8. n = Len(j) => w = j
    BY <1>1
  <1> HIDE DEF w
  <1>9. IsLog(w) /\ AllWhole(w)
    <2>1. IsSeq(w)
      BY <1>7, SeqFacts, Zenon
    <2>2. \A i \in 1..n : i \in 1..Len(j)
      BY <1>4, <1>1
    <2> QED BY <2>1, <2>2, <1>4, <1>7, Zenon DEF IsLog, AllWhole
  <1> QED BY <1>5, <1>6, <1>8, <1>9, Zenon DEF w

LEMMA ReplayGrows ==
    ASSUME NEW j, IsLog(j), NEW l, IsOps(l.ops)
    PROVE  /\ Tidy(Append(j, l)) <=> AllWhole(j)
           /\ AllWhole(j) /\ l.whole => WholePart(Append(j, l)) = Append(j, l)
           /\ AllWhole(j) /\ ~l.whole => WholePart(Append(j, l)) = j
  <1> DEFINE a == Append(j, l)
  <1>1. /\ IsLog(a) /\ Len(j) \in Nat /\ Len(a) = Len(j) + 1 /\ Front(a) = j
        /\ \A i \in 1..Len(j) : a[i] = j[i]
        /\ a[Len(j) + 1] = l
    BY Grows, Zenon
  <1> HIDE DEF a
  <1>2. Len(a) - 1 = Len(j) /\ DOMAIN a = 1..(Len(j) + 1)
    BY <1>1, SeqFacts DEF IsLog, IsSeq
  <1>3. Tidy(a) <=> AllWhole(j)
    BY <1>1, <1>2, Zenon DEF Tidy, AllWhole
  <1>4. AllWhole(j) /\ l.whole => AllWhole(a)
    <2>1. \A i : i \in 1..Len(a) => i \in 1..Len(j) \/ i = Len(j) + 1
      BY <1>1
    <2> QED BY <2>1, <1>1, Zenon DEF AllWhole
  <1>5. AllWhole(j) /\ ~l.whole => WholePart(a) = j
    <2> SUFFICES ASSUME AllWhole(j), ~l.whole PROVE WholePart(a) = j
      BY Zenon
    <2> DEFINE torn == {i \in DOMAIN a : ~a[i].whole}
    <2>1. torn = {Len(j) + 1}
      BY <1>1, <1>2 DEF AllWhole
    <2>2. Min(torn) = Len(j) + 1
      <3>1. \A x \in {Len(j) + 1} : x = Len(j) + 1
        BY Zenon
      <3> QED BY <2>1, <1>1 DEF Min
    <2>3. WholePart(a) = SubSeq(a, 1, Len(a) - 1)
      BY <2>1, <2>2, <1>1, Zenon DEF WholePart
    <2> QED BY <2>3, <1>1, Zenon DEF Front
  <1> QED BY <1>1, <1>3, <1>4, <1>5, ReplayReads, Zenon DEF a
\* The operations of transactions.
LEMMA ShortOps ==
    /\ IsSeq(<<>>) /\ IsOps(<<>>)
    /\ \A x : IsSeq(<<x>>)
    /\ \A x : IsOp(x) => IsOps(<<x>>)
    /\ \A x, y : IsOp(x) /\ IsOp(y) => IsOps(<<x, y>>)
  <1>1. IsSeq(<<>>) /\ \A x : IsSeq(<<x>>)
    BY DEF IsSeq, ToSet
  <1>2. \A x, y : IsSeq(<<x, y>>)
    BY DEF IsSeq, ToSet
  <1> QED BY <1>1, <1>2 DEF IsOps

LEMMA OpsJoined ==
    ASSUME NEW s, IsOps(s), NEW t, IsOps(t) PROVE IsOps(s \o t)
  <1> DEFINE S == ToSet(s) \cup ToSet(t) u == s \o t
  <1>1. s \in Seq(S) /\ t \in Seq(S)
    BY DEF IsOps, IsSeq
  <1> HIDE DEF S
  <1>2. /\ Len(s) \in Nat /\ Len(t) \in Nat /\ Len(u) = Len(s) + Len(t)
        /\ \A i \in 1..(Len(s) + Len(t)) : u[i] = IF i <= Len(s) THEN s[i] ELSE t[i - Len(s)]
    BY <1>1
  <1>3. IsSeq(u)
    BY Joined, Zenon DEF IsOps
  <1> HIDE DEF u
  <1>4. ASSUME NEW i \in 1..Len(u) PROVE IsOp(u[i])
    <2>1. (i <= Len(s) /\ i \in 1..Len(s)) \/ (~(i <= Len(s)) /\ i - Len(s) \in 1..Len(t))
      BY <1>2
    <2> QED BY <2>1, <1>2, Zenon DEF IsOps
  <1> QED BY <1>3, <1>4, Zenon DEF IsOps, u

LEMMA InOrderSeq == ASSUME NEW s, IsSeq(s), NEW gen PROVE IsSeq(InOrder(s, gen))
  <1> DEFINE kept == {i \in DOMAIN s : s[i] # gen}
  <1>1. DOMAIN s = 1..Len(s) /\ Len(s) \in Nat
    BY SeqFacts, Zenon DEF IsSeq
  <1>2. IsFiniteSet(kept)
    <2>1. IsFiniteSet(1..Len(s)) /\ kept \subseteq 1..Len(s)
      BY <1>1, FS_Interval
    <2> QED BY <2>1, FS_Subset, Zenon
  <1>3. Cardinality(kept) \in Nat
    BY <1>2, FS_CardinalityType, Zenon
  <1> DEFINE nth(n) == CHOOSE g \in ToSet(s) :
                          /\ Cardinality({i \in kept : s[i] < g}) < n
                          /\ Cardinality({i \in kept : s[i] <= g}) >= n
             t == [n \in 1..Cardinality(kept) |-> nth(n)]
  <1>4. InOrder(s, gen) = t
    BY Zenon DEF InOrder
  <1> HIDE DEF nth, kept
  <1>5. IsSeq(t)
    BY <1>3, SMTT(30) DEF IsSeq, ToSet
  <1> QED BY <1>4, <1>5, Zenon

LEMMA TransactionsTyped ==
    ASSUME NEW m, IsMeta(m), NEW ops \in Transactions(m) PROVE IsOps(ops)
  <1> USE ShortOps
  <1>1. {"object", "noncurrent"} \subseteq MetaKeys
    BY Zenon DEF MetaKeys
  <1>2. \A v : IsSeq(v) => /\ IsOp(PutOp("object", v)) /\ IsOp(PutOp("noncurrent", v))
                           /\ IsOp(AppendOp("noncurrent", v))
    BY <1>1, Zenon DEF IsOp, PutOp, AppendOp
  <1>3. IsOp(DelOp("object")) /\ IsOp(DelOp("noncurrent"))
    BY <1>1, Zenon DEF IsOp, DelOp
  <1>4. IsOps(RetireLive(m))
    <2>1. IsSeq(m["object"])
      BY <1>1, Zenon DEF IsMeta
    <2> QED BY <1>2, <1>3, <2>1, Zenon DEF RetireLive
  <1>5. \A gen : IsOps(DeleteVersion(m, gen))
    <2>1. \A gen : IsSeq(InOrder(m["noncurrent"], gen))
      BY <1>1, InOrderSeq, Zenon DEF IsMeta
    <2> QED BY <1>2, <1>3, <2>1, Zenon DEF DeleteVersion
  <1>6. IsOps(RetireLive(m) \o <<PutOp("object", <<txs + 1>>)>>)
    BY <1>2, <1>4, OpsJoined, Zenon
  <1> QED BY <1>4, <1>5, <1>6, Zenon DEF Transactions

------------------------------------------------------------------------------
\* The log without the line of a transaction that is not acknowledged yet.
SettledLog == IF update.at = "written" THEN Front(journal) ELSE journal

(***************************************************************************)
(* What Update keeps true.  NothingLost says nothing of the memory, from   *)
(* which compaction makes the next snapshot: beside it, memory is one of   *)
(* the states callers may find, and snapshot and memory differ only in     *)
(* versions the log writes or adds, so that the log replays onto either.   *)
(***************************************************************************)
LogInv ==
    /\ IsMeta(meta) /\ IsMeta(snapshot) /\ IsLog(journal)
    /\ \A p \in promised : IsMeta(p)
    /\ update.at \in {"idle", "written", "compact", "rename", "truncate", "down"}
    /\ update.at = "written" =>
          /\ IsOps(update.ops) /\ IsLog(Front(journal))
          /\ journal = Append(Front(journal), Line(update.ops, TRUE))
    /\ update.at = "truncate" => snapshot = meta
    /\ update.at # "down" => meta \in promised
    /\ Tidy(SettledLog) => \E p \in promised : SameVersions(Replay(snapshot, SettledLog), p)
    /\ Tidy(SettledLog) /\ update.at # "down" => Near(snapshot, meta, WholePart(SettledLog))

LEMMA LogInitially == StorageLogInit => LogInv
  <1> SUFFICES ASSUME StorageLogInit PROVE LogInv
    BY Zenon
  <1> USE DEF StorageLogInit
  <1>1. IsMeta(Empty) /\ IsLog(<<>>) /\ AllWhole(<<>>)
    BY ShortOps DEF IsMeta, Empty, MetaKeys, IsLog, AllWhole
  <1>2. update.at = "idle" /\ SettledLog = <<>>
    BY Zenon DEF At0, SettledLog
  <1>3. Replay(snapshot, <<>>) = Empty
    BY <1>1, ReplayReads, LoadsNothing, Zenon DEF Replay
  <1>4. SameVersions(Empty, Empty)
    BY Zenon DEF SameVersions
  <1>5. Near(snapshot, meta, WholePart(<<>>))
    BY NearSelf, Zenon
  <1> QED BY <1>1, <1>2, <1>3, <1>4, <1>5, Zenon DEF LogInv
\* A line at the end of a log of whole lines: what it adds is replayed, unless
\* it is torn.
IsWhole(l) == l.whole

LEMMA OneLine ==
    ASSUME NEW j, IsLog(j), AllWhole(j), NEW l, IsOps(l.ops)
    PROVE  /\ Tidy(j) /\ WholePart(j) = j
           /\ IsWhole(l) => WholePart(Append(j, l)) = Append(j, l)
           /\ ~IsWhole(l) => WholePart(Append(j, l)) = j
           /\ \A m : Replay(m, j) = Loads(m, j)
           /\ IsWhole(l) => \A m : Replay(m, Append(j, l)) = ApplyOps(Replay(m, j), l.ops)
           /\ ~IsWhole(l) => \A m : Replay(m, Append(j, l)) = Replay(m, j)
  <1> DEFINE a == Append(j, l)
  <1>2. Tidy(j)
    <2>1. \A i \in 1..Len(j) - 1 : i \in 1..Len(j)
      BY SeqFacts DEF IsLog, IsSeq
    <2> QED BY <2>1, Zenon DEF Tidy, AllWhole
  <1>3. WholePart(j) = j /\ \A m : Replay(m, j) = Loads(m, j)
    BY ReplayReads, Zenon DEF Replay
  <1>4. \A m : Loads(m, a) = ApplyOps(Loads(m, j), l.ops)
    BY LoadsGrow, Zenon
  <1>5. /\ IsWhole(l) => WholePart(a) = a
        /\ ~IsWhole(l) => WholePart(a) = j
    BY ReplayGrows, Zenon DEF IsWhole
  <1> HIDE DEF a
  <1>6. IsWhole(l) => \A m : Replay(m, a) = ApplyOps(Replay(m, j), l.ops)
    BY <1>3, <1>4, <1>5, Zenon DEF Replay
  <1>7. ~IsWhole(l) => \A m : Replay(m, a) = Replay(m, j)
    BY <1>3, <1>5, Zenon DEF Replay
  <1> QED BY <1>2, <1>3, <1>5, <1>6, <1>7, Zenon DEF a

LEMMA Lines ==
    /\ \A ops, w : Line(ops, w).ops = ops
    /\ \A ops : IsWhole(Line(ops, TRUE)) /\ ~IsWhole(Line(ops, FALSE))
  BY Zenon DEF Line, IsWhole

LEMMA TidyIsWhole ==
    ASSUME NEW j, IsLog(j), NEW ops, IsOps(ops), NEW w
    PROVE  /\ IsLog(Append(j, Line(ops, w))) /\ Front(Append(j, Line(ops, w))) = j
           /\ Tidy(Append(j, Line(ops, w))) <=> AllWhole(j)
  <1> DEFINE l == Line(ops, w)
  <1>1. l.ops = ops
    BY Zenon DEF Line
  <1> HIDE DEF l
  <1> QED BY <1>1, Grows, ReplayGrows, Zenon DEF l

\* One lemma for each step of Update and of its ends.
LEMMA WriteRecordKeeps == LogInv /\ WriteRecord => LogInv'
  <1> SUFFICES ASSUME LogInv, WriteRecord PROVE LogInv'
    BY Zenon
  <1>1. PICK ops \in Transactions(meta) : /\ journal' = Append(journal, Line(ops, TRUE))
                                          /\ update' = [at |-> "written", ops |-> ops]
    BY Zenon DEF WriteRecord
  <1>2. update.at = "idle" /\ meta' = meta /\ snapshot' = snapshot /\ promised' = promised
    BY Zenon DEF WriteRecord
  <1>3. update'.at = "written" /\ update'.ops = ops
    BY <1>1, Zenon
  <1>4. IsOps(ops) /\ IsLog(journal)
    BY TransactionsTyped, Zenon DEF LogInv
  <1>5. IsLog(journal') /\ Front(journal') = journal
    BY <1>1, <1>4, TidyIsWhole, Zenon
  <1>6. SettledLog = journal /\ SettledLog' = journal
    BY <1>2, <1>3, <1>5, Zenon DEF SettledLog
  <1>7. journal' = Append(Front(journal'), Line(update'.ops, TRUE))
    BY <1>1, <1>3, <1>5, Zenon
  <1> QED BY <1>2, <1>3, <1>4, <1>5, <1>6, <1>7, Zenon DEF LogInv, Replay

LEMMA WriteFailsKeeps == LogInv /\ WriteFails => LogInv'
  <1> SUFFICES ASSUME LogInv, WriteFails PROVE LogInv'
    BY Zenon
  <1>1. PICK ops \in Transactions(meta) : journal' \in {journal, Append(journal, Line(ops, FALSE))}
    BY Zenon DEF WriteFails
  <1>2. /\ update.at = "idle" /\ update' = update /\ meta' = meta /\ snapshot' = snapshot
        /\ promised' = promised
    BY Zenon DEF WriteFails
  <1>3. IsOps(ops) /\ IsLog(journal)
    BY TransactionsTyped, Zenon DEF LogInv
  <1>4. SettledLog = journal /\ SettledLog' = journal'
    BY <1>2, Zenon DEF SettledLog
  <1>5. IsLog(journal')
    BY <1>1, <1>3, TidyIsWhole, Zenon
  <1>6. Tidy(journal') => /\ Tidy(journal) /\ Replay(snapshot, journal') = Replay(snapshot, journal)
                          /\ WholePart(journal') = WholePart(journal)
    <2>1. CASE journal' = journal
      BY <2>1, Zenon
    <2>2. CASE journal' = Append(journal, Line(ops, FALSE))
      <3>1. Tidy(journal') <=> AllWhole(journal)
        BY <2>2, <1>3, TidyIsWhole, Zenon
      <3> DEFINE l == Line(ops, FALSE)
      <3>2. l.ops = ops /\ ~IsWhole(l)
        BY Lines, Zenon
      <3> HIDE DEF l
      <3>3. journal' = Append(journal, l)
        BY <2>2, Zenon DEF l
      <3> QED BY <3>1, <3>2, <3>3, <1>3, OneLine, ReplayReads, Zenon
    <2> QED BY <1>1, <2>1, <2>2, Zenon
  <1> QED BY <1>2, <1>4, <1>5, <1>6, Zenon DEF LogInv

LEMMA SyncRecordKeeps == LogInv /\ SyncRecord => LogInv'
  <1> SUFFICES ASSUME LogInv, SyncRecord PROVE LogInv'
    BY Zenon
  <1> DEFINE j == Front(journal) ops == update.ops
  <1>1. /\ update.at = "written" /\ IsOps(ops) /\ IsLog(j) /\ journal = Append(j, Line(ops, TRUE))
        /\ SettledLog = j
    BY Zenon DEF SyncRecord, LogInv, SettledLog
  <1>2. /\ meta' = ApplyOps(meta, ops) /\ snapshot' = snapshot /\ journal' = journal
        /\ promised' = {ApplyOps(p, ops) : p \in promised}
    BY Zenon DEF SyncRecord
  <1>3. update'.at \in {"idle", "compact"}
    BY DEF SyncRecord, At0
  <1>4. SettledLog' = journal
    BY <1>2, <1>3, Zenon DEF SettledLog
  <1> HIDE DEF j, ops
  <1>5. IsMeta(meta') /\ meta' \in promised' /\ \A p \in promised' : IsMeta(p)
    BY <1>1, <1>2, OpsMeta, Zenon DEF LogInv
  <1>6. ASSUME Tidy(journal)
        PROVE  /\ \E p \in promised' : SameVersions(Replay(snapshot, journal), p)
               /\ Near(snapshot, meta', WholePart(journal))
    <2>1. AllWhole(j)
      BY <1>1, <1>6, TidyIsWhole, Zenon
    <2>2. /\ Tidy(j) /\ WholePart(j) = j /\ WholePart(journal) = journal
          /\ Replay(snapshot, j) = Loads(snapshot, j)
          /\ Replay(snapshot, journal) = ApplyOps(Replay(snapshot, j), ops)
      <3> DEFINE l == Line(ops, TRUE)
      <3>1. l.ops = ops /\ IsWhole(l)
        BY Lines, Zenon
      <3> HIDE DEF l
      <3>2. journal = Append(j, l)
        BY <1>1, Zenon DEF l
      <3> QED BY <1>1, <2>1, <3>1, <3>2, OneLine, ZenonT(30)
    <2>3. PICK p \in promised : SameVersions(Replay(snapshot, j), p)
      BY <1>1, <2>2, Zenon DEF LogInv
    <2>4. IsMeta(Replay(snapshot, j)) /\ IsMeta(p)
      BY <1>1, <2>2, LoadsMeta, Zenon DEF LogInv
    <2>5. SameVersions(Replay(snapshot, journal), ApplyOps(p, ops))
      BY <1>1, <2>2, <2>3, <2>4, OpsSame, Zenon
    <2>6. Near(snapshot, meta, j)
      BY <1>1, <2>2, Zenon DEF LogInv
    <2>7. Near(snapshot, meta', journal)
      <3> DEFINE l == Line(ops, TRUE)
      <3>1. l.ops = ops
        BY Zenon DEF Line
      <3> HIDE DEF l
      <3>2. IsMeta(snapshot) /\ IsMeta(meta)
        BY Zenon DEF LogInv
      <3> QED BY <3>1, <3>2, <1>1, <1>2, <2>6, NearGrows, Zenon DEF l
    <2> QED BY <1>2, <2>2, <2>5, <2>7, Zenon
  <1> QED BY <1>2, <1>3, <1>4, <1>5, <1>6, Zenon DEF LogInv
\* A line that was written and whose sync has not returned: the log with it,
\* whole, torn or gone, replays to a state callers may find.
LEMMA WrittenFinds ==
    ASSUME LogInv, update.at = "written", NEW w \in BOOLEAN, NEW a,
           a = Append(Front(journal), Line(update.ops, w)), Tidy(a)
    PROVE  /\ \E p \in Findable : SameVersions(Replay(snapshot, a), p)
           /\ Near(snapshot, meta, WholePart(a))
  <1> DEFINE j == Front(journal) ops == update.ops
  <1>1. IsOps(ops) /\ IsLog(j) /\ a = Append(j, Line(ops, w)) /\ SettledLog = j
    BY Zenon DEF LogInv, SettledLog
  <1>2. Findable = promised \cup {ApplyOps(p, ops) : p \in promised}
    BY Zenon DEF Findable
  <1> HIDE DEF j, ops
  <1>3. AllWhole(j)
    BY <1>1, TidyIsWhole, Zenon
  <1> DEFINE l == Line(ops, w)
  <1>4. l.ops = ops /\ a = Append(j, l)
    BY <1>1, Lines, Zenon
  <1> HIDE DEF l
  <1>5. /\ Tidy(j) /\ WholePart(j) = j /\ Replay(snapshot, j) = Loads(snapshot, j)
        /\ IsWhole(l) => WholePart(a) = a /\ Replay(snapshot, a) = ApplyOps(Replay(snapshot, j), ops)
        /\ ~IsWhole(l) => WholePart(a) = j /\ Replay(snapshot, a) = Replay(snapshot, j)
    BY <1>1, <1>3, <1>4, OneLine
  <1>6. PICK p \in promised : SameVersions(Replay(snapshot, j), p)
    BY <1>1, <1>5, Zenon DEF LogInv
  <1>7. Near(snapshot, meta, j)
    BY <1>1, <1>5, Zenon DEF LogInv
  <1>8. IsMeta(snapshot) /\ IsMeta(meta) /\ IsMeta(p)
    BY Zenon DEF LogInv
  <1>9. CASE IsWhole(l)
    <2>1. SameVersions(Replay(snapshot, a), ApplyOps(p, ops))
      BY <1>1, <1>5, <1>6, <1>8, <1>9, LoadsMeta, OpsSame, Zenon
    <2>2. Near(snapshot, meta, a)
      BY <1>1, <1>4, <1>7, <1>8, NearGrows, Zenon
    <2> QED BY <1>2, <1>5, <1>9, <2>1, <2>2, Zenon
  <1>10. CASE ~IsWhole(l)
    BY <1>2, <1>5, <1>6, <1>7, <1>10, Zenon
  <1> QED BY <1>9, <1>10, Zenon

\* The states callers may find are of the right shape, and hold memory.
LEMMA FindableMetas ==
    LogInv => /\ \A p \in Findable : IsMeta(p)
              /\ promised \subseteq Findable
  <1> SUFFICES ASSUME LogInv PROVE /\ \A p \in Findable : IsMeta(p)
                                   /\ promised \subseteq Findable
    BY Zenon
  <1>1. CASE update.at = "written"
    <2>1. Findable = promised \cup {ApplyOps(p, update.ops) : p \in promised}
      BY <1>1, Zenon DEF Findable
    <2>2. \A p \in promised : IsMeta(p) /\ IsMeta(ApplyOps(p, update.ops))
      BY <1>1, OpsMeta, Zenon DEF LogInv
    <2> QED BY <2>1, <2>2, Zenon
  <1>2. CASE update.at # "written"
    BY <1>2, Zenon DEF Findable, LogInv
  <1> QED BY <1>1, <1>2, Zenon

\* Changing how much of the last line is there.
LEMMA LastReplaced ==
    ASSUME NEW S, NEW j \in Seq(S), NEW l \in S, NEW n \in S
    PROVE  [Append(j, l) EXCEPT ![Len(Append(j, l))] = n] = Append(j, n)
  <1> DEFINE a == [Append(j, l) EXCEPT ![Len(Append(j, l))] = n] c == Append(j, n)
  <1>1. a \in Seq(S) /\ Len(a) = Len(j) + 1 /\ c \in Seq(S) /\ Len(c) = Len(j) + 1
    OBVIOUS
  <1>2. ASSUME NEW i \in 1..Len(j) + 1 PROVE a[i] = c[i]
    <2>1. Len(j) \in Nat /\ Len(Append(j, l)) = Len(j) + 1 /\ DOMAIN Append(j, l) = 1..Len(j) + 1
      OBVIOUS
    <2>2. CASE i = Len(j) + 1
      BY <2>1, <2>2
    <2>3. CASE i \in 1..Len(j)
      <3>1. Append(j, l)[i] = j[i] /\ Append(j, n)[i] = j[i] /\ i # Len(j) + 1
        BY <2>1, <2>3
      <3>2. a[i] = Append(j, l)[i]
        BY <2>1, <3>1, Zenon
      <3> QED BY <3>1, <3>2, Zenon
    <2> QED BY <2>1, <2>2, <2>3
  <1> HIDE DEF a, c
  <1>3. a = c
    BY <1>1, <1>2, SeqEqual, Zenon
  <1> QED BY <1>3, Zenon DEF a, c

LEMMA LastLine ==
    ASSUME LogInv, update.at = "written", NEW w
    PROVE  [journal EXCEPT ![Len(journal)].whole = w] = Append(Front(journal), Line(update.ops, w))
  <1> DEFINE j == Front(journal) ops == update.ops
             l == Line(ops, TRUE) n == Line(ops, w) S == ToSet(j) \cup {l, n}
  <1>1. IsLog(j) /\ IsOps(ops) /\ journal = Append(j, l)
    BY Zenon DEF LogInv
  <1>2. [l EXCEPT !.whole = w] = n
    BY DEF Line
  <1> HIDE DEF j, ops, l, n
  <1>3. j \in Seq(S)
    BY <1>1 DEF IsLog, IsSeq
  <1>4. l \in S /\ n \in S
    BY Zenon
  <1> HIDE DEF S
  <1>5. journal[Len(journal)] = l /\ journal \in Seq(S) /\ Len(journal) \in 1..Len(journal)
    BY <1>1, <1>3, <1>4
  <1>6. [journal EXCEPT ![Len(journal)].whole = w] = [journal EXCEPT ![Len(journal)] = n]
    BY <1>2, <1>5, Zenon
  <1>7. [journal EXCEPT ![Len(journal)] = n] = Append(j, n)
    BY <1>1, <1>3, <1>4, LastReplaced
  <1> QED BY <1>6, <1>7, Zenon DEF j, ops, n
LEMMA SyncFailsKeeps == LogInv /\ SyncFails => LogInv'
  <1> SUFFICES ASSUME LogInv, SyncFails PROVE LogInv'
    BY Zenon
  <1>1. PICK w \in BOOLEAN : journal' = [journal EXCEPT ![Len(journal)].whole = w]
    BY Zenon DEF SyncFails
  <1>2. /\ update.at = "written" /\ update'.at = "idle" /\ meta' = meta /\ snapshot' = snapshot
        /\ promised' = Findable
    BY Zenon DEF SyncFails, At0
  <1>3. journal' = Append(Front(journal), Line(update.ops, w))
    BY <1>1, <1>2, LastLine, Zenon
  <1>4. IsLog(journal')
    BY <1>2, <1>3, TidyIsWhole, Zenon DEF LogInv
  <1>5. SettledLog' = journal'
    BY <1>2, Zenon DEF SettledLog
  <1>6. Tidy(journal') => /\ \E p \in Findable : SameVersions(Replay(snapshot, journal'), p)
                          /\ Near(snapshot, meta, WholePart(journal'))
    BY <1>2, <1>3, WrittenFinds, Zenon
  <1>7. (\A p \in Findable : IsMeta(p)) /\ meta \in Findable
    BY <1>2, FindableMetas, Zenon DEF LogInv
  <1> QED BY <1>2, <1>4, <1>5, <1>6, <1>7, Zenon DEF LogInv

\* A step of compact that changes no file's contents.
LEMMA CompactMoves ==
    ASSUME LogInv, update.at \in {"compact", "rename", "truncate"}, update'.at \in {"idle", "rename"},
           meta' = meta, snapshot' = snapshot, journal' = journal, promised' = promised
    PROVE  LogInv'
  <1>1. SettledLog = journal /\ SettledLog' = journal
    BY DEF SettledLog
  <1>2. update.at # "down" /\ update'.at \notin {"written", "truncate", "down"}
    OBVIOUS
  <1> QED BY <1>1, <1>2, Zenon DEF LogInv

LEMMA WriteSnapshotKeeps == LogInv /\ WriteSnapshot => LogInv'
  <1> SUFFICES ASSUME LogInv, WriteSnapshot PROVE LogInv'
    BY Zenon
  <1>1. /\ update.at = "compact" /\ update'.at = "rename" /\ meta' = meta
        /\ snapshot' = snapshot /\ journal' = journal /\ promised' = promised
    BY Zenon DEF WriteSnapshot, At0
  <1> QED BY <1>1, CompactMoves, Zenon

LEMMA CompactFailsKeeps == LogInv /\ CompactFails => LogInv'
  <1> SUFFICES ASSUME LogInv, CompactFails PROVE LogInv'
    BY Zenon
  <1>1. /\ update.at \in {"compact", "rename", "truncate"} /\ update'.at = "idle" /\ meta' = meta
        /\ snapshot' = snapshot /\ journal' = journal /\ promised' = promised
    BY Zenon DEF CompactFails, At0
  <1> QED BY <1>1, CompactMoves, Zenon

\* The log replays onto the new snapshot as it did onto the old one.
LEMMA RenameSnapshotKeeps == LogInv /\ RenameSnapshot => LogInv'
  <1> SUFFICES ASSUME LogInv, RenameSnapshot PROVE LogInv'
    BY Zenon
  <1>1. /\ update.at = "rename" /\ update'.at = "truncate" /\ meta' = meta /\ snapshot' = meta
        /\ journal' = journal /\ promised' = promised
    BY Zenon DEF RenameSnapshot, At0
  <1>2. SettledLog = journal /\ SettledLog' = journal
    BY <1>1, Zenon DEF SettledLog
  <1>3. /\ IsMeta(snapshot) /\ IsMeta(meta) /\ IsLog(journal)
        /\ Tidy(journal) => /\ \E p \in promised : SameVersions(Replay(snapshot, journal), p)
                            /\ Near(snapshot, meta, WholePart(journal))
    BY <1>1, <1>2, Zenon DEF LogInv
  <1>4. IsLog(WholePart(journal))
    BY <1>3, ReplayReads, Zenon
  <1>5. Tidy(journal) => SameVersions(Replay(snapshot, journal), Replay(meta, journal))
    BY <1>3, <1>4, NearLoads, Zenon DEF Replay
  <1>6. Tidy(journal) => \E p \in promised : SameVersions(Replay(meta, journal), p)
    BY <1>3, <1>5, Zenon DEF SameVersions
  <1>7. Near(meta, meta, WholePart(journal))
    BY NearSelf, Zenon
  <1> QED BY <1>1, <1>2, <1>6, <1>7, Zenon DEF LogInv

LEMMA TruncateLogKeeps == LogInv /\ TruncateLog => LogInv'
  <1> SUFFICES ASSUME LogInv, TruncateLog PROVE LogInv'
    BY Zenon
  <1>1. /\ update.at = "truncate" /\ update'.at = "idle" /\ meta' = meta /\ snapshot' = snapshot
        /\ journal' = <<>> /\ promised' = promised /\ snapshot = meta /\ meta \in promised
    BY Zenon DEF TruncateLog, At0, LogInv
  <1>2. IsLog(<<>>) /\ AllWhole(<<>>)
    BY ShortOps DEF IsLog, AllWhole
  <1>3. WholePart(<<>>) = <<>>
    BY <1>2, ReplayReads, Zenon
  <1>4. Replay(meta, <<>>) = meta
    BY <1>3, LoadsNothing, Zenon DEF Replay
  <1>5. SameVersions(meta, meta) /\ Near(meta, meta, WholePart(<<>>))
    BY NearSelf, Zenon DEF SameVersions
  <1>6. SettledLog' = <<>>
    BY <1>1, Zenon DEF SettledLog
  <1> QED BY <1>1, <1>2, <1>4, <1>5, <1>6, Zenon DEF LogInv

LEMMA ProcessEndsKeeps == LogInv /\ ProcessEnds => LogInv'
  <1> SUFFICES ASSUME LogInv, ProcessEnds PROVE LogInv'
    BY Zenon
  <1>1. /\ update'.at = "down" /\ meta' = meta /\ snapshot' = snapshot
        /\ promised' = Findable
    BY Zenon DEF ProcessEnds, At0
  <1>2. SettledLog' = journal'
    BY <1>1, Zenon DEF SettledLog
  <1>3. (\A p \in Findable : IsMeta(p)) /\ promised \subseteq Findable
    BY FindableMetas, Zenon
  <1>4. /\ IsLog(journal')
        /\ Tidy(journal') => \E p \in Findable : SameVersions(Replay(snapshot, journal'), p)
    <2>1. CASE journal' = SettledLog
      <3>1. IsLog(journal')
        BY <2>1, Zenon DEF LogInv, SettledLog
      <3> QED BY <2>1, <3>1, <1>3, Zenon DEF LogInv
    <2>2. ASSUME update.at = "written", NEW w \in BOOLEAN,
                 journal' = Append(Front(journal), Line(update.ops, w))
          PROVE  /\ IsLog(journal')
                 /\ Tidy(journal') => \E p \in Findable : SameVersions(Replay(snapshot, journal'), p)
      <3>1. IsLog(journal')
        BY <2>2, TidyIsWhole, Zenon DEF LogInv
      <3> QED BY <2>2, <3>1, WrittenFinds, Zenon
    <2>3. CASE update.at # "written"
      BY <2>1, <2>3, Zenon DEF ProcessEnds, SettledLog
    <2>4. CASE update.at = "written"
      <3>1. journal' \in {journal, Front(journal), [journal EXCEPT ![Len(journal)].whole = FALSE]}
        BY <2>4, Zenon DEF ProcessEnds
      <3>2. SettledLog = Front(journal) /\ journal = Append(Front(journal), Line(update.ops, TRUE))
        BY <2>4, Zenon DEF SettledLog, LogInv
      <3>3. [journal EXCEPT ![Len(journal)].whole = FALSE] = Append(Front(journal), Line(update.ops, FALSE))
        BY <2>4, LastLine, Zenon
      <3>4. TRUE \in BOOLEAN /\ FALSE \in BOOLEAN
        BY Zenon
      <3> QED BY <2>1, <2>2, <2>4, <3>1, <3>2, <3>3, <3>4, Zenon
    <2> QED BY <2>3, <2>4, Zenon
  <1> QED BY <1>1, <1>2, <1>3, <1>4, Zenon DEF LogInv

\* What is left of the log after OpenLog is what was replayed.
LEMMA OpenLogKeeps == LogInv /\ OpenLog => LogInv'
  <1> SUFFICES ASSUME LogInv, OpenLog PROVE LogInv'
    BY Zenon
  <1> DEFINE w == WholePart(journal)
  <1>1. /\ update'.at = "idle" /\ meta' = Loads(snapshot, w) /\ snapshot' = snapshot
        /\ promised' = {meta'} /\ journal' = w
    BY Zenon DEF OpenLog, At0, Replay
  <1>2. SettledLog' = w
    BY <1>1, Zenon DEF SettledLog
  <1>3. IsMeta(snapshot) /\ IsLog(journal)
    BY Zenon DEF LogInv
  <1>4. IsLog(w) /\ AllWhole(w)
    BY <1>3, ReplayReads, Zenon
  <1> HIDE DEF w
  <1>5. WholePart(w) = w
    BY <1>4, ReplayReads, Zenon
  <1>6. Replay(snapshot, w) = meta'
    BY <1>1, <1>5, Zenon DEF Replay
  <1>7. IsMeta(meta') /\ Near(snapshot, meta', w)
    BY <1>1, <1>3, <1>4, LoadsMeta, NearLoaded, Zenon
  <1>8. SameVersions(meta', meta')
    BY Zenon DEF SameVersions
  <1> QED BY <1>1, <1>2, <1>3, <1>4, <1>5, <1>6, <1>7, <1>8, Zenon DEF LogInv

LEMMA LogStep == LogInv /\ [StorageLogNext]_storageLogVars => LogInv'
  <1> SUFFICES ASSUME LogInv, [StorageLogNext]_storageLogVars PROVE LogInv'
    BY Zenon
  <1>1. CASE UNCHANGED storageLogVars
    BY <1>1, Zenon DEF LogInv, storageLogVars, SettledLog, Replay
  <1>2. CASE StorageLogNext
    BY <1>2, WriteRecordKeeps, WriteFailsKeeps, SyncRecordKeeps, SyncFailsKeeps, WriteSnapshotKeeps,
       RenameSnapshotKeeps, TruncateLogKeeps, CompactFailsKeeps, ProcessEndsKeeps, OpenLogKeeps, Zenon
    DEF StorageLogNext
  <1> QED BY <1>1, <1>2, Zenon

LEMMA LogInvSays == LogInv => NothingLost
  <1> SUFFICES ASSUME LogInv, Tidy(journal) PROVE AcknowledgedSurvive
    BY Zenon DEF NothingLost, Tidy
  <1>1. CASE update.at = "written"
    <2>1. journal = Append(Front(journal), Line(update.ops, TRUE))
      BY <1>1, Zenon DEF LogInv
    <2>2. TRUE \in BOOLEAN
      BY Zenon
    <2> QED BY <1>1, <2>1, <2>2, WrittenFinds, Zenon DEF AcknowledgedSurvive
  <1>2. CASE update.at # "written"
    <2>1. SettledLog = journal
      BY <1>2, Zenon DEF SettledLog
    <2> QED BY <2>1, FindableMetas, Zenon DEF LogInv, AcknowledgedSurvive
  <1> QED BY <1>1, <1>2, Zenon

\* At every point of a write and of a compaction of the metadata log, for every
\* way the process may end and every call of the disk that may fail, and for
\* any number of transactions: what a restart would load holds every
\* acknowledged transaction, whole, and nothing else, as long as no line was
\* written after a torn one (storage's LogMetaStore).
THEOREM AcknowledgedKept == StorageLogSpec => []NothingLost
  BY LogInitially, LogStep, LogInvSays, PTL DEF StorageLogSpec

(***************************************************************************)
(* A disk that does not fail.  A line is then torn only by the end of the  *)
(* process, is the last one, and is cut off before the next is written.    *)
(***************************************************************************)
SoundLog ==
    /\ diskFaults = 0
    /\ Tidy(journal)
    /\ update.at # "down" => AllWhole(journal)

LEMMA WholeGrows ==
    ASSUME NEW j, IsLog(j), AllWhole(j), NEW l, IsOps(l.ops)
    PROVE  Tidy(Append(j, l)) /\ (IsWhole(l) => AllWhole(Append(j, l)))
  <1>1. Tidy(Append(j, l))
    BY ReplayGrows, Zenon
  <1>2. ASSUME IsWhole(l) PROVE AllWhole(Append(j, l))
    <2>1. IsLog(Append(j, l)) /\ WholePart(Append(j, l)) = Append(j, l)
      BY <1>2, Grows, OneLine, Zenon
    <2> QED BY <2>1, ReplayReads, Zenon
  <1> QED BY <1>1, <1>2, Zenon

LEMMA WholeTidy == ASSUME NEW j, IsLog(j), AllWhole(j) PROVE Tidy(j)
  <1>1. \A i \in 1..Len(j) - 1 : i \in 1..Len(j)
    BY SeqFacts DEF IsLog, IsSeq
  <1> QED BY <1>1, Zenon DEF Tidy, AllWhole

LEMMA SoundStep ==
    ASSUME MaxDiskFaults = 0, LogInv, SoundLog, [StorageLogNext]_storageLogVars PROVE SoundLog'
  <1>1. CASE UNCHANGED storageLogVars
    BY <1>1 DEF storageLogVars, SoundLog
  <1>2. CASE WriteFails \/ SyncFails \/ CompactFails
    BY <1>2 DEF WriteFails, SyncFails, CompactFails, DiskFails, SoundLog
  <1>3. CASE WriteRecord
    <2>1. PICK ops \in Transactions(meta) : journal' = Append(journal, Line(ops, TRUE))
      BY <1>3, Zenon DEF WriteRecord
    <2> DEFINE l == Line(ops, TRUE)
    <2>2. l.ops = ops /\ IsWhole(l) /\ journal' = Append(journal, l)
      BY <2>1, Lines, Zenon
    <2> HIDE DEF l
    <2>3. diskFaults' = diskFaults /\ update.at = "idle"
      BY <1>3, Zenon DEF WriteRecord
    <2>4. IsLog(journal) /\ AllWhole(journal) /\ IsOps(ops)
      BY <2>3, TransactionsTyped DEF LogInv, SoundLog
    <2>5. Tidy(journal') /\ AllWhole(journal')
      BY <2>2, <2>4, WholeGrows, Zenon
    <2> QED BY <2>3, <2>5, Zenon DEF SoundLog
  <1>4. CASE SyncRecord \/ WriteSnapshot \/ RenameSnapshot
    <2>1. journal' = journal /\ diskFaults' = diskFaults /\ update.at # "down"
      BY <1>4 DEF SyncRecord, WriteSnapshot, RenameSnapshot
    <2> QED BY <2>1, Zenon DEF SoundLog
  <1>5. CASE TruncateLog
    <2>1. journal' = <<>> /\ diskFaults' = diskFaults
      BY <1>5, Zenon DEF TruncateLog
    <2>2. IsLog(<<>>) /\ AllWhole(<<>>)
      BY ShortOps DEF IsLog, AllWhole
    <2> QED BY <2>1, <2>2, WholeTidy, Zenon DEF SoundLog
  <1>6. CASE ProcessEnds
    <2>1. update'.at = "down" /\ diskFaults' = diskFaults /\ AllWhole(journal)
      BY <1>6 DEF ProcessEnds, At0, SoundLog
    <2>2. CASE update.at # "written"
      BY <1>6, <2>1, <2>2, Zenon DEF ProcessEnds, SoundLog
    <2>3. CASE update.at = "written"
      <3>1. journal' \in {journal, Front(journal), [journal EXCEPT ![Len(journal)].whole = FALSE]}
        BY <1>6, <2>3, Zenon DEF ProcessEnds
      <3> DEFINE l == Line(update.ops, FALSE) j == Front(journal)
      <3>2. [journal EXCEPT ![Len(journal)].whole = FALSE] = Append(j, l)
        BY <2>3, LastLine, Zenon
      <3>3. l.ops = update.ops /\ IsLog(j) /\ IsOps(update.ops) /\ IsLog(journal)
        BY <2>3, Lines, Zenon DEF LogInv
      <3>4. AllWhole(j)
        <4>1. Tidy(Append(j, Line(update.ops, TRUE)))
          BY <2>3, Zenon DEF LogInv, SoundLog
        <4> QED BY <3>3, <4>1, TidyIsWhole, Zenon
      <3> HIDE DEF l, j
      <3>5. Tidy(journal) /\ Tidy(j) /\ Tidy(Append(j, l))
        BY <2>1, <3>3, <3>4, WholeTidy, WholeGrows, Zenon
      <3> QED BY <2>1, <3>1, <3>2, <3>5, Zenon DEF SoundLog, j
    <2> QED BY <2>2, <2>3, Zenon
  <1>7. CASE OpenLog
    <2>1. journal' = WholePart(journal) /\ diskFaults' = diskFaults
      BY <1>7, Zenon DEF OpenLog
    <2>2. IsLog(journal') /\ AllWhole(journal')
      BY <2>1, ReplayReads, Zenon DEF LogInv
    <2> QED BY <2>1, <2>2, WholeTidy, Zenon DEF SoundLog
  <1> QED BY <1>1, <1>2, <1>3, <1>4, <1>5, <1>6, <1>7, Zenon DEF StorageLogNext

\* Where no call of the disk fails, what a restart would load holds every
\* acknowledged transaction and nothing else, without exception: what is lost
\* behind a torn line, is lost only after a write or a sync that failed and
\* was answered with an error.
THEOREM SoundDiskLosesNothing ==
    ASSUME MaxDiskFaults = 0 PROVE StorageLogSpec => []AcknowledgedSurvive
  <1>1. StorageLogInit => SoundLog
    <2> SUFFICES ASSUME StorageLogInit PROVE SoundLog
      BY Zenon
    <2>1. journal = <<>> /\ diskFaults = 0
      BY Zenon DEF StorageLogInit
    <2>2. IsLog(<<>>) /\ AllWhole(<<>>)
      BY ShortOps DEF IsLog, AllWhole
    <2> QED BY <2>1, <2>2, WholeTidy, Zenon DEF SoundLog
  <1>2. LogInv /\ SoundLog /\ [StorageLogNext]_storageLogVars => SoundLog'
    BY SoundStep, Zenon
  <1>3. LogInv /\ SoundLog => AcknowledgedSurvive
    BY LogInvSays, Zenon DEF NothingLost, SoundLog, Tidy
  <1> QED BY <1>1, <1>2, <1>3, LogInitially, LogStep, PTL DEF StorageLogSpec
==============================================================================
