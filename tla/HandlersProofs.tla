---------------------------- MODULE HandlersProofs ----------------------------
(***************************************************************************)
(* Proofs about what handlers keep from one of their calls to the next:    *)
(* the files, templates and sockets of libesphttpd (Handlers).  What a     *)
(* template sends is compared with what its whole text stands for, and     *)
(* what a socket hears with what the client's frames say.                  *)
(***************************************************************************)
EXTENDS Handlers, SequenceTheorems, WellFoundedInduction, TLAPS

-----------------------------------------------------------------------------
(* Smallest numbers *)

\* A set of natural numbers that is not empty has a smallest member: what takes
\* the place of an induction below.
LEMMA Least ==
  ASSUME NEW T \in SUBSET Nat, T # {}
  PROVE  \E n \in T : \A m \in T : n <= m
<1> DEFINE R == {ss \in Nat \X Nat : ss[1] < ss[2]}
<1>1. IsWellFoundedOn(R, Nat)
  BY NatLessThanWellFounded DEF OpToRel
<1>2. PICK n \in T : \A m \in T : <<m, n>> \notin R
  <2> HIDE DEF R
  <2> QED
    BY <1>1, WFMin
<1>3. ASSUME NEW m \in T PROVE n <= m
  <2>1. <<m, n>> \notin R /\ <<m, n>> \in Nat \X Nat
    BY <1>2
  <2>2. ~ (m < n)
    BY <2>1
  <2> QED
    BY <2>2
<1> QED
  BY <1>3

LEMMA MinOfNats ==
  ASSUME NEW T \in SUBSET Nat, T # {}
  PROVE  Min(T) \in T /\ \A m \in T : Min(T) <= m
  BY Least DEF Min

\* The smaller of two numbers.
LEMMA MinOfTwo ==
  ASSUME NEW a \in Nat, NEW b \in Nat
  PROVE  /\ Min({a, b}) \in Nat /\ Min({a, b}) <= a /\ Min({a, b}) <= b
         /\ Min({a, b}) = a \/ Min({a, b}) = b
  BY MinOfNats, {a, b} \in SUBSET Nat, {a, b} # {}

-----------------------------------------------------------------------------
(* Sequences one behind the other *)

LEMMA Behind ==
  ASSUME NEW S, NEW a \in Seq(S), NEW b \in Seq(S)
  PROVE  /\ a \o b \in Seq(S) /\ Len(a \o b) = Len(a) + Len(b)
         /\ \A i \in 1 .. Len(a) : (a \o b)[i] = a[i]
         /\ \A j \in 1 .. Len(b) : (a \o b)[Len(a) + j] = b[j]
<1>1. PICK m \in Nat, n \in Nat : m = Len(b) /\ n = Len(a)
  OBVIOUS
<1> DEFINE t == a \o b
<1>2. /\ t \in Seq(S) /\ Len(t) = n + m
      /\ \A i \in 1 .. n + m : t[i] = IF i <= n THEN a[i] ELSE b[i - n]
  BY <1>1, ConcatProperties
<1>3. ASSUME NEW i \in 1 .. n PROVE t[i] = a[i]
  <2>1. i \in 1 .. n + m /\ i <= n
    BY <1>1
  <2> QED
    BY <1>2, <2>1
<1>4. ASSUME NEW j \in 1 .. m PROVE t[n + j] = b[j]
  <2>1. n + j \in 1 .. n + m /\ ~(n + j <= n) /\ (n + j) - n = j
    BY <1>1
  <2> QED
    BY <1>2, <2>1
<1> QED
  BY <1>1, <1>2, <1>3, <1>4

LEMMA SameSeq ==
  ASSUME NEW S, NEW a \in Seq(S), NEW b \in Seq(S), Len(a) = Len(b),
         \A i \in 1 .. Len(a) : a[i] = b[i]
  PROVE  a = b
  OBVIOUS

\* The first k of the sequences in s, one behind the other.
Upto(s, k) == FlattenSeq(SubSeq(s, 1, k))

\* The recursive function by which FlattenSeq is defined.
IsFlatten(s, f) == f = [i \in 1 .. Len(s) |-> IF i = 1 THEN s[i] ELSE f[i - 1] \o s[i]]

LEMMA FlattenExists ==
  ASSUME NEW S, NEW s \in Seq(Seq(S))
  PROVE  \E f : IsFlatten(s, f)
<1>1. PICK N \in Nat : N = Len(s)
  OBVIOUS
<1> DEFINE Upon(f, n) == f = [i \in 1 .. n |-> IF i = 1 THEN s[i] ELSE f[i - 1] \o s[i]]
           T == {n \in Nat : ~ \E f : Upon(f, n)}
<1>2. T = {}
  <2> SUFFICES ASSUME T # {} PROVE FALSE
    OBVIOUS
  <2>1. PICK n \in T : \A m \in T : n <= m
    <3>1. T \in SUBSET Nat
      OBVIOUS
    <3> HIDE DEF T
    <3> QED
      BY <3>1, Least
  <2>2. CASE n = 0
    <3>1. Upon([i \in 1 .. 0 |-> 0], 0)
      BY 1 .. 0 = {}
    <3> QED
      BY <2>1, <2>2, <3>1
  <2>3. CASE n # 0
    <3>1. n - 1 \in Nat /\ n - 1 \notin T /\ n \in Nat
      <4>1. n \in Nat
        OBVIOUS
      <4> HIDE DEF T
      <4>2. n - 1 \in Nat /\ ~(n <= n - 1)
        BY <2>3, <4>1
      <4> QED
        BY <2>1, <4>1, <4>2
    <3>2. PICK f : Upon(f, n - 1)
      BY <3>1
    <3>3. \A i \in 1 .. n - 1 : f[i] = IF i = 1 THEN s[i] ELSE f[i - 1] \o s[i]
      BY <3>1, <3>2
    <3> DEFINE v == IF n = 1 THEN s[n] ELSE f[n - 1] \o s[n]
               g == [i \in 1 .. n |-> IF i = n THEN v ELSE f[i]]
    <3>4. \A i \in 1 .. n : g[i] = IF i = 1 THEN s[i] ELSE g[i - 1] \o s[i]
      <4>1. ASSUME NEW i \in 1 .. n PROVE g[i] = IF i = 1 THEN s[i] ELSE g[i - 1] \o s[i]
        <5>1. CASE i = n
          <6>1. CASE n = 1
            BY <5>1, <6>1, SMTT(30)
          <6>2. CASE n # 1
            <7>1. n - 1 \in 1 .. n /\ n \in 1 .. n /\ n - 1 # n
              BY <3>1, <6>2
            <7>2. g[n - 1] = f[n - 1] /\ g[n] = f[n - 1] \o s[n]
              BY <6>2, <7>1
            <7> QED
              BY <5>1, <6>2, <7>2
          <6> QED
            BY <6>1, <6>2
        <5>2. CASE i # n
          <6>1. i \in 1 .. n - 1 /\ g[i] = f[i]
            BY <3>1, <5>2
          <6>2. i # 1 => g[i - 1] = f[i - 1]
            BY <3>1, <5>2
          <6> QED
            BY <3>3, <6>1, <6>2
        <5> QED
          BY <5>1, <5>2
      <4> QED
        BY <4>1
    <3>5. g = [i \in 1 .. n |-> g[i]]
      OBVIOUS
    <3> HIDE DEF g
    <3>6. Upon(g, n)
      BY <3>4, <3>5
    <3> QED
      BY <2>1, <3>6
  <2> QED
    BY <2>2, <2>3
<1> QED
  BY <1>1, <1>2 DEF IsFlatten

LEMMA FlattenIs ==
  ASSUME NEW S, NEW s \in Seq(Seq(S)), s # <<>>
  PROVE  \E f : IsFlatten(s, f) /\ FlattenSeq(s) = f[Len(s)]
<1> DEFINE g == CHOOSE f : IsFlatten(s, f)
<1>1. IsFlatten(s, g)
  BY FlattenExists
<1>2. FlattenSeq(s) = g[Len(s)]
  <2>1. Len(s) # 0
    OBVIOUS
  <2> QED
   BY <2>1 DEF FlattenSeq, IsFlatten
<1> QED
  BY <1>1, <1>2

LEMMA FlattenBy ==
  ASSUME NEW S, NEW s \in Seq(Seq(S))
  PROVE  \E A \in [0 .. Len(s) -> Seq(S)] :
            /\ A[0] = <<>> /\ A[Len(s)] = FlattenSeq(s)
            /\ \A k \in 1 .. Len(s) : A[k] = A[k - 1] \o s[k]
<1>1. CASE s = <<>>
  <2> DEFINE A == [k \in 0 .. 0 |-> <<>>]
  <2>1. Len(s) = 0 /\ FlattenSeq(s) = <<>>
    BY <1>1 DEF FlattenSeq
  <2>2. A \in [0 .. Len(s) -> Seq(S)] /\ A[0] = <<>>
    BY <2>1
  <2>3. 1 .. Len(s) = {}
    BY <2>1
  <2> HIDE DEF A
  <2> QED
    BY <2>1, <2>2, <2>3
<1>2. CASE s # <<>>
  <2>1. PICK n \in Nat : n = Len(s) /\ n > 0
    BY <1>2
  <2>2. PICK f : IsFlatten(s, f) /\ FlattenSeq(s) = f[n]
    BY <1>2, <2>1, FlattenIs
  <2>3. \A i \in 1 .. n : f[i] = IF i = 1 THEN s[i] ELSE f[i - 1] \o s[i]
    BY <2>1, <2>2 DEF IsFlatten
  <2>4. \A i \in 1 .. n : s[i] \in Seq(S)
    BY <2>1
  <2>5. \A i \in 1 .. n : f[i] \in Seq(S)
    <3> DEFINE T == {i \in 1 .. n : f[i] \notin Seq(S)}
    <3>1. CASE T = {}
      BY <3>1
    <3>2. CASE T # {}
      <4>1. PICK i \in T : \A m \in T : i <= m
        <5>1. T \in SUBSET Nat
          OBVIOUS
        <5> HIDE DEF T
        <5> QED
          BY <3>2, <5>1, Least
      <4>2. i # 1
        BY <2>1, <2>3, <2>4
      <4>3. i - 1 \in 1 .. n /\ i - 1 \notin T
        BY <4>1, <4>2
      <4>4. f[i] = f[i - 1] \o s[i] /\ f[i - 1] \in Seq(S) /\ s[i] \in Seq(S)
        BY <2>3, <2>4, <4>2, <4>3
      <4> QED
        BY <4>4, ConcatProperties
    <3> QED
      BY <3>1, <3>2
  <2> DEFINE A == [k \in 0 .. n |-> IF k = 0 THEN <<>> ELSE f[k]]
  <2>6. A \in [0 .. n -> Seq(S)] /\ A[0] = <<>> /\ A[n] = FlattenSeq(s)
    BY <2>1, <2>2, <2>5
  <2>7. ASSUME NEW k \in 1 .. n PROVE A[k] = A[k - 1] \o s[k]
    <3>1. CASE k = 1
      BY <2>3, <2>4, <3>1, ConcatEmptySeq
    <3>2. CASE k # 1
      <4>1. k - 1 \in 0 .. n /\ k \in 0 .. n /\ k - 1 # 0 /\ k # 0
        BY <2>1, <3>2
      <4>2. A[k] = f[k] /\ A[k - 1] = f[k - 1]
        BY <4>1
      <4> HIDE DEF A
      <4> QED
        BY <2>3, <3>2, <4>2
    <3> QED
      BY <3>1, <3>2
  <2> HIDE DEF A
  <2> QED
    BY <2>1, <2>6, <2>7
<1> QED
  BY <1>1, <1>2

LEMMA UptoStep ==
  ASSUME NEW S, NEW s \in Seq(Seq(S))
  PROVE  /\ Upto(s, 0) = <<>> /\ Upto(s, Len(s)) = FlattenSeq(s)
         /\ \A k \in 0 .. Len(s) : Upto(s, k) \in Seq(S)
         /\ \A k \in 1 .. Len(s) : Upto(s, k) = Upto(s, k - 1) \o s[k]
<1>1. PICK n \in Nat : n = Len(s)
  OBVIOUS
<1>2. PICK A \in [0 .. n -> Seq(S)] :
         /\ A[0] = <<>> /\ A[n] = FlattenSeq(s)
         /\ \A k \in 1 .. n : A[k] = A[k - 1] \o s[k]
  BY <1>1, FlattenBy
<1>3. ASSUME NEW k \in 0 .. n PROVE Upto(s, k) = A[k]
  <2>1. PICK t : t = SubSeq(s, 1, k)
    OBVIOUS
  <2>2. t \in Seq(Seq(S)) /\ Len(t) = k /\ \A i \in 1 .. k : t[i] = s[i]
    BY <1>1, <2>1, SubSeqProperties
  <2>3. PICK B \in [0 .. k -> Seq(S)] :
           /\ B[0] = <<>> /\ B[k] = FlattenSeq(t)
           /\ \A i \in 1 .. k : B[i] = B[i - 1] \o t[i]
    BY <2>2, FlattenBy, ZenonT(40)
  <2>4. A[k] = B[k]
    <3>1. ASSUME NEW i \in 1 .. k PROVE A[i] = A[i - 1] \o s[i] /\ B[i] = B[i - 1] \o s[i]
      <4>1. i \in 1 .. n /\ t[i] = s[i]
        BY <1>1, <2>2
      <4> QED
        BY <1>2, <2>3, <4>1
    <3>2. k \in Nat /\ A[0] = B[0]
      BY <1>1, <1>2, <2>3
    <3> DEFINE T == {i \in 0 .. k : A[i] # B[i]}
    <3>3. CASE T # {}
      <4>1. PICK i \in T : \A m \in T : i <= m
        <5>1. T \in SUBSET Nat
          OBVIOUS
        <5> HIDE DEF T
        <5> QED
          BY <3>3, <5>1, Least
      <4>2. i # 0
        BY <3>2
      <4>3. i - 1 \in 0 .. k /\ i \in 1 .. k /\ i - 1 \notin T
        BY <3>2, <4>1, <4>2
      <4> QED
        BY <3>1, <4>3
    <3>4. CASE T = {}
      <4>1. k \in 0 .. k
        BY <3>2
      <4> QED
        BY <3>4, <4>1
    <3> QED
      BY <3>3, <3>4
  <2> QED
    BY <2>1, <2>3, <2>4 DEF Upto
<1>4. \A k \in 0 .. n : Upto(s, k) \in Seq(S)
  BY <1>2, <1>3
<1>5. ASSUME NEW k \in 1 .. n PROVE Upto(s, k) = Upto(s, k - 1) \o s[k]
  <2>1. k \in 0 .. n /\ k - 1 \in 0 .. n
    OBVIOUS
  <2> QED
    BY <1>2, <1>3, <2>1
<1>6. Upto(s, 0) = <<>> /\ Upto(s, n) = FlattenSeq(s)
  <2>1. 0 \in 0 .. n /\ n \in 0 .. n
    OBVIOUS
  <2> QED
    BY <1>2, <1>3, <2>1
<1> QED
  BY <1>1, <1>4, <1>5, <1>6

\* They are what more of them begin with.
LEMMA UptoBegins ==
  ASSUME NEW S, NEW s \in Seq(Seq(S)), NEW k \in 0 .. Len(s), NEW j \in k .. Len(s)
  PROVE  \E u \in Seq(S) : Upto(s, j) = Upto(s, k) \o u
<1>1. PICK n \in Nat : n = Len(s)
  OBVIOUS
<1> DEFINE T == {m \in 0 .. n - k : ~ \E u \in Seq(S) : Upto(s, k + m) = Upto(s, k) \o u}
<1>2. CASE T = {}
  <2>1. j - k \in 0 .. n - k /\ k + (j - k) = j
    BY <1>1
  <2>2. \E u \in Seq(S) : Upto(s, k + (j - k)) = Upto(s, k) \o u
    BY <1>2, <2>1
  <2> QED
    BY <2>1, <2>2
<1>3. CASE T # {}
  <2>1. PICK m \in T : \A i \in T : m <= i
    <3>1. T \in SUBSET Nat
      BY <1>1
    <3> HIDE DEF T
    <3> QED
      BY <1>3, <3>1, Least
  <2>2. m \in 0 .. n - k /\ ~ \E u \in Seq(S) : Upto(s, k + m) = Upto(s, k) \o u
    OBVIOUS
  <2>3. Upto(s, k) \in Seq(S)
    BY UptoStep
  <2>4. m # 0
    <3>1. Upto(s, k) = Upto(s, k) \o <<>> /\ <<>> \in Seq(S)
      BY <2>3, ConcatEmptySeq
    <3>2. ASSUME m = 0 PROVE FALSE
      <4>1. k + m = k
        BY <3>2
      <4> QED
        BY <2>2, <3>1, <4>1
    <3> QED
      BY <3>2
  <2>5. PICK u \in Seq(S) : Upto(s, k + (m - 1)) = Upto(s, k) \o u
    <3>1. m - 1 \in 0 .. n - k /\ ~(m <= m - 1)
      BY <1>1, <2>2, <2>4
    <3>2. m - 1 \notin T
      BY <2>1, <3>1
    <3> QED
      BY <3>1, <3>2
  <2>6. k + m \in 1 .. n /\ (k + m) - 1 = k + (m - 1)
    BY <1>1, <2>2, <2>4
  <2>7. Upto(s, k + m) = (Upto(s, k) \o u) \o s[k + m] /\ s[k + m] \in Seq(S)
    <3>1. Upto(s, k + m) = Upto(s, (k + m) - 1) \o s[k + m]
      BY <1>1, <2>6, UptoStep
    <3>2. s[k + m] \in Seq(S)
      BY <1>1, <2>6
    <3> QED
      BY <2>5, <2>6, <3>1, <3>2
  <2>8. Upto(s, k + m) = Upto(s, k) \o (u \o s[k + m]) /\ u \o s[k + m] \in Seq(S)
    <3>1. PICK a \in Seq(S), b \in Seq(S) : a = Upto(s, k) /\ b = s[k + m]
      BY <2>3, <2>7
    <3>2. (a \o u) \o b = a \o (u \o b) /\ u \o b \in Seq(S)
      BY ConcatAssociative, ConcatProperties, SMTT(30)
    <3> QED
      BY <2>7, <3>1, <3>2
  <2> QED
    BY <2>2, <2>8
<1> QED
  BY <1>2, <1>3

-----------------------------------------------------------------------------
(* Files *)

\* The paths that are tried, and what is found among them.
LEMMA FirstIsFile ==
  ASSUME NEW path, NEW found, found = FirstOf(Tried(path)), found # <<>>
  PROVE  \E p \in DOMAIN disk : found = <<p>>
<1> DEFINE more == [i \in DOMAIN IndexNames |-> Append(path, IndexNames[i])]
           S == {path} \cup {Append(path, IndexNames[i]) : i \in DOMAIN IndexNames}
           paths == Tried(path)
           hits == {i \in DOMAIN paths : IsFile(paths[i])}
<1>1. more \in Seq(S)
  <2>1. DOMAIN IndexNames = 1 .. 4
    BY DEF IndexNames
  <2>2. more \in [1 .. 4 -> S]
    BY <2>1
  <2> QED
    BY <2>2, SeqDef
<1>2. <<path>> \in Seq(S) /\ <<>> \in Seq(S)
  OBVIOUS
<1>3. paths \in Seq(S)
  BY <1>1, <1>2, ConcatProperties DEF Tried
<1>4. DOMAIN paths \in SUBSET Nat
  BY <1>3, LenProperties
<1>5. hits # {} /\ found = <<paths[Min(hits)]>>
  BY DEF FirstOf
<1>6. Min(hits) \in hits
  BY <1>4, <1>5, MinOfNats
<1> QED
  BY <1>5, <1>6 DEF IsFile

-----------------------------------------------------------------------------
(* The inductive invariant of the handlers of files *)

NoUpload == [state |-> "START", received |-> 0, written |-> 0, lost |-> 0,
             success |-> <<>>]

\* The request and the files are as they came, uploads aside.
CaseInv ==
  /\ handler \in {"espfs", "vfs", "upload", "espfs template", "vfs template", "none"}
  /\ handler # "none" => /\ request.length \in Nat
                         /\ disk \in [DOMAIN disk -> Files(handler)]

\* There is a handle exactly while a handler that has opened its file is to be
\* called again.
OpenInv ==
  /\ call \in {"first", "more", "inside", "done", "closed", "notfound", "crashed"}
  /\ opened = <<>> \/ \E p \in DOMAIN disk : opened = <<p>>
  /\ call \in {"first", "notfound", "crashed"} => opened = <<>>
  /\ call \in {"more", "inside"} /\ handler # "upload" => opened # <<>>
  /\ call = "inside" => IsTemplate
  /\ handles = IF opened # <<>> /\ call \in {"more", "inside"} THEN 1 ELSE 0
  /\ told = IF IsTemplate /\ call \in {"done", "closed"} THEN 1 ELSE 0

\* What was sent of a file is what was read of it, and the header says what
\* kind of file it is.
ServeInv ==
  /\ pos \in Nat /\ sent \in Nat /\ reply \in {0, 200, 501}
  /\ handler \in {"espfs", "vfs"} =>
       /\ (opened = <<>> <=> reply = 0) /\ (reply = 0 => sent = 0)
       /\ reply = 501 => call = "done"
       /\ reply = 200 =>
            /\ opened # <<>> /\ sent = pos /\ pos <= disk[opened[1]].size
            /\ call = "done" => pos = disk[opened[1]].size
            /\ gzipHeader <=> disk[opened[1]].gzip \/ (handler = "vfs" /\ opened[1] # VfsPath)
            /\ handler = "espfs" /\ gzipHeader => request.acceptsGzip

\* How far an upload can have come in a state.
UploadAt(state, received, written, isOpen) ==
  /\ written <= received /\ received <= request.length
  /\ isOpen => state # "START"
  /\ ~isOpen => written = 0 /\ state \in {"START", "ERR"}
  /\ state = "WRITE" => written = received
  /\ state = "DONE" => written = request.length
  /\ isOpen /\ state # "DONE" => written < request.length

Answers == {<<>>} \cup {<<b>> : b \in BOOLEAN}
UploadStates == [state : {"START", "WRITE", "DONE", "ERR"}, received : Nat, written : Nat,
                 lost : Nat, success : Answers]

\* An upload has come as far as its state says, and so is the file and the answer.
UploadInv ==
  /\ upload \in UploadStates
  /\ handler # "upload" \/ call = "first" => upload = NoUpload
  /\ handler = "upload" =>
       /\ opened \in {<<>>, <<UploadPath>>}
       /\ call = "more" => upload.success = <<>>
       /\ upload.success # <<>> /\ opened # <<>> =>
            disk[UploadPath].size + upload.lost = upload.written
       /\ call # "first" => UploadAt(upload.state, upload.received, upload.written, opened # <<>>)
       /\ upload.success # <<>> =>
            upload.received = request.length /\ (upload.success[1] <=> upload.state = "DONE")

\* The loop over a piece of a template: the text that waits to be sent ends where
\* the loop is, no text waits inside a token, and a token is answered again at
\* its last sign.
TurnInv ==
  /\ buff \in Seq(STRING) /\ token \in Seq(STRING) /\ tplArg \in Nat
  /\ chunkResume \in BOOLEAN /\ encoding \in {"PLAIN", "HTML"}
  /\ tokenPos \in -1 .. TokenSize - 1
  /\ x \in 0 .. Len(buff) /\ sp \in Nat /\ e \in Nat /\ e + sp <= Len(buff)
  /\ tokenPos >= 0 => sp = 0
  /\ call = "inside" /\ tokenPos = -1 => e + sp = x
  /\ tokenPos >= 0 /\ ~chunkResume => Len(token) = tokenPos
  /\ chunkResume => /\ handler = "espfs template"
                    /\ tokenPos > 0 /\ x < Len(buff) /\ buff[x + 1] = "%"

\* What is in the buffer is the piece of the template that was read last.
PieceInv ==
  /\ opened = <<>> => /\ buff = <<>> /\ x = 0 /\ sp = 0 /\ e = 0 /\ tokenPos = -1 /\ token = <<>>
                      /\ encoding = "PLAIN" /\ tplArg = 0 /\ ~chunkResume /\ output = <<>>
  /\ IsTemplate /\ opened # <<>> =>
       /\ Len(buff) <= pos /\ pos <= Len(Text)
       /\ buff = SubSeq(Text, pos - Len(buff) + 1, pos)

FilesInv == CaseInv /\ OpenInv /\ ServeInv /\ UploadInv /\ TurnInv /\ PieceInv

-----------------------------------------------------------------------------
(* The steps of the handlers of files *)

\* What a step leaves alone.
LEMMA CaseKept == ASSUME CaseInv, UNCHANGED <<fixed, disk>> PROVE CaseInv'
  BY DEF CaseInv, fixed

LEMMA TurnKept ==
  ASSUME TurnInv, UNCHANGED tplVars, handler' = handler, call' # "inside" PROVE TurnInv'
  BY DEF TurnInv, tplVars, tokenVars, bufferVars, sendVars

LEMMA PieceKept ==
  ASSUME PieceInv, UNCHANGED tplVars, handler' = handler, ~IsTemplate,
         opened' = <<>> => opened = <<>>
  PROVE  PieceInv'
  BY DEF PieceInv, tplVars, tokenVars, bufferVars, sendVars, IsTemplate

LEMMA UploadKept ==
  ASSUME UploadInv, handler # "upload", UNCHANGED <<fixed, disk, upload>> PROVE UploadInv'
  BY DEF UploadInv, fixed, NoUpload

\* A first call that opens nothing.
LEMMA NotFoundStep ==
  ASSUME FilesInv, call = "first", NotFound \/ Crash, UNCHANGED tplVars PROVE FilesInv'
<1> USE DEF FilesInv, NotFound, Crash, Return
<1>1. UNCHANGED <<handler, request, disk, opened, handles, pos, reply, gzipHeader, sent, upload, told>>
  BY DEF fixed, fileVars, tplVars
<1>2. CaseInv'
  BY <1>1 DEF CaseInv
<1>3. OpenInv'
  BY <1>1 DEF OpenInv, IsTemplate
<1>4. ServeInv'
  BY <1>1 DEF ServeInv, OpenInv, VfsPath, Filepath, IsFile, IsDir
<1>5. UploadInv'
  <2>1. UploadPath' = UploadPath /\ opened = <<>> /\ upload = NoUpload
    BY <1>1 DEF UploadInv, OpenInv, UploadPath
  <2>2. handler = "upload" => UploadAt(upload.state, upload.received, upload.written, FALSE)
    BY <2>1 DEF CaseInv, NoUpload, UploadAt
  <2>3. upload.success = <<>>
    BY <2>1 DEF NoUpload
  <2> QED
    BY <1>1, <2>1, <2>2, <2>3 DEF UploadInv, UploadAt
<1>6. TurnInv'
  BY <1>1, TurnKept
<1>7. PieceInv'
  <2>1. opened = <<>>
    BY DEF OpenInv
  <2> QED
    BY <1>1, <2>1 DEF PieceInv, tplVars, tokenVars, bufferVars, sendVars
<1> QED
  BY <1>2, <1>3, <1>4, <1>5, <1>6, <1>7

\* The first call of a handler that serves files.
LEMMA ServeFirstStep ==
  ASSUME FilesInv, StaticFirst \/ VfsFirst, UNCHANGED tplVars PROVE FilesInv'
<1> USE DEF FilesInv, Return
<1>1. call = "first" /\ handler \in {"espfs", "vfs"}
  BY DEF StaticFirst, VfsFirst
<1>2. /\ opened = <<>> /\ handles = 0 /\ reply = 0 /\ sent = 0 /\ told = 0
      /\ ~ IsTemplate
  BY <1>1, ZenonT(40) DEF OpenInv, ServeInv, IsTemplate
<1>3. ASSUME NEW path \in DOMAIN disk, NEW gzip, Respond(path, gzip),
             gzip <=> disk[path].gzip \/ (handler = "vfs" /\ path # VfsPath),
             handler = "espfs" /\ gzip => request.acceptsGzip
      PROVE  FilesInv'
  <2>1. /\ UNCHANGED <<handler, request, disk, sent, upload, told>>
        /\ opened' = <<path>> /\ handles' = 1 /\ pos' = 0 /\ reply' = 200
        /\ gzipHeader' = gzip /\ call' = "more"
    BY <1>2, <1>3 DEF Respond, fixed, tplVars
  <2>2. CaseInv'
    BY <2>1 DEF CaseInv
  <2>3. OpenInv'
    BY <1>2, <2>1 DEF OpenInv, IsTemplate
  <2>4. VfsPath' = VfsPath /\ disk[path].size \in Nat
    <3>1. VfsPath' = VfsPath
      BY <2>1 DEF VfsPath, Filepath, IsFile, IsDir
    <3>2. disk \in [DOMAIN disk -> [gzip : BOOLEAN, size : Nat]]
      BY <1>1 DEF CaseInv, Files
    <3> QED
      BY <3>1, <3>2
  <2>5. ServeInv'
    BY <1>2, <1>3, <2>1, <2>4 DEF ServeInv
  <2>6. UploadInv' /\ TurnInv' /\ PieceInv'
    BY <1>1, <1>2, <2>1, TurnKept, PieceKept, UploadKept DEF fixed
  <2> QED
    BY <2>2, <2>3, <2>5, <2>6
<1>4. ASSUME NEW path \in DOMAIN disk, Refuse(path) PROVE FilesInv'
  <2>1. /\ UNCHANGED <<handler, request, disk, handles, pos, sent, upload, told>>
        /\ opened' = <<path>> /\ reply' = 501 /\ call' = "done"
    BY <1>4 DEF Refuse, fixed, tplVars
  <2>2. CaseInv'
    BY <2>1 DEF CaseInv
  <2>3. OpenInv'
    BY <1>2, <2>1 DEF OpenInv, IsTemplate
  <2>4. ServeInv'
    BY <1>2, <2>1 DEF ServeInv
  <2>5. UploadInv' /\ TurnInv' /\ PieceInv'
    BY <1>1, <1>2, <2>1, TurnKept, PieceKept, UploadKept DEF fixed
  <2> QED
    BY <2>2, <2>3, <2>4, <2>5
<1>5. CASE NotFound
  BY <1>1, <1>5, NotFoundStep
<1>6. CASE StaticFirst /\ ~NotFound
  <2> DEFINE found == FirstOf(Tried(Filepath(TRUE)))
  <2>1. found # <<>> /\ handler = "espfs"
    BY <1>6 DEF StaticFirst
  <2>2. PICK p \in DOMAIN disk : found = <<p>>
    BY <2>1, FirstIsFile
  <2> HIDE DEF found
  <2>3. \/ disk[p].gzip /\ ~request.acceptsGzip /\ Refuse(p)
        \/ ~(disk[p].gzip /\ ~request.acceptsGzip) /\ Respond(p, disk[p].gzip)
    <3>1. IF disk[found[1]].gzip /\ ~request.acceptsGzip THEN Refuse(found[1])
          ELSE Respond(found[1], disk[found[1]].gzip)
      BY <1>6, <2>1 DEF StaticFirst, found
    <3>2. found[1] = p
      BY <2>2
    <3> QED
      BY <3>1, <3>2, Zenon
  <2> QED
    BY <1>3, <1>4, <2>1, <2>3
<1>7. CASE VfsFirst /\ Crash
  BY <1>1, <1>7, NotFoundStep
<1>8. CASE VfsFirst /\ ~NotFound /\ ~Crash
  <2>1. handler = "vfs"
    BY <1>8 DEF VfsFirst
  <2>2. CASE IsFile(VfsPath)
    BY <1>3, <1>8, <2>1, <2>2 DEF VfsFirst, IsFile
  <2>3. CASE ~IsFile(VfsPath)
    <3>1. Compressed(VfsPath) \in DOMAIN disk /\ VfsPath \notin DOMAIN disk
      BY <1>8, <2>3 DEF VfsFirst, IsFile
    <3>2. Respond(Compressed(VfsPath), TRUE) \/ Refuse(Compressed(VfsPath))
      BY <1>8, <2>3 DEF VfsFirst
    <3>3. Compressed(VfsPath) # VfsPath
      BY <3>1
    <3> QED
      BY <1>3, <1>4, <2>1, <3>1, <3>2, <3>3
  <2> QED
    BY <2>2, <2>3
<1> QED
  BY <1>5, <1>6, <1>7, <1>8

\* A piece of a file, and closing before its end.
LEMMA ServeMoreStep ==
  ASSUME FilesInv, ServeNext \/ ServeClosed, UNCHANGED tplVars PROVE FilesInv'
<1> USE DEF FilesInv, Return
<1>1. /\ call = "more" /\ handler \in {"espfs", "vfs"} /\ opened # <<>>
      /\ handles = 1 /\ told = 0 /\ reply = 200 /\ ~IsTemplate
  <2>1. call = "more" /\ handler \in {"espfs", "vfs"}
    BY DEF ServeNext, ServeClosed
  <2>2. opened # <<>> /\ handles = 1 /\ told = 0 /\ ~IsTemplate
    BY <2>1 DEF OpenInv, IsTemplate
  <2>3. reply = 200
    BY <2>1, <2>2 DEF ServeInv
  <2> QED
    BY <2>1, <2>2, <2>3
<1>2. UNCHANGED <<handler, request, disk, opened, reply, gzipHeader, upload, told>>
  BY DEF ServeNext, ServeClosed, fixed, tplVars
<1>3. CaseInv' /\ UploadInv'
  BY <1>1, <1>2, CaseKept, UploadKept DEF fixed
<1>4. VfsPath' = VfsPath
  BY <1>2 DEF VfsPath, Filepath, IsFile, IsDir
<1>5. PICK path \in DOMAIN disk : opened = <<path>>
  BY <1>1 DEF OpenInv
<1>6. disk[path].size \in Nat
  BY <1>1, <1>5 DEF CaseInv, Files
<1>7. CASE ServeNext
  <2> DEFINE len == Min({ChunkLen, disk[opened[1]].size - pos})
  <2>1. /\ len \in Nat /\ len <= disk[path].size - pos
        /\ ReadEnds(len) => len = disk[path].size - pos
    BY <1>1, <1>5, <1>6, MinOfTwo, FilesAssumption DEF ServeInv, ReadEnds
  <2> HIDE DEF len
  <2>2. /\ sent' = sent + len /\ pos' = pos + len
        /\ \/ ReadEnds(len) /\ handles' = 0 /\ call' = "done"
           \/ ~ReadEnds(len) /\ handles' = 1 /\ call' = "more"
    BY <1>1, <1>7 DEF ServeNext, len
  <2>3. OpenInv'
    BY <1>1, <1>2, <2>2 DEF OpenInv, IsTemplate
  <2>4. ServeInv'
    BY <1>1, <1>2, <1>4, <1>5, <1>6, <2>1, <2>2 DEF ServeInv
  <2>5. TurnInv' /\ PieceInv'
    BY <1>1, <1>2, <2>2, TurnKept, PieceKept
  <2> QED
    BY <1>3, <2>3, <2>4, <2>5
<1>8. CASE ServeClosed
  <2>1. /\ handles' = 0 /\ call' = "closed" /\ UNCHANGED <<pos, sent>>
    BY <1>1, <1>8 DEF ServeClosed
  <2>2. OpenInv'
    BY <1>1, <1>2, <2>1 DEF OpenInv, IsTemplate
  <2>3. ServeInv'
    BY <1>1, <1>2, <1>4, <2>1 DEF ServeInv
  <2>4. TurnInv' /\ PieceInv'
    BY <1>1, <1>2, <2>1, TurnKept, PieceKept
  <2> QED
    BY <1>3, <2>2, <2>3, <2>4
<1> QED
  BY <1>7, <1>8

\* The disk when an upload holds a file.
LEMMA HoldingTyped ==
  ASSUME disk \in [DOMAIN disk -> [gzip : BOOLEAN, size : Nat]], NEW path, NEW size \in Nat
  PROVE  /\ Holding(path, size) \in [DOMAIN Holding(path, size) -> [gzip : BOOLEAN, size : Nat]]
         /\ path \in DOMAIN Holding(path, size)
         /\ Holding(path, size)[path].size = size
  BY DEF Holding

\* What an upload has open.
LEMMA UploadOpen ==
  ASSUME FilesInv, handler = "upload"
  PROVE  /\ opened = <<>> \/ (opened = <<UploadPath>> /\ opened[1] = UploadPath
                              /\ UploadPath \in DOMAIN disk)
         /\ disk \in [DOMAIN disk -> [gzip : BOOLEAN, size : Nat]]
         /\ request.length \in Nat /\ told = 0
         /\ upload.written \in Nat /\ upload.received \in Nat
<1>1. \/ opened = <<>>
      \/ opened = <<UploadPath>> /\ opened[1] = UploadPath /\ UploadPath \in DOMAIN disk
  <2>1. opened = <<>> \/ opened = <<UploadPath>>
    <3>1. CASE call = "first"
      BY <3>1 DEF FilesInv, OpenInv
    <3>2. CASE call # "first"
      BY <3>2 DEF FilesInv, UploadInv
    <3> QED
      BY <3>1, <3>2
  <2>2. ASSUME opened = <<UploadPath>> PROVE opened[1] = UploadPath /\ UploadPath \in DOMAIN disk
    <3>1. PICK p \in DOMAIN disk : opened = <<p>>
      BY <2>2 DEF FilesInv, OpenInv
    <3>2. opened[1] = p /\ opened[1] = UploadPath
      BY <2>2, <3>1
    <3> QED
      BY <3>2
  <2> QED
    BY <2>1, <2>2
<1> QED
  BY <1>1 DEF FilesInv, OpenInv, UploadInv, UploadStates, IsTemplate, CaseInv, Files

\* The part of a call that all calls of an upload share.
LEMMA ProcessStep ==
  ASSUME FilesInv, handler = "upload", NEW state, NEW len \in Pieces, NEW count \in 0 .. ChunkLen,
         NEW opens \in BOOLEAN, Process(state, len, count, opens),
         state \in {"START", "WRITE", "DONE", "ERR"},
         \/ ~opens /\ state = upload.state /\ call = "more" /\ (state = "WRITE" => opened # <<>>)
         \/ call = "first" /\ (opens <=> state = "WRITE") /\ state # "DONE",
         UploadAt(state, upload.received, upload.written, opens \/ opened # <<>>)
           \/ (opens /\ upload.received = 0 /\ upload.written = 0),
         UNCHANGED tplVars
  PROVE  FilesInv'
<1> USE DEF FilesInv
<1> DEFINE received == upload.received + len
           next == IF state = "WRITE"
                   THEN WriteState(state, len, count, upload.received, upload.written)
                   ELSE state
           over == received = request.length
           written == upload.written + count
           file == IF opens THEN <<UploadPath>> ELSE opened
<1>1. /\ request.length \in Nat /\ upload.received \in Nat /\ upload.written \in Nat
      /\ len \in Nat /\ count \in Nat /\ received \in Nat /\ received <= request.length
      /\ written \in Nat
      /\ call \in {"first", "more"} /\ told = 0
      /\ disk \in [DOMAIN disk -> [gzip : BOOLEAN, size : Nat]]
      /\ file = <<>> \/ (file = <<UploadPath>> /\ file[1] = UploadPath)
  BY UploadOpen, FilesAssumption DEF Pieces
<1>2. PICK lost \in Losses(over /\ file # <<>>, written) :
        /\ upload' = [state |-> next, received |-> received, written |-> written, lost |-> lost,
                      success |-> IF over THEN <<next = "DONE">> ELSE <<>>]
        /\ disk' = IF file = <<>> THEN disk ELSE Holding(file[1], IF over THEN written - lost ELSE 0)
  BY DEF Process
<1>3. /\ count <= len /\ (state # "WRITE" => count = 0)
      /\ opened' = file
      /\ handles' = IF over THEN 0 ELSE handles + (IF opens THEN 1 ELSE 0)
      /\ call' = IF over THEN "done" ELSE "more"
      /\ UNCHANGED <<handler, request, pos, reply, gzipHeader, sent, told>>
  BY DEF Process, Return, fixed, tplVars
<1>4. lost \in 0 .. written /\ lost \in Nat
  BY <1>1, <1>2 DEF Losses
<1>5. next \in {"START", "WRITE", "DONE", "ERR"}
  BY DEF WriteState
<1>6. UploadAt(next, received, written, opened' # <<>>)
  <2>1. CASE state = "WRITE"
    <3>1. opened' # <<>> /\ upload.written = upload.received
      BY <1>3, <2>1 DEF UploadAt
    <3> QED
      BY <1>1, <1>3, <2>1, <3>1 DEF UploadAt, WriteState
  <2>2. CASE state # "WRITE"
    <3>1. ~opens /\ count = 0 /\ opened' = opened
      BY <1>3, <2>2
    <3>2. UploadAt(state, upload.received, upload.written, opened # <<>>)
      BY <3>1 DEF UploadAt
    <3>3. upload.written <= upload.received /\ upload.received <= received
          /\ upload.written <= received
      <4>1. upload.written <= upload.received
        BY <3>2 DEF UploadAt
      <4>2. upload.received <= received
        BY <1>1
      <4> QED
        BY <1>1, <4>1, <4>2
    <3>4. UploadAt(state, received, upload.written, opened' # <<>>)
      <4>1. received <= request.length
        BY <1>1
      <4> HIDE DEF received
      <4> QED
        BY <2>2, <3>1, <3>2, <3>3, <4>1, Zenon DEF UploadAt
    <3>5. written = upload.written
      BY <1>1, <3>1
    <3> QED
      BY <2>2, <3>4, <3>5
  <2> QED
    BY <2>1, <2>2
<1>7. /\ disk' \in [DOMAIN disk' -> [gzip : BOOLEAN, size : Nat]]
      /\ opened' # <<>> => opened' = <<UploadPath>> /\ UploadPath \in DOMAIN disk'
      /\ over /\ opened' # <<>> => disk'[UploadPath].size + lost = written
  <2>1. CASE file = <<>>
    BY <1>1, <1>2, <1>3, <2>1
  <2>2. CASE file # <<>>
    <3> DEFINE size == IF over THEN written - lost ELSE 0
    <3>1. size \in Nat /\ (over => size + lost = written)
      BY <1>1, <1>4, SMTT(30)
    <3>2. disk' = Holding(UploadPath, size)
      BY <1>1, <1>2, <2>2
    <3> HIDE DEF size
    <3>3. /\ disk' \in [DOMAIN disk' -> [gzip : BOOLEAN, size : Nat]]
          /\ UploadPath \in DOMAIN disk' /\ disk'[UploadPath].size = size
      BY <1>1, <3>1, <3>2, HoldingTyped
    <3> QED
      BY <1>1, <1>3, <2>2, <3>1, <3>3
  <2> QED
    BY <2>1, <2>2
<1>8. UploadPath' = UploadPath
  BY <1>3 DEF UploadPath
<1>9. OpenInv'
  <2>1. /\ opened' # <<>> /\ call' = "more" => handles' = 1
        /\ opened' = <<>> \/ call' = "done" => handles' = 0
    BY <1>3 DEF OpenInv
  <2> QED
    BY <1>1, <1>3, <1>7, <2>1 DEF OpenInv, IsTemplate
<1>10. upload' \in UploadStates
  <2>1. (IF over THEN <<next = "DONE">> ELSE <<>>) \in Answers
    BY DEF Answers
  <2> HIDE DEF next, over, written
  <2> QED
    BY <1>1, <1>2, <1>4, <1>5, <2>1 DEF UploadStates
<1>11. UploadInv'
  <2>1. /\ upload'.success # <<>> => over /\ (upload'.success[1] <=> upload'.state = "DONE")
        /\ upload'.received = received /\ upload'.written = written /\ upload'.lost = lost
        /\ upload'.state = next /\ (call' = "more" => upload'.success = <<>>)
    BY <1>2, <1>3
  <2>2. call' # "first" /\ handler' = "upload" /\ opened' \in {<<>>, <<UploadPath'>>}
    BY <1>1, <1>3, <1>8
  <2>3. UploadAt(upload'.state, upload'.received, upload'.written, opened' # <<>>)
    BY <1>6, <2>1
  <2>4. upload'.success # <<>> /\ opened' # <<>> =>
          disk'[UploadPath'].size + upload'.lost = upload'.written
    BY <1>7, <1>8, <2>1
  <2>5. upload'.success # <<>> =>
          upload'.received = request'.length /\ (upload'.success[1] <=> upload'.state = "DONE")
    BY <1>3, <2>1
  <2> HIDE DEF next, written, received, over, file
  <2>6. UploadAt(upload.state, upload.received, upload.written, opened # <<>>)'
    BY <1>3, <2>3 DEF UploadAt
  <2> QED
    BY <1>10, <2>1, <2>2, <2>4, <2>5, <2>6 DEF UploadInv
<1>12. CaseInv'
  BY <1>1, <1>3, <1>7 DEF CaseInv, Files
<1>13. ServeInv' /\ TurnInv' /\ PieceInv'
  BY <1>1, <1>3, TurnKept, PieceKept DEF ServeInv, IsTemplate
<1> QED
  BY <1>9, <1>11, <1>12, <1>13

\* The calls of an upload.
LEMMA UploadFirstStep ==
  ASSUME FilesInv, UploadFirst, UNCHANGED tplVars PROVE FilesInv'
<1>1. handler = "upload" /\ call = "first"
  BY DEF UploadFirst
<1>2. opened = <<>> /\ upload = NoUpload /\ request.length \in Nat
  BY <1>1 DEF FilesInv, OpenInv, UploadInv, CaseInv
<1>3. CASE NotFound \/ Crash
  BY <1>1, <1>3, NotFoundStep
<1>4. ASSUME NEW state \in UploadStarts, NEW len \in Pieces, NEW count \in 0 .. ChunkLen,
             Process(state, len, count, state = "WRITE")
      PROVE  FilesInv'
  <2> DEFINE opens == state = "WRITE"
  <2>1. state \in {"START", "WRITE", "ERR"} /\ opens \in BOOLEAN
    BY DEF UploadStarts
  <2>2. UploadAt(state, upload.received, upload.written, opens \/ opened # <<>>)
          \/ (opens /\ upload.received = 0 /\ upload.written = 0)
    BY <1>2, <2>1 DEF NoUpload, UploadAt
  <2> QED
    BY <1>1, <1>4, <2>1, <2>2, ProcessStep, ZenonT(40)
<1> QED
  BY <1>3, <1>4 DEF UploadFirst

LEMMA UploadNextStep ==
  ASSUME FilesInv, UploadNext, UNCHANGED tplVars PROVE FilesInv'
<1>1. handler = "upload" /\ call = "more"
  BY DEF UploadNext
<1>2. PICK len \in Pieces, count \in 0 .. ChunkLen : Process(upload.state, len, count, FALSE)
  BY DEF UploadNext
<1>3. /\ upload.state \in {"START", "WRITE", "DONE", "ERR"}
      /\ UploadAt(upload.state, upload.received, upload.written, opened # <<>>)
  BY <1>1 DEF FilesInv, UploadInv, UploadStates
<1>4. upload.state = "WRITE" => opened # <<>>
  BY <1>3 DEF UploadAt
<1>5. UploadAt(upload.state, upload.received, upload.written, FALSE \/ opened # <<>>)
  BY <1>3 DEF UploadAt
<1> QED
  BY <1>1, <1>2, <1>3, <1>4, <1>5, ProcessStep, ZenonT(40)

LEMMA UploadClosedStep ==
  ASSUME FilesInv, UploadClosed, UNCHANGED tplVars PROVE FilesInv'
<1> USE DEF FilesInv
<1>1. /\ handler = "upload" /\ call = "more" /\ call' = "closed" /\ handles' = 0
      /\ UNCHANGED <<handler, request, opened, pos, reply, gzipHeader, sent, told>>
  BY DEF UploadClosed, Return, fixed, tplVars
<1>2. PICK lost \in Losses(opened # <<>>, upload.written) :
        /\ upload' = [upload EXCEPT !.lost = lost]
        /\ disk' = IF opened = <<>> THEN disk ELSE Holding(opened[1], upload.written - lost)
  BY DEF UploadClosed
<1>3. upload.success = <<>> /\ upload \in UploadStates
  BY <1>1 DEF UploadInv
<1>4. /\ lost \in Nat /\ upload.written - lost \in Nat
  BY <1>2, <1>3 DEF Losses, UploadStates
<1>5. /\ upload' \in UploadStates /\ upload'.success = <<>>
      /\ upload'.state = upload.state /\ upload'.received = upload.received
      /\ upload'.written = upload.written
  BY <1>2, <1>3, <1>4 DEF UploadStates
<1>6. /\ disk' \in [DOMAIN disk' -> [gzip : BOOLEAN, size : Nat]]
      /\ opened # <<>> => opened = <<UploadPath>> /\ UploadPath \in DOMAIN disk'
  BY <1>1, <1>2, <1>4, UploadOpen, HoldingTyped
<1>7. CaseInv'
  BY <1>1, <1>6 DEF CaseInv, Files
<1>8. TurnInv' /\ PieceInv'
  BY <1>1, TurnKept, PieceKept DEF IsTemplate
<1>9. OpenInv' /\ ServeInv'
  BY <1>1, <1>6 DEF OpenInv, ServeInv, IsTemplate
<1>10. UploadInv'
  <2>1. UploadAt(upload.state, upload.received, upload.written, opened # <<>>)
    BY <1>1 DEF UploadInv
  <2>2. UploadAt(upload.state, upload.received, upload.written, opened # <<>>)'
    BY <1>1, <1>5, <2>1 DEF UploadAt
  <2>3. opened' \in {<<>>, <<UploadPath'>>}
    BY <1>1 DEF UploadInv, UploadPath
  <2> QED
    BY <1>1, <1>5, <2>2, <2>3 DEF UploadInv
<1> QED
  BY <1>7, <1>8, <1>9, <1>10

\* Upload and position are of no concern to a template.
LEMMA TemplateKept ==
  ASSUME FilesInv, IsTemplate, UNCHANGED <<fixed, disk, opened, reply, gzipHeader, sent, upload>>,
         pos' \in Nat
  PROVE  CaseInv' /\ ServeInv' /\ UploadInv'
<1>1. UNCHANGED <<handler, request, disk>> /\ handler \notin {"espfs", "vfs", "upload"}
  BY DEF fixed, IsTemplate
<1>2. CaseInv'
  BY <1>1 DEF FilesInv, CaseInv
<1>3. ServeInv'
  BY <1>1 DEF FilesInv, ServeInv
<1>4. UploadInv'
  BY <1>1 DEF FilesInv, UploadInv
<1> QED
  BY <1>2, <1>3, <1>4

\* What a template handler has open when it is called.
LEMMA TemplateOpen ==
  ASSUME FilesInv, IsTemplate, call \in {"more", "inside"}
  PROVE  /\ handles = 1 /\ told = 0
         /\ \E p \in DOMAIN disk : opened = <<p>>
         /\ Text \in Seq(STRING) /\ Len(Text) \in Nat
         /\ pos \in Nat /\ Len(buff) \in Nat /\ Len(buff) <= pos /\ pos <= Len(Text)
         /\ buff = SubSeq(Text, pos - Len(buff) + 1, pos)
<1>1. handles = 1 /\ told = 0 /\ opened # <<>>
  BY DEF FilesInv, OpenInv, IsTemplate
<1>2. PICK p \in DOMAIN disk : opened = <<p>>
  BY <1>1 DEF FilesInv, OpenInv
<1>3. disk[p] \in [gzip : BOOLEAN, text : Seq(STRING)]
  BY <1>2 DEF FilesInv, CaseInv, Files, IsTemplate
<1>4. Text = disk[p].text
  BY <1>2 DEF Text
<1>5. Text \in Seq(STRING) /\ Len(Text) \in Nat
  BY <1>3, <1>4
<1>6. pos \in Nat /\ Len(buff) \in Nat
  <2>1. pos \in Nat
    BY DEF FilesInv, ServeInv
  <2>2. buff \in Seq(STRING)
    BY DEF FilesInv, TurnInv
  <2> QED
    BY <2>1, <2>2
<1> QED
  BY <1>1, <1>2, <1>5, <1>6 DEF FilesInv, PieceInv

LEMMA TemplateFirstStep ==
  ASSUME FilesInv, TemplateFirst \/ VfsTemplateFirst PROVE FilesInv'
<1>1. call = "first" /\ IsTemplate /\ UNCHANGED tplVars
  BY DEF TemplateFirst, VfsTemplateFirst, IsTemplate
<1>2. CASE NotFound \/ Crash
  BY <1>1, <1>2, NotFoundStep
<1>3. ASSUME NEW path \in DOMAIN disk, Respond(path, FALSE) \/ Respond(path, disk[path].gzip)
      PROVE  FilesInv'
  <2>1. /\ UNCHANGED <<fixed, handler, request, disk, sent, upload, told>>
        /\ opened' = <<path>> /\ handles' = handles + 1 /\ pos' = 0 /\ reply' = 200
        /\ call' = "more"
    BY <1>1, <1>3 DEF Respond, Return, fixed, tplVars
  <2>2. handler \notin {"espfs", "vfs", "upload"} /\ handles = 0 /\ told = 0
    BY <1>1 DEF IsTemplate, FilesInv, OpenInv
  <2>3. CaseInv' /\ ServeInv'
    BY <2>1, <2>2, ZenonT(40) DEF FilesInv, CaseInv, ServeInv
  <2>4. OpenInv'
    <3>1. handles' = 1 /\ told' = 0 /\ opened' # <<>>
      BY <2>1, <2>2
    <3> QED
      BY <2>1, <2>2, <3>1 DEF OpenInv
  <2>5. UploadInv' /\ TurnInv'
    BY <1>1, <2>1, <2>2, UploadKept, TurnKept DEF FilesInv
  <2>6. PieceInv'
    <3>1. buff' = <<>> /\ opened' # <<>>
      BY <1>1, <2>1 DEF FilesInv, OpenInv, PieceInv, tplVars, bufferVars, sendVars
    <3>2. Text' = disk[path].text /\ disk[path].text \in Seq(STRING)
      <4>1. disk \in [DOMAIN disk -> [gzip : BOOLEAN, text : Seq(STRING)]]
        BY <1>1 DEF FilesInv, CaseInv, Files, IsTemplate
      <4> QED
        BY <2>1, <4>1 DEF Text
    <3> QED
      BY <2>1, <3>1, <3>2, SubSeqEmpty DEF PieceInv
  <2> QED
    BY <2>3, <2>4, <2>5, <2>6 DEF FilesInv
<1>4. CASE TemplateFirst /\ ~NotFound
  <2> DEFINE found == FirstOf(Tried(Filepath(TRUE)))
  <2>1. found # <<>>
    BY <1>4 DEF TemplateFirst
  <2>2. PICK p \in DOMAIN disk : found = <<p>>
    BY <2>1, FirstIsFile
  <2> HIDE DEF found
  <2>3. Respond(found[1], FALSE) /\ found[1] = p
    <3>1. IF disk[found[1]].gzip THEN NotFound ELSE Respond(found[1], FALSE)
      BY <1>4, <2>1 DEF TemplateFirst, found
    <3> QED
      BY <1>4, <2>2, <3>1
  <2> QED
    BY <1>3, <2>2, <2>3
<1>5. CASE VfsTemplateFirst /\ ~NotFound /\ ~Crash
  <2>1. IsFile(request.url) /\ Respond(request.url, FALSE)
    BY <1>5 DEF VfsTemplateFirst, Crash
  <2> QED
    BY <1>3, <2>1 DEF IsFile
<1> QED
  BY <1>2, <1>4, <1>5

LEMMA TemplateNextStep ==
  ASSUME FilesInv, TemplateNext PROVE FilesInv'
<1> DEFINE len == Min({ChunkLen, Len(Text) - pos})
<1>1. /\ IsTemplate /\ call = "more" /\ call' = "inside"
      /\ UNCHANGED <<fixed, handler, request, disk, opened, handles, reply, gzipHeader, sent, upload, told>>
      /\ UNCHANGED <<tokenPos, token, encoding, tplArg, chunkResume, output>>
  BY DEF TemplateNext, Return, fixed, tokenVars
<1>2. /\ handles = 1 /\ opened # <<>> /\ told = 0
      /\ pos \in Nat /\ pos <= Len(Text) /\ Len(Text) \in Nat /\ Text \in Seq(STRING)
      /\ Text' = Text
  BY <1>1, TemplateOpen DEF Text
<1>3. OpenInv'
  BY <1>1, <1>2 DEF FilesInv, OpenInv, IsTemplate
<1>4. CASE chunkResume
  <2>1. UNCHANGED <<pos, buff, x, sp, e>>
    BY <1>4 DEF TemplateNext, bufferVars
  <2>2. TurnInv'
    <3>1. TurnInv
      BY DEF FilesInv
    <3>2. tokenPos > 0 /\ tokenPos # -1
      <4>1. chunkResume => tokenPos > 0
        BY <3>1 DEF TurnInv
      <4>2. tokenPos > 0
        BY <1>4, <4>1
      <4> QED
        BY <4>2
    <3>3. /\ buff' \in Seq(STRING) /\ token' \in Seq(STRING) /\ tplArg' \in Nat
          /\ chunkResume' \in BOOLEAN /\ encoding' \in {"PLAIN", "HTML"}
      BY <1>1, <1>4, <2>1, <3>1 DEF TurnInv
    <3>4. /\ tokenPos' \in -1 .. TokenSize - 1
          /\ x' \in 0 .. Len(buff') /\ sp' \in Nat /\ e' \in Nat /\ e' + sp' <= Len(buff')
      BY <1>1, <1>4, <2>1, <3>1 DEF TurnInv
    <3>5. /\ tokenPos' >= 0 => sp' = 0
          /\ tokenPos' >= 0 /\ ~chunkResume' => Len(token') = tokenPos'
          /\ call' = "inside" /\ tokenPos' = -1 => e' + sp' = x'
      BY <1>1, <1>4, <2>1, <3>1, <3>2 DEF TurnInv
    <3>6. /\ chunkResume' => /\ handler' = "espfs template"
                    /\ tokenPos' > 0 /\ x' < Len(buff') /\ buff'[x' + 1] = "%"
      BY <1>1, <1>4, <2>1, <3>1 DEF TurnInv
    <3> QED
      BY <3>3, <3>4, <3>5, <3>6 DEF TurnInv
  <2>3. PieceInv'
    BY <1>1, <1>2, <2>1 DEF FilesInv, PieceInv, IsTemplate
  <2> QED
    BY <1>1, <1>2, <1>3, <2>1, <2>2, <2>3, TemplateKept DEF FilesInv
<1>5. CASE ~chunkResume
  <2>1. buff' = SubSeq(Text, pos + 1, pos + len) /\ pos' = pos + len /\ e' = 0 /\ sp' = 0 /\ x' = 0
    BY <1>5 DEF TemplateNext
  <2>2. len \in Nat /\ pos + len <= Len(Text)
    BY <1>2, MinOfTwo, FilesAssumption
  <2> HIDE DEF len
  <2>3. buff' \in Seq(STRING) /\ Len(buff') = len
    BY <1>2, <2>1, <2>2, SubSeqProperties
  <2>4. TurnInv'
    <3>1. TurnInv
      BY DEF FilesInv
    <3>2. /\ buff' \in Seq(STRING) /\ token' \in Seq(STRING) /\ tplArg' \in Nat
          /\ chunkResume' \in BOOLEAN /\ encoding' \in {"PLAIN", "HTML"}
          /\ tokenPos' \in -1 .. TokenSize - 1
          /\ tokenPos' >= 0 /\ ~chunkResume' => Len(token') = tokenPos'
      BY <1>1, <2>3, <3>1 DEF TurnInv
    <3>3. /\ x' \in 0 .. Len(buff') /\ sp' = 0 /\ sp' \in Nat /\ e' \in Nat
          /\ e' + sp' <= Len(buff') /\ e' + sp' = x'
      BY <2>1, <2>2, <2>3
    <3>4. ~chunkResume'
      BY <1>1, <1>5
    <3> QED
      BY <3>2, <3>3, <3>4 DEF TurnInv
  <2>5. PieceInv'
    <3>1. opened' # <<>> /\ Text' = Text
      BY <1>1, <1>2
    <3>2. Len(buff') <= pos' /\ pos' <= Len(Text) /\ pos' - Len(buff') + 1 = pos + 1
      BY <1>2, <2>1, <2>2, <2>3
    <3>3. buff' = SubSeq(Text', pos' - Len(buff') + 1, pos')
      BY <2>1, <3>1, <3>2
    <3> QED
      BY <3>1, <3>2, <3>3 DEF PieceInv
  <2> QED
    BY <1>1, <1>2, <1>3, <2>1, <2>2, <2>4, <2>5, TemplateKept DEF FilesInv
<1> QED
  BY <1>4, <1>5

\* A turn of the loop leaves to be shown only where it stands afterwards.
LEMMA TurnStep ==
  ASSUME FilesInv, IsTemplate, call = "inside", call' \in {"more", "inside"}, TurnKeeps, TurnInv'
  PROVE  FilesInv'
<1>1. UNCHANGED <<fixed, handler, request, disk, opened, handles, pos, reply, gzipHeader, sent,
                  upload, buff, told>>
  BY DEF TurnKeeps, fixed, fileVars
<1>2. /\ handles = 1 /\ told = 0 /\ opened # <<>> /\ pos \in Nat
  <2>1. call \in {"more", "inside"}
    OBVIOUS
  <2>2. \E p \in DOMAIN disk : opened = <<p>>
    BY <2>1, TemplateOpen
  <2> QED
    BY <2>1, <2>2, TemplateOpen
<1>3. CaseInv' /\ ServeInv' /\ UploadInv'
  BY <1>1, <1>2, TemplateKept
<1>4. OpenInv'
  <2>1. handles' = 1 /\ told' = 0 /\ opened' # <<>> /\ IsTemplate'
    BY <1>1, <1>2 DEF IsTemplate
  <2> QED
    BY <1>1, <2>1 DEF FilesInv, OpenInv
<1>5. PieceInv'
  BY <1>1, <1>2 DEF FilesInv, PieceInv, IsTemplate, Text
<1> QED
  BY <1>3, <1>4, <1>5 DEF FilesInv

\* What a turn finds.
LEMMA TurnFacts ==
  ASSUME FilesInv, Inside
  PROVE  /\ TurnInv /\ IsTemplate /\ call = "inside"
         /\ x \in Nat /\ x < Len(buff) /\ Len(buff) \in Nat /\ Sign \in STRING
<1>1. TurnInv /\ IsTemplate /\ call = "inside" /\ x < Len(buff)
  BY DEF FilesInv, Inside
<1>2. buff \in Seq(STRING) /\ x \in 0 .. Len(buff)
  BY <1>1 DEF TurnInv
<1> QED
  BY <1>1, <1>2 DEF Sign

\* A token that is answered again is known by its last sign.
LEMMA Resumed ==
  ASSUME TurnInv
  PROVE  chunkResume => handler = "espfs template" /\ tokenPos > 0 /\ tokenPos # -1 /\ tokenPos # 0
                        /\ x < Len(buff) /\ Sign = "%"
<1>1. /\ chunkResume => tokenPos > 0
      /\ chunkResume => handler = "espfs template" /\ x < Len(buff) /\ Sign = "%"
  BY DEF TurnInv, Sign
<1>2. tokenPos > 0 => tokenPos # -1 /\ tokenPos # 0
  OBVIOUS
<1> QED
  BY <1>1, <1>2

LEMMA OrdinaryStep == ASSUME FilesInv, Ordinary PROVE FilesInv'
<1>1. /\ TurnInv /\ IsTemplate /\ call = "inside" /\ call' = "inside" /\ tokenPos = -1
      /\ x \in Nat /\ x < Len(buff) /\ Len(buff) \in Nat
      /\ UNCHANGED <<e, encoding, tplArg, chunkResume, buff, handler>> /\ x' = x + 1
      /\ \/ sp' = sp + 1 /\ UNCHANGED <<tokenPos, token>>
         \/ sp' = 0 /\ tokenPos' = 0 /\ token' = <<>>
  BY TurnFacts DEF Ordinary, TurnKeeps, fixed
<1>2. ~chunkResume
  BY <1>1, Resumed
<1>3. e \in Nat /\ sp \in Nat /\ e + sp = x /\ tokenPos' \in -1 .. TokenSize - 1
  <2>1. /\ call = "inside" /\ tokenPos = -1 => e + sp = x
        /\ e \in Nat /\ sp \in Nat /\ tokenPos \in -1 .. TokenSize - 1
    BY <1>1 DEF TurnInv
  <2> QED
    BY <1>1, <2>1, TemplatesAssumption
<1>4. /\ buff' \in Seq(STRING) /\ token' \in Seq(STRING) /\ tplArg' \in Nat
      /\ chunkResume' \in BOOLEAN /\ encoding' \in {"PLAIN", "HTML"}
  <2>1. token \in Seq(STRING) /\ <<>> \in Seq(STRING)
    BY <1>1 DEF TurnInv
  <2>2. /\ buff \in Seq(STRING) /\ tplArg \in Nat
        /\ chunkResume \in BOOLEAN /\ encoding \in {"PLAIN", "HTML"}
    BY <1>1 DEF TurnInv
  <2> QED
    BY <1>1, <2>1, <2>2
<1>5. /\ x' \in 0 .. Len(buff') /\ sp' \in Nat /\ e' \in Nat /\ e' + sp' <= Len(buff')
      /\ tokenPos' >= 0 => sp' = 0 /\ Len(token') = tokenPos'
      /\ tokenPos' = -1 => e' + sp' = x'
  BY <1>1, <1>3
<1>6. ~chunkResume'
  BY <1>1, <1>2
<1>7. TurnInv'
  BY <1>3, <1>4, <1>5, <1>6 DEF TurnInv
<1> QED
  BY <1>1, <1>7, TurnStep DEF Ordinary

\* The turns that go back to text.
LEMMA BackStep ==
  ASSUME FilesInv, Inside, tokenPos >= 0, BackToText, call' = call, TurnKeeps,
         token' \in Seq(STRING), tplArg' \in Nat, encoding' \in {"PLAIN", "HTML"},
         chunkResume' \in BOOLEAN, ~chunkResume'
  PROVE  FilesInv'
<1>1. /\ TurnInv /\ IsTemplate /\ call = "inside"
      /\ x \in Nat /\ x < Len(buff) /\ Len(buff) \in Nat
      /\ tokenPos' = -1 /\ e' = x + 1 /\ x' = x + 1 /\ sp' = sp /\ buff' = buff
  BY TurnFacts DEF BackToText, TurnKeeps
<1>2. sp = 0
  BY <1>1 DEF TurnInv
<1>3. /\ x' \in 0 .. Len(buff') /\ sp' \in Nat /\ e' \in Nat /\ e' + sp' <= Len(buff')
      /\ tokenPos' \in -1 .. TokenSize - 1 /\ ~(tokenPos' >= 0) /\ e' + sp' = x'
  BY <1>1, <1>2, TemplatesAssumption
<1>4. buff' \in Seq(STRING)
  BY <1>1 DEF TurnInv
<1>5. TurnInv'
  BY <1>3, <1>4 DEF TurnInv
<1> QED
  BY <1>1, <1>5, TurnStep

LEMMA EscapedStep == ASSUME FilesInv, Escaped PROVE FilesInv'
<1>1. Inside /\ tokenPos = 0 /\ BackToText /\ call' = call /\ TurnKeeps
      /\ UNCHANGED <<token, encoding, tplArg, chunkResume>>
  BY DEF Escaped
<1>2. TurnInv
  BY DEF FilesInv
<1>3. ~chunkResume
  BY <1>1, <1>2, Resumed
<1>4. token \in Seq(STRING) /\ tplArg \in Nat /\ encoding \in {"PLAIN", "HTML"} /\ chunkResume \in BOOLEAN
  BY <1>2 DEF TurnInv
<1> QED
  BY <1>1, <1>3, <1>4, BackStep

LEMMA CollectStep == ASSUME FilesInv, Collect PROVE FilesInv'
<1>1. /\ TurnInv /\ IsTemplate /\ call = "inside" /\ call' = "inside" /\ tokenPos >= 0
      /\ x \in Nat /\ x < Len(buff) /\ Len(buff) \in Nat /\ Sign \in STRING /\ Sign # "%"
      /\ UNCHANGED <<e, sp, encoding, tplArg, chunkResume, buff, handler>> /\ x' = x + 1
      /\ \/ Room /\ tokenPos' = tokenPos + 1 /\ token' = Append(token, Sign)
         \/ UNCHANGED <<tokenPos, token>>
  BY TurnFacts DEF Collect, TurnKeeps, fixed
<1>2. ~chunkResume
  BY <1>1, Resumed
<1>3. /\ e \in Nat /\ sp = 0 /\ e + sp <= Len(buff)
      /\ tokenPos \in -1 .. TokenSize - 1 /\ token \in Seq(STRING)
      /\ ~chunkResume => Len(token) = tokenPos
  BY <1>1 DEF TurnInv
<1>4. /\ tokenPos' \in -1 .. TokenSize - 1 /\ tokenPos' >= 0
      /\ token' \in Seq(STRING) /\ Len(token') = tokenPos'
  <2>1. Len(token) = tokenPos
    BY <1>2, <1>3
  <2>2. CASE Room /\ tokenPos' = tokenPos + 1 /\ token' = Append(token, Sign)
    <3>1. token' \in Seq(STRING) /\ Len(token') = Len(token) + 1
      BY <1>1, <1>3, <2>2, AppendProperties
    <3> QED
      BY <1>1, <1>3, <2>1, <2>2, <3>1, TemplatesAssumption DEF Room
  <2>3. CASE UNCHANGED <<tokenPos, token>>
    BY <1>1, <1>3, <2>1, <2>3
  <2> QED
    BY <1>1, <2>2, <2>3
<1>5. /\ buff' \in Seq(STRING) /\ tplArg' \in Nat
      /\ chunkResume' \in BOOLEAN /\ encoding' \in {"PLAIN", "HTML"}
  BY <1>1 DEF TurnInv
<1>6. /\ x' \in 0 .. Len(buff') /\ sp' = 0 /\ sp' \in Nat /\ e' \in Nat /\ e' + sp' <= Len(buff')
      /\ tokenPos' # -1
  BY <1>1, <1>3, <1>4
<1>7. ~chunkResume'
  BY <1>1, <1>2
<1>8. TurnInv'
  BY <1>4, <1>5, <1>6, <1>7 DEF TurnInv
<1> QED
  BY <1>1, <1>8, TurnStep DEF Collect

LEMMA GarbageStep == ASSUME FilesInv, Garbage PROVE FilesInv'
<1>1. /\ Inside /\ tokenPos >= 0 /\ BackToText /\ call' = call /\ TurnKeeps /\ Sign # "%"
      /\ UNCHANGED <<token, encoding, tplArg, chunkResume>>
  BY DEF Garbage
<1>2. TurnInv
  BY DEF FilesInv
<1>3. ~chunkResume
  BY <1>1, <1>2, Resumed
<1>4. token \in Seq(STRING) /\ tplArg \in Nat /\ encoding \in {"PLAIN", "HTML"} /\ chunkResume \in BOOLEAN
  BY <1>2 DEF TurnInv
<1> QED
  BY <1>1, <1>3, <1>4, BackStep

\* The name of a token is a text.
LEMMA NameOfToken ==
  ASSUME TurnInv, tokenPos > 0
  PROVE  Named.name \in Seq(STRING) /\ Named.enc \in {"PLAIN", "HTML"}
<1>1. token \in Seq(STRING) /\ encoding \in {"PLAIN", "HTML"} /\ tokenPos \in -1 .. TokenSize - 1
  BY DEF TurnInv
<1>2. CASE chunkResume \/ handler = "vfs template"
  BY <1>1, <1>2 DEF Named
<1>3. CASE ~(chunkResume \/ handler = "vfs template")
  <2>1. tokenPos >= 0 /\ ~chunkResume => Len(token) = tokenPos
    BY DEF TurnInv
  <2>2. tokenPos >= 0
    BY <1>1, TemplatesAssumption
  <2>3. Len(token) # 0
    <3>1. ~chunkResume
      BY <1>3
    <3>2. Len(token) = tokenPos
      BY <2>1, <2>2, <3>1
    <3> QED
      BY <3>2
  <2>4. token # <<>>
    BY <2>3
  <2>5. Tail(token) \in Seq(STRING)
    BY <1>1, <2>4
  <2>6. \/ Named = [enc |-> "HTML", name |-> Tail(token)]
        \/ Named = [enc |-> "PLAIN", name |-> token]
    BY <1>3 DEF Named
  <2> QED
    BY <1>1, <2>5, <2>6, SMTT(30)
<1> QED
  BY <1>2, <1>3

LEMMA TokenStep == ASSUME FilesInv, Token PROVE FilesInv'
<1>1. /\ Inside /\ TurnInv /\ IsTemplate /\ call = "inside" /\ tokenPos > 0 /\ Sign = "%"
      /\ x \in Nat /\ x < Len(buff) /\ Len(buff) \in Nat
      /\ token' = Named.name /\ encoding' = Named.enc /\ TurnKeeps
      /\ UNCHANGED <<handler, buff>>
  BY TurnFacts DEF Token, TurnKeeps, fixed
<1>2. token' \in Seq(STRING) /\ encoding' \in {"PLAIN", "HTML"}
  BY <1>1, NameOfToken
<1>3. tokenPos \in -1 .. TokenSize - 1 /\ tokenPos >= 0 /\ tplArg \in Nat
  <2>1. tokenPos \in -1 .. TokenSize - 1 /\ tplArg \in Nat
    BY <1>1 DEF TurnInv
  <2> QED
    BY <1>1, <2>1, TemplatesAssumption
<1>4. CASE handler = "espfs template" /\ tplArg + 1 < Parts(Named.name)
  <2>1. /\ tplArg' = tplArg + 1 /\ chunkResume' = TRUE /\ call' = "more"
        /\ UNCHANGED <<tokenPos, x, sp, e>>
    BY <1>4 DEF Token, Return
  <2>2. /\ buff' \in Seq(STRING) /\ tplArg' \in Nat /\ chunkResume' \in BOOLEAN
        /\ tokenPos' \in -1 .. TokenSize - 1 /\ chunkResume' /\ call' # "inside"
    <3>1. buff \in Seq(STRING)
      BY <1>1 DEF TurnInv
    <3> QED
      BY <1>1, <1>3, <2>1, <3>1
  <2>3. /\ x' \in 0 .. Len(buff') /\ sp' \in Nat /\ e' \in Nat /\ e' + sp' <= Len(buff')
        /\ tokenPos' >= 0 => sp' = 0
    BY <1>1, <2>1 DEF TurnInv
  <2>4. handler' = "espfs template" /\ tokenPos' > 0 /\ x' < Len(buff') /\ buff'[x' + 1] = "%"
    BY <1>1, <1>4, <2>1 DEF Sign
  <2>5. TurnInv'
    BY <1>2, <2>2, <2>3, <2>4 DEF TurnInv
  <2> QED
    BY <1>1, <2>1, <2>5, TurnStep
<1>5. CASE ~(handler = "espfs template" /\ tplArg + 1 < Parts(Named.name))
  <2>1. tplArg' = 0 /\ chunkResume' = FALSE /\ BackToText /\ call' = call
    BY <1>5 DEF Token
  <2> QED
    BY <1>1, <1>2, <1>3, <2>1, BackStep
<1> QED
  BY <1>4, <1>5

\* The end of a call, and of the connection.
LEMMA TemplateEndStep ==
  ASSUME FilesInv, TemplateReturns \/ TemplateClosed PROVE FilesInv'
<1>1. /\ IsTemplate /\ call \in {"more", "inside"} /\ call' \in {"more", "done", "closed"}
      /\ UNCHANGED <<fixed, handler, request, disk, opened, pos, reply, gzipHeader, sent, upload,
                     tokenVars, bufferVars>>
      /\ \/ call' = "more" /\ UNCHANGED <<told, handles>>
         \/ call' # "more" /\ told' = told + 1 /\ handles' = handles - 1
  BY DEF TemplateReturns, TemplateClosed, CloseCleans, CleanUp, Return, fixed
<1>2. \E p \in DOMAIN disk : opened = <<p>>
  BY <1>1, TemplateOpen
<1>3. handles = 1 /\ told = 0 /\ opened # <<>> /\ pos \in Nat
  BY <1>1, <1>2, TemplateOpen
<1>4. CaseInv' /\ ServeInv' /\ UploadInv'
  BY <1>1, <1>3, TemplateKept
<1>5. OpenInv'
  <2>1. /\ opened' # <<>> /\ IsTemplate' /\ call' # "inside"
        /\ \/ call' = "more" /\ told' = 0 /\ handles' = 1
           \/ call' \in {"done", "closed"} /\ told' = 1 /\ handles' = 0
    <3>1. opened' # <<>> /\ IsTemplate' /\ call' # "inside"
      BY <1>1, <1>3 DEF IsTemplate
    <3>2. CASE call' = "more"
      BY <1>1, <1>3, <3>1, <3>2
    <3>3. CASE call' # "more"
      BY <1>1, <1>3, <3>1, <3>3
    <3> QED
      BY <3>2, <3>3
  <2> QED
    BY <1>1, <2>1 DEF FilesInv, OpenInv
<1>6. TurnInv'
  BY <1>1 DEF FilesInv, TurnInv, tokenVars, bufferVars
<1>7. PieceInv'
  BY <1>1, <1>3 DEF FilesInv, PieceInv, bufferVars, IsTemplate, Text
<1> QED
  BY <1>4, <1>5, <1>6, <1>7 DEF FilesInv

LEMMA FilesKept == ASSUME FilesInv, UNCHANGED tplAll PROVE FilesInv'
<1>1. UNCHANGED <<handler, request, disk, call, opened, handles, pos, reply, gzipHeader, sent, upload,
                  tokenPos, token, encoding, tplArg, chunkResume, buff, x, sp, e, output, told>>
  BY DEF tplAll, fixed, fileVars, tplVars, tokenVars, bufferVars, sendVars
<1>2. CaseInv' /\ OpenInv'
  BY <1>1 DEF FilesInv, CaseInv, OpenInv, IsTemplate
<1>3. ServeInv' /\ UploadInv'
  <2>1. VfsPath' = VfsPath /\ UploadPath' = UploadPath
    BY <1>1 DEF VfsPath, Filepath, IsFile, IsDir, UploadPath
  <2>2. ServeInv'
    BY <1>1, <2>1 DEF FilesInv, ServeInv
  <2>3. UploadInv'
    BY <1>1, <2>1 DEF FilesInv, UploadInv, UploadAt
  <2> QED
    BY <2>2, <2>3
<1>4. TurnInv' /\ PieceInv'
  BY <1>1 DEF FilesInv, TurnInv, PieceInv, IsTemplate, Text
<1> QED
  BY <1>2, <1>3, <1>4 DEF FilesInv

\* No step undoes the invariant.
LEMMA FilesStep == ASSUME FilesInv, [TplNext]_tplAll PROVE FilesInv'
<1>1. CASE FilesNext /\ UNCHANGED tplVars
  BY <1>1, ServeFirstStep, ServeMoreStep, UploadFirstStep, UploadNextStep, UploadClosedStep
  DEF FilesNext
<1>2. CASE ~(FilesNext /\ UNCHANGED tplVars) /\ TplNext
  BY <1>2, TemplateFirstStep, TemplateNextStep, OrdinaryStep, EscapedStep, TokenStep,
     GarbageStep, CollectStep, TemplateEndStep DEF TplNext
<1>3. CASE UNCHANGED tplAll
  BY <1>3, FilesKept
<1> QED
  BY <1>1, <1>2, <1>3

LEMMA FilesStart ==
  ASSUME TplInit(Cases) \/ TplInit({NoCase}) PROVE FilesInv
<1>1. /\ call = "first" /\ opened = <<>> /\ handles = 0 /\ pos = 0 /\ reply = 0 /\ gzipHeader = FALSE
      /\ sent = 0 /\ upload = NoUpload
      /\ tokenPos = -1 /\ token = <<>> /\ encoding = "PLAIN" /\ tplArg = 0 /\ chunkResume = FALSE
      /\ buff = <<>> /\ x = 0 /\ sp = 0 /\ e = 0 /\ output = <<>> /\ told = 0
  BY DEF TplInit, NoUpload
<1>2. PICK c \in Cases \cup {NoCase} : handler = c.handler /\ request = c.request /\ disk = c.disk
  BY DEF TplInit
<1>3. CaseInv
  <2>1. CASE c \in Cases
    BY <1>2, <2>1, CasesAssumption DEF CaseInv
  <2>2. CASE c = NoCase
    BY <1>2, <2>2 DEF CaseInv, NoCase
  <2> QED
    BY <2>1, <2>2
<1>4. OpenInv /\ ServeInv
  BY <1>1 DEF OpenInv, ServeInv
<1>5. UploadInv
  BY <1>1 DEF UploadInv, NoUpload, UploadStates, Answers
<1>6. TurnInv
  <2>1. -1 \in -1 .. TokenSize - 1 /\ TRUE = (-1 # 0) /\ ~(-1 >= 0)
    BY TemplatesAssumption
  <2>2. /\ buff \in Seq(STRING) /\ token \in Seq(STRING) /\ tplArg \in Nat
        /\ chunkResume \in BOOLEAN /\ encoding \in {"PLAIN", "HTML"} /\ ~chunkResume
    <3>1. <<>> \in Seq(STRING) /\ FALSE \in BOOLEAN /\ 0 \in Nat /\ "PLAIN" \in {"PLAIN", "HTML"}
      OBVIOUS
    <3> QED
      BY <1>1, <3>1
  <2>3. /\ x \in 0 .. Len(buff) /\ sp \in Nat /\ e \in Nat /\ e + sp <= Len(buff)
        /\ sp = 0 /\ call # "inside"
    BY <1>1
  <2> QED
    BY <1>1, <2>1, <2>2, <2>3 DEF TurnInv
<1>7. PieceInv
  BY <1>1 DEF PieceInv
<1> QED
  BY <1>3, <1>4, <1>5, <1>6, <1>7 DEF FilesInv

-----------------------------------------------------------------------------
(* The room of the send buffer *)

\* What a call has sent is what it has passed of its piece, what the callback had, and
\* a token of the piece before; and what had no room came in a call whose callback
\* had more than it may have.
RoomInv ==
  /\ used \in 0 .. SendRoom /\ answered \in Nat /\ Len(buff) <= ChunkLen
  /\ \A n \in dropped : n > AnswerRoom
  /\ call = "first" => dropped = {}
  /\ call = "inside" /\ answered <= AnswerRoom =>
       used + sp + tokenPos + 1 <= answered + x + TokenSize

\* A step that puts n bytes into the buffer, or loses some of them.
Stores(n) ==
  /\ used' \in 0 .. SendRoom
  /\ \/ used' = used + n /\ dropped' = dropped /\ (dropped # {} => output' = output)
     \/ used + n > SendRoom /\ dropped' = dropped \cup {answered'} /\ output' = output

Fills(n) ==
  /\ Stores(n) /\ answered' \in Nat
  /\ answered' <= AnswerRoom =>
       /\ used + n <= answered' + x' + TokenSize
       /\ call' = "inside" => used + n + sp' + tokenPos' + 1 <= answered' + x' + TokenSize

LEMMA Stored ==
  ASSUME RoomInv, NEW t, NEW n \in Nat, httpdSend(t, n) \/ SendPieces(t, n) PROVE Stores(n)
<1>1. used \in Nat /\ SendRoom \in Nat /\ used <= SendRoom
  BY TemplatesAssumption DEF RoomInv
<1>2. CASE used + n <= SendRoom
  BY <1>1, <1>2 DEF httpdSend, SendPieces, Buffered, Stores
<1>3. CASE ~(used + n <= SendRoom)
  BY <1>1, <1>3 DEF httpdSend, SendPieces, NoRoom, Stores
<1> QED
  BY <1>2, <1>3

LEMMA TextStored == ASSUME FilesInv, RoomInv, SendText PROVE Stores(sp)
<1>1. sp \in Nat
  BY DEF FilesInv, TurnInv
<1>2. CASE sp = 0
  BY <1>2 DEF SendText, Stores, RoomInv
<1>3. CASE sp # 0
  BY <1>1, <1>3, Stored DEF SendText
<1> QED
  BY <1>2, <1>3

\* The sum behind the room of a call.
LEMMA RoomSum ==
  ASSUME NEW a \in Nat, NEW b \in Nat, NEW k \in Nat, NEW l \in Nat, NEW m \in Nat, NEW r \in Nat,
         k <= m, b <= r - m - l => a <= b + k + l
  PROVE a > r => b > r - m - l
  OBVIOUS

\* Whatever the call sent so far, there is room for the rest.
LEMMA RoomLeftOver ==
  ASSUME RoomInv, FilesInv', buff' = buff, call' # "first", NEW n \in Nat, Fills(n) PROVE RoomInv'
<1>1. TurnInv'
  BY DEF FilesInv
<1>2. /\ x' \in 0 .. Len(buff') /\ buff' \in Seq(STRING) /\ sp' \in Nat
      /\ tokenPos' \in -1 .. TokenSize - 1
  BY <1>1, Zenon DEF TurnInv
<1>3. /\ ChunkLen \in Nat /\ SendRoom \in Nat /\ TokenSize \in Nat
      /\ answered' \in Nat /\ used \in Nat /\ Len(buff) <= ChunkLen
  BY FilesAssumption, TemplatesAssumption DEF RoomInv, Fills
<1>4. answered' <= AnswerRoom => used + n <= answered' + x' + TokenSize
  BY DEF Fills
<1>5. used + n > SendRoom => answered' > AnswerRoom
  <2>1. x' \in Nat /\ x' <= ChunkLen
    BY <1>2, <1>3
  <2>2. used + n \in Nat
    BY <1>3
  <2> QED
    BY <1>3, <1>4, <2>1, <2>2, RoomSum, Zenon DEF AnswerRoom
<1>6. \A m \in dropped' : m > AnswerRoom
  BY <1>5 DEF Fills, Stores, RoomInv
<1>7. call' = "inside" /\ answered' <= AnswerRoom =>
        used' + sp' + tokenPos' + 1 <= answered' + x' + TokenSize
  <2>1. ~(used + n > SendRoom) => used' = used + n
    BY DEF Fills, Stores
  <2>2. answered' <= AnswerRoom => ~(answered' > AnswerRoom)
    BY <1>3 DEF AnswerRoom
  <2> QED
    BY <1>5, <2>1, <2>2 DEF Fills
<1> QED
  BY <1>3, <1>6, <1>7 DEF RoomInv, Fills, Stores, AnswerRoom

\* A turn of the loop, and the end of a call.
LEMMA TurnFills ==
  ASSUME FilesInv, FilesInv', RoomInv,
         Ordinary \/ Escaped \/ Token \/ Garbage \/ Collect \/ TemplateReturns
  PROVE  \E n \in Nat : Fills(n)
<1>1. /\ call = "inside" /\ x \in Nat /\ sp \in Nat /\ tokenPos \in -1 .. TokenSize - 1
      /\ TokenSize \in Nat /\ answered \in Nat /\ used \in Nat /\ AnswerRoom \in Int
      /\ (tokenPos >= 0 => sp = 0)
  <2>1. TurnInv /\ call = "inside"
    BY DEF FilesInv, Ordinary, Escaped, Token, Garbage, Collect, TemplateReturns, Inside
  <2>2. x \in 0 .. Len(buff) /\ buff \in Seq(STRING) /\ sp \in Nat
        /\ tokenPos \in -1 .. TokenSize - 1 /\ (tokenPos >= 0 => sp = 0)
    BY <2>1 DEF TurnInv
  <2> QED
    BY <2>1, <2>2, FilesAssumption, TemplatesAssumption DEF RoomInv, AnswerRoom
<1>2. answered <= AnswerRoom => used + sp + tokenPos + 1 <= answered + x + TokenSize
  BY <1>1 DEF RoomInv
<1>3. CASE Ordinary \/ Collect
  <2>1. /\ answered' = answered /\ x' = x + 1
        /\ \/ Stores(sp) /\ tokenPos = -1 /\ sp' = 0 /\ tokenPos' = 0
           \/ /\ Stores(0)
              /\ \/ sp' = sp + 1 /\ tokenPos' = tokenPos
                 \/ sp' = sp /\ tokenPos' \in {tokenPos, tokenPos + 1}
    <3>1. used + 0 = used /\ used \in 0 .. SendRoom
      BY <1>1 DEF RoomInv
    <3>2. UNCHANGED <<used, output, dropped>> => Stores(0)
      BY <3>1 DEF Stores
    <3>3. CASE Ordinary
      BY <3>2, <3>3, TextStored DEF Ordinary
    <3>4. CASE Collect
      BY <3>2, <3>4 DEF Collect, sendVars
    <3> QED
      BY <1>3, <3>3, <3>4
  <2> QED
    BY <1>1, <1>2, <2>1 DEF Fills
<1>4. CASE Escaped
  <2>1. Stores(1) /\ answered' = answered /\ x' = x + 1 /\ sp' = sp /\ tokenPos' = -1 /\ tokenPos = 0
    BY <1>4, Stored DEF Escaped, BackToText
  <2> QED
    BY <1>1, <1>2, <2>1 DEF Fills
<1>5. CASE Token
  <2>1. PICK n \in PartLens : answered' = answered + n /\ Stores(n)
    BY <1>5, Stored, TemplatesAssumption DEF Token
  <2>2. n \in Nat
    BY TemplatesAssumption
  <2>3. /\ tokenPos > 0
        /\ \/ x' = x /\ call' = "more"
           \/ x' = x + 1 /\ sp' = sp /\ tokenPos' = -1
    BY <1>5 DEF Token, BackToText, Return
  <2> QED
    BY <1>1, <1>2, <2>1, <2>2, <2>3 DEF Fills
<1>6. CASE Garbage
  <2>1. tokenPos + 2 \in Nat
    <3>1. tokenPos >= 0
      BY <1>6 DEF Garbage
    <3> QED
      BY <1>1, <3>1
  <2>2. /\ Stores(tokenPos + 2) /\ answered' = answered /\ x' = x + 1 /\ sp' = sp
        /\ tokenPos' = -1 /\ tokenPos >= 0
    BY <1>6, <2>1, Stored DEF Garbage, BackToText
  <2> QED
    BY <1>1, <1>2, <2>1, <2>2 DEF Fills
<1>7. CASE TemplateReturns
  <2>1. Stores(sp) /\ answered' = answered /\ x' = x /\ call' # "inside"
    BY <1>7, TextStored DEF TemplateReturns, Return, bufferVars
  <2> QED
    BY <1>1, <1>2, <2>1 DEF Fills
<1> QED
  BY <1>3, <1>4, <1>5, <1>6, <1>7

\* What is lost stays lost, and nothing comes behind it.
LossStays ==
  /\ dropped' = {} => dropped = {}
  /\ dropped' # {} => ~IsTemplate' \/ UNCHANGED <<handler, disk, opened, output>>

LEMMA HoldsAnswer ==
  ASSUME TurnInv, chunkResume PROVE x \in Nat /\ sp = 0 /\ tokenPos \in -1 .. TokenSize - 1
<1>1. /\ x \in 0 .. Len(buff) /\ tokenPos \in -1 .. TokenSize - 1 /\ tokenPos > 0
      /\ (tokenPos >= 0 => sp = 0)
  BY DEF TurnInv
<1> QED
  BY <1>1, TemplatesAssumption

LEMMA RoomStep ==
  ASSUME FilesInv, FilesInv', RoomInv, [TplNext]_tplAll PROVE RoomInv' /\ LossStays
<1>1. CASE Ordinary \/ Escaped \/ Token \/ Garbage \/ Collect \/ TemplateReturns
  <2>1. PICK n \in Nat : Fills(n)
    BY <1>1, TurnFills
  <2>2. buff' = buff /\ call' # "first" /\ UNCHANGED <<handler, disk, opened>>
    BY <1>1 DEF Ordinary, Escaped, Token, Garbage, Collect, TemplateReturns, TurnKeeps, Inside,
                Return, fixed, fileVars, bufferVars
  <2>3. LossStays
    BY <2>1, <2>2 DEF LossStays, Fills, Stores
  <2> QED
    BY <2>1, <2>2, <2>3, RoomLeftOver
<1>2. CASE TemplateNext
  <2>1. /\ used' = 0 /\ answered' = 0 /\ dropped' = dropped /\ call' = "inside"
        /\ UNCHANGED <<handler, disk, opened, output>>
    BY <1>2 DEF TemplateNext, Return, fixed
  <2>2. CASE chunkResume
    <3>1. UNCHANGED <<buff, x, sp, tokenPos>> /\ TurnInv
      BY <1>2, <2>2 DEF TemplateNext, bufferVars, tokenVars, FilesInv
    <3>2. x \in Nat /\ sp = 0 /\ tokenPos \in -1 .. TokenSize - 1
      BY <2>2, <3>1, HoldsAnswer
    <3> QED
      BY <2>1, <3>1, <3>2, TemplatesAssumption DEF RoomInv, LossStays, AnswerRoom
  <2>3. CASE ~chunkResume
    <3>1. /\ Text \in Seq(STRING) /\ pos \in Nat /\ pos <= Len(Text)
      BY <1>2, TemplateOpen DEF TemplateNext
    <3>2. PICK text \in Seq(STRING), a \in Nat : text = Text /\ a = pos /\ a <= Len(text)
      BY <3>1
    <3>3. PICK len \in Nat : len = Min({ChunkLen, Len(text) - a}) /\ len <= ChunkLen
                             /\ a + len <= Len(text)
      BY <3>2, MinOfTwo, FilesAssumption
    <3>4. Len(SubSeq(text, a + 1, a + len)) = len
      BY <3>2, <3>3, SubSeqProperties
    <3>5. buff' = SubSeq(text, a + 1, a + len) /\ sp' = 0 /\ x' = 0 /\ tokenPos' = tokenPos
      BY <1>2, <2>3, <3>2, <3>3, Zenon DEF TemplateNext, tokenVars
    <3>6. Len(buff') <= ChunkLen
      BY <3>3, <3>4, <3>5, Zenon
    <3>7. tokenPos \in -1 .. TokenSize - 1
      BY DEF FilesInv, TurnInv
    <3> QED
      BY <2>1, <3>5, <3>6, <3>7, TemplatesAssumption DEF RoomInv, LossStays, AnswerRoom
  <2> QED
    BY <2>2, <2>3
<1>3. CASE ~(Ordinary \/ Escaped \/ Token \/ Garbage \/ Collect \/ TemplateReturns \/ TemplateNext)
  <2>1. \/ ServeNext \/ ServeClosed \/ UploadNext \/ UploadClosed \/ UNCHANGED tplAll
        \/ StaticFirst \/ VfsFirst \/ UploadFirst \/ TemplateFirst \/ VfsTemplateFirst
        \/ TemplateClosed
    BY <1>3 DEF TplNext, FilesNext
  <2>2. UNCHANGED <<used, answered, dropped, output, buff, x, sp, tokenPos>>
    BY <1>3 DEF TplNext, TemplateFirst, VfsTemplateFirst, TemplateClosed, tplAll, tplVars, sendVars,
                bufferVars, tokenVars
  <2>3. call' \in {"more", "done", "closed", "notfound", "crashed"} \/ call' = call
    <3>1. CASE StaticFirst \/ VfsFirst
      BY <3>1 DEF StaticFirst, VfsFirst, NotFound, Crash, Respond, Refuse, Return
    <3>4. CASE UploadFirst
      BY <3>4 DEF UploadFirst, Process, NotFound, Crash, Return
    <3>2. CASE ServeNext \/ ServeClosed \/ UploadNext \/ UploadClosed \/ TemplateClosed
      BY <3>2 DEF ServeNext, ServeClosed, UploadNext, UploadClosed, Process, TemplateClosed, Return
    <3>3. CASE TemplateFirst \/ VfsTemplateFirst
      BY <3>3 DEF TemplateFirst, VfsTemplateFirst, NotFound, Crash, Respond, Return
    <3> QED
      BY <2>1, <3>1, <3>2, <3>3, <3>4, Zenon DEF tplAll
  <2>4. call = "first" \/ ~IsTemplate' \/ UNCHANGED <<handler, disk, opened>>
    <3>1. CASE ServeNext \/ ServeClosed \/ UploadNext \/ UploadClosed
      BY <3>1 DEF ServeNext, ServeClosed, UploadNext, UploadClosed, Process, IsTemplate, fixed
    <3> QED
      BY <2>1, <3>1, Zenon DEF StaticFirst, VfsFirst, UploadFirst, TemplateFirst, VfsTemplateFirst,
                               TemplateClosed, tplAll, fixed, fileVars
  <2> QED
    BY <2>2, <2>3, <2>4 DEF RoomInv, LossStays, AnswerRoom
<1> QED
  BY <1>1, <1>2, <1>3

LEMMA RoomStart == ASSUME TplInit(Cases) \/ TplInit({NoCase}) PROVE RoomInv
  BY FilesAssumption, TemplatesAssumption DEF TplInit, RoomInv, AnswerRoom

-----------------------------------------------------------------------------
(* What the handlers of files promise *)

LEMMA FilesTyped == ASSUME FilesInv, RoomInv, handler # "none" PROVE TplTypeOK
<1>1. /\ upload.state \in {"START", "WRITE", "DONE", "ERR"}
      /\ upload.written <= upload.received /\ upload.received <= request.length
  <2>1. CASE upload = NoUpload
    <3>1. request.length \in Nat
      BY DEF FilesInv, CaseInv
    <3> QED
      BY <2>1, <3>1 DEF NoUpload
  <2>2. CASE upload # NoUpload
    BY <2>2 DEF FilesInv, UploadInv, UploadStates, UploadAt
  <2> QED
    BY <2>1, <2>2
<1>2. /\ tokenPos \in -1 .. TokenSize - 1 /\ x \in 0 .. Len(buff) /\ sp >= 0 /\ e + sp <= Len(buff)
      /\ encoding \in {"PLAIN", "HTML"}
  <2>1. TurnInv
    BY DEF FilesInv
  <2>2. sp \in Nat
    BY <2>1 DEF TurnInv
  <2>3. /\ tokenPos \in -1 .. TokenSize - 1 /\ x \in 0 .. Len(buff) /\ e + sp <= Len(buff)
        /\ encoding \in {"PLAIN", "HTML"}
    BY <2>1 DEF TurnInv
  <2> QED
    BY <2>2, <2>3
<1> QED
  BY <1>1, <1>2 DEF TplTypeOK, FilesInv, OpenInv, ServeInv, RoomInv

LEMMA FilesClosed == ASSUME FilesInv PROVE HandlesClosed
  BY DEF FilesInv, OpenInv, HandlesClosed

LEMMA FilesTruth == ASSUME FilesInv PROVE FilesAsTold
<1>1. ServedWhole
  BY DEF FilesInv, ServeInv, ServedWhole
<1>2. ASSUME upload.success # <<>>
      PROVE  upload.success[1] <=>
               opened # <<>> /\ disk[opened[1]].size + upload.lost = request.length
  <2>1. handler = "upload" /\ call # "first"
    BY <1>2 DEF FilesInv, UploadInv, NoUpload
  <2>2. /\ upload.success[1] <=> upload.state = "DONE"
        /\ UploadAt(upload.state, upload.received, upload.written, opened # <<>>)
        /\ opened = <<>> \/ opened = <<UploadPath>>
        /\ opened # <<>> => disk[UploadPath].size + upload.lost = upload.written
        /\ upload.written \in Nat /\ request.length \in Nat
    BY <1>2, <2>1 DEF FilesInv, UploadInv, UploadStates, CaseInv
  <2>3. CASE opened = <<>>
    BY <2>2, <2>3 DEF UploadAt
  <2>4. CASE opened # <<>>
    <3>1. opened[1] = UploadPath
      BY <2>2, <2>4
    <3> QED
      BY <2>2, <2>4, <3>1 DEF UploadAt
  <2> QED
    BY <2>3, <2>4
<1> QED
  BY <1>1, <1>2 DEF FilesAsTold, UploadTruth

\* The invariant of the handlers of files is inductive: what a handler holds, has read
\* and has told, and where the loop over a template stands, from call to call
\* (httpd-espfs.c:105-540, esp32_httpd_vfs.c:91-566).
THEOREM FilesInductive == Spec => []FilesInv
<1>1. Init => FilesInv
  BY FilesStart DEF Init
<1>2. FilesInv /\ [Next]_vars => FilesInv'
  <2> SUFFICES ASSUME FilesInv, [Next]_vars PROVE FilesInv'
    OBVIOUS
  <2>1. [TplNext]_tplAll
    BY DEF Next, vars
  <2> QED
    BY <2>1, FilesStep
<1> QED
  BY <1>1, <1>2, PTL DEF Spec

\* What a client is told of a file is so (httpd-espfs.c:105-211,
\* esp32_httpd_vfs.c:91-218, :525-561).
THEOREM FilesTold == Spec => []FilesAsTold
<1>1. FilesInv => FilesAsTold
  BY FilesTruth
<1> QED
  BY <1>1, FilesInductive, PTL

-----------------------------------------------------------------------------
(* What a template stands for *)

\* What holds of a place when it holds of all behind it holds of every place.
LEMMA FromTheEnd ==
  ASSUME NEW N \in Nat, NEW G \in SUBSET (1 .. N),
         \A i \in 1 .. N : (\A j \in i + 1 .. N : j \in G) => i \in G
  PROVE  G = 1 .. N
<1> DEFINE T == {n \in 0 .. N - 1 : N - n \notin G}
<1>1. CASE T = {}
  <2>1. ASSUME NEW i \in 1 .. N PROVE i \in G
    <3>1. N - i \in 0 .. N - 1 /\ N - (N - i) = i
      OBVIOUS
    <3> QED
      BY <1>1, <3>1
  <2> QED
    BY <2>1
<1>2. CASE T # {}
  <2>1. PICK n \in T : \A m \in T : n <= m
    <3>1. T \in SUBSET Nat
      OBVIOUS
    <3> HIDE DEF T
    <3> QED
      BY <1>2, <3>1, Least
  <2>2. n \in 0 .. N - 1 /\ N - n \notin G /\ N - n \in 1 .. N
    OBVIOUS
  <2>3. ASSUME NEW j \in N - n + 1 .. N PROVE j \in G
    <3>1. N - j \in 0 .. N - 1 /\ N - (N - j) = j /\ ~ (n <= N - j)
      BY <2>2
    <3>2. N - j \notin T
      BY <2>1, <3>1
    <3> QED
      BY <3>1, <3>2
  <2> QED
    BY <2>2, <2>3
<1> QED
  BY <1>1, <1>2

\* What stands at place i of a text, when f says what stands at those behind it.
Reads(by, text, f, i) ==
  IF i > Len(text) THEN <<>>
  ELSE IF text[i] # "%" THEN Raw(<<text[i]>>) \o f[i + 1]
  ELSE IF Ending(by, text, i) = {} THEN <<>>
  ELSE LET j == Min(Ending(by, text, i)) IN Meaning(by, text, i, j) \o f[j + 1]

IsExpansion(by, text, f) == f = [i \in 1 .. Len(text) + 1 |-> Reads(by, text, f, i)]

LEMMA FirstEnding ==
  ASSUME NEW by, NEW text \in Seq(STRING), NEW i \in 1 .. Len(text), Ending(by, text, i) # {}
  PROVE  /\ Min(Ending(by, text, i)) \in Ending(by, text, i)
         /\ Min(Ending(by, text, i)) \in i + 1 .. Len(text)
         /\ \A m \in Ending(by, text, i) : Min(Ending(by, text, i)) <= m
<1>1. Ending(by, text, i) \in SUBSET (i + 1 .. Len(text))
  BY DEF Ending
<1>2. Ending(by, text, i) \in SUBSET Nat
  BY <1>1
<1>3. PICK S : S = Ending(by, text, i)
  OBVIOUS
<1> QED
  BY <1>1, <1>2, <1>3, MinOfNats

LEMMA ReadsBehind ==
  ASSUME NEW by, NEW text \in Seq(STRING), NEW i \in 1 .. Len(text) + 1, NEW f, NEW g,
         \A j \in i + 1 .. Len(text) + 1 : f[j] = g[j]
  PROVE  Reads(by, text, f, i) = Reads(by, text, g, i)
<1>1. CASE i > Len(text)
  BY <1>1 DEF Reads
<1>2. CASE ~ (i > Len(text))
  <2>1. i \in 1 .. Len(text) /\ i + 1 \in i + 1 .. Len(text) + 1
    BY <1>2
  <2>2. f[i + 1] = g[i + 1]
    BY <2>1
  <2>3. CASE Ending(by, text, i) = {}
    BY <2>2, <2>3 DEF Reads
  <2>4. CASE Ending(by, text, i) # {}
    <3>1. PICK j : j = Min(Ending(by, text, i))
      OBVIOUS
    <3>2. j \in i + 1 .. Len(text)
      BY <2>1, <2>4, <3>1, FirstEnding
    <3>3. j + 1 \in i + 1 .. Len(text) + 1
      BY <3>2
    <3>4. f[j + 1] = g[j + 1]
      BY <3>3
    <3> QED
      BY <2>2, <3>1, <3>4 DEF Reads
  <2> QED
    BY <2>3, <2>4
<1> QED
  BY <1>1, <1>2

LEMMA ExpansionExists ==
  ASSUME NEW by, NEW text \in Seq(STRING)
  PROVE  \E f : IsExpansion(by, text, f)
<1>1. PICK N \in Nat : N = Len(text) + 1
  OBVIOUS
<1> DEFINE Upon(f, k) == f = [i \in k .. N |-> Reads(by, text, f, i)]
           G == {k \in 1 .. N : \E f : Upon(f, k)}
<1>2. ASSUME NEW k \in 1 .. N, \A j \in k + 1 .. N : j \in G PROVE k \in G
  <2>1. PICK f : k = N \/ Upon(f, k + 1)
    <3>1. CASE k = N
      BY <3>1
    <3>2. CASE k # N
      <4>1. k + 1 \in k + 1 .. N
        BY <3>2
      <4>2. k + 1 \in G
        BY <1>2, <4>1
      <4> QED
        BY <4>2
    <3> QED
      BY <3>1, <3>2
  <2>2. \A i \in k + 1 .. N : f[i] = Reads(by, text, f, i)
    <3>1. CASE k = N
      <4>1. k + 1 .. N = {}
        BY <3>1
      <4> QED
        BY <4>1
    <3>2. CASE k # N
      BY <2>1, <3>2
    <3> QED
      BY <3>1, <3>2
  <2> DEFINE g == [i \in k .. N |-> IF i = k THEN Reads(by, text, f, k) ELSE f[i]]
  <2>3. g = [i \in k .. N |-> g[i]] /\ g[k] = Reads(by, text, f, k) /\ \A i \in k + 1 .. N : g[i] = f[i]
    <3>1. k \in k .. N /\ \A i \in k + 1 .. N : i \in k .. N /\ i # k
      OBVIOUS
    <3> QED
      BY <3>1
  <2> HIDE DEF g
  <2>4. ASSUME NEW i \in k .. N PROVE g[i] = Reads(by, text, g, i)
    <3>1. i \in 1 .. N /\ \A j \in i + 1 .. N : j \in k + 1 .. N
      OBVIOUS
    <3>2. \A j \in i + 1 .. N : f[j] = g[j]
      BY <2>3, <3>1
    <3>3. Reads(by, text, f, i) = Reads(by, text, g, i)
      BY <1>1, <3>1, <3>2, ReadsBehind
    <3>4. CASE i = k
      BY <2>3, <3>3, <3>4
    <3>5. CASE i # k
      <4>1. i \in k + 1 .. N
        BY <3>5
      <4> QED
        BY <2>2, <2>3, <3>3, <4>1
    <3> QED
      BY <3>4, <3>5
  <2>5. Upon(g, k)
    BY <2>3, <2>4
  <2> QED
    BY <2>5
<1>3. G = 1 .. N
  <2>1. G \in SUBSET (1 .. N)
    OBVIOUS
  <2> HIDE DEF G
  <2> QED
    BY <1>2, <2>1, FromTheEnd
<1>4. 1 \in G
  <2>1. 1 \in 1 .. N
    BY <1>1
  <2> HIDE DEF G
  <2> QED
    BY <1>3, <2>1
<1>5. PICK f : Upon(f, 1)
  BY <1>4
<1> QED
  BY <1>1, <1>5 DEF IsExpansion

LEMMA ExpansionIs ==
  ASSUME NEW by, NEW text \in Seq(STRING)
  PROVE  IsExpansion(by, text, Expansion(by, text))
<1> DEFINE g == CHOOSE f : IsExpansion(by, text, f)
<1>1. IsExpansion(by, text, g)
  BY ExpansionExists
<1>2. Expansion(by, text) = g
  BY DEF Expansion, IsExpansion, Reads
<1> QED
  BY <1>1, <1>2

\* What is sent for a template.
Items == [text : Seq(STRING), encoding : {"-", "PLAIN", "HTML"}, part : Nat]

LEMMA RawTyped ==
  ASSUME NEW signs \in Seq(STRING)
  PROVE  Raw(signs) \in Seq(Items) /\ Len(Raw(signs)) = Len(signs)
<1>1. PICK n \in Nat : n = Len(signs) /\ DOMAIN signs = 1 .. n
  OBVIOUS
<1>2. ASSUME NEW i \in 1 .. n PROVE [text |-> <<signs[i]>>, encoding |-> "-", part |-> 0] \in Items
  <2>1. <<signs[i]>> \in Seq(STRING)
    BY <1>1
  <2> QED
    BY <2>1 DEF Items
<1>3. Raw(signs) \in [1 .. n -> Items]
  BY <1>1, <1>2 DEF Raw
<1> QED
  BY <1>1, <1>3, SeqDef

\* Two sequences one behind the other.
Joint(a, b, t, n, m) ==
  /\ Len(t) = n + m /\ \A i \in 1 .. n : t[i] = a[i]
  /\ \A j \in 1 .. m : t[n + j] = b[j]

LEMMA JointIs ==
  ASSUME NEW S, NEW a \in Seq(S), NEW b \in Seq(S), NEW n \in Nat, n = Len(a), NEW m \in Nat, m = Len(b)
  PROVE  a \o b \in Seq(S) /\ Joint(a, b, a \o b, n, m)
  BY Behind DEF Joint

LEMMA SameJoint ==
  ASSUME NEW S, NEW a, NEW b, NEW n \in Nat, NEW m \in Nat, NEW t \in Seq(S), NEW u \in Seq(S),
         Joint(a, b, t, n, m), Joint(a, b, u, n, m)
  PROVE  t = u
<1>1. Len(t) = n + m /\ Len(u) = n + m
  BY DEF Joint
<1>2. ASSUME NEW i \in 1 .. n + m PROVE t[i] = u[i]
  <2>1. CASE i \in 1 .. n
    BY <2>1 DEF Joint
  <2>2. CASE i \notin 1 .. n
    <3>1. PICK j \in 1 .. m : i = n + j
      <4>1. i - n \in 1 .. m /\ i = n + (i - n)
        BY <2>2
      <4> QED
        BY <4>1
    <3> QED
      BY <3>1 DEF Joint
  <2> QED
    BY <2>1, <2>2
<1> QED
  BY <1>1, <1>2, SameSeq

LEMMA RawJoined ==
  ASSUME NEW a \in Seq(STRING), NEW b \in Seq(STRING)
  PROVE  Raw(a \o b) = Raw(a) \o Raw(b)
<1>1. PICK n \in Nat, m \in Nat : n = Len(a) /\ m = Len(b)
  OBVIOUS
<1>2. PICK t \in Seq(STRING) : t = a \o b /\ Joint(a, b, t, n, m)
  BY <1>1, JointIs
<1>3. PICK ra \in Seq(Items), rb \in Seq(Items), rt \in Seq(Items) :
         /\ ra = Raw(a) /\ rb = Raw(b) /\ rt = Raw(t) /\ Len(ra) = n /\ Len(rb) = m /\ Len(rt) = n + m
  <2>1. Len(t) = n + m
    BY <1>2 DEF Joint
  <2> QED
    BY <1>1, <1>2, <2>1, RawTyped
<1>4. PICK u \in Seq(Items) : u = ra \o rb /\ Joint(ra, rb, u, n, m)
  BY <1>3, JointIs
<1>5. Joint(ra, rb, rt, n, m)
  <2>1. /\ \A i \in 1 .. n : ra[i] = [text |-> <<a[i]>>, encoding |-> "-", part |-> 0]
        /\ \A i \in 1 .. m : rb[i] = [text |-> <<b[i]>>, encoding |-> "-", part |-> 0]
        /\ \A i \in 1 .. n + m : rt[i] = [text |-> <<t[i]>>, encoding |-> "-", part |-> 0]
    <3>1. DOMAIN a = 1 .. n /\ DOMAIN b = 1 .. m /\ DOMAIN t = 1 .. n + m
      BY <1>1, <1>2 DEF Joint
    <3> QED
      BY <1>3, <3>1 DEF Raw
  <2>2. \A i \in 1 .. n : t[i] = a[i] /\ i \in 1 .. n + m
    BY <1>2 DEF Joint
  <2>3. \A j \in 1 .. m : t[n + j] = b[j] /\ n + j \in 1 .. n + m
    BY <1>2 DEF Joint
  <2>4. \A i \in 1 .. n : rt[i] = ra[i]
    BY <2>1, <2>2
  <2>5. \A j \in 1 .. m : rt[n + j] = rb[j]
    BY <2>1, <2>3
  <2> QED
    BY <1>3, <2>4, <2>5 DEF Joint
<1>6. rt = u
  BY <1>4, <1>5, SameJoint
<1> QED
  BY <1>2, <1>3, <1>4, <1>6

\* The callback is called at least once for a token.
LEMMA PartsOf ==
  ASSUME NEW name \in Seq(NameSigns), Len(name) <= TokenSize - 1
  PROVE  Parts(name) \in Nat \ {0}
<1>1. PICK n \in Nat : n = Len(name) /\ name \in [1 .. n -> NameSigns]
  OBVIOUS
<1>2. n \in 0 .. TokenSize - 1
  BY <1>1, TemplatesAssumption
<1> QED
  BY <1>1, <1>2, TemplatesAssumption

\* What it still has to send, and what of it is sent by the next call.
LEMMA AnswerTyped ==
  ASSUME NEW name \in Seq(STRING), Parts(name) \in Nat, NEW enc \in {"PLAIN", "HTML"},
         NEW done \in 0 .. Parts(name)
  PROVE  /\ Answer(name, enc, done) \in Seq(Items)
         /\ Len(Answer(name, enc, done)) = Parts(name) - done
         /\ \A k \in 1 .. Parts(name) - done : Answer(name, enc, done)[k] = Part(name, enc, done + k)
<1>1. PICK n \in Nat : n = Parts(name) - done
  OBVIOUS
<1>2. ASSUME NEW k \in 1 .. n PROVE Part(name, enc, done + k) \in Items
  <2>1. done + k \in Nat
    OBVIOUS
  <2> QED
    BY <2>1 DEF Items, Part
<1>3. Answer(name, enc, done) = [k \in 1 .. n |-> Part(name, enc, done + k)]
  BY <1>1 DEF Answer
<1>4. Answer(name, enc, done) \in [1 .. n -> Items]
  BY <1>2, <1>3
<1>5. Answer(name, enc, done) \in Seq(Items) /\ Len(Answer(name, enc, done)) = n
  BY <1>4, SeqDef
<1> QED
  BY <1>1, <1>3, <1>5

LEMMA PartTyped ==
  ASSUME NEW name \in Seq(STRING), NEW enc \in {"PLAIN", "HTML"}, NEW part \in Nat
  PROVE  Substituted(name, enc, part) \in Seq(Items)
<1>1. Part(name, enc, part) \in Items
  BY DEF Items, Part
<1> QED
  BY <1>1 DEF Substituted

LEMMA AnswerStep ==
  ASSUME NEW name \in Seq(STRING), Parts(name) \in Nat, NEW enc \in {"PLAIN", "HTML"},
         NEW done \in Nat, done < Parts(name)
  PROVE  Answer(name, enc, done) = Substituted(name, enc, done + 1) \o Answer(name, enc, done + 1)
<1>1. PICK n \in Nat : n = Parts(name) - (done + 1)
  OBVIOUS
<1>2. PICK d1 \in 0 .. Parts(name), d2 \in 0 .. Parts(name) :
         d1 = done /\ d2 = done + 1 /\ Parts(name) - d1 = 1 + n /\ Parts(name) - d2 = n
  BY <1>1
<1>3. PICK a \in Seq(Items) :
         /\ a = Answer(name, enc, d1) /\ Len(a) = 1 + n
         /\ \A k \in 1 .. 1 + n : a[k] = Part(name, enc, d1 + k)
  <2>1. d1 \in 0 .. Parts(name) /\ Parts(name) - d1 = 1 + n
    BY <1>2
  <2>2. /\ Answer(name, enc, d1) \in Seq(Items) /\ Len(Answer(name, enc, d1)) = 1 + n
        /\ \A k \in 1 .. 1 + n : Answer(name, enc, d1)[k] = Part(name, enc, d1 + k)
    BY <2>1, AnswerTyped
  <2> QED
    BY <2>2
<1>4. PICK c \in Seq(Items) :
         /\ c = Answer(name, enc, d2) /\ Len(c) = n
         /\ \A k \in 1 .. n : c[k] = Part(name, enc, d2 + k)
  <2>1. d2 \in 0 .. Parts(name) /\ Parts(name) - d2 = n
    BY <1>2
  <2>2. /\ Answer(name, enc, d2) \in Seq(Items) /\ Len(Answer(name, enc, d2)) = n
        /\ \A k \in 1 .. n : Answer(name, enc, d2)[k] = Part(name, enc, d2 + k)
    BY <2>1, AnswerTyped
  <2> QED
    BY <2>2
<1>5. PICK b \in Seq(Items) : b = Substituted(name, enc, d2) /\ Len(b) = 1 /\ b[1] = Part(name, enc, d2)
  <2>1. Substituted(name, enc, d2) \in Seq(Items)
    <3>1. d2 \in Nat
      BY <1>2
    <3> QED
      BY <3>1, PartTyped
  <2> QED
    BY <2>1 DEF Substituted
<1>6. PICK u \in Seq(Items) : u = b \o c /\ Joint(b, c, u, 1, n)
  BY <1>4, <1>5, JointIs
<1>7. Joint(b, c, a, 1, n)
  <2>1. a[1] = b[1]
    <3>1. 1 \in 1 .. 1 + n /\ d1 + 1 = d2
      BY <1>2
    <3> QED
      BY <1>3, <1>5, <3>1
  <2>2. ASSUME NEW j \in 1 .. n PROVE a[1 + j] = c[j]
    <3>1. 1 + j \in 1 .. 1 + n /\ d1 + (1 + j) = d2 + j
      BY <1>2
    <3> QED
      BY <1>3, <1>4, <3>1
  <2> QED
    BY <1>3, <2>1, <2>2 DEF Joint
<1>8. a = u
  BY <1>6, <1>7, SameJoint
<1> QED
  BY <1>2, <1>3, <1>4, <1>5, <1>6, <1>8

LEMMA AnswerEnds ==
  ASSUME NEW name \in Seq(STRING), Parts(name) \in Nat, NEW enc \in {"PLAIN", "HTML"}
  PROVE  Answer(name, enc, Parts(name)) = <<>>
<1>1. Answer(name, enc, Parts(name)) \in Seq(Items) /\ Len(Answer(name, enc, Parts(name))) = 0
  <2>1. Parts(name) \in 0 .. Parts(name) /\ Parts(name) - Parts(name) = 0
    OBVIOUS
  <2> QED
    BY <2>1, AnswerTyped
<1> QED
  BY <1>1

\* What the loop has of the name of a token that begins at place i, with p signs
\* behind it, and that it has not come to the token's end.
NameTo(text, i, p) == SubSeq(text, i + 1, Min({p, i + TokenSize - 1}))
NoEnding(by, text, i, p) == \A m \in Ending(by, text, i) : m > p

LEMMA NameTyped ==
  ASSUME NEW text \in Seq(STRING), NEW i \in 1 .. Len(text), NEW p \in i .. Len(text)
  PROVE  /\ NameTo(text, i, p) \in Seq(STRING)
         /\ Len(NameTo(text, i, p)) = IF p - i <= TokenSize - 1 THEN p - i ELSE TokenSize - 1
         /\ \A k \in 1 .. Len(NameTo(text, i, p)) : NameTo(text, i, p)[k] = text[i + k]
<1>1. PICK N \in Nat : N = Len(text)
  OBVIOUS
<1>2. PICK l \in Nat, z \in Nat : z = TokenSize - 1 /\ l = Min({p, i + TokenSize - 1})
                                  /\ l = (IF p - i <= z THEN p ELSE i + z)
  <2>1. TokenSize - 1 \in Nat /\ i + TokenSize - 1 \in Nat /\ p \in Nat /\ i \in Nat
    BY <1>1, TemplatesAssumption
  <2>2. PICK z \in Nat, y \in Nat : z = TokenSize - 1 /\ y = i + TokenSize - 1 /\ y = i + z
    BY <2>1, TemplatesAssumption
  <2>3. PICK l : l = Min({p, y})
    OBVIOUS
  <2>4. l \in Nat /\ l <= p /\ l <= y /\ (l = p \/ l = y)
    BY <2>1, <2>3, MinOfTwo
  <2>5. l = IF p - i <= z THEN p ELSE i + z
    BY <2>1, <2>2, <2>4
  <2> QED
    BY <2>2, <2>3, <2>4, <2>5
<1>3. i \in Nat /\ i <= l /\ l <= N /\ l - i = IF p - i <= z THEN p - i ELSE z
  BY <1>1, <1>2
<1>4. i + 1 \in 1 .. N + 1 /\ l \in i .. N /\ l - (i + 1) + 1 = l - i /\ l - i \in Nat
  BY <1>1, <1>3
<1>5. PICK t : t = SubSeq(text, i + 1, l)
  OBVIOUS
<1>6. t = [k \in 1 .. l - i |-> text[i + k]]
  <2>1. t = [k \in 1 .. l - (i + 1) + 1 |-> text[(i + 1) + k - 1]]
    BY <1>5
  <2>2. t = [k \in 1 .. l - i |-> text[(i + 1) + k - 1]]
    BY <1>4, <2>1
  <2>3. \A k \in 1 .. l - i : (i + 1) + k - 1 = i + k
    BY <1>3
  <2> QED
    BY <2>2, <2>3
<1>7. t \in Seq(STRING) /\ Len(t) = l - i
  <2>1. ASSUME NEW k \in 1 .. l - i PROVE text[i + k] \in STRING
    <3>1. i + k \in 1 .. N
      BY <1>3
    <3> QED
      BY <1>1, <3>1
  <2>2. t \in [1 .. l - i -> STRING]
    BY <1>6, <2>1
  <2> QED
    BY <1>4, <2>2, SeqDef
<1>8. \A k \in 1 .. Len(t) : t[k] = text[i + k]
  BY <1>6, <1>7
<1>9. t = NameTo(text, i, p)
  BY <1>2, <1>5 DEF NameTo
<1>10. Len(t) = IF p - i <= TokenSize - 1 THEN p - i ELSE TokenSize - 1
  BY <1>2, <1>3, <1>7
<1> QED
  BY <1>7, <1>8, <1>9, <1>10

TakesNames(by) == by = "espfs template"

LEMMA NotEnding ==
  ASSUME NEW by, TakesNames(by), NEW text, NEW i, NEW m \in i + 1 .. Len(text), m \notin Ending(by, text, i)
  PROVE  text[m] \in NameSigns /\ ~ (m - i >= TokenSize)
  BY Zenon DEF Ending, TakesNames

\* cgiEspFsTemplate has room for all of it, and takes it all.
LEMMA NameFits ==
  ASSUME NEW text \in Seq(STRING), NEW i \in 1 .. Len(text), NEW p \in i .. Len(text),
         NEW by, TakesNames(by), NoEnding(by, text, i, p)
  PROVE  /\ p - i <= TokenSize - 1 /\ Len(NameTo(text, i, p)) = p - i
         /\ NameTo(text, i, p) \in Seq(NameSigns)
<1>1. PICK N \in Nat : N = Len(text)
  OBVIOUS
<1>2. ASSUME NEW m \in i + 1 .. p
      PROVE  text[m] \in NameSigns /\ ~ (m - i >= TokenSize)
  <2>1. m \in i + 1 .. N /\ ~ (m > p)
    BY <1>1
  <2>2. m \notin Ending(by, text, i)
    BY <2>1 DEF NoEnding
  <2> QED
    BY <2>1, <2>2, NotEnding
<1>3. p - i <= TokenSize - 1
  <2>1. CASE p = i
    BY <2>1, TemplatesAssumption
  <2>2. CASE p # i
    <3>1. p \in i + 1 .. p
      BY <1>1, <2>2
    <3>2. ~ (p - i >= TokenSize)
      BY <1>2, <3>1
    <3> QED
      BY <3>2, TemplatesAssumption
  <2> QED
    BY <2>1, <2>2
<1>4. PICK t \in Seq(STRING) :
         t = NameTo(text, i, p) /\ Len(t) = p - i /\ \A k \in 1 .. Len(t) : t[k] = text[i + k]
  BY <1>3, NameTyped
<1>5. ASSUME NEW k \in 1 .. Len(t) PROVE t[k] \in NameSigns
  <2>1. i + k \in i + 1 .. p
    BY <1>4
  <2> QED
    BY <1>2, <1>4, <2>1
<1>6. t \in Seq(NameSigns)
  <2>1. PICK n \in Nat : n = Len(t)
    BY <1>4
  <2>2. t = [k \in 1 .. n |-> t[k]]
    BY <1>4, <2>1
  <2>3. t \in [1 .. n -> NameSigns]
    BY <1>5, <2>1, <2>2
  <2> QED
    BY <2>3, SeqDef
<1> QED
  BY <1>3, <1>4, <1>6

\* One sign more of it.
LEMMA NameGrows ==
  ASSUME NEW text \in Seq(STRING), NEW i \in 1 .. Len(text), NEW p \in i .. Len(text) - 1
  PROVE  NameTo(text, i, p + 1) = IF p - i < TokenSize - 1 THEN Append(NameTo(text, i, p), text[p + 1])
                                  ELSE NameTo(text, i, p)
<1>1. PICK N \in Nat, z \in Nat : N = Len(text) /\ z = TokenSize - 1 /\ p \in Nat /\ i \in Nat
  BY TemplatesAssumption
<1>2. p \in i .. Len(text) /\ p + 1 \in i .. Len(text) /\ text[p + 1] \in STRING
  <2>1. p + 1 \in 1 .. N /\ p \in i .. N /\ p + 1 \in i .. N
    BY <1>1
  <2> QED
    BY <1>1, <2>1
<1>3. PICK t \in Seq(STRING) :
         /\ t = NameTo(text, i, p) /\ Len(t) = IF p - i <= z THEN p - i ELSE z
         /\ \A k \in 1 .. Len(t) : t[k] = text[i + k]
  BY <1>1, <1>2, NameTyped
<1>4. PICK u \in Seq(STRING) :
         /\ u = NameTo(text, i, p + 1) /\ Len(u) = IF (p + 1) - i <= z THEN (p + 1) - i ELSE z
         /\ \A k \in 1 .. Len(u) : u[k] = text[i + k]
  BY <1>1, <1>2, NameTyped
<1>5. CASE p - i < z
  <2>1. Len(t) = p - i /\ Len(u) = (p - i) + 1 /\ p - i \in Nat /\ i + ((p - i) + 1) = p + 1
    BY <1>1, <1>3, <1>4, <1>5, SMTT(30)
  <2>2. PICK v \in Seq(STRING) : v = Append(t, text[p + 1])
    BY <1>2, <1>3, AppendProperties
  <2>3. Len(v) = (p - i) + 1 /\ v[(p - i) + 1] = text[p + 1] /\ \A k \in 1 .. p - i : v[k] = t[k]
    <3>1. PICK n \in Nat : n = p - i /\ n = Len(t)
      BY <2>1
    <3>2. Len(v) = n + 1 /\ v[n + 1] = text[p + 1] /\ \A k \in 1 .. n : v[k] = t[k]
      <4>1. PICK c \in STRING : c = text[p + 1] /\ v = Append(t, c)
        BY <1>2, <2>2
      <4>2. Len(v) = Len(t) + 1 /\ v[Len(t) + 1] = c /\ \A k \in 1 .. Len(t) : v[k] = t[k]
        BY <4>1, AppendProperties
      <4> QED
        BY <3>1, <4>1, <4>2
    <3> QED
      BY <3>1, <3>2
  <2>4. ASSUME NEW k \in 1 .. (p - i) + 1 PROVE v[k] = u[k]
    <3>1. CASE k = (p - i) + 1
      BY <1>4, <2>1, <2>3, <3>1
    <3>2. CASE k # (p - i) + 1
      <4>1. k \in 1 .. p - i
        BY <2>1, <3>2
      <4> QED
        BY <1>3, <1>4, <2>1, <2>3, <4>1
    <3> QED
      BY <3>1, <3>2
  <2>5. u = v
    BY <1>4, <2>1, <2>2, <2>3, <2>4, SameSeq
  <2> QED
    BY <1>1, <1>3, <1>4, <1>5, <2>2, <2>5
<1>6. CASE ~ (p - i < z)
  <2>1. Len(t) = z /\ Len(u) = z
    BY <1>1, <1>3, <1>4, <1>6
  <2>2. \A k \in 1 .. Len(t) : t[k] = u[k]
    BY <1>3, <1>4, <2>1
  <2>3. t = u
    BY <1>3, <1>4, <2>1, <2>2, SameSeq
  <2> QED
    BY <1>1, <1>3, <1>4, <1>6, <2>3
<1> QED
  BY <1>5, <1>6

Drops(by) == by = "vfs template"

\* What a token stands for, by its name.
TokenMeans(by, name) ==
  IF Drops(by) THEN Substituted(name, "PLAIN", 1)
  ELSE IF Head(name) = "h:" THEN Answer(Tail(name), "HTML", 0)
  ELSE Answer(name, "PLAIN", 0)

LEMMA MeaningIs ==
  ASSUME NEW by, NEW text \in Seq(STRING), NEW i \in 1 .. Len(text), NEW p \in i .. Len(text) - 1
  PROVE  Meaning(by, text, i, p + 1) =
           IF text[p + 1] # "%" THEN Raw(<<"%">> \o NameTo(text, i, p) \o <<text[p + 1]>>)
           ELSE IF p = i THEN Raw(<<"%">>) ELSE TokenMeans(by, NameTo(text, i, p))
<1>1. PICK j : j = p + 1
  OBVIOUS
<1>2. j - 1 = p /\ (j = i + 1 <=> p = i)
  BY <1>1
<1>3. PICK name : name = NameTo(text, i, p)
  OBVIOUS
<1>4. SubSeq(text, i + 1, Min({j - 1, i + TokenSize - 1})) = name
  BY <1>2, <1>3 DEF NameTo
<1>5. Meaning(by, text, i, j) =
           IF text[j] # "%" THEN Raw(<<"%">> \o name \o <<text[j]>>)
           ELSE IF j = i + 1 THEN Raw(<<"%">>) ELSE TokenMeans(by, name)
  BY <1>4, Zenon DEF Meaning, TokenMeans, Drops
<1> QED
  BY <1>1, <1>2, <1>3, <1>5, Zenon

\* The name of a token that cgiEspFsTemplate takes, with its prefix and without.
LEMMA NameParts ==
  ASSUME NEW by, TakesNames(by), NEW text \in Seq(STRING), NEW i \in 1 .. Len(text),
         NEW p \in i .. Len(text), NoEnding(by, text, i, p), p # i,
         NEW name, name = NameTo(text, i, p)
  PROVE  /\ Parts(name) \in Nat \ {0} /\ Parts(Tail(name)) \in Nat \ {0}
         /\ name \in Seq(STRING) /\ Tail(name) \in Seq(STRING) /\ name # <<>>
<1>1. name \in Seq(STRING) /\ name \in Seq(NameSigns) /\ Len(name) = p - i /\ p - i <= TokenSize - 1
  BY NameTyped, NameFits
<1>2. name # <<>>
  <2>1. p - i # 0
    OBVIOUS
  <2> QED
    BY <1>1, <2>1
<1>3. Tail(name) \in Seq(STRING) /\ Tail(name) \in Seq(NameSigns) /\ Len(Tail(name)) = Len(name) - 1
  BY <1>1, <1>2, HeadTailProperties
<1>4. Len(name) <= TokenSize - 1 /\ Len(Tail(name)) <= TokenSize - 1
  BY <1>1, <1>3, TemplatesAssumption
<1> QED
  BY <1>1, <1>2, <1>3, <1>4, PartsOf

LEMMA TokenTyped ==
  ASSUME NEW by, TakesNames(by) \/ Drops(by), NEW text \in Seq(STRING), NEW i \in 1 .. Len(text),
         NEW p \in i .. Len(text), NoEnding(by, text, i, p), p # i
  PROVE  TokenMeans(by, NameTo(text, i, p)) \in Seq(Items)
<1>1. PICK name \in Seq(STRING) : name = NameTo(text, i, p)
  BY NameTyped
<1>2. CASE Drops(by)
  <2>1. Substituted(name, "PLAIN", 1) \in Seq(Items)
    BY PartTyped
  <2> QED
    BY <1>1, <1>2, <2>1, Zenon DEF TokenMeans
<1>3. CASE ~Drops(by)
  <2>1. Parts(name) \in Nat /\ Parts(Tail(name)) \in Nat /\ Tail(name) \in Seq(STRING)
    BY <1>1, <1>3, NameParts
  <2>2. Answer(name, "PLAIN", 0) \in Seq(Items) /\ Answer(Tail(name), "HTML", 0) \in Seq(Items)
    <3>1. 0 \in 0 .. Parts(name) /\ 0 \in 0 .. Parts(Tail(name))
      BY <2>1
    <3>2. Answer(name, "PLAIN", 0) \in Seq(Items)
      BY <2>1, <3>1, AnswerTyped
    <3>3. Answer(Tail(name), "HTML", 0) \in Seq(Items)
      BY <2>1, <3>1, AnswerTyped
    <3> QED
      BY <3>2, <3>3
  <2> QED
    BY <1>1, <1>3, <2>2, Zenon DEF TokenMeans
<1> QED
  BY <1>2, <1>3

LEMMA OneSign ==
  ASSUME NEW S, NEW v \in S PROVE <<v>> \in Seq(S)
  OBVIOUS

IsPercent(sign) == sign = "%"

LEMMA MeaningTyped ==
  ASSUME NEW by, TakesNames(by) \/ Drops(by), NEW text \in Seq(STRING), NEW i \in 1 .. Len(text),
         NEW p \in i .. Len(text) - 1, NoEnding(by, text, i, p), IsPercent(text[i])
  PROVE  Meaning(by, text, i, p + 1) \in Seq(Items)
<1>1. p \in i .. Len(text) /\ p + 1 \in 1 .. Len(text)
  OBVIOUS
<1>0. <<"%">> \in Seq(STRING)
  <2>1. text[i] \in STRING
    OBVIOUS
  <2>2. <<text[i]>> \in Seq(STRING)
    BY <2>1, OneSign
  <2> QED
    BY <2>2, Zenon DEF IsPercent
<1>2. Raw(<<"%">>) \in Seq(Items)
  BY <1>0, RawTyped, Zenon
<1>3. Raw(<<"%">> \o NameTo(text, i, p) \o <<text[p + 1]>>) \in Seq(Items)
  <2>1. PICK a \in Seq(STRING), b \in Seq(STRING), c \in Seq(STRING) :
           a = <<"%">> /\ b = NameTo(text, i, p) /\ c = <<text[p + 1]>>
    <3>1. NameTo(text, i, p) \in Seq(STRING)
      BY <1>1, NameTyped
    <3>2. text[p + 1] \in STRING
      BY <1>1
    <3>3. <<text[p + 1]>> \in Seq(STRING)
      BY <3>2, OneSign
    <3> QED
      BY <1>0, <3>1, <3>3, Zenon
  <2>2. (a \o b) \o c \in Seq(STRING)
    BY ConcatProperties
  <2>3. Raw((a \o b) \o c) \in Seq(Items)
    BY <2>2, RawTyped
  <2> QED
    BY <2>1, <2>3, Zenon
<1>4. p # i => TokenMeans(by, NameTo(text, i, p)) \in Seq(Items)
  BY <1>1, TokenTyped
<1>5. Meaning(by, text, i, p + 1) =
        IF text[p + 1] # "%" THEN Raw(<<"%">> \o NameTo(text, i, p) \o <<text[p + 1]>>)
        ELSE IF p = i THEN Raw(<<"%">>) ELSE TokenMeans(by, NameTo(text, i, p))
  BY MeaningIs
<1> QED
  BY <1>2, <1>3, <1>4, <1>5, Zenon

LEMMA ExpansionTyped ==
  ASSUME NEW by, TakesNames(by) \/ Drops(by), NEW text \in Seq(STRING), NEW f, IsExpansion(by, text, f)
  PROVE  \A i \in 1 .. Len(text) + 1 : f[i] \in Seq(Items)
<1>1. PICK N \in Nat : N = Len(text) + 1
  OBVIOUS
<1>2. \A i \in 1 .. N : f[i] = Reads(by, text, f, i)
  BY <1>1, Zenon DEF IsExpansion
<1> DEFINE G == {i \in 1 .. N : f[i] \in Seq(Items)}
<1>3. ASSUME NEW i \in 1 .. N, \A j \in i + 1 .. N : f[j] \in Seq(Items) PROVE f[i] \in Seq(Items)
  <2>0. <<>> \in Seq(Items)
    OBVIOUS
  <2>1. CASE i > Len(text)
    <3>1. f[i] = <<>>
      BY <1>2, <2>1, Zenon DEF Reads
    <3> QED
      BY <2>0, <3>1
  <2>2. CASE ~ (i > Len(text))
    <3>1. i \in 1 .. Len(text) /\ i + 1 \in i + 1 .. N
      BY <1>1, <2>2
    <3>2. CASE text[i] # "%"
      <4>1. <<text[i]>> \in Seq(STRING)
        BY <3>1
      <4>2. Raw(<<text[i]>>) \in Seq(Items)
        BY <4>1, RawTyped
      <4>3. f[i] = Raw(<<text[i]>>) \o f[i + 1]
        BY <1>2, <2>2, <3>2 DEF Reads
      <4>4. f[i + 1] \in Seq(Items)
        BY <1>3, <3>1
      <4> QED
        BY <4>2, <4>3, <4>4, ConcatProperties
    <3>3. CASE text[i] = "%" /\ Ending(by, text, i) = {}
      <4>1. f[i] = <<>>
        BY <1>2, <2>2, <3>3, Zenon DEF Reads
      <4> QED
        BY <2>0, <4>1
    <3>4. CASE text[i] = "%" /\ Ending(by, text, i) # {}
      <4>1. PICK j : j = Min(Ending(by, text, i))
        OBVIOUS
      <4>2. j \in i + 1 .. Len(text) /\ \A m \in Ending(by, text, i) : j <= m
        BY <3>1, <3>4, <4>1, FirstEnding
      <4>3. PICK p \in i .. Len(text) - 1 : j = p + 1
        <5>1. j - 1 \in i .. Len(text) - 1 /\ j = (j - 1) + 1
          BY <1>1, <3>1, <4>2
        <5> QED
          BY <5>1
      <4>4. NoEnding(by, text, i, p)
        <5>1. ASSUME NEW m \in Ending(by, text, i) PROVE m > p
          <6>1. m \in i + 1 .. Len(text)
            BY DEF Ending
          <6>2. j <= m
            BY <4>2
          <6> QED
            BY <3>1, <4>3, <6>1, <6>2
        <5> QED
          BY <5>1 DEF NoEnding
      <4>5. Meaning(by, text, i, j) \in Seq(Items)
        <5>1. Meaning(by, text, i, p + 1) \in Seq(Items)
          <6>1. IsPercent(text[i])
            BY <3>4, Zenon DEF IsPercent
          <6> QED
            BY <3>1, <4>4, <6>1, MeaningTyped
        <5> QED
          BY <4>3, <5>1
      <4>6. f[i] = Meaning(by, text, i, j) \o f[j + 1]
        BY <1>2, <2>2, <3>4, <4>1 DEF Reads
      <4>7. f[j + 1] \in Seq(Items)
        <5>1. j + 1 \in i + 1 .. N
          BY <1>1, <4>2
        <5> QED
          BY <1>3, <5>1
      <4> QED
        BY <4>5, <4>6, <4>7, ConcatProperties
    <3> QED
      BY <3>2, <3>3, <3>4
  <2> QED
    BY <2>1, <2>2
<1>4. G = 1 .. N
  <2>1. G \in SUBSET (1 .. N) /\ \A i \in 1 .. N : (\A j \in i + 1 .. N : j \in G) => i \in G
    <3>1. ASSUME NEW i \in 1 .. N, \A j \in i + 1 .. N : j \in G PROVE i \in G
      BY <1>3, <3>1
    <3> QED
      BY <3>1
  <2> HIDE DEF G
  <2> QED
    BY <2>1, FromTheEnd
<1> QED
  BY <1>1, <1>4

\* What the expansion E of a text says of each place.
StandsFor(by, text, E) ==
  /\ \A i \in 1 .. Len(text) + 1 : E[i] \in Seq(Items)
  /\ E[Len(text) + 1] = <<>>
  /\ \A i \in 1 .. Len(text) : ~IsPercent(text[i]) => E[i] = Raw(<<text[i]>>) \o E[i + 1]
  /\ \A i \in 1 .. Len(text) : IsPercent(text[i]) /\ Ending(by, text, i) = {} => E[i] = <<>>
  /\ \A i \in 1 .. Len(text) : \A p \in i .. Len(text) - 1 :
       IsPercent(text[i]) /\ p + 1 \in Ending(by, text, i) /\ NoEnding(by, text, i, p)
         => E[i] = Meaning(by, text, i, p + 1) \o E[p + 2]

LEMMA ExpansionStands ==
  ASSUME NEW by, TakesNames(by) \/ Drops(by), NEW text \in Seq(STRING), NEW E, E = Expansion(by, text)
  PROVE  StandsFor(by, text, E)
<1>1. IsExpansion(by, text, E)
  BY ExpansionIs, Zenon
<1>2. PICK n \in Nat : n = Len(text)
  OBVIOUS
<1>3. \A i \in 1 .. n + 1 : E[i] \in Seq(Items)
  BY <1>1, <1>2, ExpansionTyped
<1>4. \A i \in 1 .. n + 1 : E[i] = Reads(by, text, E, i)
  BY <1>1, <1>2, Zenon DEF IsExpansion
<1>5. E[n + 1] = <<>>
  <2>1. n + 1 \in 1 .. n + 1 /\ n + 1 > n
    OBVIOUS
  <2> QED
    BY <1>2, <1>4, <2>1, Zenon DEF Reads
<1>6. ASSUME NEW i \in 1 .. n
      PROVE  /\ ~IsPercent(text[i]) => E[i] = Raw(<<text[i]>>) \o E[i + 1]
             /\ IsPercent(text[i]) /\ Ending(by, text, i) = {} => E[i] = <<>>
  <2>1. i \in 1 .. n + 1 /\ ~ (i > n)
    OBVIOUS
  <2> QED
    BY <1>2, <1>4, <2>1, Zenon DEF Reads, IsPercent
<1>7. ASSUME NEW i \in 1 .. n, NEW p \in i .. n - 1,
             IsPercent(text[i]), p + 1 \in Ending(by, text, i), NoEnding(by, text, i, p)
      PROVE  E[i] = Meaning(by, text, i, p + 1) \o E[p + 2]
  <2>1. i \in 1 .. n + 1 /\ ~ (i > n) /\ p \in Nat /\ i \in 1 .. Len(text)
    BY <1>2
  <2>2. PICK j \in Nat : j = Min(Ending(by, text, i)) /\ j \in Ending(by, text, i) /\ j <= p + 1
    BY <1>2, <1>7, FirstEnding
  <2>3. j > p
    BY <1>7, <2>2 DEF NoEnding
  <2>4. j = p + 1 /\ j + 1 = p + 2
    BY <2>1, <2>2, <2>3
  <2>5. Ending(by, text, i) # {}
    BY <1>7
  <2>6. E[i] = Meaning(by, text, i, j) \o E[j + 1]
    BY <1>2, <1>4, <1>7, <2>1, <2>2, <2>5, Zenon DEF Reads, IsPercent
  <2> QED
    BY <2>4, <2>6
<1> QED
  BY <1>2, <1>3, <1>5, <1>6, <1>7 DEF StandsFor

-----------------------------------------------------------------------------
(* How far a template is expanded *)

\* In its text, with some of it not sent yet...
UpTo(E, out, i) == out \o E[i] = E[1]
InText(E, out, unsent, p) == out \o (unsent \o E[p + 1]) = E[1]

\* ...in the name of a token...
InToken(by, text, E, out, name, p) ==
  \E i \in 1 .. p : /\ IsPercent(text[i]) /\ NoEnding(by, text, i, p) /\ name = NameTo(text, i, p)
                    /\ UpTo(E, out, i)

\* ...or at its end, with some parts still to be sent.
InAnswer(E, out, name, enc, done, p) ==
  /\ Parts(name) \in Nat /\ done < Parts(name)
  /\ InText(E, out, Answer(name, enc, done), p + 1)

\* What was to be sent was sent.
LEMMA Sending ==
  ASSUME NEW out \in Seq(Items), NEW a \in Seq(Items), NEW b \in Seq(Items)
  PROVE  (out \o a) \o b = out \o (a \o b) /\ out \o a \in Seq(Items) /\ a \o b \in Seq(Items)
  BY ConcatAssociative, ConcatProperties, SMTT(30)

LEMMA NothingUnsent ==
  ASSUME NEW b \in Seq(Items)
  PROVE  <<>> \o b = b /\ b \o <<>> = b /\ <<>> \in Seq(Items)
  BY ConcatEmptySeq

LEMMA Flushed ==
  ASSUME NEW by, NEW text \in Seq(STRING), NEW E, StandsFor(by, text, E), NEW out \in Seq(Items),
         NEW u \in Seq(Items), NEW p \in 0 .. Len(text), InText(E, out, u, p)
  PROVE  out \o u \in Seq(Items) /\ InText(E, out \o u, <<>>, p)
<1>1. p + 1 \in 1 .. Len(text) + 1
  OBVIOUS
<1>2. PICK r \in Seq(Items) : r = E[p + 1]
  BY <1>1, Zenon DEF StandsFor
<1>3. out \o u \in Seq(Items) /\ (out \o u) \o r = out \o (u \o r) /\ <<>> \o r = r
  BY Sending, NothingUnsent, SMTT(30)
<1> QED
  BY <1>2, <1>3, Zenon DEF InText

LEMMA TextGoesOn ==
  ASSUME NEW by, NEW text \in Seq(STRING), NEW E, StandsFor(by, text, E), NEW out \in Seq(Items),
         NEW u \in Seq(Items), NEW p \in 0 .. Len(text) - 1, InText(E, out, u, p), ~IsPercent(text[p + 1]),
         NEW v, v = u \o Raw(<<text[p + 1]>>)
  PROVE  InText(E, out, v, p + 1)
<1>1. p + 1 \in 1 .. Len(text) /\ p + 1 \in 1 .. Len(text) + 1 /\ (p + 1) + 1 \in 1 .. Len(text) + 1
  OBVIOUS
<1>2. PICK a \in Seq(Items) : a = Raw(<<text[p + 1]>>)
  <2>1. text[p + 1] \in STRING
    BY <1>1
  <2>2. <<text[p + 1]>> \in Seq(STRING)
    BY <2>1, OneSign
  <2> QED
    BY <2>2, RawTyped
<1>3. PICK r \in Seq(Items) : r = E[(p + 1) + 1] /\ E[p + 1] = a \o r
  BY <1>1, <1>2, Zenon DEF StandsFor
<1>4. (u \o a) \o r = u \o (a \o r)
  BY Sending, SMTT(30)
<1> QED
  BY <1>2, <1>3, <1>4, Zenon DEF InText

LEMMA TokenBegins ==
  ASSUME NEW by, NEW text \in Seq(STRING), NEW E, StandsFor(by, text, E), NEW out \in Seq(Items),
         NEW u \in Seq(Items), NEW p \in 0 .. Len(text) - 1, InText(E, out, u, p), IsPercent(text[p + 1])
  PROVE  InToken(by, text, E, out \o u, <<>>, p + 1)
<1>1. p + 1 \in 1 .. Len(text) /\ p + 1 \in 1 .. Len(text) + 1 /\ p + 1 \in p + 1 .. Len(text)
      /\ p + 1 \in 1 .. p + 1
  OBVIOUS
<1>2. PICK r \in Seq(Items) : r = E[p + 1]
  BY <1>1, Zenon DEF StandsFor
<1>3. (out \o u) \o r = out \o (u \o r)
  BY Sending, ZenonT(40)
<1>4. NameTo(text, p + 1, p + 1) = <<>>
  <2>1. (p + 1) - (p + 1) = 0 /\ 0 <= TokenSize - 1
    BY TemplatesAssumption
  <2>2. NameTo(text, p + 1, p + 1) \in Seq(STRING) /\ Len(NameTo(text, p + 1, p + 1)) = 0
    BY <1>1, <2>1, NameTyped
  <2> QED
    BY <2>2
<1>5. NoEnding(by, text, p + 1, p + 1)
  <2>1. ASSUME NEW m \in Ending(by, text, p + 1) PROVE m > p + 1
    <3>1. m \in (p + 1) + 1 .. Len(text)
      BY DEF Ending
    <3> QED
      BY <3>1
  <2> QED
    BY <2>1 DEF NoEnding
<1>6. UpTo(E, out \o u, p + 1)
  BY <1>2, <1>3, Zenon DEF InText, UpTo
<1> QED
  BY <1>1, <1>4, <1>5, <1>6 DEF InToken

\* Where a token does not end.
LEMMA NotItsEnd ==
  ASSUME NEW by, NEW text, NEW i, NEW m, ~IsPercent(text[m]),
         TakesNames(by) => text[m] \in NameSigns /\ ~ (m - i >= TokenSize)
  PROVE  m \notin Ending(by, text, i)
  BY Zenon DEF Ending, TakesNames, IsPercent

LEMMA ItsEnd ==
  ASSUME NEW by, NEW text, NEW i, NEW m \in i + 1 .. Len(text),
         \/ IsPercent(text[m])
         \/ TakesNames(by) /\ (text[m] \notin NameSigns \/ m - i >= TokenSize)
  PROVE  m \in Ending(by, text, i)
  BY Zenon DEF Ending, TakesNames, IsPercent

\* The sign behind the p signs is one more of the name, or is dropped.
LEMMA TokenGoesOn ==
  ASSUME NEW by, NEW text \in Seq(STRING), NEW E, NEW out,
         NEW name, NEW p \in 0 .. Len(text) - 1, InToken(by, text, E, out, name, p), ~IsPercent(text[p + 1]),
         TakesNames(by) => text[p + 1] \in NameSigns /\ Len(name) < TokenSize - 1
  PROVE  InToken(by, text, E, out,
                 IF Len(name) < TokenSize - 1 THEN Append(name, text[p + 1]) ELSE name, p + 1)
<1>1. PICK i \in 1 .. p : /\ IsPercent(text[i]) /\ NoEnding(by, text, i, p) /\ name = NameTo(text, i, p)
                          /\ UpTo(E, out, i)
  BY DEF InToken
<1>2. i \in 1 .. Len(text) /\ p \in i .. Len(text) - 1 /\ p \in i .. Len(text) /\ i \in 1 .. p + 1
      /\ p - i \in Nat
  OBVIOUS
<1>3. PICK z \in Nat : z = TokenSize - 1
  BY TemplatesAssumption
<1>4. Len(name) = IF p - i <= z THEN p - i ELSE z
  BY <1>1, <1>2, <1>3, NameTyped
<1>5. Len(name) < TokenSize - 1 <=> p - i < TokenSize - 1
  BY <1>2, <1>3, <1>4
<1>6. NameTo(text, i, p + 1) = IF Len(name) < TokenSize - 1 THEN Append(name, text[p + 1]) ELSE name
  BY <1>1, <1>2, <1>5, NameGrows
<1>7. p + 1 \notin Ending(by, text, i)
  <2>1. CASE TakesNames(by)
    <3>1. p - i < TokenSize - 1
      BY <1>5, <2>1
    <3>2. ~ ((p + 1) - i >= TokenSize)
      BY <1>2, <3>1, TemplatesAssumption
    <3> QED
      BY <2>1, <3>2, NotItsEnd
  <2> QED
    BY <2>1, NotItsEnd
<1>8. NoEnding(by, text, i, p + 1)
  <2>1. ASSUME NEW m \in Ending(by, text, i) PROVE m > p + 1
    <3>1. m > p /\ m # p + 1
      BY <1>1, <1>7 DEF NoEnding
    <3>2. m \in i + 1 .. Len(text)
      BY DEF Ending
    <3> QED
      BY <1>2, <3>1, <3>2
  <2> QED
    BY <2>1 DEF NoEnding
<1> QED
  BY <1>1, <1>2, <1>6, <1>8 DEF InToken

MeansAs(by, text, i, p) ==
  Meaning(by, text, i, p + 1) =
    IF ~IsPercent(text[p + 1]) THEN Raw(<<"%">> \o NameTo(text, i, p) \o <<text[p + 1]>>)
    ELSE IF p = i THEN Raw(<<"%">>) ELSE TokenMeans(by, NameTo(text, i, p))

LEMMA MeaningAs ==
  ASSUME NEW by, NEW text \in Seq(STRING), NEW i \in 1 .. Len(text), NEW p \in i .. Len(text) - 1
  PROVE  MeansAs(by, text, i, p)
  BY MeaningIs, Zenon DEF MeansAs, IsPercent

\* A token at its end stands for what it means.
LEMMA TokenEnds ==
  ASSUME NEW by, NEW text \in Seq(STRING), NEW E, StandsFor(by, text, E), NEW out,
         NEW i \in 1 .. Len(text), NEW p \in i .. Len(text) - 1, IsPercent(text[i]), NoEnding(by, text, i, p),
         UpTo(E, out, i), p + 1 \in Ending(by, text, i)
  PROVE  InText(E, out, Meaning(by, text, i, p + 1), p + 1)
<1>1. (p + 1) + 1 = p + 2
  OBVIOUS
<1>4. E[i] = Meaning(by, text, i, p + 1) \o E[p + 2]
  BY Zenon DEF StandsFor
<1> QED
  BY <1>1, <1>4, Zenon DEF InText, UpTo

\* %% stands for a percent sign.
LEMMA EscapeEnds ==
  ASSUME NEW by, TakesNames(by) \/ Drops(by), NEW text \in Seq(STRING), NEW E, StandsFor(by, text, E),
         NEW out \in Seq(Items), NEW name,
         NEW p \in 0 .. Len(text) - 1, InToken(by, text, E, out, name, p),
         Len(name) = 0, IsPercent(text[p + 1])
  PROVE  Raw(<<"%">>) \in Seq(Items) /\ InText(E, out, Raw(<<"%">>), p + 1)
<1>1. PICK i \in 1 .. p : /\ IsPercent(text[i]) /\ NoEnding(by, text, i, p) /\ name = NameTo(text, i, p)
                          /\ UpTo(E, out, i)
  BY DEF InToken
<1>2. i \in 1 .. Len(text) /\ p \in i .. Len(text) - 1 /\ p \in i .. Len(text) /\ p + 1 \in i + 1 .. Len(text)
      /\ p - i \in Nat
  OBVIOUS
<1>3. Len(name) = IF p - i <= TokenSize - 1 THEN p - i ELSE TokenSize - 1
  BY <1>1, <1>2, NameTyped
<1>4. p = i
  BY <1>2, <1>3, TemplatesAssumption
<1>5. p + 1 \in Ending(by, text, i)
  BY <1>2, ItsEnd
<1>6. Meaning(by, text, i, p + 1) = Raw(<<"%">>)
  <2>1. MeansAs(by, text, i, p)
    BY <1>2, MeaningAs
  <2> QED
    BY <1>4, <2>1, Zenon DEF MeansAs
<1>7. Raw(<<"%">>) \in Seq(Items)
  BY <1>1, <1>2, <1>6, MeaningTyped
<1>8. InText(E, out, Meaning(by, text, i, p + 1), p + 1)
  BY <1>1, <1>2, <1>5, TokenEnds
<1> QED
  BY <1>6, <1>7, <1>8, Zenon

\* What cannot be a token stands for itself.
LEMMA GarbageEnds ==
  ASSUME NEW by, TakesNames(by), NEW text \in Seq(STRING), NEW E, StandsFor(by, text, E),
         NEW out \in Seq(Items), NEW name,
         NEW p \in 0 .. Len(text) - 1, InToken(by, text, E, out, name, p), ~IsPercent(text[p + 1]),
         ~ (Len(name) < TokenSize - 1) \/ text[p + 1] \notin NameSigns,
         NEW r, r = Raw(<<"%">> \o name \o <<text[p + 1]>>)
  PROVE  r \in Seq(Items) /\ InText(E, out, r, p + 1)
<1>1. PICK i \in 1 .. p : /\ IsPercent(text[i]) /\ NoEnding(by, text, i, p) /\ name = NameTo(text, i, p)
                          /\ UpTo(E, out, i)
  BY DEF InToken
<1>2. i \in 1 .. Len(text) /\ p \in i .. Len(text) - 1 /\ p \in i .. Len(text) /\ p + 1 \in i + 1 .. Len(text)
      /\ p - i \in Nat
  OBVIOUS
<1>3. Len(name) = p - i
  BY <1>1, <1>2, NameFits
<1>5. p + 1 \in Ending(by, text, i)
  <2>1. text[p + 1] \notin NameSigns \/ (p + 1) - i >= TokenSize
    BY <1>2, <1>3, TemplatesAssumption
  <2> QED
    BY <1>2, <2>1, ItsEnd
<1>6. Meaning(by, text, i, p + 1) = r
  <2>1. MeansAs(by, text, i, p)
    BY <1>2, MeaningAs
  <2> QED
    BY <1>1, <2>1, Zenon DEF MeansAs
<1>7. r \in Seq(Items)
  BY <1>1, <1>2, <1>6, MeaningTyped
<1>8. InText(E, out, Meaning(by, text, i, p + 1), p + 1)
  BY <1>1, <1>2, <1>5, TokenEnds
<1> QED
  BY <1>6, <1>7, <1>8, Zenon

\* The name and the encoding of a token for cgiEspFsTemplate.
Prefixed(name) == Head(name) = "h:"
NameIn(name) == IF Prefixed(name) THEN Tail(name) ELSE name
EncodingIn(name) == IF Prefixed(name) THEN "HTML" ELSE "PLAIN"

\* The end of a token: what is sent for it now...
LEMMA TokenAnswered ==
  ASSUME NEW by, TakesNames(by) \/ Drops(by), NEW text \in Seq(STRING), NEW E, StandsFor(by, text, E),
         NEW out \in Seq(Items), NEW name,
         NEW p \in 0 .. Len(text) - 1, InToken(by, text, E, out, name, p),
         Len(name) > 0, IsPercent(text[p + 1])
  PROVE  /\ name \in Seq(STRING)
         /\ Drops(by) => InText(E, out, Substituted(name, "PLAIN", 1), p + 1)
         /\ ~Drops(by) => /\ NameIn(name) \in Seq(STRING) /\ EncodingIn(name) \in {"PLAIN", "HTML"}
                          /\ Parts(NameIn(name)) \in Nat \ {0}
                          /\ InText(E, out, Answer(NameIn(name), EncodingIn(name), 0), p + 1)
<1>1. PICK i \in 1 .. p : /\ IsPercent(text[i]) /\ NoEnding(by, text, i, p) /\ name = NameTo(text, i, p)
                          /\ UpTo(E, out, i)
  BY DEF InToken
<1>2. i \in 1 .. Len(text) /\ p \in i .. Len(text) - 1 /\ p \in i .. Len(text) /\ p + 1 \in i + 1 .. Len(text)
      /\ p - i \in Nat
  OBVIOUS
<1>3. name \in Seq(STRING) /\ Len(name) = IF p - i <= TokenSize - 1 THEN p - i ELSE TokenSize - 1
  BY <1>1, <1>2, NameTyped
<1>4. p # i
  BY <1>2, <1>3, TemplatesAssumption
<1>5. p + 1 \in Ending(by, text, i)
  BY <1>2, ItsEnd
<1>6. InText(E, out, TokenMeans(by, name), p + 1)
  <2>1. MeansAs(by, text, i, p)
    BY <1>2, MeaningAs
  <2>2. Meaning(by, text, i, p + 1) = TokenMeans(by, name)
    BY <1>1, <1>4, <2>1, Zenon DEF MeansAs
  <2>3. InText(E, out, Meaning(by, text, i, p + 1), p + 1)
    BY <1>1, <1>2, <1>5, TokenEnds
  <2> QED
    BY <2>2, <2>3, Zenon
<1>7. CASE Drops(by)
  BY <1>3, <1>6, <1>7, Zenon DEF TokenMeans
<1>8. CASE ~Drops(by)
  <2>1. Parts(name) \in Nat \ {0} /\ Parts(Tail(name)) \in Nat \ {0} /\ Tail(name) \in Seq(STRING)
    BY <1>1, <1>2, <1>4, <1>8, NameParts
  <2>2. NameIn(name) \in Seq(STRING) /\ Parts(NameIn(name)) \in Nat \ {0}
        /\ EncodingIn(name) \in {"PLAIN", "HTML"}
    BY <1>3, <2>1, Zenon DEF NameIn, EncodingIn
  <2>3. TokenMeans(by, name) = Answer(NameIn(name), EncodingIn(name), 0)
    BY <1>8, Zenon DEF TokenMeans, NameIn, EncodingIn, Prefixed
  <2> QED
    BY <1>3, <1>6, <1>8, <2>2, <2>3, Zenon
<1> QED
  BY <1>7, <1>8

SendsFirst(out, s, a, r) == out \o s \in Seq(Items) /\ (out \o s) \o (a \o r) = out \o ((s \o a) \o r)

LEMMA SentInTurn ==
  ASSUME NEW out \in Seq(Items), NEW s \in Seq(Items), NEW a \in Seq(Items), NEW r \in Seq(Items)
  PROVE  SendsFirst(out, s, a, r)
<1>1. (s \o a) \o r = s \o (a \o r) /\ a \o r \in Seq(Items)
  BY Sending, SMTT(30)
<1>2. PICK t \in Seq(Items) : t = a \o r
  BY <1>1
<1>3. out \o s \in Seq(Items) /\ (out \o s) \o t = out \o (s \o t)
  BY Sending, SMTT(30)
<1> QED
  BY <1>1, <1>2, <1>3, Zenon DEF SendsFirst

\* ...and in each further call.
LEMMA AnswerGoesOn ==
  ASSUME NEW by, NEW text \in Seq(STRING), NEW E, StandsFor(by, text, E), NEW out \in Seq(Items),
         NEW name \in Seq(STRING), Parts(name) \in Nat, NEW enc \in {"PLAIN", "HTML"},
         NEW done \in Nat, done < Parts(name), NEW p \in 0 .. Len(text),
         InText(E, out, Answer(name, enc, done), p)
  PROVE  /\ out \o Substituted(name, enc, done + 1) \in Seq(Items)
         /\ InText(E, out \o Substituted(name, enc, done + 1), Answer(name, enc, done + 1), p)
<1>1. p + 1 \in 1 .. Len(text) + 1 /\ done + 1 \in 0 .. Parts(name) /\ done + 1 \in Nat
  OBVIOUS
<1>2. PICK r \in Seq(Items) : r = E[p + 1]
  BY <1>1, Zenon DEF StandsFor
<1>3. PICK s \in Seq(Items) : s = Substituted(name, enc, done + 1)
  BY <1>1, PartTyped
<1>4. PICK a \in Seq(Items) : a = Answer(name, enc, done + 1)
  BY <1>1, AnswerTyped
<1>5. Answer(name, enc, done) = s \o a
  BY <1>3, <1>4, AnswerStep
<1>7. out \o s \in Seq(Items) /\ (out \o s) \o (a \o r) = out \o ((s \o a) \o r)
  <2>1. SendsFirst(out, s, a, r)
    BY <1>2, <1>3, <1>4, SentInTurn
  <2> QED
    BY <2>1, Zenon DEF SendsFirst
<1>8. InText(E, out \o s, a, p)
  BY <1>2, <1>5, <1>7, Zenon DEF InText
<1> QED
  BY <1>3, <1>4, <1>7, <1>8, Zenon

\* How much of its text a template has passed, and what of it waits to be sent.
Passed == pos - Len(buff) + x
Unsent == IF call = "inside" THEN Raw(SubSeq(buff, e + 1, e + sp)) ELSE <<>>

\* A call that is left before the end of its piece is one whose callback wants to be
\* called again, and only the last piece does not fill the buffer.
PassInv ==
  /\ output \in Seq(Items)
  /\ ~chunkResume => tplArg = 0
  /\ handler = "vfs template" => encoding = "PLAIN"
  /\ IsTemplate /\ call = "more" /\ ~chunkResume => x = Len(buff)
  /\ IsTemplate /\ (call = "inside" \/ chunkResume) => Len(buff) = ChunkLen \/ pos = Len(Text)

\* What was sent, and what is still to be sent where the parser is, is what the text
\* stands for.
SentSoFar(E) ==
  /\ tokenPos = -1 => InText(E, output, Unsent, Passed)
  /\ tokenPos # -1 /\ ~chunkResume => InToken(handler, Text, E, output, token, Passed)
  /\ chunkResume => InAnswer(E, output, token, encoding, tplArg, Passed)

SentInv ==
  IsTemplate /\ opened # <<>> =>
    LET E == Expansion(handler, Text)
    IN IF call = "done" THEN output = E[1] ELSE SentSoFar(E)

ExpandInv == FilesInv /\ PassInv /\ SentInv

-----------------------------------------------------------------------------
(* The steps of a template *)

LEMMA TemplateKinds == IsTemplate => TakesNames(handler) \/ Drops(handler)
  BY Zenon DEF IsTemplate, TakesNames, Drops

LEMMA NotDrops == handler = "espfs template" => TakesNames(handler) /\ ~Drops(handler)
<1>1. "espfs template" # "vfs template"
  OBVIOUS
<1> QED
  BY <1>1, Zenon DEF TakesNames, Drops

LEMMA ReadsOn ==
  ASSUME NEW n \in Nat, NEW b \in Nat, NEW q \in Nat, NEW y \in 0 .. b, b <= q, q <= n
  PROVE  /\ q - b + y \in 0 .. n
         /\ y < b => /\ q - b + y \in 0 .. n - 1 /\ y + 1 \in 1 .. b /\ q - b + 1 \in Nat
                     /\ (q - b + 1) + (y + 1) - 1 = (q - b + y) + 1
         /\ y + 1 \in Nat => q - b + (y + 1) = (q - b + y) + 1
  OBVIOUS

\* The piece in the buffer is the text up to the position.
IsPiece(s, text, b, q) == \A k \in 1 .. b : s[k] = text[(q - b + 1) + k - 1]

LEMMA PieceIs ==
  ASSUME NEW text, NEW b \in Nat, NEW q \in Nat, b <= q
  PROVE  IsPiece(SubSeq(text, q - b + 1, q), text, b, q)
<1>1. PICK st \in Nat : st = q - b + 1
  OBVIOUS
<1>2. q - st + 1 = b
  BY <1>1
<1>3. PICK s : s = SubSeq(text, st, q)
  OBVIOUS
<1>4. s = [j \in 1 .. b |-> text[st + j - 1]]
  BY <1>2, <1>3
<1> QED
  BY <1>1, <1>3, <1>4 DEF IsPiece

LEMMA PassedIs ==
  ASSUME FilesInv, IsTemplate, opened # <<>>
  PROVE  /\ Passed \in 0 .. Len(Text) /\ Text \in Seq(STRING)
         /\ x < Len(buff) => Passed \in 0 .. Len(Text) - 1
<1>1. x \in 0 .. Len(buff) /\ Len(buff) \in Nat /\ pos \in Nat
  <2>1. x \in 0 .. Len(buff) /\ buff \in Seq(STRING)
    BY DEF FilesInv, TurnInv
  <2>2. pos \in Nat
    BY DEF FilesInv, ServeInv
  <2> QED
    BY <2>1, <2>2
<1>2. Text \in Seq(STRING)
  <2>1. PICK p \in DOMAIN disk : opened = <<p>>
    BY DEF FilesInv, OpenInv
  <2>2. disk[p] \in [gzip : BOOLEAN, text : Seq(STRING)]
    BY <2>1 DEF FilesInv, CaseInv, Files, IsTemplate
  <2>3. Text = disk[p].text
    BY <2>1 DEF Text
  <2> QED
    BY <2>2, <2>3
<1>3. Len(buff) <= pos /\ pos <= Len(Text) /\ Len(Text) \in Nat
  BY <1>2 DEF FilesInv, PieceInv
<1>4. PICK n \in Nat, b \in Nat, q \in Nat : n = Len(Text) /\ b = Len(buff) /\ q = pos /\ b <= q /\ q <= n
  BY <1>1, <1>3
<1>5. x \in 0 .. b
  BY <1>1, <1>4
<1>6. q - b + x \in 0 .. n /\ (x < b => q - b + x \in 0 .. n - 1)
  BY <1>4, <1>5, ReadsOn
<1> QED
  BY <1>2, <1>4, <1>6 DEF Passed

\* What a turn of the loop knows of the text.
LEMMA SignHere ==
  ASSUME FilesInv, Inside
  PROVE  /\ Passed \in 0 .. Len(Text) - 1 /\ Text \in Seq(STRING)
         /\ Sign = Text[Passed + 1] /\ Sign \in STRING
         /\ IsTemplate /\ call = "inside" /\ opened # <<>>
<1>1. IsTemplate /\ call = "inside" /\ x < Len(buff) /\ Sign = buff[x + 1] /\ Sign \in STRING /\ TurnInv
  BY TurnFacts DEF Inside, Sign
<1>2. /\ Text \in Seq(STRING) /\ Len(Text) \in Nat
      /\ pos \in Nat /\ Len(buff) \in Nat /\ Len(buff) <= pos /\ pos <= Len(Text)
      /\ buff = SubSeq(Text, pos - Len(buff) + 1, pos) /\ opened # <<>>
  <2>1. \E p \in DOMAIN disk : opened = <<p>>
    BY <1>1, TemplateOpen
  <2>2. /\ Text \in Seq(STRING) /\ Len(Text) \in Nat
        /\ pos \in Nat /\ Len(buff) \in Nat /\ Len(buff) <= pos /\ pos <= Len(Text)
        /\ buff = SubSeq(Text, pos - Len(buff) + 1, pos)
    BY <1>1, TemplateOpen
  <2> QED
    BY <2>1, <2>2
<1>3. PICK n \in Nat, b \in Nat, q \in Nat, text \in Seq(STRING) :
         n = Len(Text) /\ b = Len(buff) /\ q = pos /\ b <= q /\ q <= n /\ text = Text
  BY <1>2
<1>4. x \in 0 .. b /\ x < b
  BY <1>1, <1>3 DEF TurnInv
<1>5. /\ q - b + x \in 0 .. n - 1 /\ x + 1 \in 1 .. b
      /\ (q - b + 1) + (x + 1) - 1 = (q - b + x) + 1
  BY <1>3, <1>4, ReadsOn
<1>6. PICK k \in 1 .. b : k = x + 1
  BY <1>5
<1>7. buff[k] = text[(q - b + 1) + k - 1]
  <2>1. IsPiece(SubSeq(text, q - b + 1, q), text, b, q)
    BY <1>3, PieceIs
  <2>2. buff = SubSeq(text, q - b + 1, q)
    BY <1>2, <1>3
  <2>3. IsPiece(buff, text, b, q)
    BY <2>1, <2>2
  <2> QED
    BY <1>6, <2>3, Zenon DEF IsPiece
<1>8. buff[x + 1] = text[(q - b + x) + 1]
  BY <1>5, <1>6, <1>7
<1>9. Passed = q - b + x
  BY <1>3 DEF Passed
<1> QED
  BY <1>1, <1>2, <1>3, <1>5, <1>8, <1>9

\* What it knows of what was sent.
LEMMA SentFacts ==
  ASSUME ExpandInv, Inside
  PROVE  \E text \in Seq(STRING), E \in {Expansion(handler, Text)} : \E p \in 0 .. Len(text) - 1 :
           /\ text = Text /\ E = Expansion(handler, text) /\ StandsFor(handler, text, E) /\ SentSoFar(E)
           /\ p = Passed /\ Sign = text[p + 1]
<1>1. /\ Passed \in 0 .. Len(Text) - 1 /\ Text \in Seq(STRING) /\ Sign = Text[Passed + 1]
      /\ IsTemplate /\ call = "inside" /\ opened # <<>>
  BY SignHere DEF ExpandInv
<1>2. PICK text \in Seq(STRING), E \in {Expansion(handler, Text)} :
         text = Text /\ E = Expansion(handler, text)
  BY <1>1
<1>3. PICK p \in 0 .. Len(text) - 1 : p = Passed
  BY <1>1, <1>2
<1>4. StandsFor(handler, text, E)
  BY <1>1, <1>2, TemplateKinds, ExpansionStands
<1>5. SentSoFar(E)
  <2>1. call # "done"
    BY <1>1
  <2> QED
    BY <1>1, <1>2, <2>1, Zenon DEF ExpandInv, SentInv
<1> QED
  BY <1>1, <1>2, <1>3, <1>4, <1>5

\* What a turn has to show.
LEMMA TurnSends ==
  ASSUME ExpandInv, Inside, TurnKeeps, call' \in {"more", "inside"}, FilesInv', PassInv',
         NEW E, E = Expansion(handler, Text), SentSoFar(E)'
  PROVE  ExpandInv'
<1>1. UNCHANGED <<handler, disk, opened>>
  BY DEF TurnKeeps, fixed, fileVars
<1>2. Text' = Text
  BY <1>1 DEF Text
<1>3. call' # "done"
  OBVIOUS
<1>4. E = Expansion(handler, Text)'
  BY <1>1, <1>2
<1>5. SentInv'
  BY <1>3, <1>4, Zenon DEF SentInv
<1> QED
  BY <1>5 DEF ExpandInv

LEMMA PassedNext ==
  ASSUME FilesInv, Inside, TurnKeeps
  PROVE  /\ Text' = Text /\ handler' = handler /\ x \in Nat
         /\ x' = x + 1 => Passed' = Passed + 1
         /\ x' = x => Passed' = Passed
<1>1. UNCHANGED <<handler, disk, opened, pos, buff>>
  BY DEF TurnKeeps, fixed, fileVars
<1>2. Text' = Text
  BY <1>1 DEF Text
<1>3. pos \in Nat /\ Len(buff) \in Nat /\ x \in Nat
  <2>1. IsTemplate /\ call = "inside" /\ x \in Nat
    BY TurnFacts
  <2> QED
    BY <2>1, TemplateOpen
<1> QED
  BY <1>1, <1>2, <1>3 DEF Passed

SliceIs(S, t, s, a, k) == t \in Seq(S) /\ Len(t) = k /\ \A i \in 1 .. k : t[i] = s[a + i]

LEMMA SliceTyped ==
  ASSUME NEW S, NEW s \in Seq(S), NEW a \in Nat, NEW k \in Nat, a + k <= Len(s)
  PROVE  SliceIs(S, SubSeq(s, a + 1, a + k), s, a, k)
<1>1. PICK N \in Nat : N = Len(s)
  OBVIOUS
<1>2. (a + k) - (a + 1) + 1 = k /\ \A i \in 1 .. k : (a + 1) + i - 1 = a + i /\ a + i \in 1 .. N
  BY <1>1
<1>3. PICK t : t = SubSeq(s, a + 1, a + k)
  OBVIOUS
<1>4. t = [i \in 1 .. (a + k) - (a + 1) + 1 |-> s[(a + 1) + i - 1]]
  BY <1>3
<1>5. t = [i \in 1 .. k |-> s[a + i]]
  BY <1>2, <1>4
<1>6. t \in [1 .. k -> S]
  BY <1>1, <1>2, <1>5
<1>7. t \in Seq(S) /\ Len(t) = k
  BY <1>6, SeqDef
<1> QED
  BY <1>3, <1>5, <1>7 DEF SliceIs

LEMMA SliceGrows ==
  ASSUME NEW S, NEW s \in Seq(S), NEW a \in Nat, NEW k \in Nat, a + k < Len(s)
  PROVE  /\ <<s[a + k + 1]>> \in Seq(S)
         /\ SubSeq(s, a + 1, a + (k + 1)) = SubSeq(s, a + 1, a + k) \o <<s[a + k + 1]>>
<1>1. PICK N \in Nat : N = Len(s)
  OBVIOUS
<1>2. a + k <= N /\ a + (k + 1) <= N /\ a + k + 1 \in 1 .. N /\ k + 1 \in Nat /\ k + 1 \in 1 .. k + 1
      /\ a + (k + 1) = a + k + 1 /\ \A i \in 1 .. k : i \in 1 .. k + 1
  BY <1>1
<1>3. PICK t \in Seq(S) : t = SubSeq(s, a + 1, a + k) /\ Len(t) = k /\ \A i \in 1 .. k : t[i] = s[a + i]
  <2>1. SliceIs(S, SubSeq(s, a + 1, a + k), s, a, k)
    BY <1>1, <1>2, SliceTyped
  <2> QED
    BY <2>1 DEF SliceIs
<1>4. PICK u \in Seq(S) : u = SubSeq(s, a + 1, a + (k + 1)) /\ Len(u) = k + 1
                          /\ \A i \in 1 .. k + 1 : u[i] = s[a + i]
  <2>1. SliceIs(S, SubSeq(s, a + 1, a + (k + 1)), s, a, k + 1)
    BY <1>1, <1>2, SliceTyped
  <2> QED
    BY <2>1 DEF SliceIs
<1>5. PICK c \in S : c = s[a + k + 1]
  BY <1>1, <1>2
<1>6. PICK b \in Seq(S) : b = <<c>> /\ Len(b) = 1 /\ b[1] = c
  <2>1. <<c>> \in Seq(S)
    BY OneSign
  <2> QED
    BY <2>1
<1>7. PICK v \in Seq(S) : v = t \o b /\ Joint(t, b, v, k, 1)
  BY <1>3, <1>6, JointIs
<1>8. Joint(t, b, u, k, 1)
  <2>1. \A i \in 1 .. k : u[i] = t[i]
    BY <1>2, <1>3, <1>4
  <2>2. u[k + 1] = b[1]
    BY <1>2, <1>4, <1>5, <1>6
  <2>3. \A j \in 1 .. 1 : u[k + j] = b[j]
    <3>1. ASSUME NEW j \in 1 .. 1 PROVE u[k + j] = b[j]
      <4>1. j = 1
        OBVIOUS
      <4> QED
        BY <2>2, <4>1
    <3> QED
      BY <3>1
  <2> QED
    BY <1>4, <2>1, <2>3 DEF Joint
<1>9. u = v
  BY <1>4, <1>7, <1>8, SameJoint
<1> QED
  BY <1>3, <1>4, <1>5, <1>6, <1>7, <1>9

\* Nothing was dropped yet, and this step drops nothing.
AllSent == dropped = {} /\ dropped' = {}

LEMMA SentWhole ==
  ASSUME AllSent, NEW t, NEW n, httpdSend(t, n) \/ SendPieces(t, n)
  PROVE  output' = output \o t
<1>1. CASE Buffered(t, n)
  BY <1>1 DEF Buffered, AllSent
<1>2. CASE NoRoom
  BY <1>2 DEF NoRoom, AllSent
<1> QED
  BY <1>1, <1>2 DEF httpdSend, SendPieces

\* It is what waits to be sent.
LEMMA UnsentIs ==
  ASSUME ExpandInv, call = "inside"
  PROVE  /\ Unsent \in Seq(Items) /\ Unsent = Raw(SubSeq(buff, e + 1, e + sp))
         /\ sp = 0 => Unsent = <<>>
         /\ AllSent /\ SendText => output' = output \o Unsent
<1>1. buff \in Seq(STRING) /\ e \in Nat /\ sp \in Nat /\ e + sp <= Len(buff) /\ output \in Seq(Items)
  BY DEF ExpandInv, FilesInv, TurnInv, PassInv
<1>2. PICK u : u = SubSeq(buff, e + 1, e + sp)
  OBVIOUS
<1>3. u \in Seq(STRING) /\ Len(u) = sp
  BY <1>1, <1>2, SliceTyped DEF SliceIs
<1>4. PICK r : r = Raw(u)
  OBVIOUS
<1>5. r \in Seq(Items) /\ Len(r) = sp
  BY <1>3, <1>4, RawTyped
<1>6. sp = 0 => r = <<>>
  BY <1>5
<1>7. Unsent = r
  BY <1>2, <1>4, Zenon DEF Unsent
<1>8. output \o <<>> = output
  BY <1>1, NothingUnsent
<1>9. AllSent /\ SendText => output' = output \o r
  <2>1. CASE sp = 0
    <3>1. SendText => output' = output
      BY <2>1 DEF SendText
    <3>2. output \o r = output
      BY <1>6, <1>8, <2>1
    <3> QED
      BY <3>1, <3>2, Zenon
  <2>2. CASE sp # 0
    <3>1. SendText => httpdSend(r, sp)
      BY <1>2, <1>4, <2>2, Zenon DEF SendText
    <3> QED
      BY <3>1, SentWhole, Zenon
  <2> QED
    BY <2>1, <2>2
<1> QED
  BY <1>2, <1>4, <1>5, <1>6, <1>7, <1>9, Zenon

\* Nothing of the text waits where no text was passed yet.
LEMMA NothingWaits ==
  ASSUME NEW a \in Nat, NEW s
  PROVE  Raw(SubSeq(s, a + 1, a + 0)) = <<>>
<1>1. a + 0 < a + 1
  OBVIOUS
<1>2. SubSeq(s, a + 1, a + 0) = <<>>
  BY <1>1
<1> QED
  <2>1. <<>> \in Seq(STRING) /\ Len(<<>>) = 0
    OBVIOUS
  <2>2. PICK r : r = Raw(<<>>)
    OBVIOUS
  <2>3. r \in Seq(Items) /\ Len(r) = 0
    BY <2>1, <2>2, RawTyped
  <2>4. r = <<>>
    BY <2>3
  <2> QED
    BY <1>2, <2>2, <2>4, Zenon

LEMMA TurnPasses ==
  ASSUME ExpandInv, Inside, TurnKeeps, output' \in Seq(Items), ~chunkResume' => tplArg' = 0,
         handler = "vfs template" => encoding' = "PLAIN", call' = "inside" \/ chunkResume'
  PROVE  PassInv'
<1>1. UNCHANGED <<handler, pos, buff>> /\ Text' = Text
  BY DEF TurnKeeps, fixed, fileVars, Text
<1>2. IsTemplate /\ (call = "inside" \/ chunkResume) => Len(buff) = ChunkLen \/ pos = Len(Text)
  BY DEF ExpandInv, PassInv
<1>3. IsTemplate /\ call = "inside"
  BY DEF Inside
<1>4. Len(buff') = ChunkLen \/ pos' = Len(Text')
  BY <1>1, <1>2, <1>3
<1>5. ~ (call' = "more" /\ ~chunkResume')
  BY Zenon
<1> QED
  BY <1>1, <1>4, <1>5 DEF PassInv

LEMMA OrdinarySends == ASSUME ExpandInv, Ordinary, AllSent PROVE ExpandInv'
<1>1. /\ Inside /\ tokenPos = -1 /\ TurnKeeps /\ call' = "inside" /\ call = "inside" /\ x' = x + 1
      /\ UNCHANGED <<e, encoding, tplArg, chunkResume>> /\ buff' = buff
      /\ \/ IsPercent(Sign) /\ SendText /\ sp' = 0 /\ tokenPos' = 0 /\ token' = <<>>
         \/ ~IsPercent(Sign) /\ sp' = sp + 1 /\ UNCHANGED <<output, tokenPos, token>>
  BY DEF Ordinary, Inside, IsPercent, TurnKeeps
<1>2. FilesInv /\ FilesInv' /\ TurnInv /\ TurnInv'
  BY OrdinaryStep DEF ExpandInv, FilesInv
<1>3. ~chunkResume /\ ~chunkResume'
  BY <1>1, <1>2, Resumed
<1>4. PICK text \in Seq(STRING), E \in {Expansion(handler, Text)} : \E q \in 0 .. Len(text) - 1 :
           /\ text = Text /\ E = Expansion(handler, text) /\ StandsFor(handler, text, E) /\ SentSoFar(E)
           /\ q = Passed /\ Sign = text[q + 1]
  BY <1>1, SentFacts
<1>5. PICK p \in 0 .. Len(text) - 1 :
           /\ text = Text /\ E = Expansion(handler, text) /\ StandsFor(handler, text, E) /\ SentSoFar(E)
           /\ p = Passed /\ Sign = text[p + 1]
  BY <1>4
<1>6. Text' = text /\ handler' = handler /\ Passed' = p + 1
  BY <1>1, <1>2, <1>5, PassedNext
<1>7. InText(E, output, Unsent, p)
  BY <1>1, <1>5, Zenon DEF SentSoFar
<1>8. /\ Unsent \in Seq(Items) /\ Unsent = Raw(SubSeq(buff, e + 1, e + sp)) /\ output \in Seq(Items)
      /\ SendText => output' = output \o Unsent
  BY <1>1, UnsentIs DEF ExpandInv, PassInv
<1>9. PICK u \in Seq(Items), out \in Seq(Items) : u = Unsent /\ out = output
  BY <1>8
<1>10. tplArg' = 0 /\ (handler = "vfs template" => encoding' = "PLAIN")
  BY <1>1, <1>3 DEF ExpandInv, PassInv
<1>11. CASE IsPercent(Sign)
  <2>1. output' = out \o u /\ tokenPos' = 0 /\ token' = <<>>
    BY <1>1, <1>8, <1>9, <1>11
  <2>2. out \o u \in Seq(Items)
    BY <1>9, Sending
  <2>3. InToken(handler, text, E, out \o u, <<>>, p + 1)
    BY <1>5, <1>7, <1>9, <1>11, TokenBegins
  <2>4. InToken(handler', Text', E, output', token', Passed')
    BY <1>6, <2>1, <2>3, Zenon
  <2>5. SentSoFar(E)'
    <3>1. tokenPos' # -1
      BY <2>1
    <3> QED
      BY <1>3, <2>4, <3>1, Zenon DEF SentSoFar
  <2>6. PassInv'
    BY <1>1, <1>10, <2>1, <2>2, TurnPasses
  <2> QED
    BY <1>1, <1>2, <1>5, <2>5, <2>6, TurnSends
<1>12. CASE ~IsPercent(Sign)
  <2>1. output' = out /\ tokenPos' = -1 /\ sp' = sp + 1
    BY <1>1, <1>9, <1>12
  <2>2. Unsent' = u \o Raw(<<text[p + 1]>>)
    <3>1. buff \in Seq(STRING) /\ e \in Nat /\ sp \in Nat /\ e + sp = x /\ x < Len(buff)
      BY <1>1, <1>2 DEF TurnInv, Inside
    <3>2. PICK s \in Seq(STRING), a \in Nat, k \in Nat :
             s = buff /\ a = e /\ k = sp /\ a + k < Len(s) /\ a + k = x
      BY <3>1
    <3>3. /\ <<s[a + k + 1]>> \in Seq(STRING)
          /\ SubSeq(s, a + 1, a + (k + 1)) = SubSeq(s, a + 1, a + k) \o <<s[a + k + 1]>>
      BY <3>2, SliceGrows
    <3>4. s[a + k + 1] = text[p + 1]
      BY <1>5, <3>2 DEF Sign
    <3>5. SubSeq(s, a + 1, a + k) \in Seq(STRING)
      <4>1. SliceIs(STRING, SubSeq(s, a + 1, a + k), s, a, k)
        BY <3>2, SliceTyped
      <4> QED
        BY <4>1 DEF SliceIs
    <3>6. Raw(SubSeq(s, a + 1, a + k) \o <<s[a + k + 1]>>)
            = Raw(SubSeq(s, a + 1, a + k)) \o Raw(<<s[a + k + 1]>>)
      BY <3>3, <3>5, RawJoined
    <3>7. Unsent' = Raw(SubSeq(s, a + 1, a + (k + 1)))
      <4>1. Unsent' = Raw(SubSeq(buff', e' + 1, e' + sp'))
        BY <1>1, Zenon DEF Unsent
      <4> QED
        BY <1>1, <2>1, <3>2, <4>1, Zenon
    <3>8. u = Raw(SubSeq(s, a + 1, a + k))
      BY <1>8, <1>9, <3>2, Zenon
    <3> QED
      BY <3>3, <3>4, <3>6, <3>7, <3>8, Zenon
  <2>3. InText(E, out, Unsent', p + 1)
    BY <1>5, <1>7, <1>9, <1>12, <2>2, TextGoesOn
  <2>4. InText(E, output', Unsent', Passed')
    BY <1>6, <2>1, <2>3, Zenon
  <2>5. SentSoFar(E)'
    BY <1>3, <2>1, <2>4, Zenon DEF SentSoFar
  <2>6. PassInv'
    BY <1>1, <1>9, <1>10, <2>1, TurnPasses
  <2> QED
    BY <1>1, <1>2, <1>5, <2>5, <2>6, TurnSends
<1> QED
  BY <1>11, <1>12

LEMMA HoldsNothing ==
  ASSUME TurnInv, tokenPos >= 0
  PROVE  /\ sp = 0 /\ x \in Nat /\ x + 1 \in Nat /\ tokenPos \in Int
         /\ tokenPos # -1 /\ tokenPos + 1 # -1
         /\ ~chunkResume => Len(token) = tokenPos
<1>1. /\ tokenPos >= 0 => sp = 0
      /\ tokenPos >= 0 /\ ~chunkResume => Len(token) = tokenPos
      /\ x \in 0 .. Len(buff) /\ buff \in Seq(STRING) /\ tokenPos \in -1 .. TokenSize - 1
  BY DEF TurnInv
<1>2. tokenPos \in Int /\ tokenPos # -1 /\ tokenPos + 1 # -1
  BY <1>1, TemplatesAssumption
<1>3. x \in Nat /\ x + 1 \in Nat
  BY <1>1
<1> QED
  BY <1>1, <1>2, <1>3

LEMMA OneMore == ASSUME NEW text \in Seq(STRING), NEW p \in 0 .. Len(text) - 1 PROVE p + 1 \in 0 .. Len(text)
  OBVIOUS

\* Back to text: what a token stands for is sent.
LEMMA BackSends ==
  ASSUME ExpandInv, Inside, tokenPos >= 0, BackToText, TurnKeeps, call' = call, FilesInv',
         tplArg' = 0, chunkResume' \in BOOLEAN, ~chunkResume',
         handler = "vfs template" => encoding' = "PLAIN",
         NEW text \in Seq(STRING), text = Text, NEW E, E = Expansion(handler, text),
         StandsFor(handler, text, E),
         NEW p \in 0 .. Len(text) - 1, p = Passed,
         NEW out, out = output, NEW u \in Seq(Items), output' = out \o u, InText(E, out, u, p + 1)
  PROVE  ExpandInv'
<1>1. /\ tokenPos' = -1 /\ e' = x + 1 /\ x' = x + 1 /\ sp' = sp /\ buff' = buff
      /\ call = "inside" /\ call' = "inside"
  BY DEF BackToText, TurnKeeps, Inside
<1>2. FilesInv /\ TurnInv /\ out \in Seq(Items)
  BY DEF ExpandInv, FilesInv, PassInv
<1>3. sp' = 0 /\ e' \in Nat
  <2>1. sp = 0 /\ x + 1 \in Nat
    BY <1>2, HoldsNothing
  <2> QED
    BY <1>1, <2>1, Zenon
<1>4. Unsent' = <<>>
  <2>1. Unsent' = Raw(SubSeq(buff', e' + 1, e' + sp'))
    BY <1>1, Zenon DEF Unsent
  <2>2. PICK a \in Nat, s \in {buff'} : a = e'
    BY <1>3
  <2>3. Raw(SubSeq(s, a + 1, a + 0)) = <<>>
    BY <2>2, NothingWaits
  <2> QED
    BY <1>3, <2>1, <2>2, <2>3, Zenon
<1>5. Text' = text /\ handler' = handler /\ Passed' = p + 1
  BY <1>1, <1>2, PassedNext
<1>6. out \o u \in Seq(Items) /\ InText(E, out \o u, <<>>, p + 1)
  <2>1. p + 1 \in 0 .. Len(text)
    BY OneMore, Zenon
  <2> QED
    BY <1>2, <2>1, Flushed
<1>7. InText(E, output', Unsent', Passed')
  BY <1>4, <1>5, <1>6, Zenon
<1>8. SentSoFar(E)'
  BY <1>1, <1>7, Zenon DEF SentSoFar
<1>9. PassInv'
  BY <1>1, <1>6, TurnPasses
<1> QED
  BY <1>1, <1>8, <1>9, TurnSends

\* Inside a token, in a call that does not go on with an answer.
LEMMA TokenFacts ==
  ASSUME ExpandInv, Inside, tokenPos >= 0, ~chunkResume, NEW E, SentSoFar(E)
  PROVE  /\ InToken(handler, Text, E, output, token, Passed)
         /\ Len(token) = tokenPos /\ tplArg = 0 /\ (handler = "vfs template" => encoding = "PLAIN")
         /\ output \in Seq(Items) /\ tokenPos \in Int
<1>1. FilesInv /\ TurnInv /\ PassInv
  BY DEF ExpandInv, FilesInv
<1>2. tokenPos \in Int /\ Len(token) = tokenPos /\ tokenPos # -1
  BY <1>1, HoldsNothing, Zenon
<1>4. InToken(handler, Text, E, output, token, Passed)
  BY <1>2, Zenon DEF SentSoFar
<1> QED
  BY <1>1, <1>2, <1>4, Zenon DEF PassInv

LEMMA EscapedSends == ASSUME ExpandInv, Escaped, AllSent PROVE ExpandInv'
<1>1. /\ Inside /\ tokenPos = 0 /\ IsPercent(Sign) /\ BackToText /\ TurnKeeps /\ call' = call
      /\ UNCHANGED <<token, encoding, tplArg, chunkResume>> /\ output' = output \o Raw(<<"%">>)
  BY SentWhole, Zenon DEF Escaped, IsPercent
<1>2. FilesInv /\ FilesInv' /\ TurnInv
  BY EscapedStep DEF ExpandInv, FilesInv
<1>3. ~chunkResume /\ chunkResume \in BOOLEAN
  BY <1>1, <1>2, Resumed DEF TurnInv
<1>4. PICK text \in Seq(STRING), E \in {Expansion(handler, Text)} : \E q \in 0 .. Len(text) - 1 :
           /\ text = Text /\ E = Expansion(handler, text) /\ StandsFor(handler, text, E) /\ SentSoFar(E)
           /\ q = Passed /\ Sign = text[q + 1]
  BY <1>1, SentFacts
<1>5. PICK p \in 0 .. Len(text) - 1 :
           /\ text = Text /\ E = Expansion(handler, text) /\ StandsFor(handler, text, E) /\ SentSoFar(E)
           /\ p = Passed /\ Sign = text[p + 1]
  BY <1>4
<1>6. /\ InToken(handler, text, E, output, token, p) /\ Len(token) = 0 /\ tplArg = 0
      /\ (handler = "vfs template" => encoding = "PLAIN") /\ output \in Seq(Items) /\ tokenPos >= 0
  <2>1. tokenPos >= 0
    BY <1>1
  <2> QED
    BY <1>1, <1>3, <1>5, <2>1, TokenFacts, Zenon
<1>7. TakesNames(handler) \/ Drops(handler)
  BY <1>1, TemplateKinds DEF Inside
<1>8. PICK out \in Seq(Items), u \in {Raw(<<"%">>)} : out = output
  BY <1>6
<1>9. IsPercent(text[p + 1]) /\ InToken(handler, text, E, out, token, p)
  BY <1>1, <1>5, <1>6, <1>8
<1>10. Raw(<<"%">>) \in Seq(Items) /\ InText(E, out, Raw(<<"%">>), p + 1)
  BY <1>5, <1>6, <1>7, <1>9, EscapeEnds
<1>11. u \in Seq(Items) /\ InText(E, out, u, p + 1) /\ output' = out \o u
  BY <1>1, <1>8, <1>10, Zenon
<1> QED
  BY <1>1, <1>2, <1>3, <1>5, <1>6, <1>8, <1>11, BackSends

LEMMA GarbageSends == ASSUME ExpandInv, Garbage, AllSent PROVE ExpandInv'
<1>1. /\ Inside /\ tokenPos >= 0 /\ ~IsPercent(Sign) /\ BackToText /\ TurnKeeps /\ call' = call
      /\ handler = "espfs template" /\ (~Room \/ Sign \notin NameSigns)
      /\ UNCHANGED <<token, encoding, tplArg, chunkResume>>
      /\ output' = output \o Raw(<<"%">> \o token \o <<Sign>>)
  BY SentWhole, Zenon DEF Garbage, IsPercent
<1>2. FilesInv /\ FilesInv' /\ TurnInv
  BY GarbageStep DEF ExpandInv, FilesInv
<1>3. ~chunkResume /\ chunkResume \in BOOLEAN
  <2>1. chunkResume => Sign = "%"
    BY <1>2, Resumed
  <2> QED
    BY <1>1, <1>2, <2>1 DEF IsPercent, TurnInv
<1>4. PICK text \in Seq(STRING), E \in {Expansion(handler, Text)} : \E q \in 0 .. Len(text) - 1 :
           /\ text = Text /\ E = Expansion(handler, text) /\ StandsFor(handler, text, E) /\ SentSoFar(E)
           /\ q = Passed /\ Sign = text[q + 1]
  BY <1>1, SentFacts
<1>5. PICK p \in 0 .. Len(text) - 1 :
           /\ text = Text /\ E = Expansion(handler, text) /\ StandsFor(handler, text, E) /\ SentSoFar(E)
           /\ p = Passed /\ Sign = text[p + 1]
  BY <1>4
<1>6. /\ InToken(handler, text, E, output, token, p) /\ Len(token) = tokenPos /\ tplArg = 0
      /\ (handler = "vfs template" => encoding = "PLAIN") /\ output \in Seq(Items)
  BY <1>1, <1>3, <1>5, TokenFacts
<1>7. TakesNames(handler)
  BY <1>1, NotDrops
<1>8. PICK out \in Seq(Items), u \in {Raw(<<"%">> \o token \o <<text[p + 1]>>)} :
          out = output
  BY <1>6
<1>9. ~IsPercent(text[p + 1]) /\ InToken(handler, text, E, out, token, p)
      /\ (~ (Len(token) < TokenSize - 1) \/ text[p + 1] \notin NameSigns)
  <2>1. ~ (tokenPos < TokenSize - 1) \/ text[p + 1] \notin NameSigns
    BY <1>1, <1>5, Zenon DEF Room
  <2> QED
    BY <1>1, <1>5, <1>6, <1>8, <2>1, Zenon
<1>10. u \in Seq(Items) /\ InText(E, out, u, p + 1)
  BY <1>5, <1>7, <1>8, <1>9, GarbageEnds
<1>11. output' = out \o u
  BY <1>1, <1>5, <1>8, Zenon
<1> QED
  BY <1>1, <1>2, <1>3, <1>5, <1>6, <1>8, <1>10, <1>11, BackSends

LEMMA CollectSends == ASSUME ExpandInv, Collect PROVE ExpandInv'
<1>1. /\ Inside /\ tokenPos >= 0 /\ ~IsPercent(Sign) /\ TurnKeeps /\ call' = "inside" /\ x' = x + 1
      /\ handler = "espfs template" => Room /\ Sign \in NameSigns
      /\ \/ Room /\ tokenPos' = tokenPos + 1 /\ token' = Append(token, Sign)
         \/ ~Room /\ UNCHANGED <<tokenPos, token>>
      /\ UNCHANGED <<encoding, tplArg, chunkResume, output>>
  BY DEF Collect, Inside, IsPercent, sendVars
<1>2. FilesInv /\ FilesInv' /\ TurnInv
  BY CollectStep DEF ExpandInv, FilesInv
<1>3. ~chunkResume
  <2>1. chunkResume => Sign = "%"
    BY <1>2, Resumed
  <2> QED
    BY <1>1, <1>2, <2>1 DEF IsPercent, TurnInv
<1>4. PICK text \in Seq(STRING), E \in {Expansion(handler, Text)} : \E q \in 0 .. Len(text) - 1 :
           /\ text = Text /\ E = Expansion(handler, text) /\ StandsFor(handler, text, E) /\ SentSoFar(E)
           /\ q = Passed /\ Sign = text[q + 1]
  BY <1>1, SentFacts
<1>5. PICK p \in 0 .. Len(text) - 1 :
           /\ text = Text /\ E = Expansion(handler, text) /\ StandsFor(handler, text, E) /\ SentSoFar(E)
           /\ p = Passed /\ Sign = text[p + 1]
  BY <1>4
<1>6. /\ InToken(handler, text, E, output, token, p) /\ Len(token) = tokenPos /\ tplArg = 0
      /\ (handler = "vfs template" => encoding = "PLAIN") /\ output \in Seq(Items) /\ tokenPos \in Int
  BY <1>1, <1>3, <1>5, TokenFacts
<1>7. TakesNames(handler) => text[p + 1] \in NameSigns /\ Len(token) < TokenSize - 1
  BY <1>1, <1>5, <1>6, Zenon DEF TakesNames, Room
<1>8. ~IsPercent(text[p + 1])
  BY <1>1, <1>5
<1>9. InToken(handler, text, E, output,
              IF Len(token) < TokenSize - 1 THEN Append(token, text[p + 1]) ELSE token, p + 1)
  BY <1>5, <1>6, <1>7, <1>8, TokenGoesOn
<1>10. token' = IF Len(token) < TokenSize - 1 THEN Append(token, text[p + 1]) ELSE token
  BY <1>1, <1>5, <1>6, Zenon DEF Room
<1>11. Text' = text /\ handler' = handler /\ Passed' = p + 1
  BY <1>1, <1>2, <1>5, PassedNext
<1>12. InToken(handler', Text', E, output', token', Passed')
  BY <1>1, <1>9, <1>10, <1>11, Zenon
<1>13. tokenPos' # -1 /\ ~chunkResume'
  BY <1>1, <1>2, <1>3, HoldsNothing, Zenon
<1>14. SentSoFar(E)'
  BY <1>12, <1>13, Zenon DEF SentSoFar
<1>15. PassInv'
  BY <1>1, <1>3, <1>6, TurnPasses
<1> QED
  BY <1>1, <1>2, <1>5, <1>14, <1>15, TurnSends

\* The name of a token, as it was taken up or as it is.
LEMMA NamedIs ==
  /\ chunkResume \/ Drops(handler) => Named.name = token /\ Named.enc = encoding
  /\ ~chunkResume /\ ~Drops(handler) => Named.name = NameIn(token) /\ Named.enc = EncodingIn(token)
<1>1. CASE chunkResume \/ Drops(handler)
  <2>1. Named = [enc |-> encoding, name |-> token]
    BY <1>1, Zenon DEF Named, Drops
  <2> QED
    BY <1>1, <2>1
<1>2. CASE ~ (chunkResume \/ Drops(handler)) /\ Prefixed(token)
  <2>1. Named = [enc |-> "HTML", name |-> Tail(token)]
    BY <1>2, Zenon DEF Named, Drops, Prefixed
  <2>2. Named.name = Tail(token) /\ Named.enc = "HTML"
    BY <2>1
  <2> QED
    BY <1>2, <2>2, Zenon DEF NameIn, EncodingIn
<1>3. CASE ~ (chunkResume \/ Drops(handler)) /\ ~Prefixed(token)
  <2>1. Named = [enc |-> "PLAIN", name |-> token]
    BY <1>3, Zenon DEF Named, Drops, Prefixed
  <2>2. Named.name = token /\ Named.enc = "PLAIN"
    BY <2>1
  <2> QED
    BY <1>3, <2>2, Zenon DEF NameIn, EncodingIn
<1> QED
  BY <1>1, <1>2, <1>3

LEMMA InName == ASSUME TurnInv, tokenPos > 0 PROVE tokenPos >= 0
<1>1. tokenPos \in -1 .. TokenSize - 1
  BY DEF TurnInv
<1> QED
  BY <1>1, TemplatesAssumption

\* What cgiEspFsTemplate still has to send for the token it is at.
LEMMA AnswerHere ==
  ASSUME ExpandInv, Inside, tokenPos > 0, IsPercent(Sign), TakesNames(handler), ~Drops(handler),
         NEW text \in Seq(STRING), text = Text, NEW E, StandsFor(handler, text, E), SentSoFar(E),
         NEW p \in 0 .. Len(text) - 1, p = Passed, IsPercent(text[p + 1]),
         NEW out \in Seq(Items), out = output
  PROVE  /\ Parts(Named.name) \in Nat /\ tplArg < Parts(Named.name)
         /\ InText(E, out, Answer(Named.name, Named.enc, tplArg), p + 1)
<1>1. FilesInv /\ TurnInv
  BY DEF ExpandInv, FilesInv
<1>2. CASE chunkResume
  <2>1. InAnswer(E, output, token, encoding, tplArg, Passed)
    BY <1>2, Zenon DEF SentSoFar
  <2>2. Named.name = token /\ Named.enc = encoding
    BY <1>2, NamedIs, Zenon
  <2> QED
    BY <2>1, <2>2, Zenon DEF InAnswer
<1>3. CASE ~chunkResume
  <2>1. tokenPos >= 0
    BY <1>1, InName
  <2>2. InToken(handler, text, E, out, token, p) /\ Len(token) = tokenPos /\ tplArg = 0
    BY <1>3, <2>1, TokenFacts, Zenon
  <2>3. Len(token) > 0
    BY <2>2, Zenon
  <2>4. /\ Parts(NameIn(token)) \in Nat \ {0}
        /\ InText(E, out, Answer(NameIn(token), EncodingIn(token), 0), p + 1)
    BY <2>2, <2>3, TokenAnswered, Zenon
  <2>5. Named.name = NameIn(token) /\ Named.enc = EncodingIn(token)
    BY <1>3, NamedIs, Zenon
  <2>6. PICK n : n = Parts(NameIn(token)) /\ n \in Nat /\ 0 < n
    <3>1. PICK n : n = Parts(NameIn(token))
      OBVIOUS
    <3>2. n \in Nat \ {0}
      BY <2>4, <3>1
    <3>3. n \in Nat /\ 0 < n
      BY <3>2
    <3> QED
      BY <3>1, <3>3
  <2> QED
    BY <2>2, <2>4, <2>5, <2>6, Zenon
<1> QED
  BY <1>2, <1>3

LEMMA TokenSends == ASSUME ExpandInv, Token, AllSent PROVE ExpandInv'
<1>1. /\ Inside /\ tokenPos > 0 /\ IsPercent(Sign) /\ TurnKeeps
      /\ token' = Named.name /\ encoding' = Named.enc
      /\ output' = output \o Substituted(Named.name, Named.enc, tplArg + 1)
      /\ \/ /\ handler = "espfs template" /\ tplArg + 1 < Parts(Named.name)
            /\ tplArg' = tplArg + 1 /\ chunkResume' = TRUE /\ call' = "more"
            /\ UNCHANGED <<tokenPos, x>>
         \/ /\ ~ (handler = "espfs template" /\ tplArg + 1 < Parts(Named.name))
            /\ tplArg' = 0 /\ chunkResume' = FALSE /\ BackToText /\ call' = call
  BY SentWhole, Zenon DEF Token, Return, IsPercent
<1>2. FilesInv /\ FilesInv' /\ TurnInv
  BY TokenStep DEF ExpandInv, FilesInv
<1>3. PICK text \in Seq(STRING), E \in {Expansion(handler, Text)} : \E q \in 0 .. Len(text) - 1 :
           /\ text = Text /\ E = Expansion(handler, text) /\ StandsFor(handler, text, E) /\ SentSoFar(E)
           /\ q = Passed /\ Sign = text[q + 1]
  BY <1>1, SentFacts
<1>4. PICK p \in 0 .. Len(text) - 1 :
           /\ text = Text /\ E = Expansion(handler, text) /\ StandsFor(handler, text, E) /\ SentSoFar(E)
           /\ p = Passed /\ Sign = text[p + 1]
  BY <1>3
<1>5. IsPercent(text[p + 1])
  BY <1>1, <1>4
<1>6. PICK out \in Seq(Items) : out = output
  BY DEF ExpandInv, PassInv
<1>7. PICK name \in Seq(STRING), enc \in {"PLAIN", "HTML"}, done \in Nat :
         name = Named.name /\ enc = Named.enc /\ done = tplArg
  <2>1. tplArg \in Nat
    BY <1>2 DEF TurnInv
  <2> QED
    BY <1>1, <1>2, <2>1, NameOfToken
<1>8. p + 1 \in 0 .. Len(text)
  BY <1>4, OneMore, Zenon
<1>9. tokenPos >= 0
  BY <1>1, <1>2, InName
<1>10. CASE handler = "espfs template"
  <2>1. TakesNames(handler) /\ ~Drops(handler)
    BY <1>10, NotDrops
  <2>2. /\ Parts(name) \in Nat /\ done < Parts(name)
        /\ InText(E, out, Answer(name, enc, done), p + 1)
    BY <1>1, <1>4, <1>5, <1>6, <1>7, <2>1, AnswerHere, Zenon
  <2>3. PICK u : u = Substituted(name, enc, done + 1)
    OBVIOUS
  <2>4. /\ out \o u \in Seq(Items)
        /\ InText(E, out \o u, Answer(name, enc, done + 1), p + 1)
    BY <1>4, <1>6, <1>7, <1>8, <2>2, <2>3, AnswerGoesOn
  <2>5. output' = out \o u
    BY <1>1, <1>6, <1>7, <2>3, Zenon
  <2>6. handler # "vfs template"
    BY <1>10
  <2>7. CASE done + 1 < Parts(name)
    <3>1. tplArg' = done + 1 /\ chunkResume' = TRUE /\ call' = "more" /\ UNCHANGED <<tokenPos, x>>
          /\ token' = name /\ encoding' = enc
      BY <1>1, <1>7, <1>10, <2>7, Zenon
    <3>2. Passed' = p /\ tokenPos' # -1
      <4>1. Passed' = p
        BY <1>1, <1>2, <1>4, <3>1, PassedNext
      <4>2. tokenPos # -1
        BY <1>2, <1>9, HoldsNothing, Zenon
      <4> QED
        BY <3>1, <4>1, <4>2
    <3>3. InAnswer(E, output', token', encoding', tplArg', Passed')
      BY <2>2, <2>4, <2>5, <2>7, <3>1, <3>2, Zenon DEF InAnswer
    <3>4. SentSoFar(E)'
      BY <3>1, <3>2, <3>3, Zenon DEF SentSoFar
    <3>5. PassInv'
      BY <1>1, <2>4, <2>5, <2>6, <3>1, TurnPasses
    <3> QED
      BY <1>1, <1>2, <1>4, <3>1, <3>4, <3>5, TurnSends
  <2>8. CASE ~ (done + 1 < Parts(name))
    <3>1. tplArg' = 0 /\ chunkResume' = FALSE /\ BackToText /\ call' = call
      BY <1>1, <1>7, <1>10, <2>8, Zenon
    <3>2. InText(E, out, u, p + 1) /\ u \in Seq(Items)
      <4>1. Answer(name, enc, done) = u \o Answer(name, enc, done + 1)
        BY <1>7, <2>2, <2>3, AnswerStep
      <4>2. Answer(name, enc, done + 1) = <<>>
        <5>1. done + 1 = Parts(name)
          BY <1>7, <2>2, <2>8
        <5>2. Answer(name, enc, Parts(name)) = <<>>
          BY <1>7, <2>2, AnswerEnds
        <5> QED
          BY <5>1, <5>2, Zenon
      <4>3. u \in Seq(Items)
        <5>1. done + 1 \in Nat
          BY <1>7
        <5> QED
          BY <1>7, <2>3, <5>1, PartTyped
      <4>4. u \o <<>> = u
        BY <4>3, NothingUnsent
      <4> QED
        BY <2>2, <4>1, <4>2, <4>3, <4>4, Zenon
    <3> QED
      BY <1>1, <1>2, <1>4, <1>6, <1>9, <2>5, <2>6, <3>1, <3>2, BackSends
  <2> QED
    BY <2>7, <2>8
<1>11. CASE handler # "espfs template"
  <2>1. handler = "vfs template" /\ Drops(handler)
    BY <1>1, <1>11, Zenon DEF Inside, IsTemplate, Drops
  <2>2. ~chunkResume
    BY <1>2, <1>11, Resumed
  <2>3. tplArg' = 0 /\ chunkResume' = FALSE /\ BackToText /\ call' = call
    BY <1>1, <1>11, Zenon
  <2>4. Named.name = token /\ Named.enc = encoding
    BY <2>1, NamedIs
  <2>5. /\ InToken(handler, text, E, out, token, p) /\ Len(token) > 0 /\ tplArg = 0
        /\ encoding = "PLAIN"
    BY <1>1, <1>4, <1>6, <1>9, <2>1, <2>2, TokenFacts, Zenon
  <2>6. InText(E, out, Substituted(token, "PLAIN", 1), p + 1)
    BY <1>4, <1>5, <1>6, <2>1, <2>5, TokenAnswered, Zenon
  <2>7. PICK u : u = Substituted(token, "PLAIN", 1)
    OBVIOUS
  <2>8. u \in Seq(Items) /\ InText(E, out, u, p + 1) /\ output' = out \o u /\ encoding' = "PLAIN"
    <3>1. tplArg + 1 = 1
      BY <2>5
    <3>2. u \in Seq(Items)
      BY <1>7, <2>4, <2>7, PartTyped
    <3> QED
      BY <1>1, <1>6, <2>4, <2>5, <2>6, <2>7, <3>1, <3>2, Zenon
  <2> QED
    BY <1>1, <1>2, <1>4, <1>6, <1>9, <2>3, <2>8, BackSends
<1> QED
  BY <1>10, <1>11

\* At the end of its text a template has sent all that the text stands for.
LEMMA TextEnds ==
  ASSUME NEW by, NEW text \in Seq(STRING), NEW E, StandsFor(by, text, E), NEW out \in Seq(Items),
         NEW p, p = Len(text)
  PROVE  /\ InText(E, out, <<>>, p) => out = E[1]
         /\ \A name : InToken(by, text, E, out, name, p) => out = E[1]
<1>1. out \o <<>> = out /\ <<>> \o <<>> = <<>>
  <2>1. <<>> \in Seq(Items)
    OBVIOUS
  <2> QED
    BY <2>1, NothingUnsent
<1>2. E[p + 1] = <<>>
  BY Zenon DEF StandsFor
<1>3. InText(E, out, <<>>, p) => out = E[1]
  BY <1>1, <1>2, Zenon DEF InText
<1>4. ASSUME NEW name, InToken(by, text, E, out, name, p) PROVE out = E[1]
  <2>1. PICK i \in 1 .. p : IsPercent(text[i]) /\ NoEnding(by, text, i, p) /\ UpTo(E, out, i)
    BY <1>4 DEF InToken
  <2>2. Ending(by, text, i) = {}
    <3>1. ASSUME NEW m \in Ending(by, text, i) PROVE FALSE
      <4>1. m > p
        BY <2>1 DEF NoEnding
      <4>2. m \in i + 1 .. Len(text)
        BY DEF Ending
      <4>3. Len(text) \in Nat /\ i \in Nat
        BY <2>1
      <4> QED
        BY <4>1, <4>2, <4>3
    <3> QED
      BY <3>1
  <2>3. i \in 1 .. Len(text)
    BY <2>1
  <2>4. E[i] = <<>>
    BY <2>1, <2>2, <2>3, Zenon DEF StandsFor
  <2> QED
    BY <1>1, <2>1, <2>4, Zenon DEF UpTo
<1> QED
  BY <1>3, <1>4

\* The end of a call.
LEMMA ReturnsSends == ASSUME ExpandInv, TemplateReturns, AllSent PROVE ExpandInv'
<1>1. /\ IsTemplate /\ call = "inside" /\ x = Len(buff) /\ SendText
      /\ UNCHANGED <<handler, disk, opened, pos, tokenPos, token, encoding, tplArg, chunkResume, buff, x>>
      /\ \/ ReadEnds(Len(buff)) /\ call' = "done"
         \/ call' = "more"
  BY DEF TemplateReturns, Return, fixed, tokenVars, bufferVars
<1>2. FilesInv /\ FilesInv' /\ TurnInv /\ PassInv
  BY TemplateEndStep DEF ExpandInv, FilesInv
<1>3. ~chunkResume
  <2>1. x \in 0 .. Len(buff) /\ buff \in Seq(STRING)
    BY <1>2 DEF TurnInv
  <2>2. ~ (x < Len(buff))
    BY <1>1, <2>1
  <2> QED
    BY <1>2, <2>2, Resumed
<1>4. Text \in Seq(STRING) /\ Passed \in 0 .. Len(Text) /\ opened # <<>>
  <2>1. \E p \in DOMAIN disk : opened = <<p>>
    BY <1>1, <1>2, TemplateOpen
  <2>2. Text \in Seq(STRING) /\ Passed \in 0 .. Len(Text)
    BY <1>1, <1>2, <2>1, PassedIs
  <2> QED
    BY <2>1, <2>2
<1>5. PICK text \in Seq(STRING), E \in {Expansion(handler, Text)} :
         text = Text /\ E = Expansion(handler, text)
  BY <1>4
<1>6. PICK p \in 0 .. Len(text) : p = Passed
  BY <1>4, <1>5
<1>7. StandsFor(handler, text, E) /\ SentSoFar(E)
  <2>1. StandsFor(handler, text, E)
    BY <1>1, <1>5, TemplateKinds, ExpansionStands
  <2>2. call # "done"
    BY <1>1
  <2> QED
    BY <1>1, <1>4, <1>5, <2>1, <2>2, Zenon DEF ExpandInv, SentInv
<1>8. PICK u \in Seq(Items), out \in Seq(Items) :
         u = Unsent /\ out = output /\ output' = out \o u /\ (sp = 0 => u = <<>>)
  <2>1. output \in Seq(Items)
    BY <1>2 DEF PassInv
  <2> QED
    BY <1>1, <2>1, UnsentIs
<1>9. out \o u \in Seq(Items) /\ Text' = text /\ Passed' = p /\ Unsent' = <<>>
  <2>1. out \o u \in Seq(Items)
    BY <1>8, Sending
  <2>2. Text' = text
    BY <1>1, <1>5 DEF Text
  <2>3. Passed' = p
    BY <1>1, <1>6, Zenon DEF Passed
  <2>4. call' # "inside"
    BY <1>1
  <2> QED
    BY <2>1, <2>2, <2>3, <2>4, Zenon DEF Unsent
<1>10. tokenPos = -1 => InText(E, output', <<>>, p)
  <2>1. tokenPos = -1 => InText(E, out, u, p)
    BY <1>6, <1>7, <1>8, Zenon DEF SentSoFar
  <2>2. InText(E, out, u, p) => InText(E, out \o u, <<>>, p)
    BY <1>6, <1>7, <1>8, Flushed
  <2> QED
    BY <1>8, <2>1, <2>2, Zenon
<1>11. tokenPos # -1 => InToken(handler, text, E, output', token, p)
  <2>1. ASSUME tokenPos # -1 PROVE u = <<>>
    <3>1. tokenPos >= 0
      <4>1. tokenPos \in -1 .. TokenSize - 1
        BY <1>2 DEF TurnInv
      <4> QED
        BY <2>1, <4>1, TemplatesAssumption
    <3> QED
      BY <1>2, <1>8, <3>1, HoldsNothing
  <2>2. out \o <<>> = out
    BY <1>8, NothingUnsent
  <2>3. tokenPos # -1 => output' = out
    BY <1>8, <2>1, <2>2, Zenon
  <2>4. tokenPos # -1 => InToken(handler, text, E, out, token, p)
    BY <1>3, <1>5, <1>6, <1>7, <1>8, Zenon DEF SentSoFar
  <2> QED
    BY <2>3, <2>4, Zenon
<1>12. PassInv'
  <2>1. output' \in Seq(Items) /\ call' # "inside" /\ ~chunkResume' /\ x' = Len(buff') /\ tplArg' = 0
        /\ (handler' = "vfs template" => encoding' = "PLAIN")
    <3>1. output' \in Seq(Items)
      BY <1>8, <1>9
    <3>2. tplArg = 0 /\ (handler = "vfs template" => encoding = "PLAIN")
      BY <1>2, <1>3 DEF PassInv
    <3>3. call' # "inside"
      BY <1>1
    <3> QED
      BY <1>1, <1>3, <3>1, <3>2, <3>3, Zenon
  <2> QED
    BY <2>1, Zenon DEF PassInv
<1>13. CASE call' = "more"
  <2>1. SentSoFar(E)'
    BY <1>1, <1>3, <1>9, <1>10, <1>11, Zenon DEF SentSoFar
  <2>2. call' # "done" /\ E = Expansion(handler, Text)'
    BY <1>1, <1>5, <1>9, <1>13
  <2>3. SentInv'
    BY <2>1, <2>2, Zenon DEF SentInv
  <2> QED
    BY <1>2, <1>12, <2>3 DEF ExpandInv
<1>14. CASE call' # "more"
  <2>1. ReadEnds(Len(buff)) /\ call' = "done"
    BY <1>1, <1>14
  <2>2. pos = Len(text)
    <3>1. Len(buff) = ChunkLen \/ pos = Len(Text)
      BY <1>1, <1>2 DEF PassInv
    <3> QED
      BY <1>5, <2>1, <3>1 DEF ReadEnds
  <2>3. p = Len(text)
    <3>1. pos \in Nat /\ Len(buff) \in Nat
      BY <1>1, <1>2, TemplateOpen
    <3>2. Passed = pos - Len(buff) + Len(buff)
      BY <1>1, Zenon DEF Passed
    <3> QED
      BY <1>6, <2>2, <3>1, <3>2
  <2>4. output' = E[1]
    <3>1. PICK o \in Seq(Items) : o = output'
      BY <1>8, <1>9
    <3>2. /\ InText(E, o, <<>>, p) => o = E[1]
          /\ \A name : InToken(handler, text, E, o, name, p) => o = E[1]
      BY <1>5, <1>7, <2>3, <3>1, TextEnds
    <3> QED
      BY <1>10, <1>11, <3>1, <3>2, Zenon
  <2>5. E = Expansion(handler, Text)'
    BY <1>1, <1>5, <1>9
  <2>6. SentInv'
    BY <2>1, <2>4, <2>5, Zenon DEF SentInv
  <2> QED
    BY <1>2, <1>12, <2>6 DEF ExpandInv
<1> QED
  BY <1>13, <1>14

\* The connection is closed between two calls.
LEMMA ClosedSends == ASSUME ExpandInv, TemplateClosed PROVE ExpandInv'
<1>1. /\ IsTemplate /\ call = "more" /\ call' = "closed"
      /\ UNCHANGED <<handler, disk, opened, pos, tokenPos, token, encoding, tplArg, chunkResume, buff, x,
                     output>>
  BY DEF TemplateClosed, Return, fixed, tokenVars, bufferVars, sendVars
<1>2. FilesInv' /\ Text' = Text /\ Passed' = Passed
  BY <1>1, TemplateEndStep DEF ExpandInv, Text, Passed
<1>3. Unsent = <<>> /\ Unsent' = <<>>
  BY <1>1 DEF Unsent
<1>4. PassInv'
  BY <1>1, <1>2 DEF ExpandInv, PassInv, IsTemplate
<1>5. PICK E : E = Expansion(handler, Text)
  OBVIOUS
<1>6. E = Expansion(handler, Text)' /\ call # "done" /\ call' # "done"
  BY <1>1, <1>2, <1>5
<1>7. opened # <<>> => SentSoFar(E)
  BY <1>1, <1>5, <1>6, Zenon DEF ExpandInv, SentInv
<1>8. SentSoFar(E) => SentSoFar(E)'
  BY <1>1, <1>2, <1>3, Zenon DEF SentSoFar
<1>9. SentInv'
  BY <1>1, <1>6, <1>7, <1>8, Zenon DEF SentInv
<1> QED
  BY <1>2, <1>4, <1>9 DEF ExpandInv

\* A further call goes on where the last one left.
LEMMA NextSends == ASSUME ExpandInv, TemplateNext PROVE ExpandInv'
<1>1. /\ IsTemplate /\ call = "more" /\ call' = "inside"
      /\ UNCHANGED <<handler, disk, opened, tokenPos, token, encoding, tplArg, chunkResume, output>>
      /\ \/ chunkResume /\ UNCHANGED <<pos, buff, x>>
         \/ /\ ~chunkResume /\ e' = 0 /\ sp' = 0 /\ x' = 0
            /\ \E len : /\ len = Min({ChunkLen, Len(Text) - pos}) /\ pos' = pos + len
                        /\ buff' = SubSeq(Text, pos + 1, pos + len)
  BY DEF TemplateNext, Return, fixed, tokenVars, bufferVars
<1>2. FilesInv /\ FilesInv' /\ TurnInv /\ PassInv /\ Text' = Text
  BY <1>1, TemplateNextStep DEF ExpandInv, FilesInv, Text
<1>3. /\ Text \in Seq(STRING) /\ Len(Text) \in Nat /\ opened # <<>>
      /\ pos \in Nat /\ Len(buff) \in Nat /\ pos <= Len(Text)
  <2>1. \E p \in DOMAIN disk : opened = <<p>>
    BY <1>1, <1>2, TemplateOpen
  <2>2. /\ Text \in Seq(STRING) /\ Len(Text) \in Nat
        /\ pos \in Nat /\ Len(buff) \in Nat /\ pos <= Len(Text)
    BY <1>1, <1>2, TemplateOpen
  <2> QED
    BY <2>1, <2>2
<1>4. PICK E : E = Expansion(handler, Text)
  OBVIOUS
<1>5. E = Expansion(handler, Text)' /\ call # "done" /\ call' # "done"
  BY <1>1, <1>2, <1>4
<1>6. SentSoFar(E)
  BY <1>1, <1>3, <1>4, <1>5, Zenon DEF ExpandInv, SentInv
<1>7. CASE chunkResume
  <2>1. tokenPos # -1 /\ Passed' = Passed
    BY <1>1, <1>2, <1>7, Resumed DEF Passed
  <2>2. SentSoFar(E)'
    BY <1>1, <1>2, <1>6, <1>7, <2>1, Zenon DEF SentSoFar
  <2>3. PassInv'
    BY <1>1, <1>2, <1>7 DEF PassInv, IsTemplate
  <2>4. SentInv'
    BY <1>5, <2>2, Zenon DEF SentInv
  <2> QED
    BY <1>2, <2>3, <2>4 DEF ExpandInv
<1>8. CASE ~chunkResume
  <2>1. PICK len : /\ len = Min({ChunkLen, Len(Text) - pos}) /\ pos' = pos + len
                   /\ buff' = SubSeq(Text, pos + 1, pos + len)
    BY <1>1, <1>8
  <2>2. e' = 0 /\ sp' = 0 /\ x' = 0 /\ x = Len(buff)
    BY <1>1, <1>2, <1>8 DEF PassInv
  <2>3. len \in Nat /\ (len = ChunkLen \/ pos + len = Len(Text)) /\ pos + len <= Len(Text)
    <3>1. Len(Text) - pos \in Nat /\ ChunkLen \in Nat
      BY <1>3, FilesAssumption
    <3>2. len \in Nat /\ len <= Len(Text) - pos /\ (len = ChunkLen \/ len = Len(Text) - pos)
      BY <2>1, <3>1, MinOfTwo
    <3> QED
      BY <1>3, <3>2
  <2>4. Len(buff') = len
    <3>1. PICK text \in Seq(STRING), a \in Nat, k \in Nat :
             text = Text /\ a = pos /\ k = len /\ a + k <= Len(text)
      BY <1>3, <2>3
    <3>2. SliceIs(STRING, SubSeq(text, a + 1, a + k), text, a, k)
      BY <3>1, SliceTyped
    <3> QED
      BY <2>1, <3>1, <3>2, Zenon DEF SliceIs
  <2>5. Passed' = Passed
    <3>1. Passed = pos - Len(buff) + Len(buff)
      BY <2>2, Zenon DEF Passed
    <3>2. Passed = pos
      BY <1>3, <3>1
    <3>3. Passed' = (pos + len) - len + 0
      BY <2>1, <2>2, <2>4, Zenon DEF Passed
    <3> QED
      BY <1>3, <2>3, <3>2, <3>3
  <2>6. Unsent = <<>> /\ Unsent' = <<>>
    <3>1. Unsent = <<>>
      BY <1>1 DEF Unsent
    <3>2. Unsent' = Raw(SubSeq(buff', 0 + 1, 0 + 0))
      BY <1>1, <2>2, Zenon DEF Unsent
    <3>3. PICK s : s = buff'
      OBVIOUS
    <3>4. Raw(SubSeq(s, 0 + 1, 0 + 0)) = <<>>
      BY NothingWaits
    <3> QED
      BY <3>1, <3>2, <3>3, <3>4, Zenon
  <2>7. SentSoFar(E)'
    BY <1>1, <1>2, <1>6, <1>8, <2>5, <2>6, Zenon DEF SentSoFar
  <2>8. PassInv'
    <3>1. Len(buff') = ChunkLen \/ pos' = Len(Text')
      BY <1>2, <2>1, <2>3, <2>4
    <3>2. call' # "more"
      BY <1>1
    <3> QED
      BY <1>1, <1>2, <3>1, <3>2, Zenon DEF PassInv
  <2>9. SentInv'
    BY <1>5, <2>7, Zenon DEF SentInv
  <2> QED
    BY <1>2, <2>8, <2>9 DEF ExpandInv
<1> QED
  BY <1>7, <1>8

\* Nothing was sent yet for a template that has just been opened.
LEMMA FirstSends == ASSUME ExpandInv, TemplateFirst \/ VfsTemplateFirst PROVE ExpandInv'
<1>1. /\ call = "first" /\ IsTemplate /\ UNCHANGED tplVars /\ UNCHANGED handler
      /\ opened' = opened \/ (call' = "more" /\ pos' = 0)
      /\ call' \in {"more", "notfound", "crashed"}
  BY DEF TemplateFirst, VfsTemplateFirst, IsTemplate, NotFound, Crash, Respond, Return, fixed, fileVars
<1>2. FilesInv /\ FilesInv' /\ opened = <<>>
  BY <1>1, TemplateFirstStep DEF ExpandInv, FilesInv, OpenInv
<1>3. /\ buff' = <<>> /\ x' = 0 /\ tokenPos' = -1 /\ encoding' = "PLAIN" /\ tplArg' = 0 /\ ~chunkResume'
      /\ output' = <<>>
  BY <1>1, <1>2 DEF FilesInv, PieceInv, tplVars, tokenVars, bufferVars, sendVars
<1>4. Len(buff') = 0 /\ output' \in Seq(Items)
  BY <1>3
<1>5. PassInv'
  <2>1. call' # "inside"
    BY <1>1
  <2> QED
    BY <1>3, <1>4, <2>1, Zenon DEF PassInv
<1>6. CASE opened' = <<>>
  BY <1>2, <1>5, <1>6 DEF ExpandInv, SentInv
<1>7. CASE opened' # <<>>
  <2>1. call' = "more" /\ pos' = 0 /\ call' # "done" /\ call' # "inside"
    BY <1>1, <1>2, <1>7
  <2>2. IsTemplate' /\ Text' \in Seq(STRING)
    <3>1. IsTemplate'
      BY <1>1 DEF IsTemplate
    <3>2. PICK p \in DOMAIN disk' : opened' = <<p>>
      BY <1>2, <1>7 DEF FilesInv, OpenInv
    <3>3. disk'[p] \in [gzip : BOOLEAN, text : Seq(STRING)]
      BY <1>2, <3>1, <3>2 DEF FilesInv, CaseInv, Files, IsTemplate
    <3>4. Text' = disk'[p].text
      BY <3>2 DEF Text
    <3> QED
      BY <3>1, <3>3, <3>4
  <2>3. PICK text \in Seq(STRING), by \in {handler'}, E \in {Expansion(handler, Text)'} :
             text = Text' /\ by = handler' /\ E = Expansion(by, text)
    BY <2>2
  <2>4. StandsFor(by, text, E)
    <3>1. TakesNames(by) \/ Drops(by)
      BY <2>2, <2>3, Zenon DEF IsTemplate, TakesNames, Drops
    <3> QED
      BY <2>3, <3>1, ExpansionStands
  <2>5. Passed' = 0 /\ Unsent' = <<>>
    <3>1. Passed' = 0
      <4>1. Passed' = 0 - 0 + 0
        BY <1>3, <1>4, <2>1, Zenon DEF Passed
      <4> QED
        BY <4>1
    <3> QED
      BY <2>1, <3>1 DEF Unsent
  <2>6. InText(E, <<>>, <<>>, 0)
    <3>1. PICK r \in Seq(Items) : r = E[1]
      <4>1. 1 \in 1 .. Len(text) + 1
        OBVIOUS
      <4> QED
        BY <2>4, <4>1, Zenon DEF StandsFor
    <3>2. <<>> \o r = r
      BY <3>1, NothingUnsent
    <3>3. 0 + 1 = 1
      OBVIOUS
    <3> QED
      BY <3>1, <3>2, <3>3, Zenon DEF InText
  <2>7. SentSoFar(E)'
    BY <1>3, <2>5, <2>6, Zenon DEF SentSoFar
  <2>8. E = Expansion(handler, Text)'
    BY <2>3
  <2>9. SentInv'
    BY <2>1, <2>7, <2>8, Zenon DEF SentInv
  <2> QED
    BY <1>2, <1>5, <2>9 DEF ExpandInv
<1> QED
  BY <1>6, <1>7

\* The other handlers send no template.
LEMMA OthersSend ==
  ASSUME ExpandInv, FilesInv', FilesNext, UNCHANGED tplVars
  PROVE  ExpandInv'
<1>1. handler' = handler /\ ~IsTemplate /\ ~IsTemplate'
  BY ZenonT(40) DEF FilesNext, StaticFirst, VfsFirst, ServeNext, ServeClosed, UploadFirst, UploadNext, UploadClosed,
         NotFound, Crash, Respond, Refuse, Process, fixed, IsTemplate
<1>2. UNCHANGED <<output, chunkResume, tplArg, encoding>>
  BY DEF tplVars, tokenVars, sendVars
<1>3. PassInv'
  BY <1>1, <1>2 DEF ExpandInv, PassInv
<1>4. SentInv'
  BY <1>1 DEF SentInv
<1> QED
  BY <1>3, <1>4 DEF ExpandInv

LEMMA NothingSends == ASSUME ExpandInv, UNCHANGED tplAll PROVE ExpandInv'
<1>1. UNCHANGED <<handler, disk, call, opened, pos, tokenPos, token, encoding, tplArg, chunkResume,
                  buff, x, sp, e, output>>
  BY DEF tplAll, fixed, fileVars, tplVars, tokenVars, bufferVars, sendVars
<1>2. Text' = Text /\ Passed' = Passed /\ Unsent' = Unsent /\ IsTemplate' = IsTemplate
  BY <1>1 DEF Text, Passed, Unsent, IsTemplate
<1>3. FilesInv'
  BY FilesKept DEF ExpandInv
<1>4. PassInv'
  BY <1>1, <1>2 DEF ExpandInv, PassInv
<1>5. PICK E : E = Expansion(handler, Text) /\ E = Expansion(handler, Text)'
  BY <1>1, <1>2
<1>6. SentSoFar(E) => SentSoFar(E)'
  BY <1>1, <1>2, Zenon DEF SentSoFar
<1>7. SentInv'
  BY <1>1, <1>2, <1>5, <1>6, Zenon DEF ExpandInv, SentInv
<1> QED
  BY <1>3, <1>4, <1>7 DEF ExpandInv

LEMMA ExpandStep ==
  ASSUME ExpandInv, [TplNext]_tplAll, AllSent PROVE ExpandInv'
<1>1. FilesInv'
  BY FilesStep DEF ExpandInv
<1>2. CASE FilesNext /\ UNCHANGED tplVars
  BY <1>1, <1>2, OthersSend
<1>3. CASE ~(FilesNext /\ UNCHANGED tplVars) /\ TplNext
  BY <1>3, FirstSends, NextSends, OrdinarySends, EscapedSends, TokenSends, GarbageSends, CollectSends,
     ReturnsSends, ClosedSends DEF TplNext
<1>4. CASE UNCHANGED tplAll
  BY <1>4, NothingSends
<1> QED
  BY <1>2, <1>3, <1>4

LEMMA ExpandStart == ASSUME TplInit(Cases) \/ TplInit({NoCase}) PROVE ExpandInv
<1>1. /\ call = "first" /\ opened = <<>> /\ encoding = "PLAIN" /\ tplArg = 0 /\ chunkResume = FALSE
      /\ output = <<>>
  BY DEF TplInit
<1>2. FilesInv
  BY FilesStart
<1>3. PassInv
  <2>1. output \in Seq(Items) /\ call # "more" /\ call # "inside" /\ ~chunkResume
    BY <1>1
  <2> QED
    BY <1>1, <2>1, Zenon DEF PassInv
<1>4. SentInv
  BY <1>1 DEF SentInv
<1> QED
  BY <1>2, <1>3, <1>4 DEF ExpandInv

LEMMA Begins ==
  ASSUME NEW S, NEW a \in Seq(S), NEW u \in Seq(S)
  PROVE  IsPrefix(a, a \o u)
<1>1. PICK b \in Seq(S) : b = a \o u
  BY ConcatProperties
<1>2. Len(b) = Len(a) + Len(u) /\ \A i \in 1 .. Len(a) : b[i] = a[i]
  BY <1>1, Behind
<1>3. Len(a) \in Nat /\ Len(u) \in Nat
  OBVIOUS
<1>4. PICK x1 : x1 = SubSeq(a, 1, Len(a))
  OBVIOUS
<1>5. PICK x2 : x2 = SubSeq(b, 1, Len(a))
  OBVIOUS
<1>6. x1 \in Seq(S) /\ Len(x1) = Len(a) /\ \A i \in 1 .. Len(a) : x1[i] = a[i]
  BY <1>3, <1>4, SubSeqProperties
<1>7. x2 \in Seq(S) /\ Len(x2) = Len(a) /\ \A i \in 1 .. Len(a) : x2[i] = b[i]
  BY <1>1, <1>2, <1>3, <1>5, SubSeqProperties
<1>8. x1 = x2
  <2>1. Len(x1) = Len(x2) /\ \A i \in 1 .. Len(x1) : x1[i] = x2[i]
    BY <1>2, <1>6, <1>7
  <2> QED
    BY <1>6, <1>7, <2>1, SameSeq
<1>9. Len(a) <= Len(b)
  BY <1>2, <1>3
<1> QED
  BY <1>1, <1>4, <1>5, <1>8, <1>9 DEF IsPrefix

\* What was sent is a beginning of it all.
LEMMA SentBegins ==
  ASSUME NEW S, NEW a \in Seq(S), NEW u \in Seq(S), NEW all, a \o u = all
  PROVE  IsPrefix(a, all)
  BY Begins

LEMMA SentIsExpansion ==
  ASSUME ExpandInv, IsTemplate, opened # <<>>
  PROVE  /\ IsPrefix(output, Expansion(handler, Text)[1])
         /\ call = "done" => output = Expansion(handler, Text)[1]
<1>1. FilesInv /\ PassInv /\ SentInv /\ TurnInv
  BY DEF ExpandInv, FilesInv
<1>2. /\ Passed \in 0 .. Len(Text) /\ Text \in Seq(STRING)
      /\ x < Len(buff) => Passed \in 0 .. Len(Text) - 1
  BY <1>1, PassedIs
<1>3. PICK text \in Seq(STRING), E \in {Expansion(handler, Text)} :
         text = Text /\ E = Expansion(handler, text)
  BY <1>2
<1>4. PICK p \in 0 .. Len(text) : p = Passed
  BY <1>2, <1>3
<1>5. StandsFor(handler, text, E)
  BY <1>3, TemplateKinds, ExpansionStands
<1>6. PICK out \in Seq(Items) : out = output
  BY <1>1 DEF PassInv
<1>7. IF call = "done" THEN out = E[1] ELSE SentSoFar(E)
  BY <1>1, <1>3, <1>6, Zenon DEF SentInv
<1>8. CASE call = "done"
  <2>1. out = E[1] /\ out \o <<>> = out /\ <<>> \in Seq(Items)
    BY <1>6, <1>7, <1>8, NothingUnsent
  <2>2. IsPrefix(out, E[1])
    BY <1>6, <2>1, SentBegins, Zenon
  <2> QED
    BY <1>3, <1>6, <2>1, <2>2, Zenon
<1>9. CASE call # "done"
  <2>1. \E u \in Seq(Items) : out \o u = E[1]
    <3>1. CASE tokenPos = -1
      <4>1. InText(E, out, Unsent, p)
        BY <1>4, <1>6, <1>7, <1>9, <3>1, Zenon DEF SentSoFar
      <4>2. Unsent \in Seq(Items)
        <5>1. CASE call = "inside"
          BY <5>1, UnsentIs
        <5>2. CASE call # "inside"
          <6>1. <<>> \in Seq(Items)
            OBVIOUS
          <6> QED
            BY <5>2, <6>1, Zenon DEF Unsent
        <5> QED
          BY <5>1, <5>2
      <4>3. p + 1 \in 1 .. Len(text) + 1
        BY <1>4
      <4>4. PICK a \in Seq(Items), r \in Seq(Items) : a = Unsent /\ r = E[p + 1]
        BY <1>5, <4>2, <4>3, Zenon DEF StandsFor
      <4>5. a \o r \in Seq(Items)
        BY <4>4, ConcatProperties
      <4> QED
        BY <4>1, <4>4, <4>5, Zenon DEF InText
    <3>2. CASE tokenPos # -1 /\ ~chunkResume
      <4>1. InToken(handler, text, E, out, token, p)
        BY <1>3, <1>4, <1>6, <1>7, <1>9, <3>2, Zenon DEF SentSoFar
      <4>2. PICK i \in 1 .. p : UpTo(E, out, i)
        BY <4>1 DEF InToken
      <4>3. i \in 1 .. Len(text) + 1
        BY <1>4, <4>2
      <4>4. E[i] \in Seq(Items)
        BY <1>5, <4>3, Zenon DEF StandsFor
      <4> QED
        BY <4>2, <4>4, Zenon DEF UpTo
    <3>3. CASE chunkResume
      <4>1. InAnswer(E, out, token, encoding, tplArg, p)
        BY <1>4, <1>6, <1>7, <1>9, <3>3, Zenon DEF SentSoFar
      <4>2. Answer(token, encoding, tplArg) \in Seq(Items)
        <5>1. token \in Seq(STRING) /\ encoding \in {"PLAIN", "HTML"} /\ tplArg \in Nat
          BY <1>1 DEF TurnInv
        <5>2. PICK n \in Nat : n = Parts(token) /\ tplArg < n
          BY <4>1 DEF InAnswer
        <5>3. tplArg \in 0 .. Parts(token)
          BY <5>1, <5>2
        <5> QED
          BY <5>1, <5>2, <5>3, AnswerTyped
      <4>3. p \in 0 .. Len(text) - 1
        BY <1>1, <1>2, <1>3, <1>4, <3>3, Resumed
      <4>4. (p + 1) + 1 \in 1 .. Len(text) + 1
        BY <4>3
      <4>5. PICK a \in Seq(Items), r \in Seq(Items) :
               a = Answer(token, encoding, tplArg) /\ r = E[(p + 1) + 1]
        BY <1>5, <4>2, <4>4, Zenon DEF StandsFor
      <4>6. a \o r \in Seq(Items)
        BY <4>5, ConcatProperties
      <4> QED
        BY <4>1, <4>5, <4>6, Zenon DEF InAnswer, InText
    <3> QED
      BY <3>1, <3>2, <3>3, Resumed, <1>1, Zenon
  <2>2. PICK u \in Seq(Items) : out \o u = E[1]
    BY <2>1
  <2>3. IsPrefix(out, E[1])
    BY <1>6, <2>2, SentBegins, Zenon
  <2> QED
    BY <1>3, <1>6, <1>9, <2>3, Zenon
<1> QED
  BY <1>8, <1>9

\* Until something is lost, what was sent is as the invariant of the templates says;
\* from then on it is the beginning that it was.
BeginsInv == IsTemplate /\ opened # <<>> => IsPrefix(output, Expansion(handler, Text)[1])
LossInv == FilesInv /\ RoomInv /\ (dropped = {} => ExpandInv) /\ (dropped # {} => BeginsInv)

LEMMA LossStep == ASSUME LossInv, [TplNext]_tplAll PROVE LossInv'
<1>1. FilesInv' /\ RoomInv' /\ LossStays
  BY FilesStep, RoomStep DEF LossInv
<1>2. CASE dropped' = {}
  <2>1. ExpandInv /\ AllSent
    BY <1>1, <1>2 DEF LossInv, LossStays, AllSent
  <2> QED
    BY <1>1, <1>2, <2>1, ExpandStep DEF LossInv
<1>3. CASE dropped' # {}
  <2>1. BeginsInv
    BY SentIsExpansion DEF LossInv, BeginsInv
  <2>2. BeginsInv'
    <3>1. CASE UNCHANGED <<handler, disk, opened, output>>
      BY <2>1, <3>1 DEF BeginsInv, IsTemplate, Text
    <3>2. CASE ~IsTemplate'
      BY <3>2 DEF BeginsInv
    <3> QED
      BY <1>1, <1>3, <3>1, <3>2 DEF LossStays
  <2> QED
    BY <1>1, <1>3, <2>2 DEF LossInv
<1> QED
  BY <1>2, <1>3

\* The invariant of the templates is inductive: what cgiEspFsTemplate and
\* cgiEspVfsTemplate have sent, and still have to send where their parser stands, is
\* what the text stands for, and a call in which the callback has no more than
\* AnswerRoom has room for it all (httpd-espfs.c:404-540, httpd.c:292-312).
THEOREM ExpansionInductive == Spec => []LossInv
<1>1. Init => LossInv
  BY ExpandStart, RoomStart DEF Init, LossInv, ExpandInv, TplInit
<1>2. LossInv /\ [Next]_vars => LossInv'
  <2> SUFFICES ASSUME LossInv, [Next]_vars PROVE LossInv'
    OBVIOUS
  <2>1. [TplNext]_tplAll
    BY DEF Next, vars
  <2> QED
    BY <2>1, LossStep
<1> QED
  BY <1>1, <1>2, PTL DEF Spec

\* What is sent of a template is the expansion of its whole text, however the file is
\* cut into pieces and however often the callback asks to be called again
\* (httpd-espfs.c:404-540, esp32_httpd_vfs.c:229-395); what is lost for want of room
\* is lost in a call whose callback had more than AnswerRoom for it.
THEOREM TemplatesExpanded == Spec => []TemplateIsExpansion
<1>1. LossInv => TemplateIsExpansion
  BY SentIsExpansion DEF LossInv, BeginsInv, RoomInv, TemplateIsExpansion
<1> QED
  BY <1>1, ExpansionInductive, PTL

-----------------------------------------------------------------------------
(* The list of the sockets *)

\* The fields of a socket.
SockFields == {"st", "status", "fin", "op", "masked", "len7", "len", "mask", "maskCtr", "frameCont",
               "closedHere"}
IsSock(s) == s = [f \in SockFields |-> s[f]] /\ s.mask = [i \in 1..4 |-> s.mask[i]]

SockStates == {"none", "open", "refused", "ending", "closed", "crashed"}

SockInv ==
  /\ sock = [c \in Socks |-> sock[c]]
  /\ \A c \in Socks : /\ IsSock(sock[c]) /\ sock[c].st \in SockStates
                      /\ sock[c].status \in ST_FLAGS .. ST_PAYLOAD

\* Only a socket that is open is read from, and it is in the list.
ListInv ==
  /\ llStart \in Seq(Socks) /\ ListIsOpen
  /\ cur \in Socks \cup {NoSock} /\ (cur # NoSock => sock[cur].st = "open")

WsInv == SockInv /\ ListInv

LEMMA Removing ==
  ASSUME NEW S, NEW s \in Seq(S), NEW k \in 1 .. Len(s)
  PROVE  /\ RemoveAt(s, k) \in Seq(S) /\ Len(RemoveAt(s, k)) = Len(s) - 1
         /\ \A i \in 1 .. Len(s) - 1 : RemoveAt(s, k)[i] = IF i < k THEN s[i] ELSE s[i + 1]
<1>1. PICK n \in Nat : n = Len(s)
  OBVIOUS
<1>2. PICK t : t = SubSeq(s, 1, k - 1)
  OBVIOUS
<1>3. PICK u : u = SubSeq(s, k + 1, n)
  OBVIOUS
<1>4. t \in Seq(S) /\ Len(t) = k - 1 /\ \A i \in 1 .. k - 1 : t[i] = s[i]
  BY <1>1, <1>2, SubSeqProperties
<1>5. u \in Seq(S) /\ Len(u) = n - k /\ \A i \in 1 .. n - k : u[i] = s[k + i]
  BY <1>1, <1>3, SubSeqProperties
<1>6. /\ t \o u \in Seq(S) /\ Len(t \o u) = n - 1
      /\ \A i \in 1 .. n - 1 : (t \o u)[i] = IF i <= k - 1 THEN t[i] ELSE u[i - (k - 1)]
  BY <1>1, <1>4, <1>5, ConcatProperties
<1>7. ASSUME NEW i \in 1 .. n - 1 PROVE (t \o u)[i] = IF i < k THEN s[i] ELSE s[i + 1]
  <2>1. CASE i < k
    <3>1. i <= k - 1 /\ i \in 1 .. k - 1
      BY <2>1
    <3> QED
      BY <1>4, <1>6, <2>1, <3>1
  <2>2. CASE ~(i < k)
    <3>1. ~(i <= k - 1) /\ i - (k - 1) \in 1 .. n - k /\ k + (i - (k - 1)) = i + 1
      BY <1>1, <2>2
    <3> QED
      BY <1>5, <1>6, <2>2, <3>1
  <2> QED
    BY <2>1, <2>2
<1>8. RemoveAt(s, k) = t \o u
  BY <1>1, <1>2, <1>3 DEF RemoveAt
<1> QED
  BY <1>1, <1>6, <1>7, <1>8

LEMMA Unlinking ==
  ASSUME NEW c \in Socks, llStart \in Seq(Socks), IsInjective(llStart), c \in ToSet(llStart)
  PROVE  /\ Unlinked(c) \in Seq(Socks) /\ IsInjective(Unlinked(c))
         /\ ToSet(Unlinked(c)) = ToSet(llStart) \ {c}
<1> DEFINE links == {i \in DOMAIN llStart : llStart[i] = c}
<1>1. PICK n \in Nat : n = Len(llStart) /\ DOMAIN llStart = 1 .. n
  OBVIOUS
<1>2. links # {} /\ links \in SUBSET Nat
  BY <1>1 DEF ToSet
<1>3. PICK k \in 1 .. n : k = Min(links) /\ llStart[k] = c
  BY <1>1, <1>2, MinOfNats
<1>4. Unlinked(c) = RemoveAt(llStart, k)
  BY <1>2, <1>3 DEF Unlinked
<1> HIDE DEF links
<1>5. PICK s : s = RemoveAt(llStart, k)
  OBVIOUS
<1>6. /\ s \in Seq(Socks) /\ Len(s) = n - 1
      /\ \A i \in 1 .. n - 1 : s[i] = IF i < k THEN llStart[i] ELSE llStart[i + 1]
  BY <1>1, <1>3, <1>5, Removing
<1>7. DOMAIN s = 1 .. n - 1
  BY <1>1, <1>6
<1>8. \A i, j \in 1 .. n : llStart[i] = llStart[j] => i = j
  BY <1>1 DEF IsInjective
<1>9. IsInjective(s)
  <2>1. ASSUME NEW i \in 1 .. n - 1, NEW j \in 1 .. n - 1, s[i] = s[j] PROVE i = j
    BY <1>3, <1>6, <1>8, <2>1, SMTT(30)
  <2> QED
    BY <1>7, <2>1 DEF IsInjective
<1>10. ToSet(s) = ToSet(llStart) \ {c}
  <2>1. ASSUME NEW i \in 1 .. n - 1 PROVE s[i] \in ToSet(llStart) /\ s[i] # c
    <3>1. PICK j \in 1 .. n : s[i] = llStart[j] /\ j # k
      <4>1. CASE i < k
        <5>1. i \in 1 .. n /\ i # k /\ s[i] = llStart[i]
          BY <1>6, <4>1
        <5> QED
          BY <5>1
      <4>2. CASE ~(i < k)
        <5>1. i + 1 \in 1 .. n /\ i + 1 # k /\ s[i] = llStart[i + 1]
          BY <1>6, <4>2
        <5> QED
          BY <5>1
      <4> QED
        BY <4>1, <4>2
    <3> QED
      BY <1>1, <1>3, <1>8, <3>1 DEF ToSet
  <2>2. ASSUME NEW i \in 1 .. n, llStart[i] # c PROVE \E j \in 1 .. n - 1 : s[j] = llStart[i]
    <3>1. CASE i < k
      BY <1>3, <1>6, <3>1
    <3>2. CASE i > k
      <4>1. i - 1 \in 1 .. n - 1 /\ s[i - 1] = llStart[i]
        BY <1>3, <1>6, <3>2
      <4> QED
        BY <4>1
    <3> QED
      BY <1>3, <2>2, <3>1, <3>2
  <2>3. ASSUME NEW d \in ToSet(llStart) \ {c} PROVE d \in ToSet(s)
    <3>1. PICK i \in 1 .. n : llStart[i] = d /\ d # c
      BY <1>1 DEF ToSet
    <3>2. PICK j \in 1 .. n - 1 : s[j] = d
      BY <2>2, <3>1
    <3> QED
      BY <1>7, <3>2 DEF ToSet
  <2>4. ASSUME NEW d \in ToSet(s) PROVE d \in ToSet(llStart) \ {c}
    BY <1>7, <2>1, <2>4 DEF ToSet
  <2> QED
    BY <2>3, <2>4
<1> QED
  BY <1>4, <1>5, <1>6, <1>9, <1>10

\* A socket behind one that has just been opened.
LEMMA Linking ==
  ASSUME NEW c \in Socks, llStart \in Seq(Socks), IsInjective(llStart), c \notin ToSet(llStart)
  PROVE  /\ Append(llStart, c) \in Seq(Socks) /\ IsInjective(Append(llStart, c))
         /\ ToSet(Append(llStart, c)) = ToSet(llStart) \cup {c}
<1> DEFINE n == Len(llStart)
           s == Append(llStart, c)
<1>1. n \in Nat /\ DOMAIN llStart = 1 .. n
  OBVIOUS
<1>2. /\ s \in Seq(Socks) /\ Len(s) = n + 1 /\ s[n + 1] = c
      /\ \A i \in 1 .. n : s[i] = llStart[i]
  BY AppendProperties
<1> HIDE DEF n, s
<1>3. DOMAIN s = 1 .. n + 1
  BY <1>1, <1>2
<1>4. IsInjective(s)
  BY <1>1, <1>2, <1>3 DEF IsInjective, ToSet
<1>5. ToSet(s) = ToSet(llStart) \cup {c}
  <2>1. \A i \in 1 .. n + 1 : s[i] \in ToSet(llStart) \cup {c}
    BY <1>1, <1>2 DEF ToSet
  <2>2. \A d \in ToSet(llStart) \cup {c} : \E i \in 1 .. n + 1 : s[i] = d
    BY <1>1, <1>2 DEF ToSet
  <2> QED
    BY <1>3, <2>1, <2>2 DEF ToSet
<1> QED
  BY <1>2, <1>4, <1>5 DEF s

\* A field of a socket that is changed.
LEMMA FieldSet ==
  ASSUME NEW s, IsSock(s), NEW f \in SockFields \ {"mask"}, NEW v, NEW t, t = [s EXCEPT ![f] = v]
  PROVE  IsSock(t) /\ t[f] = v /\ \A g \in SockFields \ {f} : t[g] = s[g]
  BY DEF IsSock, SockFields

LEMMA FreshSock == IsSock(NewSock)
<1>1. <<{}, {}, {}, {}>> = [i \in 1..4 |-> {}]
  OBVIOUS
<1>2. NewSock.mask = [i \in 1..4 |-> NewSock.mask[i]]
  BY <1>1 DEF NewSock
<1>3. NewSock = [f \in SockFields |-> NewSock[f]]
  BY DEF NewSock, SockFields
<1> QED
  BY <1>2, <1>3 DEF IsSock

\* What a byte of the head makes of a socket: the kind of the frame...
LEMMA KindByte ==
  ASSUME NEW s, IsSock(s), NEW b, s.status = ST_FLAGS, NEW t, t = HeadByte(s, b)
  PROVE  /\ IsSock(t) /\ t.st = s.st /\ t.status = ST_LEN0 /\ t.maskCtr = 0 /\ ~t.frameCont
         /\ t.fin = b.fin /\ t.op = b.op /\ t.len = s.len
<1>1. t = [s EXCEPT !.maskCtr = 0, !.frameCont = FALSE, !.fin = b.fin, !.op = b.op,
                    !.status = ST_LEN0]
  BY DEF HeadByte, ST_FLAGS, ST_LEN0, ST_LEN1, ST_LEN8, ST_MASK1, ST_MASK4, ST_PAYLOAD
<1>2. t = [[[[[s EXCEPT !.maskCtr = 0] EXCEPT !.frameCont = FALSE] EXCEPT !.fin = b.fin]
           EXCEPT !.op = b.op] EXCEPT !.status = ST_LEN0]
  BY <1>1
<1> QED
  BY <1>2 DEF IsSock, SockFields

\* ...whether it is masked and its length in seven bits...
LEMMA Len0Byte ==
  ASSUME NEW s, IsSock(s), NEW b, s.status = ST_LEN0, NEW t, t = HeadByte(s, b)
  PROVE  /\ IsSock(t) /\ \A f \in SockFields \ {"masked", "len7", "len", "status"} : t[f] = s[f]
         /\ t.masked = b.masked /\ t.len7 = b.len7
         /\ t.len = IF b.len7 >= 126 THEN 0 ELSE b.len7
         /\ t.status = IF b.len7 >= 126 THEN ST_LEN1 ELSE BehindLength(b.masked)
<1> DEFINE n == IF b.len7 >= 126 THEN 0 ELSE b.len7
           next == IF b.len7 >= 126 THEN ST_LEN1 ELSE BehindLength(b.masked)
<1>1. t = [s EXCEPT !.masked = b.masked, !.len7 = b.len7, !.len = n, !.status = next]
  BY DEF HeadByte, ST_FLAGS, ST_LEN0, ST_LEN1, ST_LEN8, ST_MASK1, ST_MASK4, ST_PAYLOAD
<1>2. t = [[[[s EXCEPT !.masked = b.masked] EXCEPT !.len7 = b.len7] EXCEPT !.len = n]
           EXCEPT !.status = next]
  BY <1>1
<1> HIDE DEF n, next
<1>3. /\ IsSock(t) /\ \A f \in SockFields \ {"masked", "len7", "len", "status"} : t[f] = s[f]
      /\ t.masked = b.masked /\ t.len7 = b.len7 /\ t.len = n /\ t.status = next
  BY <1>2 DEF IsSock, SockFields
<1> QED
  BY <1>3 DEF n, next

\* ...or in the bytes behind it...
LEMMA LenByte ==
  ASSUME NEW s, IsSock(s), NEW b, s.status \in ST_LEN1 .. ST_LEN8, NEW t, t = HeadByte(s, b)
  PROVE  /\ IsSock(t) /\ \A f \in SockFields \ {"len", "status"} : t[f] = s[f]
         /\ t.len = 256 * s.len + b
         /\ t.status = IF s.status = IF s.len7 = 126 THEN ST_LEN2 ELSE ST_LEN8
                       THEN BehindLength(s.masked) ELSE s.status + 1
<1> DEFINE n == 256 * s.len + b
           next == IF s.status = IF s.len7 = 126 THEN ST_LEN2 ELSE ST_LEN8
                   THEN BehindLength(s.masked) ELSE s.status + 1
<1>1. t = [s EXCEPT !.len = 256 * @ + b,
                    !.status = IF @ = IF s.len7 = 126 THEN ST_LEN2 ELSE ST_LEN8
                               THEN BehindLength(s.masked) ELSE @ + 1]
  BY DEF HeadByte, ST_FLAGS, ST_LEN0, ST_LEN1, ST_LEN8, ST_MASK1, ST_MASK4, ST_PAYLOAD
<1>2. t = [[s EXCEPT !.len = n] EXCEPT !.status = next]
  BY <1>1 DEF IsSock, SockFields
<1> HIDE DEF n, next
<1>3. /\ IsSock(t) /\ \A f \in SockFields \ {"len", "status"} : t[f] = s[f]
      /\ t.len = n /\ t.status = next
  BY <1>2 DEF IsSock, SockFields
<1> QED
  BY <1>3 DEF n, next

\* ...and its mask.
LEMMA MaskingByte ==
  ASSUME NEW s, IsSock(s), NEW b, s.status \in ST_MASK1 .. ST_MASK4, NEW t, t = HeadByte(s, b)
  PROVE  /\ IsSock(t) /\ \A f \in SockFields \ {"mask", "status"} : t[f] = s[f]
         /\ t.status = s.status + 1
         /\ \A i \in 1 .. 4 : t.mask[i] = IF i = s.status - ST_MASK1 + 1 THEN b ELSE s.mask[i]
<1> USE DEF ST_FLAGS, ST_LEN0, ST_LEN1, ST_LEN8, ST_MASK1, ST_MASK4, ST_PAYLOAD
<1>1. t = [s EXCEPT !.mask[s.status - ST_MASK1 + 1] = b, !.status = @ + 1]
  BY DEF HeadByte
<1>2. t = [[s EXCEPT !.mask[s.status - ST_MASK1 + 1] = b] EXCEPT !.status = s.status + 1]
  BY <1>1
<1> QED
  BY <1>2, ZenonT(40) DEF IsSock, SockFields

LEMMA HeadShape ==
  ASSUME NEW s, IsSock(s), NEW b, s.status \in ST_FLAGS .. ST_PAYLOAD
  PROVE  /\ IsSock(HeadByte(s, b)) /\ HeadByte(s, b).st = s.st
         /\ HeadByte(s, b).status \in ST_FLAGS .. ST_PAYLOAD
<1> USE DEF ST_FLAGS, ST_LEN0, ST_LEN1, ST_LEN2, ST_LEN8, ST_MASK1, ST_MASK4, ST_PAYLOAD, SockFields
<1>1. CASE s.status = ST_FLAGS
  <2>1. PICK t : t = HeadByte(s, b)
    OBVIOUS
  <2>2. IsSock(t) /\ t.st = s.st /\ t.status = ST_LEN0
    <3> HIDE DEF ST_FLAGS, ST_LEN0, SockFields
    <3>1. IsSock(s) /\ s.status = ST_FLAGS
      BY <1>1
    <3> QED
      BY <3>1, <2>1, KindByte
  <2> QED
    BY <2>1, <2>2
<1>2. CASE s.status = ST_LEN0
  BY <1>2, Len0Byte DEF BehindLength
<1>3. CASE s.status \in ST_LEN1 .. ST_LEN8
  BY <1>3, LenByte DEF BehindLength
<1>4. CASE s.status \in ST_MASK1 .. ST_MASK4
  BY <1>4, MaskingByte
<1>5. CASE s.status = ST_PAYLOAD
  BY <1>5 DEF HeadByte
<1> QED
  BY <1>1, <1>2, <1>3, <1>4, <1>5

\* What the end of a turn with payload makes of it.
LEMMA AfterShape ==
  ASSUME NEW s, IsSock(s), NEW t, t = After(s)
  PROVE  /\ IsSock(t)
         /\ \A f \in SockFields \ {"maskCtr", "len", "status", "frameCont"} : t[f] = s[f]
         /\ t.maskCtr = (s.maskCtr + Sl) % 4 /\ t.len = s.len - Sl
         /\ t.status = IF s.len = Sl THEN ST_FLAGS ELSE s.status
         /\ s.len = Sl => (t.frameCont <=> s.frameCont)
         /\ s.len # Sl => t.frameCont
<1> DEFINE m == (s.maskCtr + Sl) % 4
           n == s.len - Sl
           next == IF s.len = Sl THEN ST_FLAGS ELSE s.status
           cont == IF s.len = Sl THEN s.frameCont ELSE TRUE
<1>1. t = [[[[s EXCEPT !.maskCtr = m] EXCEPT !.len = n] EXCEPT !.status = next]
           EXCEPT !.frameCont = cont]
  BY DEF After, IsSock, SockFields
<1> HIDE DEF m, n, next, cont
<1>2. /\ IsSock(t)
      /\ \A f \in SockFields \ {"maskCtr", "len", "status", "frameCont"} : t[f] = s[f]
      /\ t.maskCtr = m /\ t.len = n /\ t.status = next /\ t.frameCont = cont
  BY <1>1 DEF IsSock, SockFields
<1>3. /\ s.len = Sl => (t.frameCont <=> s.frameCont)
      /\ s.len # Sl => t.frameCont
  BY <1>2, Zenon DEF cont
<1> QED
  BY <1>2, <1>3 DEF m, n, next

LEMMA SockSet ==
  ASSUME SockInv, NEW c \in Socks, NEW v, IsSock(v), v.st \in SockStates,
         v.status \in ST_FLAGS .. ST_PAYLOAD, sock' = [sock EXCEPT ![c] = v]
  PROVE  SockInv' /\ sock'[c] = v /\ \A d \in Socks \ {c} : sock'[d] = sock[d]
  BY DEF SockInv

\* One socket comes into another state.
LEMMA SockTo ==
  ASSUME SockInv, NEW c \in Socks, NEW v \in SockStates, sock' = [sock EXCEPT ![c].st = v]
  PROVE  /\ SockInv' /\ sock'[c].st = v
         /\ \A f \in SockFields \ {"st"} : sock'[c][f] = sock[c][f]
         /\ \A d \in Socks \ {c} : sock'[d] = sock[d]
<1>1. PICK t : t = [sock[c] EXCEPT !.st = v]
  OBVIOUS
<1>2. sock' = [sock EXCEPT ![c] = t]
  BY <1>1
<1>3. IsSock(sock[c]) /\ sock[c].status \in ST_FLAGS .. ST_PAYLOAD
  BY DEF SockInv
<1>4. /\ IsSock(t) /\ t.st = v /\ t.status = sock[c].status
      /\ \A f \in SockFields \ {"st"} : t[f] = sock[c][f]
  BY <1>1, <1>3, FieldSet DEF SockFields
<1> QED
  BY <1>2, <1>3, <1>4, SockSet, ZenonT(40)

LEMMA ListKept ==
  ASSUME ListInv, llStart' = llStart, \A d \in Socks : sock'[d].st = "open" <=> sock[d].st = "open",
         cur' \in Socks \cup {NoSock}, cur' # NoSock => sock'[cur'].st = "open"
  PROVE  ListInv'
  BY DEF ListInv, ListIsOpen

\* A socket leaves the list.
LEMMA ListLeft ==
  ASSUME WsInv, NEW c \in Socks, sock[c].st = "open", llStart' = Unlinked(c), cur' = NoSock,
         sock'[c].st # "open", \A d \in Socks \ {c} : sock'[d] = sock[d]
  PROVE  ListInv'
<1>1. /\ llStart \in Seq(Socks) /\ IsInjective(llStart)
      /\ ToSet(llStart) = {d \in Socks : sock[d].st = "open"}
  BY DEF WsInv, ListInv, ListIsOpen
<1>2. /\ Unlinked(c) \in Seq(Socks) /\ IsInjective(Unlinked(c))
      /\ ToSet(Unlinked(c)) = ToSet(llStart) \ {c}
  BY <1>1, Unlinking
<1>3. {d \in Socks : sock'[d].st = "open"} = ToSet(llStart) \ {c}
  BY <1>1
<1> QED
  BY <1>2, <1>3 DEF ListInv, ListIsOpen

LEMMA CallStep ==
  ASSUME WsInv, NEW c \in Socks,
         Upgrade(c) \/ NoUpgrade(c) \/ Closed(c) \/ Sent(c) \/ Disconnect(c)
           \/ Receive(c) \/ ReceiveNull(c)
  PROVE  WsInv'
<1>1. SockInv /\ ListInv /\ IsSock(sock[c]) /\ sock[c].status \in ST_FLAGS .. ST_PAYLOAD
  BY DEF WsInv, SockInv
<1>2. CASE Upgrade(c)
  <2>1. /\ sock[c].st = "none" /\ cur' = NoSock /\ sock' = [sock EXCEPT ![c] = NewSock]
        /\ llStart' = Append(llStart, c)
    BY <1>2 DEF Upgrade
  <2>2. NewSock.st = "open" /\ NewSock.status \in ST_FLAGS .. ST_PAYLOAD
    BY DEF NewSock, ST_FLAGS, ST_PAYLOAD
  <2>3. SockInv' /\ sock'[c] = NewSock /\ \A d \in Socks \ {c} : sock'[d] = sock[d]
    BY <1>1, <2>1, <2>2, FreshSock, SockSet DEF SockStates
  <2>4. /\ llStart \in Seq(Socks) /\ IsInjective(llStart)
        /\ ToSet(llStart) = {d \in Socks : sock[d].st = "open"}
    BY <1>1 DEF ListInv, ListIsOpen
  <2>5. c \notin ToSet(llStart)
    BY <2>1, <2>4
  <2>6. /\ llStart' \in Seq(Socks) /\ IsInjective(llStart')
        /\ ToSet(llStart') = ToSet(llStart) \cup {c}
    BY <2>1, <2>4, <2>5, Linking
  <2>7. {d \in Socks : sock'[d].st = "open"} = ToSet(llStart) \cup {c}
    BY <2>2, <2>3, <2>4
  <2> QED
    BY <2>1, <2>3, <2>6, <2>7 DEF WsInv, ListInv, ListIsOpen
<1>3. CASE NoUpgrade(c) \/ Disconnect(c) \/ ReceiveNull(c)
  <2>1. PICK v \in {"refused", "closed", "crashed"} : sock' = [sock EXCEPT ![c].st = v]
    BY <1>3 DEF NoUpgrade, Disconnect, ReceiveNull
  <2>2. sock[c].st # "open" /\ cur' = NoSock /\ llStart' = llStart
    BY <1>3 DEF NoUpgrade, Disconnect, ReceiveNull
  <2>3. SockInv' /\ sock'[c].st = v /\ \A d \in Socks \ {c} : sock'[d] = sock[d]
    BY <1>1, <2>1, SockTo DEF SockStates
  <2> QED
    BY <1>1, <2>2, <2>3, ListKept DEF WsInv
<1>4. CASE Closed(c)
  <2>1. sock' = [sock EXCEPT ![c].st = "closed"] /\ cur' = NoSock
    BY <1>4 DEF Closed
  <2>2. SockInv' /\ sock'[c].st = "closed" /\ \A d \in Socks \ {c} : sock'[d] = sock[d]
    BY <1>1, <2>1, SockTo DEF SockStates
  <2>3. CASE sock[c].st = "open"
    BY <1>4, <2>1, <2>2, <2>3, ListLeft DEF Closed, WsInv
  <2>4. CASE sock[c].st # "open"
    BY <1>1, <1>4, <2>1, <2>2, <2>4, ListKept DEF Closed, WsInv
  <2> QED
    BY <2>3, <2>4
<1>5. CASE Sent(c)
  <2>1. cur' = NoSock /\ llStart' = llStart
    BY <1>5 DEF Sent
  <2>2. CASE sock' = sock
    BY <1>1, <2>1, <2>2, ListKept DEF WsInv, SockInv
  <2>3. CASE sock' = [sock EXCEPT ![c].closedHere = TRUE]
    <3>1. PICK t : t = [sock[c] EXCEPT !.closedHere = TRUE]
      OBVIOUS
    <3>2. IsSock(t) /\ t.st = sock[c].st /\ t.status = sock[c].status
      BY <1>1, <3>1, FieldSet DEF SockFields
    <3>3. SockInv' /\ sock'[c] = t /\ \A d \in Socks \ {c} : sock'[d] = sock[d]
      BY <1>1, <2>3, <3>1, <3>2, SockSet DEF SockInv
    <3> QED
      BY <1>1, <2>1, <3>2, <3>3, ListKept DEF WsInv
  <2> QED
    BY <1>5, <2>2, <2>3 DEF Sent
<1>6. CASE Receive(c)
  <2>1. sock' = sock /\ cur' = c /\ sock[c].st = "open" /\ llStart' = llStart
    BY <1>6 DEF Receive
  <2> QED
    BY <1>1, <2>1, ListKept DEF WsInv, SockInv
<1> QED
  BY <1>2, <1>3, <1>4, <1>5, <1>6

\* A turn of the loop over a piece.
LEMMA TurnSock ==
  ASSUME WsInv, Reading
  PROVE  /\ cur \in Socks /\ sock[cur].st = "open" /\ IsSock(sock[cur])
         /\ sock[cur].status \in ST_FLAGS .. ST_PAYLOAD
         /\ IsSock(Now) /\ Now.st = "open" /\ Now.status \in ST_FLAGS .. ST_PAYLOAD
<1>1. /\ cur \in Socks /\ sock[cur].st = "open" /\ IsSock(sock[cur])
      /\ sock[cur].status \in ST_FLAGS .. ST_PAYLOAD
  BY DEF WsInv, SockInv, ListInv, Reading
<1> QED
  BY <1>1, HeadShape DEF Now

LEMMA ConsumedStep ==
  ASSUME WsInv, Reading, NEW s, Consumed(s), IsSock(s), s.st = "open",
         s.status \in ST_FLAGS .. ST_PAYLOAD, UNCHANGED <<llStart, cur>>
  PROVE  WsInv' /\ sock'[cur] = After(s) /\ \A d \in Socks \ {cur} : sock'[d] = sock[d]
<1>1. cur \in Socks /\ sock[cur].st = "open" /\ SockInv /\ ListInv
  BY TurnSock DEF WsInv
<1>2. PICK t : t = After(s)
  OBVIOUS
<1>3. IsSock(t) /\ t.st = "open" /\ t.status \in ST_FLAGS .. ST_PAYLOAD
  <2>1. /\ IsSock(t) /\ \A f \in SockFields \ {"maskCtr", "len", "status", "frameCont"} : t[f] = s[f]
        /\ t.status = ST_FLAGS \/ t.status = s.status
    BY <1>2, AfterShape
  <2> QED
    BY <2>1 DEF SockFields, ST_FLAGS, ST_PAYLOAD
<1>4. sock' = [sock EXCEPT ![cur] = t]
  BY <1>2 DEF Consumed
<1>5. SockInv' /\ sock'[cur] = t /\ \A d \in Socks \ {cur} : sock'[d] = sock[d]
  BY <1>1, <1>3, <1>4, SockSet DEF SockStates
<1>6. \A d \in Socks : sock'[d].st = "open" <=> sock[d].st = "open"
  BY <1>1, <1>3, <1>5
<1>7. ListInv'
  BY <1>1, <1>3, <1>5, <1>6, ListKept
<1> QED
  BY <1>2, <1>5, <1>7 DEF WsInv

LEMMA HeaderStep ==
  ASSUME WsInv, Header
  PROVE  WsInv' /\ sock'[cur] = Now /\ \A d \in Socks \ {cur} : sock'[d] = sock[d]
<1>1. /\ cur \in Socks /\ sock[cur].st = "open" /\ SockInv /\ ListInv
      /\ IsSock(Now) /\ Now.st = "open" /\ Now.status \in ST_FLAGS .. ST_PAYLOAD
  BY TurnSock DEF WsInv, Header
<1>2. sock' = [sock EXCEPT ![cur] = Now] /\ llStart' = llStart /\ cur' = cur
  BY DEF Header, ReadKeeps
<1>3. SockInv' /\ sock'[cur] = Now /\ \A d \in Socks \ {cur} : sock'[d] = sock[d]
  BY <1>1, <1>2, SockSet DEF SockStates
<1>4. \A d \in Socks : sock'[d].st = "open" <=> sock[d].st = "open"
  BY <1>1, <1>3
<1>5. ListInv'
  BY <1>1, <1>2, <1>3, <1>4, ListKept
<1> QED
  BY <1>3, <1>5 DEF WsInv

LEMMA DoneStep ==
  ASSUME WsInv, Reading, NEW items, Done(items)
  PROVE  /\ WsInv' /\ cur' = NoSock /\ sock'[cur].st = "ending" /\ sock'[cur].status = ST_FLAGS
         /\ sock'[cur].len = 0 /\ sock'[cur].maskCtr = 0
         /\ \A d \in Socks \ {cur} : sock'[d] = sock[d]
<1>1. cur \in Socks /\ sock[cur].st = "open" /\ SockInv
  BY TurnSock DEF WsInv
<1>2. PICK t : t = [NewSock EXCEPT !.st = "ending"]
  OBVIOUS
<1>3. /\ IsSock(t) /\ t.st = "ending" /\ t.status = ST_FLAGS /\ t.len = 0 /\ t.maskCtr = 0
      /\ ST_FLAGS \in ST_FLAGS .. ST_PAYLOAD
  <2>1. NewSock.status = ST_FLAGS /\ NewSock.len = 0 /\ NewSock.maskCtr = 0
    BY DEF NewSock
  <2>2. ST_FLAGS \in ST_FLAGS .. ST_PAYLOAD
    BY DEF ST_FLAGS, ST_PAYLOAD
  <2>3. IsSock(t) /\ t.st = "ending" /\ \A f \in SockFields \ {"st"} : t[f] = NewSock[f]
    BY <1>2, FreshSock, FieldSet DEF SockFields
  <2> QED
    BY <2>1, <2>2, <2>3 DEF SockFields
<1>4. sock' = [sock EXCEPT ![cur] = t] /\ llStart' = Unlinked(cur) /\ cur' = NoSock
  BY <1>2 DEF Done
<1>5. SockInv' /\ sock'[cur] = t /\ \A d \in Socks \ {cur} : sock'[d] = sock[d]
  BY <1>1, <1>3, <1>4, SockSet DEF SockStates
<1>6. ListInv'
  BY <1>1, <1>3, <1>4, <1>5, ListLeft
<1> QED
  BY <1>3, <1>4, <1>5, <1>6 DEF WsInv

LEMMA PieceStep ==
  ASSUME WsInv, Ping \/ LongPing \/ Data \/ Unmasked1002 \/ CloseFrame \/ Ignored \/ PieceEnds
  PROVE  WsInv'
<1>1. CASE Ping \/ Ignored
  <2>1. Reading /\ Consumed(Now) /\ UNCHANGED <<llStart, cur>>
    BY <1>1 DEF Ping, Ignored, InPayload, ReadKeeps
  <2> QED
    BY <2>1, TurnSock, ConsumedStep
<1>2. CASE LongPing \/ Unmasked1002 \/ CloseFrame
  <2>1. Reading /\ \E items : Done(items)
    BY <1>2 DEF LongPing, Unmasked1002, CloseFrame, InPayload
  <2> QED
    BY <2>1, DoneStep
<1>3. CASE Data
  <2>1. Reading /\ UNCHANGED <<llStart, cur>>
    BY <1>3 DEF Data, InPayload, ReadKeeps
  <2>2. PICK s \in {Now, [Now EXCEPT !.closedHere = TRUE]} : Consumed(s)
    BY <1>3 DEF Data
  <2>3. IsSock(s) /\ s.st = "open" /\ s.status \in ST_FLAGS .. ST_PAYLOAD
    BY <2>1, <2>2, TurnSock, FieldSet DEF SockFields
  <2> QED
    BY <2>1, <2>2, <2>3, ConsumedStep
<1>4. CASE PieceEnds
  <2>1. UNCHANGED <<sock, llStart>> /\ cur' = NoSock
    BY <1>4 DEF PieceEnds
  <2> QED
    BY <2>1, ListKept DEF WsInv, SockInv
<1> QED
  BY <1>1, <1>2, <1>3, <1>4

LEMMA WsStart ==
  ASSUME NEW scripts, WsInit(scripts) PROVE WsInv
<1>1. /\ sock = [c \in Socks |-> [NewSock EXCEPT !.st = "none"]] /\ llStart = <<>> /\ cur = NoSock
  BY DEF WsInit
<1>2. PICK t : t = [NewSock EXCEPT !.st = "none"]
  OBVIOUS
<1>3. IsSock(t) /\ t.st = "none" /\ t.status \in ST_FLAGS .. ST_PAYLOAD
  <2>1. NewSock.status \in ST_FLAGS .. ST_PAYLOAD
    BY DEF NewSock, ST_FLAGS, ST_PAYLOAD
  <2> QED
    BY <1>2, <2>1, FreshSock, FieldSet DEF SockFields
<1>4. SockInv
  BY <1>1, <1>2, <1>3 DEF SockInv, SockStates
<1>5. ListInv
  <2>1. llStart \in Seq(Socks) /\ DOMAIN llStart = {}
    BY <1>1
  <2>2. \A c \in Socks : sock[c].st # "open"
    BY <1>1, <1>2, <1>3
  <2> QED
    BY <1>1, <2>1, <2>2 DEF ListInv, ListIsOpen, ToSet, IsInjective
<1> QED
  BY <1>4, <1>5 DEF WsInv

LEMMA WsStep == ASSUME WsInv, [WsNext]_wsVars PROVE WsInv'
<1>1. CASE UNCHANGED wsVars
  BY <1>1 DEF wsVars, WsInv, SockInv, ListInv, ListIsOpen
<1>2. CASE WsNext
  BY <1>2, CallStep, HeaderStep, PieceStep DEF WsNext
<1> QED
  BY <1>1, <1>2

\* The invariant of the sockets is inductive: the list of the live sockets is whole and
\* each socket is freed when it ends (cgiwebsocket.c:100-391).
THEOREM WsInductive == Spec => []WsInv
<1>1. Init => WsInv
  BY WsStart DEF Init
<1>2. WsInv /\ [Next]_vars => WsInv'
  <2> SUFFICES ASSUME WsInv, [Next]_vars PROVE WsInv'
    OBVIOUS
  <2>1. [WsNext]_wsVars
    BY DEF Next, vars
  <2> QED
    BY <2>1, WsStep
<1> QED
  BY <1>1, <1>2, PTL DEF Spec

\* What a handler holds from one call to the next is given back exactly once: the
\* open file and the callback's state, and the place in the list of sockets
\* (httpd-espfs.c:323-329, cgiwebsocket.c:155-168).
THEOREM AllGivenBack == Spec => []GivenBack
<1>1. FilesInv /\ WsInv => GivenBack
  BY FilesClosed DEF WsInv, ListInv, GivenBack
<1> QED
  BY <1>1, FilesInductive, WsInductive, PTL

-----------------------------------------------------------------------------
(* The frames that come *)

ExtLen(frame) == CASE frame.form = 7 -> 0 [] frame.form = 126 -> 2 [] frame.form = 127 -> 8
HeadLen(frame) == 2 + ExtLen(frame) + IF frame.masked THEN 4 ELSE 0

\* Bytes as they are modelled.
Octets == SUBSET ({"data", "mask"} \X Nat \X Nat)
WireBytes == [fin : BOOLEAN, op : DataOps \cup {"ping", "pong", "close", "unknown"}]
             \cup [masked : BOOLEAN, len7 : Nat] \cup Nat \cup Octets

LEMMA OctetsOf ==
  ASSUME NEW k \in Nat, NEW j \in Nat
  PROVE  /\ Plain(k, j) \in Octets /\ MaskByte(k, j) \in Octets
         /\ \A a \in Octets, b \in Octets : Xor(a, b) \in Octets
         /\ \A a \in Octets, b \in Octets : Xor(Xor(a, b), b) = a
<1>1. Plain(k, j) \in Octets /\ MaskByte(k, j) \in Octets
  BY DEF Plain, MaskByte, Octets
<1>2. ASSUME NEW a \in Octets, NEW b \in Octets
      PROVE  Xor(a, b) \in Octets /\ Xor(Xor(a, b), b) = a
  BY <1>2 DEF Xor, SymDiff, Octets
<1> QED
  BY <1>1, <1>2

\* What a frame is on the wire, byte by byte.
EncodedIs(frame, k, E) ==
  /\ E \in Seq(WireBytes) /\ HeadLen(frame) \in Nat /\ ExtLen(frame) \in {0, 2, 8}
  /\ Len(E) = HeadLen(frame) + frame.comes
  /\ E[1] = [fin |-> frame.fin, op |-> frame.op]
  /\ E[2] = [masked |-> frame.masked, len7 |-> IF frame.form = 7 THEN frame.len ELSE frame.form]
  /\ \A o \in 2 .. 1 + ExtLen(frame) :
       E[o + 1] = IF o = 1 + ExtLen(frame) THEN frame.len % 256
                  ELSE IF o = ExtLen(frame) THEN frame.len \div 256 ELSE 0
  /\ frame.masked => \A i \in 1 .. 4 : E[2 + ExtLen(frame) + i] = MaskByte(k, i)
  /\ \A j \in 1 .. frame.comes :
       E[HeadLen(frame) + j] = IF frame.masked
                               THEN Xor(Plain(k, j), MaskByte(k, 1 + ((j - 1) % 4)))
                               ELSE Plain(k, j)

LEMMA EncodedBytes ==
  ASSUME NEW frame \in FrameSet, NEW k \in Nat
  PROVE  EncodedIs(frame, k, Encoded(frame, k))
<1> DEFINE E == Encoded(frame, k)
<1>1. PICK A : A = <<[fin |-> frame.fin, op |-> frame.op],
                     [masked |-> frame.masked, len7 |-> IF frame.form = 7 THEN frame.len ELSE frame.form]>>
  OBVIOUS
<1>2. PICK B : B = CASE frame.form = 7   -> <<>>
                     [] frame.form = 126 -> <<frame.len \div 256, frame.len % 256>>
                     [] frame.form = 127 -> <<0, 0, 0, 0, 0, 0, frame.len \div 256, frame.len % 256>>
  OBVIOUS
<1>3. PICK C : C = IF frame.masked THEN [j \in 1..4 |-> MaskByte(k, j)] ELSE <<>>
  OBVIOUS
<1>4. PICK D : D = [j \in 1 .. frame.comes |->
                      IF frame.masked THEN Xor(Plain(k, j), MaskByte(k, 1 + ((j - 1) % 4))) ELSE Plain(k, j)]
  OBVIOUS
<1>5. E = ((A \o B) \o C) \o D
  BY <1>1, <1>2, <1>3, <1>4 DEF Encoded
<1> HIDE DEF E
<1>6. /\ frame.form \in {7, 126, 127} /\ frame.len \in Nat /\ frame.comes \in Nat
      /\ frame.masked \in BOOLEAN /\ frame.fin \in BOOLEAN
      /\ frame.op \in DataOps \cup {"ping", "pong", "close", "unknown"}
  BY DEF FrameSet
<1>7. PICK ext \in {0, 2, 8} : ext = ExtLen(frame)
  BY <1>6 DEF ExtLen
<1>8. PICK n \in Nat : n = HeadLen(frame) /\ n = 2 + ext + IF frame.masked THEN 4 ELSE 0
  BY <1>6, <1>7 DEF HeadLen
<1>9. /\ A \in Seq(WireBytes) /\ Len(A) = 2
      /\ A[1] = [fin |-> frame.fin, op |-> frame.op]
      /\ A[2] = [masked |-> frame.masked, len7 |-> IF frame.form = 7 THEN frame.len ELSE frame.form]
  <2>1. A[1] \in WireBytes /\ A[2] \in WireBytes
    <3>1. [fin |-> frame.fin, op |-> frame.op]
             \in [fin : BOOLEAN, op : DataOps \cup {"ping", "pong", "close", "unknown"}]
      BY <1>6
    <3>2. [masked |-> frame.masked, len7 |-> IF frame.form = 7 THEN frame.len ELSE frame.form]
            \in [masked : BOOLEAN, len7 : Nat]
      BY <1>6
    <3> QED
      BY <1>1, <3>1, <3>2 DEF WireBytes
  <2> QED
    BY <1>1, <2>1
<1>10. /\ B \in Seq(WireBytes) /\ Len(B) = ext
       /\ \A i \in 1 .. ext : B[i] = IF i = ext THEN frame.len % 256
                                     ELSE IF i = ext - 1 THEN frame.len \div 256 ELSE 0
  <2>1. PICK q \in Nat, r \in Nat : q = frame.len \div 256 /\ r = frame.len % 256
    BY <1>6
  <2>2. q \in WireBytes /\ r \in WireBytes /\ 0 \in WireBytes
    BY DEF WireBytes
  <2>3. CASE frame.form = 7
    BY <1>2, <1>7, <2>3 DEF ExtLen
  <2>4. CASE frame.form = 126
    <3>1. B = <<q, r>> /\ ext = 2
      BY <1>2, <1>7, <2>1, <2>4 DEF ExtLen
    <3> QED
      BY <2>1, <2>2, <3>1
  <2>5. CASE frame.form = 127
    <3>1. B = <<0, 0, 0, 0, 0, 0, q, r>> /\ ext = 8
      BY <1>2, <1>7, <2>1, <2>5 DEF ExtLen
    <3> QED
      BY <2>1, <2>2, <3>1
  <2> QED
    BY <1>6, <2>3, <2>4, <2>5
<1>11. /\ C \in Seq(WireBytes) /\ Len(C) = IF frame.masked THEN 4 ELSE 0
       /\ frame.masked => \A i \in 1 .. 4 : C[i] = MaskByte(k, i)
  <2>1. \A i \in 1 .. 4 : MaskByte(k, i) \in WireBytes
    BY OctetsOf DEF WireBytes
  <2> QED
    BY <1>3, <1>6, <2>1
<1>12. /\ D \in Seq(WireBytes) /\ Len(D) = frame.comes
       /\ \A j \in 1 .. frame.comes :
            D[j] = IF frame.masked THEN Xor(Plain(k, j), MaskByte(k, 1 + ((j - 1) % 4))) ELSE Plain(k, j)
  <2>1. ASSUME NEW j \in 1 .. frame.comes
        PROVE  Xor(Plain(k, j), MaskByte(k, 1 + ((j - 1) % 4))) \in WireBytes /\ Plain(k, j) \in WireBytes
    <3>1. 1 + ((j - 1) % 4) \in Nat /\ j \in Nat
      BY <1>6
    <3> QED
      BY <3>1, OctetsOf DEF WireBytes
  <2> QED
    BY <1>4, <1>6, <2>1
<1>13. PICK AB \in Seq(WireBytes) : AB = A \o B
  BY <1>9, <1>10, ConcatProperties
<1>14. /\ Len(AB) = 2 + ext /\ AB[1] = A[1] /\ AB[2] = A[2]
       /\ \A i \in 1 .. ext : AB[2 + i] = B[i]
  <2>1. 2 \in Nat /\ 1 \in 1 .. 2 /\ 2 \in 1 .. 2
    OBVIOUS
  <2>2. /\ Len(AB) = 2 + Len(B) /\ \A i \in 1 .. 2 : AB[i] = A[i]
        /\ \A j \in 1 .. Len(B) : AB[2 + j] = B[j]
    <3>1. A \in Seq(WireBytes) /\ B \in Seq(WireBytes)
      BY <1>9, <1>10
    <3>2. /\ Len(AB) = Len(A) + Len(B) /\ \A i \in 1 .. Len(A) : AB[i] = A[i]
          /\ \A j \in 1 .. Len(B) : AB[Len(A) + j] = B[j]
      BY <1>13, <3>1, Behind
    <3> QED
      BY <1>9, <3>2
  <2> QED
    BY <1>10, <2>1, <2>2
<1>15. PICK ABC \in Seq(WireBytes) : ABC = AB \o C
  BY <1>11, <1>13, ConcatProperties
<1>16. /\ Len(ABC) = n /\ \A i \in 1 .. 2 + ext : ABC[i] = AB[i]
       /\ frame.masked => \A i \in 1 .. 4 : ABC[2 + ext + i] = C[i]
  <2>1. 2 + ext \in Nat
    BY <1>7
  <2>2. /\ Len(ABC) = (2 + ext) + Len(C) /\ \A i \in 1 .. 2 + ext : ABC[i] = AB[i]
        /\ \A j \in 1 .. Len(C) : ABC[(2 + ext) + j] = C[j]
    <3>1. C \in Seq(WireBytes) /\ Len(AB) = 2 + ext
      BY <1>11, <1>14
    <3> QED
      BY <1>13, <1>15, <2>1, <3>1, Behind, SMTT(30)
  <2>3. Len(ABC) = n
    BY <1>6, <1>7, <1>8, <1>11, <2>2
  <2>4. frame.masked => \A i \in 1 .. 4 : ABC[2 + ext + i] = C[i]
    BY <1>7, <1>11, <2>2
  <2> QED
    BY <2>2, <2>3, <2>4
<1>17. /\ E \in Seq(WireBytes) /\ Len(E) = n + frame.comes
       /\ \A i \in 1 .. n : E[i] = ABC[i]
       /\ \A j \in 1 .. frame.comes : E[n + j] = D[j]
  <2>1. E = ABC \o D
    BY <1>5, <1>13, <1>15
  <2>2. /\ E \in Seq(WireBytes) /\ Len(E) = n + Len(D) /\ \A i \in 1 .. n : E[i] = ABC[i]
        /\ \A j \in 1 .. Len(D) : E[n + j] = D[j]
    <3>1. D \in Seq(WireBytes)
      BY <1>12
    <3>2. /\ E \in Seq(WireBytes) /\ Len(E) = Len(ABC) + Len(D)
          /\ \A i \in 1 .. Len(ABC) : E[i] = ABC[i]
          /\ \A j \in 1 .. Len(D) : E[Len(ABC) + j] = D[j]
      BY <1>15, <2>1, <3>1, Behind
    <3> QED
      BY <1>16, <3>2
  <2> QED
    BY <1>12, <2>2
<1>18. E[1] = A[1] /\ E[2] = A[2] /\ \A o \in 2 .. 1 + ext : E[o + 1] = B[o - 1]
  <2>1. 1 \in 1 .. n /\ 2 \in 1 .. n /\ 1 \in 1 .. 2 + ext /\ 2 \in 1 .. 2 + ext
    BY <1>6, <1>7, <1>8
  <2>2. ASSUME NEW o \in 2 .. 1 + ext PROVE E[o + 1] = B[o - 1]
    <3>1. o + 1 \in 1 .. n /\ o + 1 \in 1 .. 2 + ext /\ o - 1 \in 1 .. ext /\ 2 + (o - 1) = o + 1
      BY <1>6, <1>7, <1>8, SMTT(30)
    <3>2. E[o + 1] = ABC[o + 1] /\ ABC[o + 1] = AB[o + 1]
      BY <1>16, <1>17, <3>1
    <3>3. AB[2 + (o - 1)] = B[o - 1]
      BY <1>14, <3>1
    <3> QED
      BY <3>1, <3>2, <3>3
  <2> QED
    BY <1>14, <1>16, <1>17, <2>1, <2>2, SMTT(30)
<1>19. frame.masked => \A i \in 1 .. 4 : E[2 + ext + i] = MaskByte(k, i)
  <2>1. ASSUME frame.masked, NEW i \in 1 .. 4 PROVE E[2 + ext + i] = MaskByte(k, i)
    <3>1. 2 + ext + i \in 1 .. n
      BY <1>7, <1>8, <2>1, SMTT(30)
    <3>2. E[2 + ext + i] = ABC[2 + ext + i]
      BY <1>17, <3>1
    <3>3. ABC[2 + ext + i] = C[i] /\ C[i] = MaskByte(k, i)
      BY <1>11, <1>16, <2>1
    <3> QED
      BY <3>2, <3>3
  <2> QED
    BY <2>1
<1>20. \A o \in 2 .. 1 + ext :
         E[o + 1] = IF o = 1 + ext THEN frame.len % 256
                    ELSE IF o = ext THEN frame.len \div 256 ELSE 0
  <2>1. ASSUME NEW o \in 2 .. 1 + ext
        PROVE  E[o + 1] = IF o = 1 + ext THEN frame.len % 256
                          ELSE IF o = ext THEN frame.len \div 256 ELSE 0
    <3>1. /\ o - 1 \in 1 .. ext /\ (o - 1 = ext <=> o = 1 + ext) /\ (o - 1 = ext - 1 <=> o = ext)
          /\ E[o + 1] = B[o - 1]
      BY <1>7, <1>18
    <3> QED
      BY <1>10, <3>1
  <2> QED
    BY <2>1
<1>21. EncodedIs(frame, k, E)
  BY <1>7, <1>8, <1>9, <1>12, <1>17, <1>18, <1>19, <1>20 DEF EncodedIs
<1> QED
  BY <1>21 DEF E

HeadState(s, frame, k, o) ==
  LET ext == ExtLen(frame)
  IN /\ s.fin = frame.fin /\ s.op = frame.op
     /\ s.maskCtr = 0 /\ ~s.frameCont
     /\ o = 1 => s.status = ST_LEN0
     /\ o >= 2 => s.masked = frame.masked /\ s.len7 = IF frame.form = 7 THEN frame.len ELSE frame.form
     /\ o >= 2 /\ o < 2 + ext =>
          /\ s.status = ST_LEN1 + o - 2
          /\ s.len = IF o = 1 + ext THEN frame.len \div 256 ELSE 0
     /\ o >= 2 + ext =>
          /\ frame.masked /\ s.status = ST_MASK1 + o - 2 - ext /\ s.len = frame.len
          /\ \A i \in 1 .. o - 2 - ext : s.mask[i] = MaskByte(k, i)

PayloadState(s, frame, k, o) ==
  LET d == o - HeadLen(frame)
  IN /\ s.fin = frame.fin /\ s.op = frame.op /\ s.masked = frame.masked
     /\ s.status = ST_PAYLOAD /\ s.len = frame.len - d
     /\ s.maskCtr = d % 4
     /\ frame.masked => \A i \in 1 .. 4 : s.mask[i] = MaskByte(k, i)

\* A length fits into its form.
LenFits(frame) == frame.len <= IF frame.form = 7 THEN 125 ELSE 65535

\* A byte of the head is the last one of it, or it is not.
InHead(t, frame, k, o) == o < HeadLen(frame) /\ t.status # ST_PAYLOAD /\ HeadState(t, frame, k, o)
HeadEnds(t, frame, k, o) == o = HeadLen(frame) /\ PayloadState(t, frame, k, o) /\ ~t.frameCont

LEMMA TwoBytes ==
  ASSUME NEW m \in Nat, NEW q, NEW b, q = m \div 256, b = m % 256
  PROVE  256 * q + b = m
  OBVIOUS

\* What the next byte of the head makes of the socket.
LEMMA HeadStep ==
  ASSUME NEW frame \in FrameSet, NEW k \in Nat, NEW s, IsSock(s),
         LenFits(frame),
         NEW o \in 0 .. HeadLen(frame) - 1, o = 0 => s.status = ST_FLAGS,
         o > 0 => HeadState(s, frame, k, o),
         NEW t, t = HeadByte(s, Encoded(frame, k)[o + 1])
  PROVE  /\ s.status # ST_PAYLOAD
         /\ InHead(t, frame, k, o + 1) \/ HeadEnds(t, frame, k, o + 1)
<1>1. /\ frame.form \in {7, 126, 127} /\ frame.len \in Nat /\ frame.masked \in BOOLEAN
  BY DEF FrameSet
<1>2. PICK E : E = Encoded(frame, k)
  OBVIOUS
<1>3. PICK ext \in {0, 2, 8} : /\ ext = ExtLen(frame) /\ (frame.form = 7 <=> ext = 0)
                               /\ (frame.form = 126 <=> ext = 2) /\ (frame.form = 127 <=> ext = 8)
  BY <1>1 DEF ExtLen
<1>4. PICK n \in Nat : n = HeadLen(frame) /\ n = 2 + ext + IF frame.masked THEN 4 ELSE 0
  BY <1>1, <1>3 DEF HeadLen
<1>5. /\ E[1] = [fin |-> frame.fin, op |-> frame.op]
      /\ E[2] = [masked |-> frame.masked, len7 |-> IF frame.form = 7 THEN frame.len ELSE frame.form]
      /\ \A i \in 2 .. 1 + ext :
           E[i + 1] = IF i = 1 + ext THEN frame.len % 256
                      ELSE IF i = ext THEN frame.len \div 256 ELSE 0
      /\ frame.masked => \A i \in 1 .. 4 : E[2 + ext + i] = MaskByte(k, i)
  <2>1. /\ E[1] = [fin |-> frame.fin, op |-> frame.op]
        /\ E[2] = [masked |-> frame.masked,
                   len7 |-> IF frame.form = 7 THEN frame.len ELSE frame.form]
        /\ \A i \in 2 .. 1 + ExtLen(frame) :
              E[i + 1] = IF i = 1 + ExtLen(frame) THEN frame.len % 256
                         ELSE IF i = ExtLen(frame) THEN frame.len \div 256 ELSE 0
        /\ frame.masked => \A i \in 1 .. 4 : E[2 + ExtLen(frame) + i] = MaskByte(k, i)
    <3>1. EncodedIs(frame, k, E)
      BY <1>2, EncodedBytes
    <3> QED
      BY <3>1 DEF EncodedIs
  <2> QED
    BY <1>3, <2>1, ZenonT(40)
<1>6. PICK b : b = E[o + 1]
  OBVIOUS
<1>7. o \in Nat /\ o < n /\ t = HeadByte(s, b)
  BY <1>2, <1>4, <1>6
<1>8. CASE o = 0
  <2>1. b = [fin |-> frame.fin, op |-> frame.op] /\ s.status = ST_FLAGS /\ o + 1 < n
    BY <1>3, <1>4, <1>5, <1>6, <1>8
  <2>2. t.status = ST_LEN0 /\ t.maskCtr = 0 /\ ~t.frameCont /\ t.fin = b.fin /\ t.op = b.op
    <3>1. s.status = ST_FLAGS /\ IsSock(s) /\ t = HeadByte(s, b)
      BY <1>7, <2>1
    <3> QED
      BY <3>1, KindByte
  <2>3. b.fin = frame.fin /\ b.op = frame.op
    BY <2>1
  <2>4. HeadState(t, frame, k, 1)
    BY <1>3, <2>2, <2>3 DEF HeadState
  <2>5. s.status # ST_PAYLOAD /\ t.status # ST_PAYLOAD
    BY <2>1, <2>2 DEF ST_FLAGS, ST_LEN0, ST_PAYLOAD
  <2>6. InHead(t, frame, k, o + 1)
    BY <1>4, <1>8, <2>1, <2>4, <2>5 DEF InHead
  <2> QED
    BY <2>5, <2>6
<1>9. CASE o = 1
  <2>1. b = [masked |-> frame.masked, len7 |-> IF frame.form = 7 THEN frame.len ELSE frame.form]
    BY <1>5, <1>6, <1>9
  <2>0. frame.form = 7 => frame.len <= 125
    BY DEF LenFits
  <2>2. /\ b.masked = frame.masked /\ b.len7 = IF frame.form = 7 THEN frame.len ELSE frame.form
        /\ b.len7 \in Nat
    BY <1>1, <2>1
  <2>3. s.status = ST_LEN0 /\ HeadState(s, frame, k, 1)
    BY <1>9 DEF HeadState
  <2>4. /\ \A f \in SockFields \ {"masked", "len7", "len", "status"} : t[f] = s[f]
        /\ t.masked = b.masked /\ t.len7 = b.len7
        /\ t.len = IF b.len7 >= 126 THEN 0 ELSE b.len7
        /\ t.status = IF b.len7 >= 126 THEN ST_LEN1 ELSE BehindLength(b.masked)
    BY <1>7, <2>3, Len0Byte
  <2>5. t.fin = frame.fin /\ t.op = frame.op /\ t.maskCtr = 0 /\ ~t.frameCont
    BY <2>3, <2>4 DEF SockFields, HeadState
  <2>6. s.status # ST_PAYLOAD
    BY <2>3 DEF ST_LEN0, ST_PAYLOAD
  <2>7. ASSUME frame.form = 7, frame.masked PROVE InHead(t, frame, k, o + 1)
    <3>1. t.status = ST_MASK1 /\ t.len = frame.len /\ n = 6 /\ ext = 0
      BY <1>1, <1>3, <1>4, <2>0, <2>2, <2>4, <2>7 DEF BehindLength
    <3>2. HeadState(t, frame, k, 2)
      <4>1. 1 .. 2 - 2 - ext = {} /\ 2 >= 2 + ext /\ ST_MASK1 + 2 - 2 - ext = ST_MASK1
        BY <1>3, <3>1 DEF ST_MASK1
      <4>2. t.masked = frame.masked /\ t.len7 = IF frame.form = 7 THEN frame.len ELSE frame.form
        BY <2>2, <2>4
      <4>3. \A i \in 1 .. 2 - 2 - ext : t.mask[i] = MaskByte(k, i)
        BY <4>1
      <4>4. ~(2 < 2 + ext) /\ 2 # 1
        BY <4>1, <1>3
      <4>5. frame.masked /\ t.status = ST_MASK1 + 2 - 2 - ext /\ t.len = frame.len
        BY <2>7, <3>1, <4>1
      <4> QED
        BY <1>3, <2>5, <4>2, <4>3, <4>4, <4>5, Zenon DEF HeadState
    <3> QED
      BY <1>4, <1>9, <3>1, <3>2 DEF InHead, ST_MASK1, ST_PAYLOAD
  <2>8. ASSUME frame.form = 7, ~frame.masked PROVE HeadEnds(t, frame, k, o + 1)
    <3>1. t.status = ST_PAYLOAD /\ t.len = frame.len /\ n = 2
      BY <1>1, <1>3, <1>4, <2>0, <2>2, <2>4, <2>8 DEF BehindLength
    <3>2. PayloadState(t, frame, k, 2)
      <4>1. 2 - HeadLen(frame) = 0 /\ 0 % 4 = 0 /\ frame.len - 0 = frame.len
        BY <1>1, <1>4, <3>1
      <4> QED
        BY <2>2, <2>4, <2>5, <2>8, <3>1, <4>1 DEF PayloadState
    <3>3. o + 1 = HeadLen(frame) /\ o + 1 = 2
      BY <1>4, <1>9, <3>1
    <3> QED
      BY <2>5, <3>2, <3>3, Zenon DEF HeadEnds
  <2>9. ASSUME frame.form # 7 PROVE InHead(t, frame, k, o + 1)
    <3>1. t.status = ST_LEN1 /\ t.len = 0 /\ 2 < n /\ ext \in {2, 8}
      BY <1>1, <1>3, <1>4, <2>2, <2>4, <2>9
    <3>2. HeadState(t, frame, k, 2)
      BY <1>1, <1>3, <2>2, <2>4, <2>5, <2>9, <3>1 DEF HeadState, ST_LEN1
    <3> QED
      BY <1>4, <1>9, <3>1, <3>2 DEF InHead, ST_LEN1, ST_PAYLOAD
  <2> QED
    BY <1>1, <2>6, <2>7, <2>8, <2>9, Zenon
<1>10. CASE o >= 2 /\ o < 2 + ext
  <2>1. /\ s.status = ST_LEN1 + o - 2 /\ s.len = IF o = 1 + ext THEN frame.len \div 256 ELSE 0
        /\ s.masked = frame.masked /\ s.len7 = frame.form
        /\ s.fin = frame.fin /\ s.op = frame.op /\ s.maskCtr = 0 /\ ~s.frameCont
    BY <1>1, <1>3, <1>7, <1>10 DEF HeadState
  <2>2. s.status \in ST_LEN1 .. ST_LEN8 /\ s.status # ST_PAYLOAD
    BY <1>3, <1>7, <1>10, <2>1 DEF ST_LEN1, ST_LEN8, ST_PAYLOAD
  <2>3. /\ \A f \in SockFields \ {"len", "status"} : t[f] = s[f]
        /\ t.len = 256 * s.len + b
        /\ t.status = IF s.status = IF s.len7 = 126 THEN ST_LEN2 ELSE ST_LEN8
                      THEN BehindLength(s.masked) ELSE s.status + 1
    BY <1>7, <2>2, LenByte
  <2>4. /\ t.fin = frame.fin /\ t.op = frame.op /\ t.maskCtr = 0 /\ ~t.frameCont
        /\ t.masked = frame.masked /\ t.len7 = frame.form
    BY <2>1, <2>3 DEF SockFields
  <2>5. /\ b = IF o = 1 + ext THEN frame.len % 256 ELSE IF o = ext THEN frame.len \div 256 ELSE 0
    BY <1>3, <1>5, <1>6, <1>7, <1>10
  <2>6. s.status = (IF s.len7 = 126 THEN ST_LEN2 ELSE ST_LEN8) <=> o = 1 + ext
    BY <1>1, <1>3, <1>7, <1>10, <2>1 DEF ST_LEN1, ST_LEN2, ST_LEN8
  <2>7. CASE o = 1 + ext
    <3>1. t.len = frame.len
      <4>1. PICK m \in Nat : m = frame.len
        BY <1>1
      <4>2. s.len = m \div 256 /\ b = m % 256 /\ t.len = 256 * s.len + b
        BY <2>1, <2>3, <2>5, <2>7, <4>1
      <4>3. 256 * s.len + b = m
        BY <4>2, TwoBytes
      <4> QED
        BY <4>1, <4>2, <4>3
    <3>2. t.status = BehindLength(frame.masked)
      BY <2>1, <2>3, <2>6, <2>7
    <3>3. ASSUME frame.masked PROVE InHead(t, frame, k, o + 1)
      <4>1. t.status = ST_MASK1 /\ n = 6 + ext
        BY <1>4, <3>2, <3>3 DEF BehindLength
      <4>2. HeadState(t, frame, k, o + 1)
        <5>1. /\ 1 .. (o + 1) - 2 - ext = {} /\ (o + 1) >= 2 + ext /\ o + 1 # 1
              /\ ST_MASK1 + (o + 1) - 2 - ext = ST_MASK1 /\ ~(o + 1 < 2 + ext)
          BY <1>3, <2>7 DEF ST_MASK1
        <5>2. t.len7 = IF frame.form = 7 THEN frame.len ELSE frame.form
          BY <1>1, <1>3, <2>4, <2>7, <1>7, <1>10
        <5>3. \A i \in 1 .. (o + 1) - 2 - ext : t.mask[i] = MaskByte(k, i)
          BY <5>1
        <5>4. t.status = ST_MASK1 + (o + 1) - 2 - ext
          BY <4>1, <5>1
        <5> QED
          BY <1>3, <2>4, <3>1, <3>3, <5>1, <5>2, <5>3, <5>4, Zenon DEF HeadState
      <4> QED
        BY <1>4, <2>7, <4>1, <4>2 DEF InHead, ST_MASK1, ST_PAYLOAD
    <3>4. ASSUME ~frame.masked PROVE HeadEnds(t, frame, k, o + 1)
      <4>1. t.status = ST_PAYLOAD /\ n = 2 + ext
        BY <1>4, <3>2, <3>4 DEF BehindLength
      <4>2. PayloadState(t, frame, k, o + 1)
        <5>1. (o + 1) - HeadLen(frame) = 0 /\ 0 % 4 = 0 /\ frame.len - 0 = frame.len
          BY <1>1, <1>3, <1>4, <2>7, <4>1
        <5> QED
          BY <2>4, <3>1, <3>4, <4>1, <5>1 DEF PayloadState
      <4>3. o + 1 = HeadLen(frame)
        BY <1>4, <2>7, <4>1
      <4> QED
        BY <2>4, <4>2, <4>3, Zenon DEF HeadEnds
    <3> QED
      BY <2>2, <3>3, <3>4, Zenon
  <2>8. CASE o # 1 + ext
    <3>1. /\ t.status = ST_LEN1 + (o + 1) - 2 /\ o + 1 < 2 + ext
          /\ t.len = IF o + 1 = 1 + ext THEN frame.len \div 256 ELSE 0
      <4>1. t.status = s.status + 1
        BY <2>3, <2>6, <2>8
      <4>2. s.len = 0 /\ b = IF o = ext THEN frame.len \div 256 ELSE 0
        BY <2>1, <2>5, <2>8
      <4>3. frame.len \div 256 \in Nat
        BY <1>1
      <4> QED
        BY <1>3, <1>7, <1>10, <2>1, <2>3, <2>8, <4>1, <4>2, <4>3 DEF ST_LEN1
    <3>2. HeadState(t, frame, k, o + 1)
      BY <1>1, <1>3, <1>7, <1>10, <2>4, <2>8, <3>1 DEF HeadState
    <3>3. o + 1 < n /\ t.status # ST_PAYLOAD
      BY <1>3, <1>4, <1>7, <1>10, <3>1 DEF ST_LEN1, ST_PAYLOAD
    <3>4. InHead(t, frame, k, o + 1)
      BY <1>4, <3>2, <3>3 DEF InHead
    <3> QED
      BY <2>2, <3>4
  <2> QED
    BY <2>7, <2>8, Zenon
<1>11. CASE o >= 2 + ext
  <2>1. /\ frame.masked /\ s.status = ST_MASK1 + o - 2 - ext /\ s.len = frame.len
        /\ \A i \in 1 .. o - 2 - ext : s.mask[i] = MaskByte(k, i)
        /\ s.masked = frame.masked /\ s.len7 = IF frame.form = 7 THEN frame.len ELSE frame.form
        /\ s.fin = frame.fin /\ s.op = frame.op /\ s.maskCtr = 0 /\ ~s.frameCont
    BY <1>1, <1>3, <1>7, <1>11 DEF HeadState
  <2>2. n = 6 + ext /\ s.status \in ST_MASK1 .. ST_MASK4 /\ s.status # ST_PAYLOAD
    BY <1>3, <1>4, <1>7, <1>11, <2>1 DEF ST_MASK1, ST_MASK4, ST_PAYLOAD
  <2>3. /\ \A f \in SockFields \ {"mask", "status"} : t[f] = s[f]
        /\ t.status = s.status + 1
        /\ \A i \in 1 .. 4 : t.mask[i] = IF i = s.status - ST_MASK1 + 1 THEN b ELSE s.mask[i]
    BY <1>7, <2>2, MaskingByte
  <2>4. /\ t.fin = frame.fin /\ t.op = frame.op /\ t.maskCtr = 0 /\ ~t.frameCont
        /\ t.masked = frame.masked /\ t.len = frame.len
        /\ t.len7 = IF frame.form = 7 THEN frame.len ELSE frame.form
    BY <2>1, <2>3 DEF SockFields
  <2>5. PICK m \in 1 .. 4 : m = o - 1 - ext /\ b = MaskByte(k, m) /\ s.status - ST_MASK1 + 1 = m
    <3>1. o - 1 - ext \in 1 .. 4 /\ 2 + ext + (o - 1 - ext) = o + 1
      BY <1>3, <1>7, <1>11, <2>2
    <3>2. s.status - ST_MASK1 + 1 = o - 1 - ext
      BY <1>3, <1>7, <2>1 DEF ST_MASK1
    <3> QED
      BY <1>5, <1>6, <2>1, <3>1, <3>2
  <2>6. ASSUME NEW i \in 1 .. m PROVE t.mask[i] = MaskByte(k, i)
    <3>1. i \in 1 .. 4
      OBVIOUS
    <3>2. CASE i = m
      BY <2>3, <2>5, <3>1, <3>2
    <3>3. CASE i # m
      <4>1. i \in 1 .. o - 2 - ext /\ i # s.status - ST_MASK1 + 1
        BY <1>3, <1>7, <2>5, <3>3
      <4> QED
        BY <2>1, <2>3, <3>1, <4>1
    <3> QED
      BY <3>2, <3>3
  <2>7. t.status = ST_MASK1 + (o + 1) - 2 - ext /\ (o + 1) - 2 - ext = m
    BY <1>3, <1>7, <2>1, <2>3, <2>5 DEF ST_MASK1
  <2>8. ASSUME o + 1 < n PROVE InHead(t, frame, k, o + 1)
    <3>1. HeadState(t, frame, k, o + 1)
      BY <1>1, <1>3, <1>7, <1>11, <2>1, <2>4, <2>6, <2>7 DEF HeadState
    <3>2. t.status # ST_PAYLOAD
      BY <1>3, <1>7, <2>2, <2>7, <2>8 DEF ST_MASK1, ST_PAYLOAD
    <3> QED
      BY <1>4, <2>8, <3>1, <3>2 DEF InHead
  <2>9. ASSUME o + 1 = n PROVE HeadEnds(t, frame, k, o + 1)
    <3>1. m = 4 /\ t.status = ST_PAYLOAD
      BY <1>3, <1>7, <2>2, <2>5, <2>7, <2>9 DEF ST_MASK1, ST_PAYLOAD
    <3>2. (o + 1) - HeadLen(frame) = 0 /\ 0 % 4 = 0 /\ frame.len - 0 = frame.len
      BY <1>1, <1>4, <2>9
    <3>3. PayloadState(t, frame, k, o + 1)
      BY <2>4, <2>6, <3>1, <3>2 DEF PayloadState
    <3>4. o + 1 = HeadLen(frame)
      BY <1>4, <2>9
    <3> QED
      BY <2>4, <3>3, <3>4, Zenon DEF HeadEnds
  <2>10. o + 1 < n \/ o + 1 = n
    BY <1>4, <1>7
  <2> QED
    BY <2>2, <2>8, <2>9, <2>10, Zenon
<1> QED
  <2>1. o = 0 \/ o = 1 \/ (o >= 2 /\ o < 2 + ext) \/ o >= 2 + ext
    BY <1>3, <1>7
  <2> QED
    BY <1>8, <1>9, <1>10, <1>11, <2>1, Zenon

\* What is heard of d bytes of frame k, and what of its pong is sent for them.
HeardPart(frame, k, d) ==
  IF frame.op \notin DataOps THEN <<>>
  ELSE [j \in 1 .. d |-> Plain(k, j)]
EchoPart(frame, k, d) ==
  IF frame.op # "ping" THEN <<>>
  ELSE <<Pong(frame.len)>> \o [j \in 1 .. d |-> Byte(Plain(k, j))]

\* Frame by frame: the bytes on the wire, and what is to be heard and sent in all.
Wires(frames) == [k \in DOMAIN frames |-> Encoded(frames[k], k)]
Hears(frames) == [k \in DOMAIN frames |-> HeardPart(frames[k], k, frames[k].comes)]
Echoes(frames) == [k \in DOMAIN frames |-> EchoPart(frames[k], k, frames[k].comes)]

SentItems == [kind : {"frame", "pong", "byte"}, what : {"101", "broadcast", "answer", "close", "pong"},
              len : Nat, byte : Octets]

\* Frames as clients send them (ScriptsAssumption).
GoodFrames(frames) ==
  /\ frames \in Seq(FrameSet)
  /\ \A k \in DOMAIN frames :
       /\ LenFits(frames[k]) /\ frames[k].comes <= frames[k].len
       /\ frames[k].comes < frames[k].len => k = Len(frames) \/ Ends(frames[k])
       /\ frames[k].op = "ping" => frames[k].masked

LEMMA ScriptsGood ==
  ASSUME NEW s \in Scripts \cup {NoScript}, NEW c \in Socks
  PROVE  GoodFrames(s[c])
<1>1. CASE s \in Scripts
  BY <1>1, ScriptsAssumption DEF GoodFrames, LenFits
<1>2. CASE s = NoScript
  <2>1. s[c] = <<>>
    BY <1>2 DEF NoScript
  <2> QED
    BY <2>1 DEF GoodFrames
<1> QED
  BY <1>1, <1>2

LEMMA WiresTyped ==
  ASSUME NEW frames \in Seq(FrameSet)
  PROVE  /\ Wires(frames) \in Seq(Seq(WireBytes)) /\ Len(Wires(frames)) = Len(frames)
         /\ \A k \in 1 .. Len(frames) : Wires(frames)[k] = Encoded(frames[k], k)
         /\ Bytes(frames) = FlattenSeq(Wires(frames))
<1>1. PICK n \in Nat : n = Len(frames) /\ DOMAIN frames = 1 .. n
  OBVIOUS
<1>2. \A k \in 1 .. n : Encoded(frames[k], k) \in Seq(WireBytes)
  <2>1. ASSUME NEW k \in 1 .. n PROVE Encoded(frames[k], k) \in Seq(WireBytes)
    <3>1. k \in Nat /\ frames[k] \in FrameSet
      BY <1>1
    <3>2. EncodedIs(frames[k], k, Encoded(frames[k], k))
      BY <3>1, EncodedBytes
    <3> QED
      BY <3>2 DEF EncodedIs
  <2> QED
    BY <2>1
<1>3. Wires(frames) = [k \in 1 .. n |-> Encoded(frames[k], k)]
  BY <1>1 DEF Wires
<1>4. Wires(frames) \in Seq(Seq(WireBytes)) /\ Len(Wires(frames)) = n
  BY <1>1, <1>2, <1>3
<1>5. Bytes(frames) = FlattenSeq(Wires(frames))
  BY DEF Bytes, Wires
<1> QED
  BY <1>1, <1>3, <1>4, <1>5

LEMMA PartsTyped ==
  ASSUME NEW frame \in FrameSet, NEW k \in Nat, NEW d \in Nat
  PROVE  HeardPart(frame, k, d) \in Seq(Octets) /\ EchoPart(frame, k, d) \in Seq(SentItems)
<1>1. \A j \in 1 .. d : Plain(k, j) \in Octets
  BY OctetsOf
<1>2. frame.len \in Nat /\ {} \in Octets
  BY DEF FrameSet, Octets
<1>3. HeardPart(frame, k, d) \in Seq(Octets)
  BY <1>1 DEF HeardPart
<1>4. EchoPart(frame, k, d) \in Seq(SentItems)
  <2>1. PICK p : p = Pong(frame.len)
    OBVIOUS
  <2>2. p \in SentItems
    BY <1>2, <2>1 DEF Pong, SentItems
  <2>3. ASSUME NEW j \in 1 .. d PROVE Byte(Plain(k, j)) \in SentItems
    BY <1>1 DEF Byte, SentItems
  <2>4. [j \in 1 .. d |-> Byte(Plain(k, j))] \in Seq(SentItems) /\ <<p>> \in Seq(SentItems)
    BY <2>2, <2>3
  <2>5. <<p>> \o [j \in 1 .. d |-> Byte(Plain(k, j))] \in Seq(SentItems)
    BY <2>4, ConcatProperties
  <2> QED
    BY <2>1, <2>5 DEF EchoPart
<1> QED
  BY <1>3, <1>4

LEMMA HearsTyped ==
  ASSUME NEW frames \in Seq(FrameSet)
  PROVE  /\ Hears(frames) \in Seq(Seq(Octets)) /\ Len(Hears(frames)) = Len(frames)
         /\ Echoes(frames) \in Seq(Seq(SentItems)) /\ Len(Echoes(frames)) = Len(frames)
         /\ \A k \in 1 .. Len(frames) : /\ Hears(frames)[k] = HeardPart(frames[k], k, frames[k].comes)
                                        /\ Echoes(frames)[k] = EchoPart(frames[k], k, frames[k].comes)
<1>1. PICK n \in Nat : n = Len(frames) /\ DOMAIN frames = 1 .. n
  OBVIOUS
<1>2. \A k \in 1 .. n : /\ HeardPart(frames[k], k, frames[k].comes) \in Seq(Octets)
                        /\ EchoPart(frames[k], k, frames[k].comes) \in Seq(SentItems)
  <2>1. ASSUME NEW k \in 1 .. n
        PROVE  /\ HeardPart(frames[k], k, frames[k].comes) \in Seq(Octets)
               /\ EchoPart(frames[k], k, frames[k].comes) \in Seq(SentItems)
    <3>1. k \in Nat /\ frames[k] \in FrameSet
      BY <1>1
    <3>2. frames[k].comes \in Nat
      BY <3>1 DEF FrameSet
    <3> QED
      BY <3>1, <3>2, PartsTyped
  <2> QED
    BY <2>1
<1>3. /\ Hears(frames) = [k \in 1 .. n |-> HeardPart(frames[k], k, frames[k].comes)]
      /\ Echoes(frames) = [k \in 1 .. n |-> EchoPart(frames[k], k, frames[k].comes)]
  BY <1>1 DEF Hears, Echoes
<1> QED
  BY <1>1, <1>2, <1>3

\* Where a frame is on the wire.
LEMMA FrameAt ==
  ASSUME NEW frames \in Seq(FrameSet), NEW k \in 0 .. Len(frames) - 1, NEW n \in Nat,
         n = Len(Upto(Wires(frames), k))
  PROVE  /\ Len(Encoded(frames[k + 1], k + 1)) \in Nat
         /\ Len(Upto(Wires(frames), k + 1)) = n + Len(Encoded(frames[k + 1], k + 1))
         /\ n + Len(Encoded(frames[k + 1], k + 1)) <= Len(Bytes(frames))
         /\ \A j \in 1 .. Len(Encoded(frames[k + 1], k + 1)) :
              Bytes(frames)[n + j] = Encoded(frames[k + 1], k + 1)[j]
<1>1. PICK W \in Seq(Seq(WireBytes)) : W = Wires(frames)
  BY WiresTyped
<1>2. k + 1 \in 1 .. Len(W) /\ k \in 0 .. Len(W) /\ k + 1 \in 0 .. Len(W) /\ (k + 1) - 1 = k
  BY <1>1, WiresTyped
<1>3. PICK E \in Seq(WireBytes) : E = W[k + 1] /\ E = Encoded(frames[k + 1], k + 1)
  BY <1>1, <1>2, WiresTyped
<1>4. PICK A \in Seq(WireBytes) : A = Upto(W, k)
  BY <1>2, UptoStep
<1>5. PICK B \in Seq(WireBytes) : B = Upto(W, k + 1) /\ B = A \o E
  <2>1. Upto(W, k + 1) = Upto(W, (k + 1) - 1) \o W[k + 1] /\ Upto(W, k + 1) \in Seq(WireBytes)
    BY <1>2, UptoStep
  <2> QED
    BY <1>2, <1>3, <1>4, <2>1
<1>6. PICK u \in Seq(WireBytes) : Bytes(frames) = B \o u
  <2>1. PICK L \in Nat : L = Len(W) /\ k + 1 \in 0 .. L /\ L \in k + 1 .. L
    BY <1>2
  <2>2. \E u \in Seq(WireBytes) : Upto(W, L) = Upto(W, k + 1) \o u
    BY <2>1, UptoBegins, ZenonT(40)
  <2>3. Upto(W, L) = Bytes(frames)
    BY <1>1, <2>1, UptoStep, WiresTyped
  <2> QED
    BY <1>5, <2>2, <2>3
<1>7. /\ Len(B) = Len(A) + Len(E) /\ \A j \in 1 .. Len(E) : B[Len(A) + j] = E[j]
  BY <1>5, Behind
<1>8. /\ Len(Bytes(frames)) = Len(B) + Len(u) /\ \A i \in 1 .. Len(B) : Bytes(frames)[i] = B[i]
  BY <1>6, Behind
<1>9. n = Len(A)
  BY <1>1, <1>4
<1>10. ASSUME NEW j \in 1 .. Len(E) PROVE Bytes(frames)[n + j] = E[j]
  <2>1. n + j \in 1 .. Len(B)
    BY <1>7, <1>9
  <2> QED
    BY <1>7, <1>8, <1>9, <2>1
<1>11. Len(Upto(Wires(frames), k + 1)) = n + Len(E) /\ Len(E) \in Nat /\ Len(u) \in Nat
  BY <1>1, <1>5, <1>7, <1>9
<1> QED
  BY <1>3, <1>7, <1>8, <1>9, <1>10, <1>11

LEMMA AddMod == ASSUME NEW a \in Nat, NEW b \in Nat PROVE ((a % 4) + b) % 4 = (a + b) % 4 /\ a % 4 \in 0 .. 3
  OBVIOUS

\* Bytes of a payload, and what they are without their mask.
BytesOf(bytes, frame, k, d, m) ==
  /\ DOMAIN bytes = 1 .. m
  /\ \A j \in 1 .. m : bytes[j] = Encoded(frame, k)[HeadLen(frame) + (d + j)]
UnmaskedIs(s, bytes, k, d, m) == Unmasked(s, bytes) = [j \in 1 .. m |-> Plain(k, d + j)]

LEMMA Unmasking ==
  ASSUME NEW frame \in FrameSet, frame.masked, NEW k \in Nat, NEW d \in Nat, NEW m \in Nat,
         d + m <= frame.comes, NEW s, PayloadState(s, frame, k, HeadLen(frame) + d),
         NEW bytes, BytesOf(bytes, frame, k, d, m)
  PROVE  UnmaskedIs(s, bytes, k, d, m)
<1>1. frame.comes \in Nat
  BY DEF FrameSet
<1>7. DOMAIN bytes = 1 .. m /\ \A j \in 1 .. m : bytes[j] = Encoded(frame, k)[HeadLen(frame) + (d + j)]
  BY DEF BytesOf
<1>2. PICK E : E = Encoded(frame, k)
  OBVIOUS
<1>3. EncodedIs(frame, k, E)
  BY <1>2, EncodedBytes
<1>4. PICK n \in Nat : n = HeadLen(frame)
  BY <1>3 DEF EncodedIs
<1>5. s.maskCtr = d % 4 /\ \A i \in 1 .. 4 : s.mask[i] = MaskByte(k, i)
  <2>1. (n + d) - n = d
    OBVIOUS
  <2> QED
    BY <1>4, <2>1 DEF PayloadState
<1>6. ASSUME NEW j \in 1 .. m
      PROVE  Xor(bytes[j], s.mask[1 + ((s.maskCtr + j - 1) % 4)]) = Plain(k, d + j)
  <2>1. PICK h \in Nat : h = j - 1
    OBVIOUS
  <2>2. PICK i \in 1 .. 4 : i = 1 + ((d + h) % 4)
    <3>1. (d + h) % 4 \in 0 .. 3
      BY AddMod
    <3> QED
      BY <3>1
  <2>3. 1 + ((s.maskCtr + j - 1) % 4) = i
    <3>1. s.maskCtr + j - 1 = (d % 4) + h
      BY <1>5, <2>1, AddMod
    <3>2. ((d % 4) + h) % 4 = (d + h) % 4
      BY AddMod
    <3> QED
      BY <2>2, <3>1, <3>2
  <2>4. d + j \in 1 .. frame.comes /\ (d + j) - 1 = d + h
    BY <1>1, <2>1
  <2>5. bytes[j] = Xor(Plain(k, d + j), MaskByte(k, i))
    <3>1. E[HeadLen(frame) + (d + j)] = Xor(Plain(k, d + j), MaskByte(k, 1 + (((d + j) - 1) % 4)))
      BY <1>3, <2>4 DEF EncodedIs
    <3> QED
      BY <1>2, <1>7, <2>2, <2>4, <3>1
  <2>6. s.mask[i] = MaskByte(k, i)
    BY <1>5
  <2>7. Xor(Xor(Plain(k, d + j), MaskByte(k, i)), MaskByte(k, i)) = Plain(k, d + j)
    <3>1. d + j \in Nat /\ i \in Nat
      OBVIOUS
    <3>2. PICK a \in Octets, b \in Octets : a = Plain(k, d + j) /\ b = MaskByte(k, i)
      BY <3>1, OctetsOf
    <3>3. Xor(Xor(a, b), b) = a
      BY OctetsOf
    <3> QED
      BY <3>2, <3>3
  <2> QED
    BY <2>3, <2>5, <2>6, <2>7
<1> QED
  BY <1>6, <1>7 DEF UnmaskedIs, Unmasked

LEMMA TwoParts ==
  ASSUME NEW S, NEW n \in Nat, NEW m \in Nat, NEW C \in [1 .. n + m -> S]
  PROVE  [j \in 1 .. n |-> C[j]] \o [j \in 1 .. m |-> C[n + j]] = C
<1>1. PICK A : A = [j \in 1 .. n |-> C[j]]
  OBVIOUS
<1>2. PICK B : B = [j \in 1 .. m |-> C[n + j]]
  OBVIOUS
<1>3. A \in Seq(S)
  BY <1>1
<1>4. B \in Seq(S)
  <2>1. \A j \in 1 .. m : C[n + j] \in S
    OBVIOUS
  <2> QED
    BY <1>2, <2>1
<1>5. PICK D \in Seq(S) : D = A \o B
  BY <1>3, <1>4, ConcatProperties
<1>6. /\ Len(D) = Len(A) + Len(B) /\ \A i \in 1 .. Len(A) : D[i] = A[i]
      /\ \A j \in 1 .. Len(B) : D[Len(A) + j] = B[j]
  BY <1>3, <1>4, <1>5, Behind
<1>7. Len(A) = n /\ Len(B) = m
  BY <1>1, <1>2
<1>8. ASSUME NEW i \in 1 .. n + m PROVE D[i] = C[i]
  <2>1. CASE i <= n
    BY <1>1, <1>6, <1>7, <2>1
  <2>2. CASE i > n
    <3>1. i - n \in 1 .. m /\ n + (i - n) = i
      BY <2>2
    <3>2. D[n + (i - n)] = B[i - n] /\ B[i - n] = C[n + (i - n)]
      BY <1>2, <1>6, <1>7, <3>1
    <3> QED
      BY <3>1, <3>2
  <2> QED
    BY <2>1, <2>2
<1>9. D = C
  <2>1. Len(D) = n + m
    BY <1>6, <1>7
  <2> QED
    BY <1>5, <1>8, <2>1
<1> QED
  BY <1>1, <1>2, <1>5, <1>9

\* More of a payload is more of what is heard and sent for it.
LEMMA MoreHeard ==
  ASSUME NEW frame \in FrameSet, NEW k \in Nat, NEW d \in Nat, NEW m \in Nat, frame.op \in DataOps
  PROVE  HeardPart(frame, k, d) \o [j \in 1 .. m |-> Plain(k, d + j)] = HeardPart(frame, k, d + m)
<1> DEFINE H(j) == Plain(k, j)
<1>1. \A j \in Nat : H(j) \in Octets
  BY OctetsOf
<1>2. /\ HeardPart(frame, k, d) = [j \in 1 .. d |-> H(j)]
      /\ HeardPart(frame, k, d + m) = [j \in 1 .. d + m |-> H(j)]
  BY DEF HeardPart
<1> HIDE DEF H
<1>3. PICK C : C = [j \in 1 .. d + m |-> H(j)]
  OBVIOUS
<1>4. C \in [1 .. d + m -> Octets]
  BY <1>1, <1>3
<1>5. /\ [j \in 1 .. d |-> C[j]] = [j \in 1 .. d |-> H(j)]
      /\ [j \in 1 .. m |-> C[d + j]] = [j \in 1 .. m |-> H(d + j)]
  BY <1>3
<1>6. [j \in 1 .. d |-> C[j]] \o [j \in 1 .. m |-> C[d + j]] = C
  BY <1>4, TwoParts
<1>7. HeardPart(frame, k, d) \o [j \in 1 .. m |-> H(d + j)] = HeardPart(frame, k, d + m)
  BY <1>2, <1>3, <1>5, <1>6
<1> QED
  BY <1>7 DEF H

LEMMA MoreSent ==
  ASSUME NEW frame \in FrameSet, NEW k \in Nat, NEW d \in Nat, NEW m \in Nat, frame.op = "ping"
  PROVE  EchoPart(frame, k, d) \o [j \in 1 .. m |-> Byte(Plain(k, d + j))] = EchoPart(frame, k, d + m)
<1> DEFINE H(j) == Byte(Plain(k, j))
<1>1. \A j \in Nat : H(j) \in SentItems
  <2>1. ASSUME NEW j \in Nat PROVE H(j) \in SentItems
    <3>1. Plain(k, j) \in Octets
      BY OctetsOf
    <3> QED
      BY <3>1 DEF Byte, SentItems
  <2> QED
    BY <2>1
<1>2. PICK p : p = Pong(frame.len)
  OBVIOUS
<1>3. p \in SentItems
  <2>1. frame.len \in Nat /\ {} \in Octets
    BY DEF FrameSet, Octets
  <2> QED
    BY <1>2, <2>1 DEF Pong, SentItems
<1>4. /\ EchoPart(frame, k, d) = <<p>> \o [j \in 1 .. d |-> H(j)]
      /\ EchoPart(frame, k, d + m) = <<p>> \o [j \in 1 .. d + m |-> H(j)]
  BY <1>2 DEF EchoPart
<1> HIDE DEF H
<1>5. PICK C : C = [j \in 1 .. d + m |-> H(j)]
  OBVIOUS
<1>6. C \in [1 .. d + m -> SentItems]
  BY <1>1, <1>5
<1>7. PICK A : A = [j \in 1 .. d |-> H(j)]
  OBVIOUS
<1>8. PICK B : B = [j \in 1 .. m |-> H(d + j)]
  OBVIOUS
<1>9. A = [j \in 1 .. d |-> C[j]] /\ B = [j \in 1 .. m |-> C[d + j]]
  BY <1>5, <1>7, <1>8
<1>10. A \o B = C
  BY <1>6, <1>9, TwoParts
<1>11. A \in Seq(SentItems) /\ B \in Seq(SentItems) /\ <<p>> \in Seq(SentItems)
  <2>1. \A j \in 1 .. m : H(d + j) \in SentItems
    BY <1>1
  <2> QED
    BY <1>1, <1>3, <1>7, <1>8, <2>1
<1>12. (<<p>> \o A) \o B = <<p>> \o (A \o B)
  BY <1>11, ConcatAssociative
<1>13. EchoPart(frame, k, d) \o B = EchoPart(frame, k, d + m)
  BY <1>4, <1>5, <1>7, <1>10, <1>12
<1> QED
  BY <1>8, <1>13 DEF H

\* Whether the payload of frame k + 1 has begun after o bytes of it.
InBody(frames, k, o) == o > 0 /\ o >= HeadLen(frames[k + 1])

\* Socket s has seen n bytes of its frames: k frames and o bytes of the next one.
SeenTo(s, frames, n, k, o) ==
  /\ k \in 0 .. Len(frames) /\ n = Len(Upto(Wires(frames), k)) + o
  /\ \A i \in 1 .. k : ~Ends(frames[i])
  /\ o = 0 => s.status = ST_FLAGS
  /\ o > 0 => k < Len(frames)
  /\ o > 0 /\ ~InBody(frames, k, o) => HeadState(s, frames[k + 1], k + 1, o)
  /\ InBody(frames, k, o) =>
       /\ PayloadState(s, frames[k + 1], k + 1, o) /\ s.frameCont
       /\ ~Ends(frames[k + 1]) /\ o - HeadLen(frames[k + 1]) <= frames[k + 1].comes
       /\ o - HeadLen(frames[k + 1]) < frames[k + 1].len

\* What is heard of a frame, and what is sent for it.
HeardYet(frames, k, o) ==
  IF InBody(frames, k, o) THEN HeardPart(frames[k + 1], k + 1, o - HeadLen(frames[k + 1])) ELSE <<>>
EchoedYet(frames, k, o) ==
  IF InBody(frames, k, o) THEN EchoPart(frames[k + 1], k + 1, o - HeadLen(frames[k + 1])) ELSE <<>>

HeardTo(h, frames, k, o) == h = Upto(Hears(frames), k) \o HeardYet(frames, k, o)
EchoedTo(h, frames, k, o) == h = Upto(Echoes(frames), k) \o EchoedYet(frames, k, o)

\* Where a socket is after m bytes more of a payload of which there were d.
NextFrame(frames, k, d, m) == IF d + m = frames[k + 1].len THEN k + 1 ELSE k
NextByte(frames, k, d, m) == IF d + m = frames[k + 1].len THEN 0 ELSE HeadLen(frames[k + 1]) + (d + m)

LEMMA HeadLens ==
  ASSUME NEW frame \in FrameSet
  PROVE  HeadLen(frame) \in Nat /\ HeadLen(frame) >= 2
<1>1. ExtLen(frame) \in {0, 2, 8} /\ frame.masked \in BOOLEAN
  BY DEF FrameSet, ExtLen
<1> QED
  BY <1>1 DEF HeadLen

\* Behind it is either more of the payload or the next frame.
LEMMA NextAt ==
  ASSUME NEW frames \in Seq(FrameSet), NEW k \in 0 .. Len(frames) - 1,
         NEW d \in Nat, NEW m \in Nat
  PROVE  /\ NextFrame(frames, k, d, m) \in Nat /\ NextByte(frames, k, d, m) \in Nat
         /\ d + m = frames[k + 1].len =>
              /\ NextFrame(frames, k, d, m) = k + 1 /\ NextByte(frames, k, d, m) = 0
              /\ ~InBody(frames, k + 1, 0)
         /\ d + m # frames[k + 1].len =>
              /\ NextFrame(frames, k, d, m) = k
              /\ NextByte(frames, k, d, m) = HeadLen(frames[k + 1]) + (d + m)
              /\ InBody(frames, k, NextByte(frames, k, d, m))
              /\ NextByte(frames, k, d, m) - HeadLen(frames[k + 1]) = d + m
<1>1. frames[k + 1] \in FrameSet
  OBVIOUS
<1>2. HeadLen(frames[k + 1]) \in Nat /\ HeadLen(frames[k + 1]) >= 2
  BY <1>1, HeadLens
<1> QED
  BY <1>2, SMTT(30) DEF NextFrame, NextByte, InBody

\* Putting parts together, as their order is all that matters.
LEMMA HeardJoined ==
  \A a, b, c \in Seq(Octets) : (a \o b) \o c = a \o (b \o c)
  BY ConcatAssociative

LEMMA SentJoined ==
  \A a, b, c \in Seq(SentItems) : (a \o b) \o c = a \o (b \o c)
  BY ConcatAssociative

Continues(part, more, whole) == part \o more = whole

LEMMA NextIndex ==
  ASSUME NEW k \in Nat, NEW n \in Nat, k < n
  PROVE  k \in 0 .. n /\ k + 1 \in 1 .. n /\ k + 1 \in 0 .. n /\ (k + 1) - 1 = k
  OBVIOUS

LEMMA HeardMore ==
  ASSUME NEW frames \in Seq(FrameSet), NEW k \in 0 .. Len(frames) - 1, NEW o \in Nat,
         NEW d \in Nat, NEW m \in Nat, d + m <= frames[k + 1].comes,
         frames[k + 1].comes <= frames[k + 1].len, NEW h, HeardTo(h, frames, k, o),
         HeardYet(frames, k, o) \in Seq(Octets), NEW more \in Seq(Octets),
         Continues(HeardYet(frames, k, o), more, HeardPart(frames[k + 1], k + 1, d + m))
  PROVE  HeardTo(h \o more, frames, NextFrame(frames, k, d, m), NextByte(frames, k, d, m))
<1>1. frames[k + 1].comes \in Nat /\ frames[k + 1].len \in Nat
  <2>1. frames[k + 1] \in FrameSet
    OBVIOUS
  <2> QED
    BY <2>1 DEF FrameSet
<1>2. PICK H \in Seq(Seq(Octets)) : H = Hears(frames) /\ Len(H) = Len(frames)
  BY HearsTyped
<1>3. k \in Nat /\ k < Len(H) /\ k + 1 \in 1 .. Len(frames)
  BY <1>2
<1>4. PICK part \in Seq(Octets) : part = HeardYet(frames, k, o)
  OBVIOUS
<1>5. h = Upto(H, k) \o part
  BY <1>2, <1>4 DEF HeardTo, HeardYet
<1>6. PICK next : next = HeardPart(frames[k + 1], k + 1, d + m)
  OBVIOUS
<1>7. part \o more = next
  BY <1>4, <1>6 DEF Continues
<1>8. /\ (Upto(H, k) \o part) \o more = Upto(H, k) \o (part \o more)
      /\ part \o more = H[k + 1] => (Upto(H, k) \o part) \o more = Upto(H, k + 1) \o <<>>
  <2>1. k \in 0 .. Len(H) /\ k + 1 \in 1 .. Len(H) /\ k + 1 \in 0 .. Len(H) /\ (k + 1) - 1 = k
    <3>1. PICK n \in Nat : n = Len(H)
      BY <1>2
    <3>2. k \in Nat /\ k < n
      BY <1>3, <3>1, Zenon
    <3>3. k \in 0 .. n /\ k + 1 \in 1 .. n /\ k + 1 \in 0 .. n /\ (k + 1) - 1 = k
      BY <3>1, <3>2, NextIndex
    <3> QED
      BY <3>1, <3>3, Zenon
  <2>2. PICK U \in Seq(Octets) : U = Upto(H, k)
    BY <2>1, UptoStep
  <2>3. PICK V \in Seq(Octets) : V = Upto(H, k + 1)
    BY <2>1, UptoStep
  <2>4. Upto(H, k + 1) = Upto(H, (k + 1) - 1) \o H[k + 1]
    BY <2>1, UptoStep
  <2>5. V = U \o H[k + 1]
    BY <2>1, <2>2, <2>3, <2>4
  <2>6. PICK b \in Seq(Octets) : b = more
    OBVIOUS
  <2>7. (U \o part) \o b = U \o (part \o b)
    <3>1. U \in Seq(Octets) /\ part \in Seq(Octets) /\ b \in Seq(Octets)
      BY <1>4, <2>2, <2>6
    <3> QED
      BY <3>1, HeardJoined, ZenonT(40)
  <2>8. V \o <<>> = V
    BY ConcatEmptySeq
  <2> QED
    BY <2>2, <2>3, <2>5, <2>6, <2>7, <2>8
<1>9. /\ h \o more = Upto(H, k) \o next
      /\ next = H[k + 1] => h \o more = Upto(H, k + 1) \o <<>>
  BY <1>5, <1>7, <1>8, Zenon
<1>10. CASE d + m = frames[k + 1].len
  <2>1. /\ NextFrame(frames, k, d, m) = k + 1 /\ NextByte(frames, k, d, m) = 0
        /\ ~InBody(frames, k + 1, 0)
    BY <1>10 DEF NextFrame, NextByte, InBody
  <2>2. H[k + 1] = HeardPart(frames[k + 1], k + 1, frames[k + 1].comes)
    BY <1>2, <1>3, HearsTyped
  <2>3. d + m = frames[k + 1].comes
    <3>1. PICK comes \in Nat, len \in Nat : comes = frames[k + 1].comes /\ len = frames[k + 1].len
      BY <1>1
    <3> QED
      BY <1>10, <3>1, SMTT(30)
  <2>4. h \o more = Upto(H, k + 1) \o <<>>
    BY <1>6, <1>9, <2>2, <2>3
  <2> QED
    BY <1>2, <2>1, <2>4 DEF HeardTo, HeardYet
<1>11. CASE d + m # frames[k + 1].len
  <2>1. /\ NextFrame(frames, k, d, m) = k /\ InBody(frames, k, NextByte(frames, k, d, m))
        /\ NextByte(frames, k, d, m) - HeadLen(frames[k + 1]) = d + m
    <3>1. HeadLen(frames[k + 1]) \in Nat /\ HeadLen(frames[k + 1]) >= 2
      BY HeadLens, SMTT(30)
    <3> QED
      BY <1>11, <3>1 DEF NextFrame, NextByte, InBody
  <2> QED
    BY <1>2, <1>6, <1>9, <2>1 DEF HeardTo, HeardYet
<1> QED
  BY <1>10, <1>11

LEMMA EchoedMore ==
  ASSUME NEW frames \in Seq(FrameSet), NEW k \in 0 .. Len(frames) - 1, NEW o \in Nat,
         NEW d \in Nat, NEW m \in Nat, d + m <= frames[k + 1].comes,
         frames[k + 1].comes <= frames[k + 1].len, NEW h, EchoedTo(h, frames, k, o),
         EchoedYet(frames, k, o) \in Seq(SentItems), NEW more \in Seq(SentItems),
         Continues(EchoedYet(frames, k, o), more, EchoPart(frames[k + 1], k + 1, d + m))
  PROVE  EchoedTo(h \o more, frames, NextFrame(frames, k, d, m), NextByte(frames, k, d, m))
<1>1. frames[k + 1].comes \in Nat /\ frames[k + 1].len \in Nat
  <2>1. frames[k + 1] \in FrameSet
    OBVIOUS
  <2> QED
    BY <2>1 DEF FrameSet
<1>2. PICK H \in Seq(Seq(SentItems)) : H = Echoes(frames) /\ Len(H) = Len(frames)
  BY HearsTyped
<1>3. k \in Nat /\ k < Len(H) /\ k + 1 \in 1 .. Len(frames)
  BY <1>2
<1>4. PICK part \in Seq(SentItems) : part = EchoedYet(frames, k, o)
  OBVIOUS
<1>5. h = Upto(H, k) \o part
  BY <1>2, <1>4 DEF EchoedTo, EchoedYet
<1>6. PICK next : next = EchoPart(frames[k + 1], k + 1, d + m)
  OBVIOUS
<1>7. part \o more = next
  BY <1>4, <1>6 DEF Continues
<1>8. /\ (Upto(H, k) \o part) \o more = Upto(H, k) \o (part \o more)
      /\ part \o more = H[k + 1] => (Upto(H, k) \o part) \o more = Upto(H, k + 1) \o <<>>
  <2>1. k \in 0 .. Len(H) /\ k + 1 \in 1 .. Len(H) /\ k + 1 \in 0 .. Len(H) /\ (k + 1) - 1 = k
    <3>1. PICK n \in Nat : n = Len(H)
      BY <1>2
    <3>2. k \in Nat /\ k < n
      BY <1>3, <3>1, Zenon
    <3>3. k \in 0 .. n /\ k + 1 \in 1 .. n /\ k + 1 \in 0 .. n /\ (k + 1) - 1 = k
      BY <3>1, <3>2, NextIndex
    <3> QED
      BY <3>1, <3>3, Zenon
  <2>2. PICK U \in Seq(SentItems) : U = Upto(H, k)
    BY <2>1, UptoStep
  <2>3. PICK V \in Seq(SentItems) : V = Upto(H, k + 1)
    BY <2>1, UptoStep
  <2>4. Upto(H, k + 1) = Upto(H, (k + 1) - 1) \o H[k + 1]
    BY <2>1, UptoStep
  <2>5. V = U \o H[k + 1]
    BY <2>1, <2>2, <2>3, <2>4
  <2>6. PICK b \in Seq(SentItems) : b = more
    OBVIOUS
  <2>7. (U \o part) \o b = U \o (part \o b)
    <3>1. U \in Seq(SentItems) /\ part \in Seq(SentItems) /\ b \in Seq(SentItems)
      BY <1>4, <2>2, <2>6
    <3> QED
      BY <3>1, SentJoined, ZenonT(40)
  <2>8. V \o <<>> = V
    BY ConcatEmptySeq
  <2> QED
    BY <2>2, <2>3, <2>5, <2>6, <2>7, <2>8
<1>9. /\ h \o more = Upto(H, k) \o next
      /\ next = H[k + 1] => h \o more = Upto(H, k + 1) \o <<>>
  BY <1>5, <1>7, <1>8, Zenon
<1>10. CASE d + m = frames[k + 1].len
  <2>1. /\ NextFrame(frames, k, d, m) = k + 1 /\ NextByte(frames, k, d, m) = 0
        /\ ~InBody(frames, k + 1, 0)
    BY <1>10 DEF NextFrame, NextByte, InBody
  <2>2. H[k + 1] = EchoPart(frames[k + 1], k + 1, frames[k + 1].comes)
    BY <1>2, <1>3, HearsTyped
  <2>3. d + m = frames[k + 1].comes
    <3>1. PICK comes \in Nat, len \in Nat : comes = frames[k + 1].comes /\ len = frames[k + 1].len
      BY <1>1
    <3> QED
      BY <1>10, <3>1, SMTT(30)
  <2>4. h \o more = Upto(H, k + 1) \o <<>>
    BY <1>6, <1>9, <2>2, <2>3
  <2> QED
    BY <1>2, <2>1, <2>4 DEF EchoedTo, EchoedYet
<1>11. CASE d + m # frames[k + 1].len
  <2>1. /\ NextFrame(frames, k, d, m) = k /\ InBody(frames, k, NextByte(frames, k, d, m))
        /\ NextByte(frames, k, d, m) - HeadLen(frames[k + 1]) = d + m
    <3>1. HeadLen(frames[k + 1]) \in Nat /\ HeadLen(frames[k + 1]) >= 2
      BY HeadLens, SMTT(30)
    <3> QED
      BY <1>11, <3>1 DEF NextFrame, NextByte, InBody
  <2> QED
    BY <1>2, <1>6, <1>9, <2>1 DEF EchoedTo, EchoedYet
<1> QED
  BY <1>10, <1>11

\* What the parser looks at is the same of two sockets.
SameParser(s, t) ==
  /\ s.status = t.status /\ s.fin = t.fin /\ s.op = t.op /\ s.maskCtr = t.maskCtr
  /\ (s.frameCont <=> t.frameCont) /\ s.masked = t.masked /\ s.len7 = t.len7 /\ s.len = t.len
  /\ s.mask = t.mask

LEMMA SeenSame ==
  ASSUME NEW s, NEW t, SameParser(s, t), NEW frames, NEW n, NEW k, NEW o, SeenTo(s, frames, n, k, o)
  PROVE  SeenTo(t, frames, n, k, o)
<1>1. ASSUME NEW frame, NEW j, NEW p, HeadState(s, frame, j, p) PROVE HeadState(t, frame, j, p)
  <2>1. PICK ext : ext = ExtLen(frame)
    OBVIOUS
  <2>2. \A i : s.mask[i] = t.mask[i]
    BY DEF SameParser
  <2> QED
    BY <1>1, <2>1, <2>2, ZenonT(40) DEF SameParser, HeadState
<1>2. \A frame, j, p : PayloadState(s, frame, j, p) => PayloadState(t, frame, j, p)
  BY Zenon DEF SameParser, PayloadState
<1>3. s.status = t.status /\ (s.frameCont <=> t.frameCont)
  BY DEF SameParser
<1> QED
  BY <1>1, <1>2, <1>3, Zenon DEF SeenTo

\* How long a frame is on the wire, and that its payload fits.
LEMMA FrameLen ==
  ASSUME NEW frames, GoodFrames(frames), NEW k \in 0 .. Len(frames) - 1
  PROVE  /\ frames \in Seq(FrameSet) /\ frames[k + 1] \in FrameSet /\ k + 1 \in Nat
         /\ frames[k + 1].len \in Nat /\ frames[k + 1].comes \in Nat
         /\ frames[k + 1].comes <= frames[k + 1].len
         /\ frames[k + 1].comes < frames[k + 1].len => k + 1 = Len(frames) \/ Ends(frames[k + 1])
         /\ HeadLen(frames[k + 1]) \in Nat /\ HeadLen(frames[k + 1]) >= 2
         /\ Len(Encoded(frames[k + 1], k + 1)) = HeadLen(frames[k + 1]) + frames[k + 1].comes
         /\ LenFits(frames[k + 1]) /\ (frames[k + 1].op = "ping" => frames[k + 1].masked)
<1>1. frames \in Seq(FrameSet)
  BY DEF GoodFrames
<1>2. k + 1 \in DOMAIN frames /\ frames[k + 1] \in FrameSet /\ k + 1 \in Nat
  BY <1>1
<1>3. /\ LenFits(frames[k + 1]) /\ frames[k + 1].comes <= frames[k + 1].len
      /\ frames[k + 1].comes < frames[k + 1].len => k + 1 = Len(frames) \/ Ends(frames[k + 1])
      /\ frames[k + 1].op = "ping" => frames[k + 1].masked
  BY <1>2 DEF GoodFrames
<1>4. PICK f \in FrameSet : f = frames[k + 1]
  BY <1>2
<1>5. f.len \in Nat /\ f.comes \in Nat
  BY <1>4 DEF FrameSet
<1>6. HeadLen(f) \in Nat /\ HeadLen(f) >= 2
  BY <1>4, HeadLens
<1>7. Len(Encoded(f, k + 1)) = HeadLen(f) + f.comes
  <2>1. EncodedIs(f, k + 1, Encoded(f, k + 1))
    BY <1>2, <1>4, EncodedBytes
  <2> QED
    BY <2>1 DEF EncodedIs
<1> QED
  BY <1>1, <1>2, <1>3, <1>4, <1>5, <1>6, <1>7

\* The bytes behind the first n are those of frame k + 1 behind its first o.
Ahead(frames, n, k, o) ==
  \A i \in Nat : o + i < Len(Encoded(frames[k + 1], k + 1)) =>
    Bytes(frames)[n + 1 + i] = Encoded(frames[k + 1], k + 1)[o + 1 + i]

\* A byte that comes belongs to a frame, whose bytes are the next ones.
LEMMA Position ==
  ASSUME NEW frames, GoodFrames(frames), NEW s, NEW n \in Nat, NEW k \in Nat, NEW o \in Nat,
         SeenTo(s, frames, n, k, o), n < Len(Bytes(frames))
  PROVE  /\ k \in 0 .. Len(frames) - 1 /\ o < Len(Encoded(frames[k + 1], k + 1))
         /\ Len(Upto(Wires(frames), k)) \in Nat /\ n = Len(Upto(Wires(frames), k)) + o
         /\ Ahead(frames, n, k, o)
<1>1. /\ frames \in Seq(FrameSet) /\ k \in 0 .. Len(frames) /\ n = Len(Upto(Wires(frames), k)) + o
      /\ o > 0 => k < Len(frames)
  BY DEF SeenTo, GoodFrames
<1>2. PICK L \in Nat : L = Len(frames)
  BY <1>1
<1>3. PICK W \in Seq(Seq(WireBytes)) : W = Wires(frames) /\ Len(W) = L /\ Bytes(frames) = FlattenSeq(W)
  BY <1>1, <1>2, WiresTyped
<1>4. Bytes(frames) = Upto(W, L)
  BY <1>3, UptoStep
<1>5. PICK q \in Nat : q = Len(Upto(Wires(frames), k)) /\ n = q + o
  <2>1. Upto(W, k) \in Seq(WireBytes)
    BY <1>1, <1>2, <1>3, UptoStep
  <2>2. Len(Upto(W, k)) \in Nat
    BY <2>1
  <2> QED
    BY <1>1, <1>3, <2>2
<1>6. k \in 0 .. L - 1
  <2>1. CASE k < L
    BY <1>1, <1>2, <2>1
  <2>2. CASE ~(k < L)
    <3>1. k = L /\ o = 0
      BY <1>1, <1>2, <2>2
    <3>2. n = Len(Bytes(frames))
      BY <1>3, <1>4, <1>5, <3>1
    <3> QED
      BY <3>2
  <2> QED
    BY <2>1, <2>2
<1>7. PICK E : E = Encoded(frames[k + 1], k + 1)
  OBVIOUS
<1>8. PICK e1 \in Nat : /\ e1 = Len(E) /\ Len(Upto(Wires(frames), k + 1)) = q + e1
                        /\ \A j \in 1 .. e1 : Bytes(frames)[q + j] = E[j]
  BY <1>1, <1>2, <1>5, <1>6, <1>7, FrameAt, ZenonT(40)
<1>9. PICK hl \in Nat, comes \in Nat, len \in Nat :
         /\ hl = HeadLen(frames[k + 1]) /\ comes = frames[k + 1].comes /\ len = frames[k + 1].len
         /\ e1 = hl + comes /\ hl >= 2 /\ comes <= len
         /\ comes < len => k + 1 = L \/ Ends(frames[k + 1])
  BY <1>2, <1>6, <1>7, <1>8, FrameLen
<1>10. o < e1
  <2>1. CASE ~InBody(frames, k, o)
    BY <1>9, <2>1, SMTT(30) DEF InBody
  <2>2. CASE InBody(frames, k, o)
    <3>1. ~Ends(frames[k + 1]) /\ o - hl <= comes /\ o - hl < len
      BY <1>9, <2>2 DEF SeenTo
    <3>2. CASE o - hl < comes
      BY <1>9, <3>2, SMTT(30)
    <3>3. CASE ~(o - hl < comes)
      <4>1. o - hl = comes /\ comes < len
        BY <3>1, <3>3
      <4>2. k + 1 = L
        BY <1>9, <3>1, <4>1
      <4>3. n = q + e1
        <5>1. PICK oo \in Nat : oo = o
          OBVIOUS
        <5>2. oo = e1
          BY <1>8, <1>9, <4>1, <5>1
        <5> QED
          BY <1>5, <5>1, <5>2
      <4>4. n = Len(Bytes(frames))
        BY <1>3, <1>4, <1>8, <4>2, <4>3
      <4> QED
        BY <4>4
    <3> QED
      BY <3>2, <3>3
  <2> QED
    BY <2>1, <2>2
<1>11. ASSUME NEW i \in Nat, o + i < e1 PROVE Bytes(frames)[n + 1 + i] = E[o + 1 + i]
  <2>1. PICK j \in 1 .. e1 : j = o + 1 + i /\ q + j = n + 1 + i
    BY <1>5, <1>8, <1>11
  <2>2. Bytes(frames)[q + j] = E[j]
    BY <1>8, <2>1
  <2> QED
    BY <2>1, <2>2
<1>12. Ahead(frames, n, k, o)
  BY <1>7, <1>8, <1>11 DEF Ahead
<1> QED
  BY <1>2, <1>5, <1>6, <1>7, <1>8, <1>10, <1>12

\* Sums the proofs below keep needing.
LEMMA FitsIn ==
  ASSUME NEW q \in Nat, NEW hl \in Nat, NEW comes \in Nat, NEW y \in Nat, q + (hl + y) <= q + (hl + comes)
  PROVE  y <= comes
  OBVIOUS

LEMMA RestOf ==
  ASSUME NEW m \in Nat, NEW nw \in Nat, NEW len \in 0 .. nw
  PROVE  (m + nw) - (nw - len) = m + len
  OBVIOUS

LEMMA SameSum ==
  ASSUME NEW q \in Nat, NEW o \in Nat, NEW hl \in Nat, NEW d \in Nat, NEW z \in Nat, NEW m \in Nat,
         hl + d = o + z
  PROVE  (q + o) + z + m = q + (hl + (d + m))
  OBVIOUS

LEMMA SliceOf ==
  ASSUME NEW s, NEW st \in Nat, NEW m \in Nat
  PROVE  SubSeq(s, st, st + m - 1) = [j \in 1 .. m |-> s[st + j - 1]]
<1>1. (st + m - 1) - st + 1 = m
  OBVIOUS
<1> QED
  BY <1>1

LEMMA ByteSum ==
  ASSUME NEW o \in Nat, NEW hl \in Nat, NEW d \in Nat, NEW z \in {0, 1}, NEW j \in Nat, NEW i \in Nat,
         i = z + j - 1, hl + d = o + z
  PROVE  o + i = (hl + (d + j)) - 1 /\ o + 1 + i = hl + (d + j)
  OBVIOUS

\* What has come of a payload is no more than comes of it.
LEMMA PayloadFits ==
  ASSUME NEW frames, GoodFrames(frames), NEW k \in 0 .. Len(frames) - 1, ~Ends(frames[k + 1]),
         NEW d \in Nat, NEW m \in Nat, d + m <= frames[k + 1].len,
         Len(Upto(Wires(frames), k)) + (HeadLen(frames[k + 1]) + (d + m)) <= Len(Bytes(frames))
  PROVE  d + m <= frames[k + 1].comes
<1>1. frames \in Seq(FrameSet)
  BY FrameLen
<1>2. PICK L \in Nat : L = Len(frames)
  BY <1>1
<1>3. PICK W \in Seq(Seq(WireBytes)) : W = Wires(frames) /\ Len(W) = L /\ Bytes(frames) = FlattenSeq(W)
  BY <1>1, <1>2, WiresTyped
<1>4. Bytes(frames) = Upto(W, L)
  BY <1>3, UptoStep
<1>5. PICK q \in Nat : q = Len(Upto(Wires(frames), k))
  <2>0. k \in 0 .. Len(W)
    BY <1>2, <1>3
  <2>1. Upto(W, k) \in Seq(WireBytes)
    BY <1>3, <2>0, UptoStep
  <2>2. Len(Upto(W, k)) \in Nat
    BY <2>1
  <2> QED
    BY <1>3, <2>2
<1>6. PICK hl \in Nat, comes \in Nat, len \in Nat :
         /\ hl = HeadLen(frames[k + 1]) /\ comes = frames[k + 1].comes /\ len = frames[k + 1].len
         /\ Len(Encoded(frames[k + 1], k + 1)) = hl + comes /\ comes <= len
         /\ comes < len => k + 1 = L
  BY <1>2, FrameLen
<1>7. CASE comes = len
  BY <1>6, <1>7
<1>8. CASE comes # len
  <2>1. k + 1 = L
    BY <1>6, <1>8, SMTT(30)
  <2>2. Len(Upto(Wires(frames), k + 1)) = q + (hl + comes)
    BY <1>1, <1>5, <1>6, FrameAt, ZenonT(40)
  <2>3. Len(Bytes(frames)) = q + (hl + comes)
    BY <1>3, <1>4, <2>1, <2>2
  <2>4. PICK y \in Nat : y = d + m
    OBVIOUS
  <2>5. q + (hl + y) <= q + (hl + comes)
    BY <1>5, <1>6, <2>3, <2>4
  <2>6. y <= comes
    BY <1>5, <1>6, <2>4, <2>5, FitsIn
  <2> QED
    BY <1>6, <2>4, <2>6
<1> QED
  BY <1>7, <1>8

\* A turn that stays in the head.
HeadGoesOn(s, t, frames, n, k, o) ==
  /\ s.status # ST_PAYLOAD /\ t.status # ST_PAYLOAD
  /\ ~InBody(frames, k, o) /\ ~InBody(frames, k, o + 1)
  /\ SeenTo(t, frames, n + 1, k, o + 1)

\* A turn with d bytes of the payload behind it, in which s has become t.
Paying(s, t, frames, k, o, d) ==
  /\ PayloadState(t, frames[k + 1], k + 1, HeadLen(frames[k + 1]) + d)
  /\ d <= frames[k + 1].comes
  /\ HeadLen(frames[k + 1]) + d = o + IF s.status # ST_PAYLOAD THEN 1 ELSE 0
  /\ InBody(frames, k, o) => /\ s.status = ST_PAYLOAD /\ t = s /\ t.frameCont
                             /\ ~Ends(frames[k + 1]) /\ o = HeadLen(frames[k + 1]) + d
  /\ ~InBody(frames, k, o) => s.status # ST_PAYLOAD /\ ~t.frameCont /\ d = 0

\* What a turn makes of the next byte.
LEMMA Turn ==
  ASSUME NEW frames, GoodFrames(frames), NEW s, IsSock(s), NEW n \in Nat, NEW k \in Nat, NEW o \in Nat,
         SeenTo(s, frames, n, k, o), n < Len(Bytes(frames)),
         NEW t, t = HeadByte(s, Bytes(frames)[n + 1])
  PROVE  HeadGoesOn(s, t, frames, n, k, o) \/ \E d \in Nat : Paying(s, t, frames, k, o, d)
<1>1. /\ k \in 0 .. Len(frames) - 1 /\ o < Len(Encoded(frames[k + 1], k + 1))
      /\ Len(Upto(Wires(frames), k)) \in Nat /\ n = Len(Upto(Wires(frames), k)) + o
      /\ Ahead(frames, n, k, o)
  BY Position
<1>2. PICK E : E = Encoded(frames[k + 1], k + 1)
  OBVIOUS
<1>3. PICK b : b = Bytes(frames)[n + 1] /\ b = E[o + 1]
  <2>1. o + 0 < Len(E) /\ n + 1 + 0 = n + 1 /\ o + 1 + 0 = o + 1 /\ 0 \in Nat
    BY <1>1, <1>2
  <2>2. Bytes(frames)[n + 1 + 0] = E[o + 1 + 0]
    BY <1>1, <1>2, <2>1 DEF Ahead
  <2> QED
    BY <2>1, <2>2
<1>4. PICK f \in FrameSet : f = frames[k + 1] /\ LenFits(f) /\ k + 1 \in Nat
  BY <1>1, FrameLen
<1>5. PICK hl \in Nat, len \in Nat, comes \in Nat :
         /\ hl = HeadLen(f) /\ len = f.len /\ comes = f.comes /\ hl >= 2 /\ comes <= len
  BY <1>1, <1>4, FrameLen
<1>6. CASE ~InBody(frames, k, o)
  <2>1. o \in 0 .. hl - 1
    BY <1>4, <1>5, <1>6 DEF InBody
  <2>2. o = 0 => s.status = ST_FLAGS
    BY DEF SeenTo
  <2>3. o > 0 => HeadState(s, f, k + 1, o)
    BY <1>4, <1>6 DEF SeenTo
  <2>4. t = HeadByte(s, Encoded(f, k + 1)[o + 1])
    BY <1>2, <1>3, <1>4
  <2>5. /\ s.status # ST_PAYLOAD
        /\ InHead(t, f, k + 1, o + 1) \/ HeadEnds(t, f, k + 1, o + 1)
    <3>1. o \in 0 .. HeadLen(f) - 1 /\ LenFits(f) /\ k + 1 \in Nat
      BY <1>4, <1>5, <2>1
    <3> QED
      BY <2>2, <2>3, <2>4, <3>1, HeadStep
  <2>6. CASE InHead(t, f, k + 1, o + 1)
    <3>1. o + 1 < hl /\ t.status # ST_PAYLOAD /\ HeadState(t, f, k + 1, o + 1)
      BY <1>5, <2>6 DEF InHead
    <3>2. ~InBody(frames, k, o + 1)
      BY <1>4, <1>5, <3>1 DEF InBody
    <3>3. SeenTo(t, frames, n + 1, k, o + 1)
      <4>1. n + 1 = Len(Upto(Wires(frames), k)) + (o + 1) /\ o + 1 > 0 /\ o + 1 # 0
        BY <1>1
      <4>2. k \in 0 .. Len(frames) /\ k < Len(frames) /\ \A i \in 1 .. k : ~Ends(frames[i])
        BY <1>1 DEF SeenTo
      <4> QED
        BY <1>4, <3>1, <3>2, <4>1, <4>2 DEF SeenTo
    <3> QED
      BY <1>6, <2>5, <3>1, <3>2, <3>3 DEF HeadGoesOn
  <2>7. CASE HeadEnds(t, f, k + 1, o + 1)
    <3>1. o + 1 = hl /\ PayloadState(t, f, k + 1, o + 1) /\ ~t.frameCont
      BY <1>5, <2>7 DEF HeadEnds
    <3>2. hl + 0 = o + 1 /\ 0 <= comes /\ 0 \in Nat
      BY <1>5, <3>1
    <3>3. Paying(s, t, frames, k, o, 0)
      BY <1>4, <1>5, <1>6, <2>5, <3>1, <3>2 DEF Paying
    <3> QED
      BY <3>2, <3>3
  <2> QED
    BY <2>5, <2>6, <2>7
<1>7. CASE InBody(frames, k, o)
  <2>1. /\ PayloadState(s, f, k + 1, o) /\ s.frameCont
        /\ ~Ends(f) /\ o - hl <= comes /\ o - hl < len
    BY <1>4, <1>5, <1>7 DEF SeenTo
  <2>2. PICK d \in Nat : d = o - hl /\ o = hl + d
    <3>1. o >= hl
      BY <1>4, <1>5, <1>7 DEF InBody
    <3> QED
      BY <1>5, <3>1, SMTT(30)
  <2>3. s.status = ST_PAYLOAD
    BY <2>1 DEF PayloadState
  <2>4. t = s
    BY <2>3 DEF HeadByte, ST_FLAGS, ST_LEN0, ST_LEN1, ST_LEN8, ST_MASK1, ST_MASK4, ST_PAYLOAD
  <2>5. hl + d = o + 0 /\ d <= comes
    BY <1>5, <2>1, <2>2
  <2>6. Paying(s, t, frames, k, o, d)
    BY <1>4, <1>5, <1>7, <2>1, <2>2, <2>3, <2>4, <2>5 DEF Paying
  <2> QED
    BY <2>2, <2>6
<1> QED
  BY <1>6, <1>7

\* Socket t after m bytes of payload.
AfterOf(t, m, u) ==
  /\ u.fin = t.fin /\ u.op = t.op /\ u.masked = t.masked /\ u.mask = t.mask
  /\ u.maskCtr = (t.maskCtr + m) % 4 /\ u.len = t.len - m
  /\ u.status = IF t.len = m THEN ST_FLAGS ELSE t.status
  /\ t.len # m => u.frameCont

LEMMA BodyTurn ==
  ASSUME NEW frames, GoodFrames(frames), NEW s, NEW t, NEW n \in Nat, NEW k \in Nat, NEW o \in Nat,
         SeenTo(s, frames, n, k, o), n < Len(Bytes(frames)),
         NEW d \in Nat, Paying(s, t, frames, k, o, d), ~Ends(frames[k + 1]),
         NEW m \in Nat, d + m <= frames[k + 1].comes, NEW u, AfterOf(t, m, u)
  PROVE  SeenTo(u, frames, Len(Upto(Wires(frames), k)) + (HeadLen(frames[k + 1]) + (d + m)),
                NextFrame(frames, k, d, m), NextByte(frames, k, d, m))
<1>1. k \in 0 .. Len(frames) - 1 /\ Len(Upto(Wires(frames), k)) \in Nat
  BY Position
<1>2. PICK f \in FrameSet : f = frames[k + 1] /\ frames \in Seq(FrameSet)
  BY <1>1, FrameLen
<1>3. PICK hl \in Nat, len \in Nat, comes \in Nat :
         /\ hl = HeadLen(f) /\ len = f.len /\ comes = f.comes /\ hl >= 2 /\ comes <= len
         /\ Len(Encoded(frames[k + 1], k + 1)) = hl + comes
  BY <1>1, <1>2, FrameLen
<1>4. PICK L \in Nat : L = Len(frames) /\ k < L /\ k + 1 \in 0 .. L /\ k \in 0 .. L
  BY <1>1, <1>2
<1>5. PICK q \in Nat : q = Len(Upto(Wires(frames), k))
  BY <1>1
<1>6. \A i \in 1 .. k + 1 : ~Ends(frames[i])
  <2>1. \A i \in 1 .. k : ~Ends(frames[i])
    BY DEF SeenTo
  <2> QED
    BY <2>1
<1>7. /\ t.fin = f.fin /\ t.op = f.op /\ t.masked = f.masked /\ t.status = ST_PAYLOAD
      /\ t.len = len - d /\ t.maskCtr = d % 4
      /\ f.masked => \A i \in 1 .. 4 : t.mask[i] = MaskByte(k + 1, i)
  <2>1. PayloadState(t, f, k + 1, hl + d)
    BY <1>2, <1>3 DEF Paying
  <2>2. (hl + d) - hl = d
    BY <1>3
  <2> QED
    BY <1>3, <2>1, <2>2 DEF PayloadState
<1>8. PICK dm \in Nat : dm = d + m /\ dm <= comes /\ dm - d = m
  <2>1. d + m <= comes
    BY <1>2, <1>3
  <2>2. d + m \in Nat /\ (d + m) - d = m
    OBVIOUS
  <2> QED
    BY <2>1, <2>2
<1>9. CASE d + m = len
  <2>1. /\ NextFrame(frames, k, d, m) = k + 1 /\ NextByte(frames, k, d, m) = 0
    BY <1>2, <1>3, <1>9 DEF NextFrame, NextByte
  <2>2. u.status = ST_FLAGS
    <3>1. t.len = m
      BY <1>3, <1>7, <1>9, SMTT(30)
    <3> QED
      BY <3>1 DEF AfterOf
  <2>3. q + (hl + (d + m)) = Len(Upto(Wires(frames), k + 1)) + 0
    <3>1. Len(Upto(Wires(frames), k + 1)) = q + (hl + comes)
      <4>1. Len(Upto(Wires(frames), k + 1)) = q + Len(Encoded(frames[k + 1], k + 1))
        BY <1>1, <1>2, <1>5, FrameAt
      <4> QED
        BY <1>3, <4>1
    <3>2. d + m = comes
      BY <1>3, <1>8, <1>9, SMTT(30)
    <3> QED
      BY <1>3, <1>5, <3>1, <3>2, SMTT(30)
  <2>4. SeenTo(u, frames, q + (hl + (d + m)), k + 1, 0)
    <3>1. ~InBody(frames, k + 1, 0)
      BY DEF InBody
    <3> QED
      BY <1>4, <1>6, <2>2, <2>3, <3>1 DEF SeenTo
  <2> QED
    BY <1>2, <1>3, <1>5, <2>1, <2>4
<1>10. CASE d + m # len
  <2>1. /\ NextFrame(frames, k, d, m) = k /\ NextByte(frames, k, d, m) = hl + (d + m)
    BY <1>2, <1>3, <1>10 DEF NextFrame, NextByte
  <2>2. PICK p \in Nat : p = hl + dm /\ p > 0 /\ p # 0 /\ p - hl = d + m /\ p >= hl
    <3>1. hl + dm \in Nat /\ hl + dm > 0 /\ hl + dm # 0 /\ (hl + dm) - hl = dm /\ hl + dm >= hl
      <4>1. hl \in Nat /\ hl >= 2 /\ dm \in Nat
        BY <1>3, <1>8
      <4> QED
        BY <4>1
    <3> QED
      BY <1>8, <3>1
  <2>3. InBody(frames, k, p)
    BY <1>2, <1>3, <2>2 DEF InBody
  <2>4. t.len # m
    <3>1. len - d # m
      <4>1. len # d + m /\ len \in Nat
        BY <1>3, <1>10
      <4> QED
        BY <4>1
    <3> QED
      BY <1>7, <3>1
  <2>5. u.frameCont /\ u.status = ST_PAYLOAD
    BY <1>7, <2>4 DEF AfterOf
  <2>6. PayloadState(u, f, k + 1, p)
    <3>1. u.len = len - (d + m)
      <4>1. u.len = t.len - m
        BY DEF AfterOf
      <4>2. (len - d) - m = len - (d + m)
        <5>1. len \in Nat
          BY <1>3
        <5> QED
          BY <5>1
      <4> QED
        BY <1>7, <4>1, <4>2
    <3>2. u.maskCtr = (d + m) % 4
      <4>1. u.maskCtr = ((d % 4) + m) % 4
        BY <1>7 DEF AfterOf
      <4> QED
        BY <4>1, AddMod
    <3>3. /\ u.fin = f.fin /\ u.op = f.op /\ u.masked = f.masked
          /\ f.masked => \A i \in 1 .. 4 : u.mask[i] = MaskByte(k + 1, i)
      BY <1>7, Zenon DEF AfterOf
    <3> QED
      BY <1>3, <2>2, <2>5, <3>1, <3>2, <3>3 DEF PayloadState
  <2>7. d + m < len
    <3>1. dm # len /\ dm <= comes /\ comes <= len /\ len \in Nat /\ comes \in Nat
      BY <1>3, <1>8, <1>10
    <3> QED
      BY <1>8, <3>1, SMTT(30)
  <2>8. SeenTo(u, frames, q + p, k, p)
    BY <1>2, <1>3, <1>4, <1>5, <1>6, <1>8, <2>2, <2>3, <2>5, <2>6, <2>7 DEF SeenTo
  <2> QED
    BY <1>2, <1>3, <1>5, <2>1, <2>2, <2>8
<1> QED
  BY <1>9, <1>10

\* How many bytes have come from a client, and how many of them were looked at.
Came(c) == Len(Bytes(script[c])) - Len(wire[c])
Seen(c) == Came(c) - IF cur = c THEN Len(piece) - at + 1 ELSE 0

OutTypes ==
  /\ said \in [Socks -> Seq(SentItems)] /\ buf \in [Socks -> Seq(SentItems)]
  /\ spoilt \in [Socks -> BOOLEAN]
FrameTypes ==
  /\ script \in Scripts \cup {NoScript}
  /\ wire \in [Socks -> Seq(WireBytes)] /\ piece \in Seq(WireBytes)
  /\ heard \in [Socks -> Seq(Octets)] /\ OutTypes

\* What has come and what is still to come are the bytes of the frames.
WireOf(c) ==
  /\ Came(c) \in Nat
  /\ \A i \in 1 .. Len(wire[c]) : wire[c][i] = Bytes(script[c])[Came(c) + i]
  /\ sock[c].st = "none" => Came(c) = 0
PieceOf(c) ==
  /\ Len(piece) <= Came(c)
  /\ \A i \in 1 .. Len(piece) : piece[i] = Bytes(script[c])[Came(c) - Len(piece) + i]
WireInv ==
  /\ \A c \in Socks : WireOf(c)
  /\ at \in 1 .. Len(piece) + 1
  /\ cur # NoSock => PieceOf(cur)

LenInv ==
  \A c \in Socks : /\ sock[c].len \in Nat /\ sock[c].maskCtr \in 0 .. 3
                   /\ sock[c].st = "none" => sock[c].status = ST_FLAGS

\* What was sent, flushed or not.
Out(c) == said[c] \o buf[c]

\* Every pong is complete, but for the n bytes that the last one still gets.
WholeBut(items, n) ==
  \A p \in DOMAIN items : items[p].kind = "pong" =>
    /\ \A q \in p + 1 .. Len(items) : q <= p + items[p].len => items[q].kind = "byte"
    /\ p + items[p].len <= Len(items) + n
LeftOf(s) == IF InPong(s) THEN s.len ELSE 0

\* The socket has seen k frames and o bytes of the next one, the application has
\* heard them and the client was answered.
Following(c, k, o) ==
  /\ SeenTo(sock[c], script[c], Seen(c), k, o)
  /\ HeardTo(heard[c], script[c], k, o)
  /\ ~spoilt[c] => EchoedTo(Pongs(Out(c)), script[c], k, o)

\* A socket that is done has heard the beginning of its frames.
Followed(c) ==
  /\ IsPrefix(heard[c], ToHear(script[c]))
  /\ ~spoilt[c] => IsPrefix(Pongs(Out(c)), ToEcho(script[c]))

SockFrames(c) ==
  /\ IF sock[c].st = "open" THEN \E k, o \in Nat : Following(c, k, o) ELSE Followed(c)
  /\ sock[c].st = "none" => heard[c] = <<>> /\ (~spoilt[c] => Pongs(Out(c)) = <<>>)
  /\ ~spoilt[c] => WholeBut(Out(c), LeftOf(sock[c]))

FramesInv == FrameTypes /\ WireInv /\ LenInv /\ \A c \in Socks : SockFrames(c)

\* The frames that count are those before the first that ends the socket.
LEMMA CountedTo ==
  ASSUME NEW frames \in Seq(FrameSet)
  PROVE  \E K \in 0 .. Len(frames) :
           /\ ToHear(frames) = Upto(Hears(frames), K) /\ ToEcho(frames) = Upto(Echoes(frames), K)
           /\ \A k \in 0 .. Len(frames) : (\A i \in 1 .. k : ~Ends(frames[i])) => k <= K
<1>1. PICK n \in Nat : n = Len(frames) /\ DOMAIN frames = 1 .. n
  OBVIOUS
<1> DEFINE ends == {k \in DOMAIN frames : Ends(frames[k])}
<1>2. PICK K \in 0 .. n : /\ Counted(frames) \in Seq(FrameSet) /\ Len(Counted(frames)) = K
                          /\ \A k \in 0 .. n : (\A i \in 1 .. k : ~Ends(frames[i])) => k <= K
  <2>1. CASE ends = {}
    <3>1. Counted(frames) = frames
      BY <2>1 DEF Counted
    <3>2. n \in 0 .. n
      BY <1>1
    <3> QED
      BY <1>1, <3>1, <3>2
  <2>2. CASE ends # {}
    <3>1. PICK m : m = Min(ends)
      OBVIOUS
    <3>2. m \in 1 .. n /\ Ends(frames[m])
      <4>1. ends \in SUBSET Nat /\ ends \subseteq 1 .. n /\ \A i \in ends : Ends(frames[i])
        BY <1>1
      <4> HIDE DEF ends
      <4>2. m \in ends
        BY <2>2, <3>1, <4>1, MinOfNats
      <4> QED
        BY <4>1, <4>2
    <3>3. Counted(frames) = SubSeq(frames, 1, m - 1)
      BY <2>2, <3>1 DEF Counted
    <3>4. Counted(frames) \in Seq(FrameSet) /\ Len(Counted(frames)) = m - 1
      BY <1>1, <3>2, <3>3, SubSeqProperties
    <3>5. m - 1 \in 0 .. n
      BY <1>1, <3>2
    <3>6. ASSUME NEW k \in 0 .. n, \A i \in 1 .. k : ~Ends(frames[i]) PROVE k <= m - 1
      BY <3>2, <3>6
    <3> QED
      BY <3>4, <3>5, <3>6
  <2> QED
    BY <2>1, <2>2
<1>3. DOMAIN Counted(frames) = 1 .. K
  BY <1>2
<1>4. PICK H \in Seq(Seq(Octets)) : /\ H = Hears(frames) /\ Len(H) = n
                                        /\ \A k \in 1 .. n : H[k] = HeardPart(frames[k], k, frames[k].comes)
  BY <1>1, HearsTyped
<1>5. PICK G \in Seq(Seq(SentItems)) : /\ G = Echoes(frames) /\ Len(G) = n
                                        /\ \A k \in 1 .. n : G[k] = EchoPart(frames[k], k, frames[k].comes)
  BY <1>1, HearsTyped
<1>6. ToHear(frames) = FlattenSeq([k \in 1 .. K |-> HeardPart(frames[k], k, frames[k].comes)])
  BY <1>3 DEF ToHear, HeardPart
<1>7. ToEcho(frames) = FlattenSeq([k \in 1 .. K |-> EchoPart(frames[k], k, frames[k].comes)])
  BY <1>3 DEF ToEcho, EchoPart
<1>8. [k \in 1 .. K |-> HeardPart(frames[k], k, frames[k].comes)] = SubSeq(H, 1, K)
  <2>1. \A k \in 1 .. K : H[k] = HeardPart(frames[k], k, frames[k].comes)
    BY <1>4
  <2>2. SubSeq(H, 1, K) = [k \in 1 .. K |-> H[k]]
    BY <1>1, <1>2, <1>4
  <2> QED
    BY <2>1, <2>2
<1>9. [k \in 1 .. K |-> EchoPart(frames[k], k, frames[k].comes)] = SubSeq(G, 1, K)
  <2>1. \A k \in 1 .. K : G[k] = EchoPart(frames[k], k, frames[k].comes)
    BY <1>5
  <2>2. SubSeq(G, 1, K) = [k \in 1 .. K |-> G[k]]
    BY <1>1, <1>2, <1>5
  <2> QED
    BY <2>1, <2>2
<1> QED
  BY <1>1, <1>2, <1>4, <1>5, <1>6, <1>7, <1>8, <1>9 DEF Upto

\* A frame's payload begins with what has come of it.
LEMMA PartOfWhole ==
  ASSUME NEW frame \in FrameSet, NEW k \in Nat, NEW d \in Nat, d <= frame.comes
  PROVE  /\ \E u \in Seq(Octets) : Continues(HeardPart(frame, k, d), u, HeardPart(frame, k, frame.comes))
         /\ \E u \in Seq(SentItems) : Continues(EchoPart(frame, k, d), u, EchoPart(frame, k, frame.comes))
<1>1. PICK m \in Nat : frame.comes = d + m
  <2>1. frame.comes \in Nat
    BY DEF FrameSet
  <2>2. frame.comes - d \in Nat /\ frame.comes = d + (frame.comes - d)
    BY <2>1
  <2> QED
    BY <2>2
<1>2. \E u \in Seq(Octets) : Continues(HeardPart(frame, k, d), u, HeardPart(frame, k, d + m))
  <2>1. CASE frame.op \in DataOps
    <3> DEFINE G(j) == Plain(k, d + j)
    <3>1. \A j \in 1 .. m : G(j) \in Octets
      BY OctetsOf
    <3>2. HeardPart(frame, k, d) \o [j \in 1 .. m |-> G(j)] = HeardPart(frame, k, d + m)
      BY <2>1, MoreHeard
    <3> HIDE DEF G
    <3>3. [j \in 1 .. m |-> G(j)] \in Seq(Octets)
      BY <3>1
    <3> QED
      BY <3>2, <3>3, Zenon DEF Continues
  <2>2. CASE frame.op \notin DataOps
    <3>1. <<>> \in Seq(Octets) /\ <<>> \o <<>> = <<>>
      OBVIOUS
    <3> QED
      BY <2>2, <3>1, Zenon DEF Continues, HeardPart
  <2> QED
    BY <2>1, <2>2
<1>3. \E u \in Seq(SentItems) : Continues(EchoPart(frame, k, d), u, EchoPart(frame, k, d + m))
  <2>1. CASE frame.op = "ping"
    <3> DEFINE G(j) == Byte(Plain(k, d + j))
    <3>1. \A j \in 1 .. m : G(j) \in SentItems
      <4>1. ASSUME NEW j \in 1 .. m PROVE G(j) \in SentItems
        <5>1. Plain(k, d + j) \in Octets
          BY OctetsOf
        <5> QED
          BY <5>1 DEF Byte, SentItems
      <4> QED
        BY <4>1
    <3>2. EchoPart(frame, k, d) \o [j \in 1 .. m |-> G(j)] = EchoPart(frame, k, d + m)
      BY <2>1, MoreSent
    <3> HIDE DEF G
    <3>3. [j \in 1 .. m |-> G(j)] \in Seq(SentItems)
      BY <3>1
    <3> QED
      BY <3>2, <3>3, Zenon DEF Continues
  <2>2. CASE frame.op # "ping"
    <3>1. <<>> \in Seq(SentItems) /\ <<>> \o <<>> = <<>>
      OBVIOUS
    <3> QED
      BY <2>2, <3>1, Zenon DEF Continues, EchoPart
  <2> QED
    BY <2>1, <2>2
<1> QED
  BY <1>1, <1>2, <1>3, Zenon

\* Putting parts together, as their order is all that matters.
Grouping(S) == \A a, b, c \in Seq(S) : (a \o b) \o c = a \o (b \o c) /\ a \o b \in Seq(S)

LEMMA Joined ==
  ASSUME NEW S PROVE Grouping(S)
<1>1. ASSUME NEW a \in Seq(S), NEW b \in Seq(S), NEW c \in Seq(S)
      PROVE  (a \o b) \o c = a \o (b \o c) /\ a \o b \in Seq(S)
  BY ConcatAssociative, ConcatProperties, SMTT(30)
<1> QED
  BY <1>1 DEF Grouping

Associates(S) == \A a, b, c \in Seq(S) : (a \o b) \o c = a \o (b \o c)

LEMMA Associative ==
  ASSUME NEW S PROVE Associates(S)
  BY ConcatAssociative DEF Associates

\* Whole parts, and one that goes on.
LEMMA PartBegins ==
  ASSUME NEW S, NEW H \in Seq(Seq(S)), NEW k \in 0 .. Len(H) - 1, NEW K \in k + 1 .. Len(H),
         NEW part \in Seq(S), NEW more \in Seq(S), Continues(part, more, H[k + 1])
  PROVE  IsPrefix(Upto(H, k) \o part, Upto(H, K))
<1>1. k \in 0 .. Len(H) /\ k + 1 \in 1 .. Len(H) /\ k + 1 \in 0 .. Len(H) /\ K \in k + 1 .. Len(H)
  OBVIOUS
<1>2. PICK U \in Seq(S) : U = Upto(H, k)
  BY <1>1, UptoStep
<1>3. Upto(H, k + 1) = U \o H[k + 1]
  <2>1. Upto(H, k + 1) = Upto(H, (k + 1) - 1) \o H[k + 1]
    BY <1>1, UptoStep
  <2>2. (k + 1) - 1 = k
    OBVIOUS
  <2> QED
    BY <1>2, <2>1, <2>2
<1>4. PICK v \in Seq(S) : Upto(H, K) = Upto(H, k + 1) \o v
  BY <1>1, UptoBegins, ZenonT(40)
<1>5. Upto(H, k + 1) = (U \o part) \o more
  <2>1. H[k + 1] = part \o more
    BY DEF Continues
  <2>2. U \in Seq(S)
    BY <1>2
  <2>3. Associates(S)
    BY Associative
  <2>4. (U \o part) \o more = U \o (part \o more)
    BY <2>2, <2>3, Zenon DEF Associates
  <2> QED
    BY <1>3, <2>1, <2>4
<1>6. PICK A \in Seq(S) : A = U \o part
  BY <1>2, ConcatProperties
<1>7. (A \o more) \o v = A \o (more \o v) /\ more \o v \in Seq(S)
  <2>1. A \in Seq(S) /\ v \in Seq(S)
    BY <1>4, <1>6
  <2>2. Associates(S)
    BY Associative
  <2>3. more \o v \in Seq(S)
    BY <2>1, ConcatProperties
  <2> QED
    BY <2>1, <2>2, <2>3, ZenonT(40) DEF Associates
<1>8. IsPrefix(A, A \o (more \o v))
  BY <1>6, <1>7, Begins
<1> QED
  BY <1>2, <1>4, <1>5, <1>6, <1>7, <1>8

\* Where a socket is among its frames.
LEMMA Whereabouts ==
  ASSUME NEW frames, GoodFrames(frames), NEW s, NEW n, NEW k \in Nat, NEW o \in Nat,
         SeenTo(s, frames, n, k, o)
  PROVE  /\ k \in 0 .. Len(frames) /\ \A i \in 1 .. k : ~Ends(frames[i])
         /\ InBody(frames, k, o) =>
              /\ k \in 0 .. Len(frames) - 1 /\ \A i \in 1 .. k + 1 : ~Ends(frames[i])
              /\ o - HeadLen(frames[k + 1]) \in Nat
              /\ o - HeadLen(frames[k + 1]) <= frames[k + 1].comes
<1>1. PICK L \in Nat : L = Len(frames)
  BY DEF GoodFrames
<1>2. k \in 0 .. L /\ \A i \in 1 .. k : ~Ends(frames[i])
  BY <1>1 DEF SeenTo
<1>3. ASSUME InBody(frames, k, o)
      PROVE  /\ k \in 0 .. L - 1 /\ \A i \in 1 .. k + 1 : ~Ends(frames[i])
             /\ o - HeadLen(frames[k + 1]) \in Nat
             /\ o - HeadLen(frames[k + 1]) <= frames[k + 1].comes
  <2>1. /\ k < L /\ ~Ends(frames[k + 1]) /\ o >= HeadLen(frames[k + 1])
        /\ o - HeadLen(frames[k + 1]) <= frames[k + 1].comes
    BY <1>1, <1>3 DEF SeenTo, InBody
  <2>2. k \in 0 .. L - 1
    BY <1>1, <1>2, <2>1
  <2>3. \A i \in 1 .. k + 1 : ~Ends(frames[i])
    BY <1>2, <2>1
  <2>4. HeadLen(frames[k + 1]) \in Nat
    BY <1>1, <2>2, FrameLen
  <2> QED
    BY <2>1, <2>2, <2>3, <2>4
<1> QED
  BY <1>1, <1>2, <1>3

LEMMA HeardBegins ==
  ASSUME NEW frames, GoodFrames(frames), NEW s, NEW n, NEW k \in Nat, NEW o \in Nat,
         SeenTo(s, frames, n, k, o), NEW h, HeardTo(h, frames, k, o)
  PROVE  IsPrefix(h, ToHear(frames))
<1>1. frames \in Seq(FrameSet)
  BY DEF GoodFrames
<1>2. PICK K \in 0 .. Len(frames) :
         /\ ToHear(frames) = Upto(Hears(frames), K)
         /\ \A j \in 0 .. Len(frames) : (\A i \in 1 .. j : ~Ends(frames[i])) => j <= K
  BY <1>1, CountedTo
<1>3. PICK H \in Seq(Seq(Octets)) :
         /\ H = Hears(frames) /\ Len(H) = Len(frames)
         /\ \A j \in 1 .. Len(frames) : H[j] = HeardPart(frames[j], j, frames[j].comes)
  BY <1>1, HearsTyped
<1>4. PICK L \in Nat : L = Len(frames) /\ L = Len(H) /\ K \in 0 .. L /\ k \in 0 .. L
  BY <1>1, <1>2, <1>3, Whereabouts
<1>5. CASE ~InBody(frames, k, o)
  <2>1. K \in k .. L
    <3>1. \A i \in 1 .. k : ~Ends(frames[i])
      BY Whereabouts
    <3>2. k <= K
      BY <1>2, <1>4, <3>1
    <3> QED
      BY <1>4, <3>2
  <2>2. PICK U \in Seq(Octets) : U = Upto(H, k)
    BY <1>4, UptoStep
  <2>3. h = U
    <3>1. h = U \o <<>>
      BY <1>3, <1>5, <2>2 DEF HeardTo, HeardYet
    <3> QED
      BY <2>2, <3>1, ConcatEmptySeq
  <2>4. PICK v \in Seq(Octets) : Upto(H, K) = U \o v
    <3>1. k \in 0 .. Len(H) /\ K \in k .. Len(H)
      BY <1>4, <2>1
    <3>2. \E v \in Seq(Octets) : Upto(H, K) = Upto(H, k) \o v
      BY <3>1, UptoBegins
    <3> QED
      BY <2>2, <3>2
  <2>5. IsPrefix(U, U \o v)
    BY <2>2, <2>4, Begins
  <2> QED
    BY <1>2, <1>3, <2>3, <2>4, <2>5
<1>6. CASE InBody(frames, k, o)
  <2>1. /\ k \in 0 .. L - 1 /\ \A i \in 1 .. k + 1 : ~Ends(frames[i])
        /\ o - HeadLen(frames[k + 1]) \in Nat
        /\ o - HeadLen(frames[k + 1]) <= frames[k + 1].comes
    BY <1>4, <1>6, Whereabouts
  <2>2. K \in k + 1 .. L
    <3>1. k + 1 \in 0 .. L
      BY <1>4, <2>1
    <3>2. k + 1 <= K
      BY <1>2, <1>4, <2>1, <3>1
    <3> QED
      BY <1>4, <3>2
  <2>3. PICK f \in FrameSet : f = frames[k + 1] /\ k + 1 \in Nat /\ k + 1 \in 1 .. L
    <3>1. k \in 0 .. Len(frames) - 1
      BY <1>4, <2>1
    <3>2. frames[k + 1] \in FrameSet /\ k + 1 \in Nat
      BY <3>1, FrameLen
    <3> QED
      BY <1>4, <2>1, <3>2
  <2>4. PICK d \in Nat : d = o - HeadLen(frames[k + 1]) /\ d <= f.comes
    BY <2>1, <2>3
  <2>5. PICK more \in Seq(Octets) :
           Continues(HeardPart(f, k + 1, d), more, HeardPart(f, k + 1, f.comes))
    BY <2>3, <2>4, PartOfWhole
  <2>6. PICK part \in Seq(Octets) : part = HeardPart(f, k + 1, d)
    BY <2>3, <2>4, PartsTyped
  <2>7. Continues(part, more, H[k + 1])
    BY <1>3, <1>4, <2>3, <2>5, <2>6
  <2>8. h = Upto(H, k) \o part
    BY <1>3, <1>6, <2>3, <2>4, <2>6 DEF HeardTo, HeardYet
  <2>9. IsPrefix(Upto(H, k) \o part, Upto(H, K))
    BY <1>4, <2>1, <2>2, <2>5, <2>6, <2>7, PartBegins
  <2> QED
    BY <1>2, <1>3, <2>8, <2>9
<1> QED
  BY <1>5, <1>6

LEMMA EchoedBegins ==
  ASSUME NEW frames, GoodFrames(frames), NEW s, NEW n, NEW k \in Nat, NEW o \in Nat,
         SeenTo(s, frames, n, k, o), NEW h, EchoedTo(h, frames, k, o)
  PROVE  IsPrefix(h, ToEcho(frames))
<1>1. frames \in Seq(FrameSet)
  BY DEF GoodFrames
<1>2. PICK K \in 0 .. Len(frames) :
         /\ ToEcho(frames) = Upto(Echoes(frames), K)
         /\ \A j \in 0 .. Len(frames) : (\A i \in 1 .. j : ~Ends(frames[i])) => j <= K
  BY <1>1, CountedTo
<1>3. PICK H \in Seq(Seq(SentItems)) :
         /\ H = Echoes(frames) /\ Len(H) = Len(frames)
         /\ \A j \in 1 .. Len(frames) : H[j] = EchoPart(frames[j], j, frames[j].comes)
  BY <1>1, HearsTyped
<1>4. PICK L \in Nat : L = Len(frames) /\ L = Len(H) /\ K \in 0 .. L /\ k \in 0 .. L
  <2>1. k \in 0 .. Len(frames)
    BY Whereabouts, Zenon
  <2> QED
    BY <1>1, <1>2, <1>3, <2>1
<1>5. CASE ~InBody(frames, k, o)
  <2>1. K \in k .. L
    <3>1. \A i \in 1 .. k : ~Ends(frames[i])
      BY Whereabouts
    <3>2. k <= K
      BY <1>2, <1>4, <3>1
    <3> QED
      BY <1>4, <3>2
  <2>2. PICK U \in Seq(SentItems) : U = Upto(H, k)
    BY <1>4, UptoStep
  <2>3. h = U
    <3>1. h = U \o <<>>
      BY <1>3, <1>5, <2>2 DEF EchoedTo, EchoedYet
    <3> QED
      BY <2>2, <3>1, ConcatEmptySeq
  <2>4. PICK v \in Seq(SentItems) : Upto(H, K) = U \o v
    <3>1. k \in 0 .. Len(H) /\ K \in k .. Len(H)
      BY <1>4, <2>1
    <3>2. \E v \in Seq(SentItems) : Upto(H, K) = Upto(H, k) \o v
      BY <3>1, UptoBegins
    <3> QED
      BY <2>2, <3>2
  <2>5. IsPrefix(U, U \o v)
    BY <2>2, <2>4, Begins
  <2> QED
    BY <1>2, <1>3, <2>3, <2>4, <2>5
<1>6. CASE InBody(frames, k, o)
  <2>1. /\ k \in 0 .. L - 1 /\ \A i \in 1 .. k + 1 : ~Ends(frames[i])
        /\ o - HeadLen(frames[k + 1]) \in Nat
        /\ o - HeadLen(frames[k + 1]) <= frames[k + 1].comes
    BY <1>4, <1>6, Whereabouts
  <2>2. K \in k + 1 .. L
    <3>1. k + 1 \in 0 .. L
      BY <1>4, <2>1
    <3>2. k + 1 <= K
      BY <1>2, <1>4, <2>1, <3>1
    <3> QED
      BY <1>4, <3>2
  <2>3. PICK f \in FrameSet : f = frames[k + 1] /\ k + 1 \in Nat /\ k + 1 \in 1 .. L
    <3>1. k \in 0 .. Len(frames) - 1
      BY <1>4, <2>1
    <3>2. frames[k + 1] \in FrameSet /\ k + 1 \in Nat
      BY <3>1, FrameLen
    <3> QED
      BY <1>4, <2>1, <3>2
  <2>4. PICK d \in Nat : d = o - HeadLen(frames[k + 1]) /\ d <= f.comes
    BY <2>1, <2>3
  <2>5. PICK more \in Seq(SentItems) :
           Continues(EchoPart(f, k + 1, d), more, EchoPart(f, k + 1, f.comes))
    BY <2>3, <2>4, PartOfWhole
  <2>6. PICK part \in Seq(SentItems) : part = EchoPart(f, k + 1, d)
    BY <2>3, <2>4, PartsTyped
  <2>7. Continues(part, more, H[k + 1])
    BY <1>3, <1>4, <2>3, <2>5, <2>6
  <2>8. h = Upto(H, k) \o part
    BY <1>3, <1>6, <2>3, <2>4, <2>6 DEF EchoedTo, EchoedYet
  <2>9. IsPrefix(Upto(H, k) \o part, Upto(H, K))
    BY <1>4, <2>1, <2>2, <2>5, <2>6, <2>7, PartBegins
  <2> QED
    BY <1>2, <1>3, <2>8, <2>9
<1> QED
  BY <1>5, <1>6

\* A socket that has seen all bytes is at the end of the last frame, or where it was broken off.
LEMMA AllSeen ==
  ASSUME NEW frames, GoodFrames(frames), NEW s, NEW k \in Nat, NEW o \in Nat,
         SeenTo(s, frames, Len(Bytes(frames)), k, o)
  PROVE  \/ ~InBody(frames, k, o) /\ k = Len(frames)
         \/ /\ InBody(frames, k, o) /\ k + 1 = Len(frames) /\ k \in 0 .. Len(frames) - 1
            /\ o - HeadLen(frames[k + 1]) = frames[k + 1].comes
<1>1. PICK L \in Nat : L = Len(frames) /\ frames \in Seq(FrameSet)
  BY DEF GoodFrames
<1>2. k \in 0 .. L /\ Len(Bytes(frames)) = Len(Upto(Wires(frames), k)) + o
  BY <1>1 DEF SeenTo
<1>3. CASE k = L
  <2>1. ~InBody(frames, k, o)
    <3>1. o = 0
      BY <1>1, <1>3 DEF SeenTo
    <3> QED
      BY <3>1 DEF InBody
  <2> QED
    BY <1>1, <1>3, <2>1
<1>4. CASE k # L
  <2>1. k \in 0 .. Len(frames) - 1
    BY <1>1, <1>2, <1>4
  <2>2. PICK q \in Nat : q = Len(Upto(Wires(frames), k))
    <3>1. PICK W \in Seq(Seq(WireBytes)) : W = Wires(frames) /\ Len(W) = L
      BY <1>1, WiresTyped
    <3>2. Upto(W, k) \in Seq(WireBytes)
      BY <1>2, <3>1, UptoStep
    <3> QED
      BY <3>1, <3>2
  <2>3. PICK hl \in Nat, comes \in Nat, len \in Nat :
           /\ hl = HeadLen(frames[k + 1]) /\ comes = frames[k + 1].comes /\ len = frames[k + 1].len
           /\ Len(Encoded(frames[k + 1], k + 1)) = hl + comes /\ hl >= 2 /\ comes <= len
           /\ comes < len => k + 1 = L \/ Ends(frames[k + 1])
    BY <1>1, <2>1, FrameLen
  <2>4. hl + comes <= o
    <3>1. q + (hl + comes) <= Len(Bytes(frames))
      BY <1>1, <2>1, <2>2, <2>3, FrameAt
    <3> QED
      BY <1>2, <2>2, <2>3, <3>1
  <2>5. InBody(frames, k, o)
    BY <2>3, <2>4 DEF InBody
  <2>6. ~Ends(frames[k + 1]) /\ o - hl <= comes /\ o - hl < len
    BY <2>3, <2>5 DEF SeenTo
  <2>7. o - hl = comes /\ k + 1 = L
    BY <2>3, <2>4, <2>6, SMTT(30)
  <2> QED
    BY <1>1, <2>1, <2>3, <2>5, <2>7
<1> QED
  BY <1>3, <1>4

LEMMA AllHeard ==
  ASSUME NEW frames, GoodFrames(frames), NEW s, NEW k \in Nat, NEW o \in Nat,
         SeenTo(s, frames, Len(Bytes(frames)), k, o), NEW h, HeardTo(h, frames, k, o)
  PROVE  h = ToHear(frames)
<1>1. PICK L \in Nat : L = Len(frames) /\ frames \in Seq(FrameSet)
  BY DEF GoodFrames
<1>2. PICK K \in 0 .. L :
         /\ ToHear(frames) = Upto(Hears(frames), K)
         /\ \A j \in 0 .. L : (\A i \in 1 .. j : ~Ends(frames[i])) => j <= K
  BY <1>1, CountedTo
<1>3. PICK H \in Seq(Seq(Octets)) :
         /\ H = Hears(frames) /\ Len(H) = L
         /\ \A j \in 1 .. L : H[j] = HeardPart(frames[j], j, frames[j].comes)
  BY <1>1, HearsTyped
<1>4. ASSUME \A i \in 1 .. L : ~Ends(frames[i]) PROVE K = L
  <2>1. L \in 0 .. L
    BY <1>1
  <2>2. L <= K
    BY <1>2, <1>4, <2>1
  <2> QED
    BY <1>1, <1>2, <2>2
<1>5. CASE ~InBody(frames, k, o)
  <2>1. k = L
    BY <1>1, <1>5, AllSeen
  <2>2. \A i \in 1 .. k : ~Ends(frames[i])
    BY Whereabouts
  <2>3. K = L
    BY <1>4, <2>1, <2>2
  <2>4. h = Upto(H, L) \o <<>>
    BY <1>3, <1>5, <2>1 DEF HeardTo, HeardYet
  <2>5. PICK U \in Seq(Octets) : U = Upto(H, L)
    <3>1. L \in 0 .. Len(H)
      BY <1>1, <1>3
    <3> QED
      BY <1>3, <3>1, UptoStep
  <2>6. h = U
    BY <2>4, <2>5, ConcatEmptySeq
  <2> QED
    BY <1>2, <1>3, <2>3, <2>5, <2>6
<1>6. CASE InBody(frames, k, o)
  <2>1. /\ k + 1 = L /\ o - HeadLen(frames[k + 1]) = frames[k + 1].comes
    BY <1>1, <1>6, AllSeen
  <2>2. \A i \in 1 .. k + 1 : ~Ends(frames[i])
    BY <1>6, Whereabouts
  <2>3. K = L
    BY <1>4, <2>1, <2>2
  <2>4. L \in 1 .. L /\ L - 1 = k
    BY <1>1, <2>1
  <2>5. HeardYet(frames, k, o) = H[L]
    BY <1>3, <1>6, <2>1, <2>4 DEF HeardYet
  <2>6. h = Upto(H, k) \o H[L]
    BY <1>3, <2>5 DEF HeardTo
  <2>7. Upto(H, L) = Upto(H, L - 1) \o H[L]
    BY <1>3, <2>4, UptoStep
  <2> QED
    BY <1>2, <1>3, <2>3, <2>4, <2>6, <2>7
<1> QED
  BY <1>5, <1>6

LEMMA AllEchoed ==
  ASSUME NEW frames, GoodFrames(frames), NEW s, NEW k \in Nat, NEW o \in Nat,
         SeenTo(s, frames, Len(Bytes(frames)), k, o), NEW h, EchoedTo(h, frames, k, o)
  PROVE  h = ToEcho(frames)
<1>1. PICK L \in Nat : L = Len(frames) /\ frames \in Seq(FrameSet)
  BY DEF GoodFrames
<1>2. PICK K \in 0 .. L :
         /\ ToEcho(frames) = Upto(Echoes(frames), K)
         /\ \A j \in 0 .. L : (\A i \in 1 .. j : ~Ends(frames[i])) => j <= K
  BY <1>1, CountedTo
<1>3. PICK H \in Seq(Seq(SentItems)) :
         /\ H = Echoes(frames) /\ Len(H) = L
         /\ \A j \in 1 .. L : H[j] = EchoPart(frames[j], j, frames[j].comes)
  BY <1>1, HearsTyped
<1>4. ASSUME \A i \in 1 .. L : ~Ends(frames[i]) PROVE K = L
  <2>1. L \in 0 .. L
    BY <1>1
  <2>2. L <= K
    BY <1>2, <1>4, <2>1
  <2> QED
    BY <1>1, <1>2, <2>2
<1>5. CASE ~InBody(frames, k, o)
  <2>1. k = L
    BY <1>1, <1>5, AllSeen
  <2>2. \A i \in 1 .. k : ~Ends(frames[i])
    BY Whereabouts
  <2>3. K = L
    BY <1>4, <2>1, <2>2
  <2>4. h = Upto(H, L) \o <<>>
    BY <1>3, <1>5, <2>1 DEF EchoedTo, EchoedYet
  <2>5. PICK U \in Seq(SentItems) : U = Upto(H, L)
    <3>1. L \in 0 .. Len(H)
      BY <1>1, <1>3
    <3> QED
      BY <1>3, <3>1, UptoStep
  <2>6. h = U
    BY <2>4, <2>5, ConcatEmptySeq
  <2> QED
    BY <1>2, <1>3, <2>3, <2>5, <2>6
<1>6. CASE InBody(frames, k, o)
  <2>1. /\ k + 1 = L /\ o - HeadLen(frames[k + 1]) = frames[k + 1].comes
    BY <1>1, <1>6, AllSeen
  <2>2. \A i \in 1 .. k + 1 : ~Ends(frames[i])
    BY <1>6, Whereabouts
  <2>3. K = L
    BY <1>4, <2>1, <2>2
  <2>4. L \in 1 .. L /\ L - 1 = k
    BY <1>1, <2>1
  <2>5. EchoedYet(frames, k, o) = H[L]
    BY <1>3, <1>6, <2>1, <2>4 DEF EchoedYet
  <2>6. h = Upto(H, k) \o H[L]
    BY <1>3, <2>5 DEF EchoedTo
  <2>7. Upto(H, L) = Upto(H, L - 1) \o H[L]
    BY <1>3, <2>4, UptoStep
  <2> QED
    BY <1>2, <1>3, <2>3, <2>4, <2>6, <2>7
<1> QED
  BY <1>5, <1>6

LEMMA FlattenJoined ==
  ASSUME NEW S, NEW a \in Seq(Seq(S)), NEW b \in Seq(Seq(S))
  PROVE  FlattenSeq(a \o b) = FlattenSeq(a) \o FlattenSeq(b)
<1>1. PICK t \in Seq(Seq(S)) : t = a \o b
  BY ConcatProperties
<1>2. PICK n \in Nat, m \in Nat : n = Len(a) /\ m = Len(b)
  OBVIOUS
<1>3. Len(t) = n + m /\ (\A i \in 1 .. n : t[i] = a[i]) /\ \A j \in 1 .. m : t[n + j] = b[j]
  BY <1>1, <1>2, Behind
<1>4. PICK f \in Seq(S) : f = FlattenSeq(a)
  <2>1. n \in 0 .. Len(a)
    BY <1>2
  <2>2. Upto(a, n) \in Seq(S) /\ Upto(a, n) = FlattenSeq(a)
    BY <1>2, <2>1, UptoStep
  <2> QED
    BY <2>2
<1>5. Upto(t, n) = f
  <2>1. PICK u : u = SubSeq(t, 1, n)
    OBVIOUS
  <2>2. u \in Seq(Seq(S)) /\ Len(u) = n /\ \A i \in 1 .. n : u[i] = t[i]
    BY <1>1, <1>2, <1>3, <2>1, SubSeqProperties
  <2>3. u = a
    <3>1. Len(u) = Len(a) /\ \A i \in 1 .. Len(u) : u[i] = a[i]
      BY <1>2, <1>3, <2>2
    <3> QED
      BY <2>2, <3>1, SameSeq
  <2> QED
    BY <1>4, <2>1, <2>3 DEF Upto
<1> DEFINE T == {j \in 0 .. m : Upto(t, n + j) # f \o Upto(b, j)}
<1>6. CASE T = {}
  <2>1. m \in 0 .. m
    BY <1>2
  <2>2. Upto(t, n + m) = f \o Upto(b, m)
    BY <1>6, <2>1
  <2>3. Upto(t, n + m) = FlattenSeq(t) /\ Upto(b, m) = FlattenSeq(b)
    BY <1>1, <1>2, <1>3, UptoStep
  <2> QED
    BY <1>1, <1>4, <2>2, <2>3
<1>7. CASE T # {}
  <2>1. PICK j \in T : \A i \in T : j <= i
    <3>1. T \in SUBSET Nat
      OBVIOUS
    <3> HIDE DEF T
    <3> QED
      BY <1>7, <3>1, Least
  <2>2. j \in 0 .. m /\ Upto(t, n + j) # f \o Upto(b, j)
    OBVIOUS
  <2>3. j # 0
    <3>1. Upto(b, 0) = <<>>
      BY UptoStep
    <3>2. f \o <<>> = f
      BY <1>4, ConcatEmptySeq
    <3>3. n + 0 = n
      BY <1>2
    <3> QED
      BY <1>5, <2>2, <3>1, <3>2, <3>3
  <2>4. Upto(t, n + (j - 1)) = f \o Upto(b, j - 1)
    <3>1. j - 1 \in 0 .. m /\ ~(j <= j - 1)
      BY <1>2, <2>2, <2>3
    <3>2. j - 1 \notin T
      BY <2>1, <3>1
    <3> QED
      BY <3>1, <3>2
  <2>5. /\ n + j \in 1 .. Len(t) /\ (n + j) - 1 = n + (j - 1) /\ j \in 1 .. m
        /\ j \in 1 .. Len(b) /\ j - 1 \in 0 .. Len(b)
    <3>1. n + j \in 1 .. n + m /\ (n + j) - 1 = n + (j - 1) /\ j \in 1 .. m /\ j - 1 \in 0 .. m
      BY <1>2, <2>2, <2>3, SMTT(30)
    <3> QED
      BY <1>2, <1>3, <3>1
  <2>6. Upto(t, n + j) = Upto(t, n + (j - 1)) \o b[j]
    <3>1. Upto(t, n + j) = Upto(t, (n + j) - 1) \o t[n + j]
      BY <1>1, <2>5, UptoStep
    <3> QED
      BY <1>3, <2>5, <3>1
  <2>7. Upto(b, j) = Upto(b, j - 1) \o b[j] /\ Upto(b, j - 1) \in Seq(S) /\ b[j] \in Seq(S)
    <3>1. b[j] \in Seq(S)
      BY <2>5
    <3> QED
      BY <2>5, <3>1, UptoStep
  <2>8. PICK v \in Seq(S), w \in Seq(S) : v = Upto(b, j - 1) /\ w = b[j]
    BY <2>7
  <2>9. (f \o v) \o w = f \o (v \o w)
    <3>1. f \in Seq(S) /\ v \in Seq(S) /\ w \in Seq(S) /\ Grouping(S)
      BY <1>4, <2>8, Joined
    <3> QED
      BY <3>1, Zenon DEF Grouping
  <2> QED
    BY <2>2, <2>4, <2>6, <2>7, <2>8, <2>9
<1> QED
  BY <1>6, <1>7

\* What of pongs each item is.
PongOf(items) == [i \in DOMAIN items |-> IF items[i].kind = "frame" THEN <<>> ELSE <<items[i]>>]

LEMMA PongsTyped ==
  ASSUME NEW items \in Seq(SentItems)
  PROVE  /\ PongOf(items) \in Seq(Seq(SentItems)) /\ Len(PongOf(items)) = Len(items)
         /\ Pongs(items) = FlattenSeq(PongOf(items)) /\ Pongs(items) \in Seq(SentItems)
<1>1. PICK n \in Nat : n = Len(items) /\ DOMAIN items = 1 .. n
  OBVIOUS
<1>2. ASSUME NEW i \in 1 .. n
      PROVE  (IF items[i].kind = "frame" THEN <<>> ELSE <<items[i]>>) \in Seq(SentItems)
  <2>1. items[i] \in SentItems
    BY <1>1
  <2>2. <<items[i]>> \in Seq(SentItems) /\ <<>> \in Seq(SentItems)
    BY <2>1
  <2> QED
    BY <2>2
<1>3. PICK p : p = PongOf(items)
  OBVIOUS
<1>4. p \in Seq(Seq(SentItems)) /\ Len(p) = n
  <2>1. p = [i \in 1 .. n |-> IF items[i].kind = "frame" THEN <<>> ELSE <<items[i]>>]
    BY <1>1, <1>3 DEF PongOf
  <2> QED
    BY <1>1, <1>2, <2>1
<1>5. Pongs(items) = FlattenSeq(p)
  BY <1>3 DEF Pongs, PongOf
<1>6. FlattenSeq(p) \in Seq(SentItems)
  <2>1. Len(p) \in 0 .. Len(p)
    BY <1>1, <1>4
  <2> QED
    BY <1>4, <2>1, UptoStep
<1> QED
  BY <1>1, <1>3, <1>4, <1>5, <1>6

LEMMA PongsJoined ==
  ASSUME NEW s \in Seq(SentItems), NEW t \in Seq(SentItems)
  PROVE  Pongs(s \o t) = Pongs(s) \o Pongs(t)
<1>1. PICK r \in Seq(SentItems) : r = s \o t
  BY ConcatProperties
<1>2. PICK n \in Nat, m \in Nat : n = Len(s) /\ m = Len(t)
  OBVIOUS
<1>3. Len(r) = n + m /\ (\A i \in 1 .. n : r[i] = s[i]) /\ \A j \in 1 .. m : r[n + j] = t[j]
  BY <1>1, <1>2, Behind
<1>4. PICK a \in Seq(Seq(SentItems)), b \in Seq(Seq(SentItems)), c \in Seq(Seq(SentItems)) :
        a = PongOf(s) /\ b = PongOf(t) /\ c = PongOf(r)
  BY <1>1, PongsTyped
<1>5. Len(a) = n /\ Len(b) = m /\ Len(c) = n + m
  BY <1>1, <1>2, <1>3, <1>4, PongsTyped
<1>6. c = a \o b
  <2>1. /\ a \o b \in Seq(Seq(SentItems)) /\ Len(a \o b) = n + m
        /\ (\A i \in 1 .. n : (a \o b)[i] = a[i]) /\ \A j \in 1 .. m : (a \o b)[n + j] = b[j]
    <3>1. /\ a \o b \in Seq(Seq(SentItems)) /\ Len(a \o b) = Len(a) + Len(b)
          /\ \A i \in 1 .. Len(a) : (a \o b)[i] = a[i]
          /\ \A j \in 1 .. Len(b) : (a \o b)[Len(a) + j] = b[j]
      BY <1>4, Behind
    <3> QED
      BY <1>5, <3>1
  <2>2. /\ \A i \in 1 .. n : a[i] = IF s[i].kind = "frame" THEN <<>> ELSE <<s[i]>>
        /\ \A i \in 1 .. m : b[i] = IF t[i].kind = "frame" THEN <<>> ELSE <<t[i]>>
        /\ \A i \in 1 .. n + m : c[i] = IF r[i].kind = "frame" THEN <<>> ELSE <<r[i]>>
    BY <1>1, <1>2, <1>3, <1>4 DEF PongOf
  <2>3. ASSUME NEW i \in 1 .. n + m PROVE c[i] = (a \o b)[i]
    <3>1. CASE i <= n
      <4>1. i \in 1 .. n
        BY <1>2, <3>1
      <4>2. r[i] = s[i]
        BY <1>3, <4>1
      <4>3. c[i] = a[i]
        BY <2>2, <4>1, <4>2
      <4> QED
        BY <2>1, <4>1, <4>3
    <3>2. CASE ~(i <= n)
      <4>1. PICK j \in 1 .. m : i = n + j
        <5>1. i - n \in 1 .. m /\ i = n + (i - n)
          BY <1>2, <3>2
        <5> QED
          BY <5>1
      <4>2. r[i] = t[j]
        BY <1>3, <4>1
      <4>3. c[i] = b[j]
        BY <2>2, <4>1, <4>2
      <4> QED
        BY <2>1, <4>1, <4>3
    <3> QED
      BY <3>1, <3>2
  <2>4. Len(c) = Len(a \o b) /\ \A i \in 1 .. Len(c) : c[i] = (a \o b)[i]
    BY <1>5, <2>1, <2>3
  <2> QED
    BY <1>4, <2>1, <2>4, SameSeq
<1>7. FlattenSeq(a \o b) = FlattenSeq(a) \o FlattenSeq(b)
  BY <1>4, FlattenJoined
<1> QED
  BY <1>1, <1>4, <1>6, <1>7, PongsTyped

\* Frames are no part of a pong...
LEMMA NoPongs ==
  ASSUME NEW items \in Seq(SentItems), \A i \in 1 .. Len(items) : items[i].kind = "frame"
  PROVE  Pongs(items) = <<>>
<1>1. PICK p \in Seq(Seq(SentItems)) :
         p = PongOf(items) /\ Len(p) = Len(items) /\ Pongs(items) = FlattenSeq(p)
  BY PongsTyped
<1>2. PICK n \in Nat : n = Len(items) /\ n = Len(p) /\ DOMAIN items = 1 .. n
  BY <1>1
<1>3. \A i \in 1 .. n : p[i] = <<>>
  BY <1>1, <1>2 DEF PongOf
<1> DEFINE T == {j \in 0 .. n : Upto(p, j) # <<>>}
<1>4. CASE T = {}
  <2>1. n \in 0 .. n
    BY <1>2
  <2> QED
    BY <1>1, <1>2, <1>4, <2>1, UptoStep
<1>5. CASE T # {}
  <2>1. PICK j \in T : \A i \in T : j <= i
    <3>1. T \in SUBSET Nat
      OBVIOUS
    <3> HIDE DEF T
    <3> QED
      BY <1>5, <3>1, Least
  <2>2. j \in 0 .. n /\ Upto(p, j) # <<>>
    OBVIOUS
  <2>3. j # 0
    BY <1>1, <2>2, UptoStep
  <2>4. Upto(p, j - 1) = <<>>
    <3>1. j - 1 \in 0 .. n /\ ~(j <= j - 1)
      BY <1>2, <2>2, <2>3
    <3>2. j - 1 \notin T
      BY <2>1, <3>1
    <3> QED
      BY <3>1, <3>2
  <2>5. j \in 1 .. n /\ j \in 1 .. Len(p)
    BY <1>2, <2>2, <2>3
  <2>6. Upto(p, j) = Upto(p, j - 1) \o p[j]
    BY <1>1, <2>5, UptoStep
  <2>7. <<>> \o <<>> = <<>>
    OBVIOUS
  <2> QED
    BY <1>3, <2>2, <2>4, <2>5, <2>6, <2>7
<1> QED
  BY <1>4, <1>5

\* ...and all else is.
LEMMA OnlyPongs ==
  ASSUME NEW items \in Seq(SentItems), \A i \in 1 .. Len(items) : items[i].kind # "frame"
  PROVE  Pongs(items) = items
<1>1. PICK p \in Seq(Seq(SentItems)) :
         p = PongOf(items) /\ Len(p) = Len(items) /\ Pongs(items) = FlattenSeq(p)
  BY PongsTyped
<1>2. PICK n \in Nat : n = Len(items) /\ n = Len(p) /\ DOMAIN items = 1 .. n
  BY <1>1
<1>3. \A i \in 1 .. n : p[i] = <<items[i]>>
  BY <1>1, <1>2 DEF PongOf
<1>4. ASSUME NEW j \in 0 .. n
      PROVE  /\ SubSeq(items, 1, j) \in Seq(SentItems) /\ Len(SubSeq(items, 1, j)) = j
             /\ \A i \in 1 .. j : SubSeq(items, 1, j)[i] = items[i]
  BY <1>2, SubSeqProperties
<1> DEFINE T == {j \in 0 .. n : Upto(p, j) # SubSeq(items, 1, j)}
<1>5. CASE T = {}
  <2>1. n \in 0 .. n
    BY <1>2
  <2>2. Upto(p, n) = SubSeq(items, 1, n)
    BY <1>5, <2>1
  <2>3. PICK u \in Seq(SentItems) : u = SubSeq(items, 1, n)
    BY <1>4, <2>1
  <2>4. u = items
    BY <1>2, <1>4, <2>1, <2>3
  <2> QED
    BY <1>1, <1>2, <2>2, <2>3, <2>4, UptoStep
<1>6. CASE T # {}
  <2>1. PICK j \in T : \A i \in T : j <= i
    <3>1. T \in SUBSET Nat
      OBVIOUS
    <3> HIDE DEF T
    <3> QED
      BY <1>6, <3>1, Least
  <2>2. j \in 0 .. n /\ Upto(p, j) # SubSeq(items, 1, j)
    OBVIOUS
  <2>3. j # 0
    <3>1. 0 \in 0 .. n
      BY <1>2
    <3>2. SubSeq(items, 1, 0) = <<>>
      BY <1>4, <3>1
    <3> QED
      BY <1>1, <2>2, <3>2, UptoStep
  <2>4. Upto(p, j - 1) = SubSeq(items, 1, j - 1)
    <3>1. j - 1 \in 0 .. n /\ ~(j <= j - 1)
      BY <1>2, <2>2, <2>3
    <3>2. j - 1 \notin T
      BY <2>1, <3>1
    <3> QED
      BY <3>1, <3>2
  <2>5. j \in 1 .. n /\ j \in 1 .. Len(p) /\ j - 1 \in 0 .. n /\ (j - 1) + 1 = j
    BY <1>2, <2>2, <2>3
  <2>6. Upto(p, j) = Upto(p, j - 1) \o p[j]
    BY <1>1, <2>5, UptoStep
  <2>7. PICK u \in Seq(SentItems) :
           u = SubSeq(items, 1, j - 1) /\ Len(u) = j - 1 /\ \A i \in 1 .. j - 1 : u[i] = items[i]
    BY <1>4, <2>5
  <2>8. PICK w \in Seq(SentItems) :
           w = SubSeq(items, 1, j) /\ Len(w) = j /\ \A i \in 1 .. j : w[i] = items[i]
    BY <1>4, <2>2
  <2>9. PICK z \in Seq(SentItems) : z = <<items[j]>> /\ Len(z) = 1 /\ z[1] = items[j]
    <3>1. PICK item \in SentItems : item = items[j]
      BY <1>2, <2>5
    <3>2. <<item>> \in Seq(SentItems) /\ Len(<<item>>) = 1 /\ <<item>>[1] = item
      OBVIOUS
    <3> QED
      BY <3>1, <3>2
  <2>10. /\ u \o z \in Seq(SentItems) /\ Len(u \o z) = (j - 1) + 1
         /\ \A i \in 1 .. j - 1 : (u \o z)[i] = u[i]
         /\ \A i \in 1 .. 1 : (u \o z)[(j - 1) + i] = z[i]
    <3>1. u \in Seq(SentItems) /\ z \in Seq(SentItems)
      BY <2>7, <2>9
    <3>2. /\ u \o z \in Seq(SentItems) /\ Len(u \o z) = Len(u) + Len(z)
          /\ \A i \in 1 .. Len(u) : (u \o z)[i] = u[i]
          /\ \A i \in 1 .. Len(z) : (u \o z)[Len(u) + i] = z[i]
      BY <3>1, Behind
    <3> QED
      BY <2>7, <2>9, <3>2, Zenon
  <2>11. (u \o z)[j] = items[j]
    <3>1. 1 \in 1 .. 1
      OBVIOUS
    <3>2. (u \o z)[(j - 1) + 1] = z[1]
      BY <2>10, <3>1
    <3> QED
      BY <2>5, <2>9, <3>2
  <2>12. u \o z = w
    <3>1. Len(u \o z) = j
      BY <2>5, <2>10
    <3>2. ASSUME NEW i \in 1 .. j PROVE (u \o z)[i] = w[i]
      <4>1. CASE i = j
        BY <2>8, <2>11, <4>1
      <4>2. CASE i # j
        <5>1. i \in 1 .. j - 1
          BY <4>2
        <5> QED
          BY <2>7, <2>8, <2>10, <5>1
      <4> QED
        BY <4>1, <4>2
    <3> QED
      BY <2>8, <2>10, <3>1, <3>2
  <2> QED
    BY <1>3, <2>2, <2>4, <2>5, <2>6, <2>7, <2>8, <2>9, <2>12
<1> QED
  BY <1>5, <1>6

AreFrames(items) == items \in Seq(SentItems) /\ \A i \in 1 .. Len(items) : items[i].kind = "frame"

\* What a step sends on connection d are frames, none of them in a pong.
FramesAdded(d) ==
  \E items : /\ AreFrames(items) /\ said'[d] \o buf'[d] = Out(d) \o items
             /\ items = <<>> \/ ~InPong(sock[d])
Sends(d) == ~spoilt'[d] => ~spoilt[d] /\ FramesAdded(d)
Outs == OutTypes' /\ \A d \in Socks : Sends(d)

LEMMA FramesJoined ==
  ASSUME NEW a, NEW b, AreFrames(a), AreFrames(b)
  PROVE  AreFrames(a \o b)
<1>1. /\ a \o b \in Seq(SentItems) /\ Len(a \o b) = Len(a) + Len(b)
      /\ (\A i \in 1 .. Len(a) : (a \o b)[i] = a[i])
      /\ \A j \in 1 .. Len(b) : (a \o b)[Len(a) + j] = b[j]
  BY Behind DEF AreFrames
<1>2. PICK n \in Nat, m \in Nat : n = Len(a) /\ m = Len(b)
  BY DEF AreFrames
<1>3. ASSUME NEW i \in 1 .. n + m PROVE (a \o b)[i].kind = "frame"
  <2>1. CASE i <= n
    <3>1. i \in 1 .. n
      BY <1>2, <2>1
    <3> QED
      BY <1>1, <1>2, <3>1 DEF AreFrames
  <2>2. CASE ~(i <= n)
    <3>1. PICK j \in 1 .. m : i = n + j
      <4>1. i - n \in 1 .. m /\ i = n + (i - n)
        BY <1>2, <2>2
      <4> QED
        BY <4>1
    <3> QED
      BY <1>1, <1>2, <3>1 DEF AreFrames
  <2> QED
    BY <2>1, <2>2
<1> QED
  BY <1>1, <1>2, <1>3 DEF AreFrames

LEMMA OneFrame ==
  ASSUME NEW what \in {"101", "broadcast", "answer", "close"}
  PROVE  AreFrames(<<Frame(what)>>) /\ <<Frame(what)>> # <<>>
<1>1. PICK f : f = Frame(what)
  OBVIOUS
<1>2. f \in SentItems /\ f.kind = "frame"
  BY <1>1 DEF Frame, SentItems, Octets
<1>3. <<f>> \in Seq(SentItems) /\ Len(<<f>>) = 1 /\ <<f>>[1] = f /\ <<f>> # <<>>
  BY <1>2
<1> QED
  BY <1>1, <1>2, <1>3 DEF AreFrames

LEMMA NoFrame == AreFrames(<<>>)
  BY DEF AreFrames

\* Putting together what was flushed, what was not and what comes behind it.
Regrouped(a, b, c, d) ==
  /\ (a \o (b \o c)) \o d = (a \o b) \o (c \o d)
  /\ a \o (b \o c) = (a \o b) \o c

LEMMA SentFour ==
  ASSUME NEW a \in Seq(SentItems), NEW b \in Seq(SentItems), NEW c \in Seq(SentItems),
         NEW d \in Seq(SentItems)
  PROVE  Regrouped(a, b, c, d)
<1>1. a \o b \in Seq(SentItems)
  BY ConcatProperties
<1>2. a \o (b \o c) = (a \o b) \o c
  BY SentJoined, ZenonT(40)
<1>3. ((a \o b) \o c) \o d = (a \o b) \o (c \o d)
  BY <1>1, SentJoined, ZenonT(40)
<1> QED
  BY <1>2, <1>3 DEF Regrouped

LEMMA SentEmpty ==
  ASSUME NEW a \in Seq(SentItems), NEW b \in Seq(SentItems)
  PROVE  /\ a \o <<>> = a /\ a \o b \in Seq(SentItems) /\ (a \o b) \o <<>> = a \o b
  BY ConcatProperties, ConcatEmptySeq

LEMMA FlushOuts ==
  ASSUME OutTypes, NEW c \in Socks, NEW items, AreFrames(items), Flush(c, items),
         spoilt' \in [Socks -> BOOLEAN], \A d \in Socks : ~spoilt'[d] => ~spoilt[d],
         items = <<>> \/ spoilt'[c] \/ ~InPong(sock[c])
  PROVE  Outs
<1>1. /\ said' = [said EXCEPT ![c] = @ \o buf[c] \o items] /\ buf' = [buf EXCEPT ![c] = <<>>]
      /\ items \in Seq(SentItems)
  BY DEF Flush, AreFrames
<1>2. PICK a \in Seq(SentItems), b \in Seq(SentItems) : a = said[c] /\ b = buf[c]
  BY DEF OutTypes
<1>3. PICK r \in Seq(SentItems) : r = (a \o b) \o items /\ r \o <<>> = r
  <2>1. PICK p \in Seq(SentItems) : p = a \o b
    BY <1>2, ConcatProperties
  <2>2. p \o items \in Seq(SentItems)
    BY <1>1, <2>1, ConcatProperties
  <2> QED
    BY <2>1, <2>2, ConcatEmptySeq
<1>4. said' = [said EXCEPT ![c] = r]
  BY <1>1, <1>2, <1>3
<1>5. OutTypes'
  <2>1. <<>> \in Seq(SentItems)
    OBVIOUS
  <2> QED
    BY <1>1, <1>3, <1>4, <2>1 DEF OutTypes
<1>6. ASSUME NEW d \in Socks, ~spoilt'[d] PROVE FramesAdded(d)
  <2>1. CASE d = c
    <3>1. said'[d] = r /\ buf'[d] = <<>>
      BY <1>1, <1>4, <2>1 DEF OutTypes
    <3>2. said'[d] \o buf'[d] = Out(d) \o items
      BY <1>2, <1>3, <2>1, <3>1 DEF Out
    <3> QED
      BY <1>6, <2>1, <3>2 DEF FramesAdded
  <2>2. CASE d # c
    <3>1. said'[d] = said[d] /\ buf'[d] = buf[d]
      BY <1>1, <1>4, <2>2 DEF OutTypes
    <3>2. PICK y \in Seq(SentItems) : y = Out(d)
      BY ConcatProperties DEF OutTypes, Out
    <3>3. y \o <<>> = y
      BY ConcatEmptySeq
    <3>4. said'[d] \o buf'[d] = Out(d) \o <<>>
      BY <3>1, <3>2, <3>3 DEF Out
    <3> QED
      BY <3>4, NoFrame DEF FramesAdded
  <2> QED
    BY <2>1, <2>2
<1> QED
  BY <1>5, <1>6 DEF Outs, Sends

LEMMA SilentOuts ==
  ASSUME OutTypes, UNCHANGED <<said, buf, spoilt>>
  PROVE  Outs
<1>1. OutTypes'
  BY DEF OutTypes
<1>2. ASSUME NEW d \in Socks PROVE FramesAdded(d)
  <2>1. PICK y \in Seq(SentItems) : y = Out(d)
    BY ConcatProperties DEF OutTypes, Out
  <2>2. y \o <<>> = y
    BY ConcatEmptySeq
  <2>3. said'[d] \o buf'[d] = Out(d) \o <<>>
    BY <2>1, <2>2 DEF Out
  <2> QED
    BY <2>3, NoFrame DEF FramesAdded
<1> QED
  BY <1>1, <1>2 DEF Outs, Sends

LEMMA BroadcastOuts ==
  ASSUME OutTypes, NEW c \in Socks, NEW items, AreFrames(items), NEW open, Broadcast(open, c, items),
         items = <<>> \/ ~InPong(sock[c])
  PROVE  Outs
<1>1. items \in Seq(SentItems)
  BY DEF AreFrames
<1>2. PICK F \in Seq(SentItems) : F = <<Frame("broadcast")>> /\ AreFrames(F) /\ F # <<>>
  BY OneFrame DEF AreFrames
<1>3. ASSUME NEW d \in Socks
      PROVE  /\ said'[d] \in Seq(SentItems) /\ buf'[d] \in Seq(SentItems) /\ spoilt'[d] \in BOOLEAN
             /\ ~spoilt'[d] => ~spoilt[d] /\ FramesAdded(d)
  <2>1. PICK a \in Seq(SentItems), b \in Seq(SentItems) : a = said[d] /\ b = buf[d]
    BY DEF OutTypes
  <2>2. /\ said'[d] = a \o (IF d = c /\ items # <<>> THEN buf[c] \o items ELSE <<>>)
                        \o (IF d \in open THEN F ELSE <<>>)
        /\ buf'[d] = IF d \in open \/ (d = c /\ items # <<>>) THEN <<>> ELSE b
        /\ spoilt'[d] <=> (spoilt[d] \/
              (d \in open /\ ((b # <<>> /\ ~(d = c /\ items # <<>>)) \/ InPong(sock[d]))))
    BY <1>2, <2>1 DEF Broadcast
  <2>3. spoilt'[d] \in BOOLEAN
    <3>1. spoilt'[d] = (spoilt[d] \/
              (d \in open /\ ((buf[d] # <<>> /\ ~(d = c /\ items # <<>>)) \/ InPong(sock[d]))))
      BY DEF Broadcast
    <3> QED
      BY <3>1
  <2>4. Out(d) = a \o b
    BY <2>1 DEF Out
  <2>5. CASE d = c /\ items # <<>>
    <3>1. CASE d \in open
      <4>1. said'[d] = (a \o (b \o items)) \o F /\ buf'[d] = <<>>
        BY <2>1, <2>2, <2>5, <3>1
      <4>2. said'[d] \in Seq(SentItems) /\ said'[d] \o buf'[d] = Out(d) \o (items \o F)
        <5>1. PICK g \in Seq(SentItems) : g = items
          BY <1>1
        <5>2. PICK p \in Seq(SentItems) : p = a \o (b \o g)
          BY SentEmpty
        <5>3. p \o F \in Seq(SentItems) /\ (p \o F) \o <<>> = p \o F
          BY SentEmpty
        <5>4. p \o F = (a \o b) \o (g \o F)
          <6>1. Regrouped(a, b, g, F)
            BY <1>2, <2>1, <5>1, SentFour
          <6> QED
            BY <5>2, <6>1 DEF Regrouped
        <5> QED
          BY <2>4, <4>1, <5>1, <5>2, <5>3, <5>4
      <4>3. AreFrames(items \o F)
        BY <1>2, FramesJoined
      <4>4. ~spoilt'[d] => ~spoilt[d] /\ ~InPong(sock[d])
        BY <2>2, <3>1
      <4>5. ~spoilt'[d] => FramesAdded(d)
        BY <4>2, <4>3, <4>4 DEF FramesAdded
      <4>6. buf'[d] \in Seq(SentItems)
        BY <4>1
      <4> QED
        BY <2>3, <4>2, <4>4, <4>5, <4>6
    <3>2. CASE d \notin open
      <4>1. said'[d] = (a \o (b \o items)) \o <<>> /\ buf'[d] = <<>>
        BY <2>1, <2>2, <2>5, <3>2
      <4>2. said'[d] \in Seq(SentItems) /\ said'[d] \o buf'[d] = Out(d) \o items
        <5>1. PICK g \in Seq(SentItems) : g = items
          BY <1>1
        <5>2. PICK p \in Seq(SentItems) : p = a \o (b \o g)
          BY SentEmpty
        <5>3. p \o <<>> = p
          BY SentEmpty
        <5>4. p = (a \o b) \o g
          <6>1. Regrouped(a, b, g, F)
            BY <1>2, <2>1, <5>1, SentFour
          <6> QED
            BY <5>2, <6>1 DEF Regrouped
        <5> QED
          BY <2>4, <4>1, <5>1, <5>2, <5>3, <5>4
      <4>3. ~spoilt'[d] => ~spoilt[d]
        BY <2>2
      <4>4. FramesAdded(d)
        BY <2>5, <4>2 DEF FramesAdded
      <4>5. buf'[d] \in Seq(SentItems)
        BY <4>1
      <4> QED
        BY <2>3, <4>2, <4>3, <4>4, <4>5
    <3> QED
      BY <3>1, <3>2
  <2>6. CASE ~(d = c /\ items # <<>>)
    <3>1. CASE d \in open
      <4>1. said'[d] = (a \o <<>>) \o F /\ buf'[d] = <<>>
        BY <2>1, <2>2, <2>6, <3>1
      <4>2. said'[d] \in Seq(SentItems) /\ said'[d] \o buf'[d] = a \o F
        <5>1. a \o <<>> = a /\ a \o F \in Seq(SentItems) /\ (a \o F) \o <<>> = a \o F
          BY SentEmpty
        <5> QED
          BY <4>1, <5>1
      <4>3. ~spoilt'[d] => ~spoilt[d] /\ ~InPong(sock[d]) /\ b = <<>>
        BY <2>2, <2>6, <3>1
      <4>4. b = <<>> => Out(d) = a
        BY <2>4, SentEmpty
      <4>5. ~spoilt'[d] => FramesAdded(d)
        BY <1>2, <4>2, <4>3, <4>4 DEF FramesAdded
      <4>6. buf'[d] \in Seq(SentItems)
        BY <4>1
      <4> QED
        BY <2>3, <4>2, <4>3, <4>5, <4>6
    <3>2. CASE d \notin open
      <4>1. said'[d] = (a \o <<>>) \o <<>> /\ buf'[d] = b
        BY <2>1, <2>2, <2>6, <3>2
      <4>2. said'[d] = a
        BY <4>1, SentEmpty
      <4>3. (a \o b) \o <<>> = a \o b
        BY SentEmpty
      <4>4. ~spoilt'[d] => ~spoilt[d]
        BY <2>2
      <4> QED
        BY <2>3, <2>4, <4>1, <4>2, <4>3, <4>4, NoFrame DEF FramesAdded
    <3> QED
      BY <3>1, <3>2
  <2> QED
    BY <2>5, <2>6
<1>4. OutTypes'
  <2>1. /\ said' = [d \in Socks |-> said'[d]] /\ buf' = [d \in Socks |-> buf'[d]]
        /\ spoilt' = [d \in Socks |-> spoilt'[d]]
    BY DEF Broadcast
  <2> QED
    BY <1>3, <2>1 DEF OutTypes
<1> QED
  BY <1>3, <1>4 DEF Outs, Sends

LEMMA AddedPongs ==
  ASSUME OutTypes, NEW d \in Socks, FramesAdded(d)
  PROVE  Pongs(said'[d] \o buf'[d]) = Pongs(Out(d))
<1>1. PICK items : AreFrames(items) /\ said'[d] \o buf'[d] = Out(d) \o items
  BY DEF FramesAdded
<1>2. PICK g \in Seq(SentItems) : g = items /\ \A i \in 1 .. Len(g) : g[i].kind = "frame"
  BY <1>1 DEF AreFrames
<1>3. PICK y \in Seq(SentItems) : y = Out(d)
  BY ConcatProperties DEF OutTypes, Out
<1>4. Pongs(y \o g) = Pongs(y) \o Pongs(g)
  BY PongsJoined
<1>5. Pongs(g) = <<>>
  BY <1>2, NoPongs
<1>6. Pongs(y) \o <<>> = Pongs(y)
  BY PongsTyped, ConcatEmptySeq
<1> QED
  BY <1>1, <1>2, <1>3, <1>4, <1>5, <1>6

\* Behind whole pongs, a frame; in the middle of one, nothing.
LEMMA WholeAdded ==
  ASSUME NEW a \in Seq(SentItems), NEW b, AreFrames(b), NEW n \in Nat, NEW m \in Nat,
         WholeBut(a, n), n = 0 \/ (b = <<>> /\ m = n)
  PROVE  WholeBut(a \o b, m)
<1>1. CASE b = <<>> /\ m = n
  <2>1. a \o b = a
    BY <1>1, ConcatEmptySeq
  <2> QED
    BY <1>1, <2>1
<1>2. CASE n = 0
  <2>1. PICK t \in Seq(SentItems) : t = a \o b
    BY ConcatProperties DEF AreFrames
  <2>2. PICK na \in Nat, nb \in Nat : na = Len(a) /\ nb = Len(b)
    BY DEF AreFrames
  <2>3. /\ Len(t) = na + nb /\ (\A i \in 1 .. na : t[i] = a[i])
        /\ \A j \in 1 .. nb : t[na + j] = b[j] /\ b[j].kind = "frame"
    <3>1. /\ Len(t) = Len(a) + Len(b) /\ (\A i \in 1 .. Len(a) : t[i] = a[i])
          /\ \A j \in 1 .. Len(b) : t[Len(a) + j] = b[j]
      BY <2>1, Behind DEF AreFrames
    <3> QED
      BY <2>2, <3>1 DEF AreFrames
  <2>4. ASSUME NEW p \in 1 .. na + nb, t[p].kind = "pong"
        PROVE  /\ \A q \in p + 1 .. na + nb : q <= p + t[p].len => t[q].kind = "byte"
               /\ p + t[p].len <= (na + nb) + m
    <3>1. p \in 1 .. na
      <4>1. CASE p > na
        <5>1. p - na \in 1 .. nb /\ na + (p - na) = p
          BY <2>2, <4>1
        <5> QED
          BY <2>3, <2>4, <5>1
      <4> QED
        BY <2>2, <4>1
    <3>2. t[p] = a[p] /\ t[p].len \in Nat
      <4>1. a[p] \in SentItems
        BY <2>2, <3>1
      <4> QED
        BY <2>3, <3>1, <4>1 DEF SentItems
    <3>3. /\ \A q \in p + 1 .. na : q <= p + a[p].len => a[q].kind = "byte"
          /\ p + a[p].len <= na
      <4>1. p \in DOMAIN a /\ na + 0 = na
        BY <2>2, <3>1
      <4> QED
        BY <1>2, <2>2, <2>4, <3>2, <4>1 DEF WholeBut
    <3>4. PICK z \in Nat : z = t[p].len
      BY <3>2
    <3>5. p + z <= na
      BY <3>2, <3>3, <3>4
    <3>6. ASSUME NEW q \in p + 1 .. na + nb, q <= p + z PROVE t[q].kind = "byte"
      <4>1. q \in p + 1 .. na /\ q \in 1 .. na
        BY <2>2, <3>1, <3>5, <3>6
      <4> QED
        BY <2>3, <3>2, <3>3, <3>4, <3>6, <4>1
    <3> QED
      BY <2>2, <3>1, <3>4, <3>5, <3>6, SMTT(30)
  <2>5. DOMAIN t = 1 .. na + nb
    BY <2>2, <2>3
  <2> QED
    BY <2>1, <2>3, <2>4, <2>5 DEF WholeBut
<1> QED
  BY <1>1, <1>2

\* In the middle of a pong, bytes of it.
LEMMA WholeBytes ==
  ASSUME NEW a \in Seq(SentItems), NEW b \in Seq(SentItems), \A i \in 1 .. Len(b) : b[i].kind = "byte",
         NEW n \in Nat, NEW m \in Nat, m + Len(b) = n, WholeBut(a, n)
  PROVE  WholeBut(a \o b, m)
<1>1. PICK t \in Seq(SentItems) : t = a \o b
  BY ConcatProperties
<1>2. PICK na \in Nat, nb \in Nat : na = Len(a) /\ nb = Len(b)
  OBVIOUS
<1>3. Len(t) = na + nb /\ (\A i \in 1 .. na : t[i] = a[i]) /\ \A j \in 1 .. nb : t[na + j] = b[j]
  BY <1>1, <1>2, Behind
<1>4. \A q \in 1 .. na + nb : q > na => t[q].kind = "byte"
  <2>1. ASSUME NEW q \in 1 .. na + nb, q > na PROVE t[q].kind = "byte"
    <3>1. PICK j \in 1 .. nb : q = na + j
      <4>1. q - na \in 1 .. nb /\ q = na + (q - na)
        BY <1>2, <2>1
      <4> QED
        BY <4>1
    <3> QED
      BY <1>2, <1>3, <3>1
  <2> QED
    BY <2>1
<1>5. ASSUME NEW p \in 1 .. na + nb, t[p].kind = "pong"
      PROVE  /\ \A q \in p + 1 .. na + nb : q <= p + t[p].len => t[q].kind = "byte"
             /\ p + t[p].len <= (na + nb) + m
  <2>1. p \in 1 .. na
    <3>1. ~(p > na)
      BY <1>4, <1>5
    <3> QED
      BY <1>2, <3>1
  <2>2. t[p] = a[p] /\ t[p].len \in Nat
    <3>1. a[p] \in SentItems
      BY <1>2, <2>1
    <3> QED
      BY <1>3, <2>1, <3>1 DEF SentItems
  <2>3. PICK z \in Nat : z = t[p].len
    BY <2>2
  <2>4. /\ \A q \in p + 1 .. na : q <= p + z => a[q].kind = "byte"
        /\ p + z <= na + n
    <3>1. p \in DOMAIN a
      BY <1>2, <2>1
    <3> QED
      BY <1>2, <1>5, <2>2, <2>3, <3>1 DEF WholeBut
  <2>5. ASSUME NEW q \in p + 1 .. na + nb, q <= p + z PROVE t[q].kind = "byte"
    <3>1. CASE q > na
      <4>1. q \in 1 .. na + nb
        BY <1>2, <2>1
      <4> QED
        BY <1>4, <3>1, <4>1
    <3>2. CASE ~(q > na)
      <4>1. q \in p + 1 .. na /\ q \in 1 .. na
        BY <1>2, <2>1, <3>2
      <4> QED
        BY <1>3, <2>4, <2>5, <4>1
    <3> QED
      BY <3>1, <3>2
  <2>6. p + z <= (na + nb) + m
    BY <1>2, <2>1, <2>4
  <2> QED
    BY <2>3, <2>5, <2>6
<1>6. DOMAIN t = 1 .. na + nb
  BY <1>2, <1>3
<1> QED
  BY <1>1, <1>3, <1>5, <1>6 DEF WholeBut

\* The head of a pong.
LEMMA WholePong ==
  ASSUME NEW a \in Seq(SentItems), NEW len \in Nat, WholeBut(a, 0)
  PROVE  WholeBut(a \o <<Pong(len)>>, len) /\ a \o <<Pong(len)>> \in Seq(SentItems)
<1>1. PICK pong \in SentItems : pong = Pong(len) /\ pong.len = len
  <2>1. PICK pong : pong = Pong(len)
    OBVIOUS
  <2>2. {} \in Octets
    BY DEF Octets
  <2>3. pong \in SentItems /\ pong.len = len
    BY <2>1, <2>2 DEF Pong, SentItems
  <2> QED
    BY <2>1, <2>3
<1>2. PICK b \in Seq(SentItems) : b = <<Pong(len)>> /\ Len(b) = 1 /\ b[1] = pong
  <2>1. <<pong>> \in Seq(SentItems) /\ Len(<<pong>>) = 1 /\ <<pong>>[1] = pong
    BY <1>1
  <2> QED
    BY <1>1, <2>1
<1>3. PICK t \in Seq(SentItems) : t = a \o b
  BY ConcatProperties
<1>4. PICK na \in Nat : na = Len(a)
  OBVIOUS
<1>5. Len(t) = na + 1 /\ (\A i \in 1 .. na : t[i] = a[i]) /\ t[na + 1] = pong
  <2>1. Len(t) = na + 1 /\ (\A i \in 1 .. na : t[i] = a[i]) /\ \A j \in 1 .. 1 : t[na + j] = b[j]
    BY <1>2, <1>3, <1>4, Behind
  <2>2. 1 \in 1 .. 1
    OBVIOUS
  <2> QED
    BY <1>2, <2>1, <2>2
<1>6. ASSUME NEW p \in 1 .. na + 1, t[p].kind = "pong"
      PROVE  /\ \A q \in p + 1 .. na + 1 : q <= p + t[p].len => t[q].kind = "byte"
             /\ p + t[p].len <= (na + 1) + len
  <2>1. CASE p = na + 1
    <3>1. t[p].len = len
      BY <1>1, <1>5, <2>1
    <3>2. p + 1 .. na + 1 = {}
      BY <1>4, <2>1
    <3> QED
      BY <1>4, <2>1, <3>1, <3>2
  <2>2. CASE p # na + 1
    <3>1. p \in 1 .. na
      BY <1>4, <2>2
    <3>2. t[p] = a[p] /\ t[p].len \in Nat
      <4>1. a[p] \in SentItems
        BY <1>4, <3>1
      <4> QED
        BY <1>5, <3>1, <4>1 DEF SentItems
    <3>3. PICK z \in Nat : z = t[p].len
      BY <3>2
    <3>4. /\ \A q \in p + 1 .. na : q <= p + z => a[q].kind = "byte"
          /\ p + z <= na
      <4>1. p \in DOMAIN a /\ na + 0 = na
        BY <1>4, <3>1
      <4> QED
        BY <1>4, <1>6, <3>2, <3>3, <4>1 DEF WholeBut
    <3>5. ASSUME NEW q \in p + 1 .. na + 1, q <= p + z PROVE t[q].kind = "byte"
      <4>1. q \in p + 1 .. na /\ q \in 1 .. na
        BY <1>4, <3>1, <3>4, <3>5
      <4> QED
        BY <1>5, <3>4, <3>5, <4>1
    <3>6. p + z <= (na + 1) + len
      BY <1>4, <3>1, <3>4
    <3> QED
      BY <3>3, <3>5, <3>6
  <2> QED
    BY <2>1, <2>2
<1>7. DOMAIN t = 1 .. na + 1
  BY <1>4, <1>5
<1> QED
  BY <1>2, <1>3, <1>5, <1>6, <1>7 DEF WholeBut

LEMMA WholeIs ==
  ASSUME NEW a \in Seq(SentItems), NEW n, WholeBut(a, n)
  PROVE  Whole(a)
<1>1. PICK na \in Nat : na = Len(a) /\ DOMAIN a = 1 .. na
  OBVIOUS
<1>2. ASSUME NEW p \in 1 .. na, a[p].kind = "pong",
             NEW q \in p + 1 .. Min({p + a[p].len, na})
      PROVE  a[q].kind = "byte"
  <2>1. PICK z \in Nat : z = a[p].len
    <3>1. a[p] \in SentItems
      BY <1>1
    <3> QED
      BY <3>1 DEF SentItems
  <2>2. Min({p + z, na}) \in Nat /\ Min({p + z, na}) <= p + z /\ Min({p + z, na}) <= na
    <3>1. p + z \in Nat
      BY <1>1
    <3> QED
      BY <1>1, <3>1, MinOfTwo
  <2>3. q \in p + 1 .. na /\ q <= p + z
    BY <1>1, <2>1, <2>2
  <2> QED
    BY <1>1, <1>2, <2>1, <2>3 DEF WholeBut
<1> QED
  BY <1>1, <1>2 DEF Whole

\* Sums and differences.
LEMMA LeftBehind ==
  ASSUME NEW m \in Nat, NEW np \in Nat, NEW a \in 1 .. np + 1, np <= m
  PROVE  /\ m - (np - a + 1) \in Nat /\ m - (np - a + 1) <= m
         /\ (m - (np - a + 1)) + (np - a + 1) = m
  OBVIOUS

LEMMA ByteAt ==
  ASSUME NEW m \in Nat, NEW np \in Nat, NEW a \in 1 .. np, NEW n \in Nat, n + (np - a + 1) = m,
         NEW i \in Nat, a + i <= np
  PROVE  a + i \in 1 .. np /\ m - np + (a + i) = n + 1 + i
  OBVIOUS

LEMMA BytesTyped ==
  ASSUME NEW frames \in Seq(FrameSet)
  PROVE  Bytes(frames) \in Seq(WireBytes)
<1>1. PICK W \in Seq(Seq(WireBytes)) : Bytes(frames) = FlattenSeq(W)
  BY WiresTyped
<1>2. Len(W) \in 0 .. Len(W)
  OBVIOUS
<1> QED
  BY <1>1, <1>2, UptoStep

LEMMA ScriptOf ==
  ASSUME FrameTypes, NEW c \in Socks
  PROVE  GoodFrames(script[c]) /\ script[c] \in Seq(FrameSet) /\ Bytes(script[c]) \in Seq(WireBytes)
<1>1. GoodFrames(script[c])
  BY ScriptsGood DEF FrameTypes
<1>2. script[c] \in Seq(FrameSet)
  BY <1>1 DEF GoodFrames
<1> QED
  BY <1>1, <1>2, BytesTyped

\* How much has come and was seen.
LEMMA Counting ==
  ASSUME FrameTypes, WireInv, NEW c \in Socks
  PROVE  /\ Came(c) \in Nat /\ Len(wire[c]) \in Nat /\ Len(Bytes(script[c])) \in Nat
         /\ Came(c) + Len(wire[c]) = Len(Bytes(script[c]))
         /\ Seen(c) \in Nat /\ Seen(c) <= Came(c) /\ (cur # c => Seen(c) = Came(c))
         /\ cur = c => Seen(c) + (Len(piece) - at + 1) = Came(c)
<1>1. PICK nb \in Nat, nw \in Nat, np \in Nat :
         nb = Len(Bytes(script[c])) /\ nw = Len(wire[c]) /\ np = Len(piece)
  <2>1. Bytes(script[c]) \in Seq(WireBytes) /\ wire[c] \in Seq(WireBytes) /\ piece \in Seq(WireBytes)
    BY ScriptOf DEF FrameTypes
  <2> QED
    BY <2>1
<1>2. PICK m \in Nat : m = Came(c) /\ m = nb - nw
  BY <1>1 DEF WireInv, WireOf, Came
<1>3. PICK a \in Nat : a = at /\ a \in 1 .. np + 1
  BY <1>1 DEF WireInv
<1>4. m + nw = nb
  BY <1>1, <1>2
<1>5. CASE cur # c
  <2>1. Seen(c) = m - 0
    BY <1>2, <1>5 DEF Seen
  <2>2. m - 0 = m
    BY <1>2
  <2>3. Came(c) = m /\ Len(wire[c]) = nw /\ Len(Bytes(script[c])) = nb
    BY <1>1, <1>2
  <2>4. Seen(c) = m
    BY <2>1, <2>2
  <2>5. m <= m
    BY <1>2
  <2> QED
    BY <1>4, <1>5, <2>3, <2>4, <2>5
<1>6. CASE cur = c
  <2>1. np <= m
    <3>1. cur # NoSock
      BY <1>6, SocketsAssumption
    <3>2. PieceOf(c)
      BY <1>6, <3>1 DEF WireInv
    <3> QED
      BY <1>1, <1>2, <3>2 DEF PieceOf
  <2>2. Seen(c) = m - (np - a + 1)
    BY <1>1, <1>2, <1>3, <1>6 DEF Seen
  <2>3. PICK n \in Nat : n = m - (np - a + 1) /\ n <= m /\ n + (np - a + 1) = m
    <3>1. /\ m - (np - a + 1) \in Nat /\ m - (np - a + 1) <= m
          /\ (m - (np - a + 1)) + (np - a + 1) = m
      <4>1. m \in Nat /\ np \in Nat /\ a \in 1 .. np + 1
        BY <1>1, <1>2, <1>3
      <4> QED
        BY <2>1, <4>1, LeftBehind
    <3> QED
      BY <3>1
  <2> QED
    BY <1>1, <1>2, <1>3, <1>4, <1>6, <2>2, <2>3
<1> QED
  BY <1>5, <1>6

\* What is left of the piece are the next bytes of the frames.
LEMMA Looking ==
  ASSUME FrameTypes, WireInv, WsInv, Reading
  PROVE  /\ cur \in Socks /\ at \in Nat /\ at >= 1 /\ Len(piece) \in Nat /\ at <= Len(piece)
         /\ Seen(cur) < Len(Bytes(script[cur]))
         /\ Seen(cur) + (Len(piece) - at + 1) <= Len(Bytes(script[cur]))
         /\ \A i \in Nat : at + i <= Len(piece) =>
              piece[at + i] = Bytes(script[cur])[Seen(cur) + 1 + i]
<1>1. cur \in Socks /\ cur # NoSock
  BY TurnSock DEF Reading
<1>2. PICK np \in Nat, a \in Nat : np = Len(piece) /\ a = at /\ a >= 1 /\ a <= np
  <2>1. piece \in Seq(WireBytes) /\ at \in 1 .. Len(piece) + 1 /\ at <= Len(piece)
    BY DEF FrameTypes, WireInv, Reading
  <2> QED
    BY <2>1
<1>3. PICK m \in Nat, n \in Nat, nb \in Nat, nw \in Nat :
         /\ m = Came(cur) /\ n = Seen(cur) /\ nb = Len(Bytes(script[cur])) /\ nw = Len(wire[cur])
         /\ m + nw = nb /\ n + (np - a + 1) = m
  BY <1>1, <1>2, Counting
<1>4. np <= m /\ \A i \in 1 .. np : piece[i] = Bytes(script[cur])[m - np + i]
  BY <1>1, <1>2, <1>3 DEF WireInv, PieceOf
<1>5. ASSUME NEW i \in Nat, a + i <= np PROVE piece[a + i] = Bytes(script[cur])[n + 1 + i]
  <2>1. a + i \in 1 .. np /\ m - np + (a + i) = n + 1 + i
    <3>1. m \in Nat /\ np \in Nat /\ a \in 1 .. np /\ n \in Nat /\ n + (np - a + 1) = m
      BY <1>2, <1>3
    <3> QED
      BY <1>5, <3>1, ByteAt
  <2> QED
    BY <1>4, <2>1
<1>6. n < nb /\ n + (np - a + 1) <= nb
  <2>1. np - a + 1 >= 1 /\ m <= nb
    BY <1>2, <1>3, SMTT(30)
  <2> QED
    BY <1>2, <1>3, <2>1
<1>7. /\ at \in Nat /\ at >= 1 /\ Len(piece) \in Nat /\ at <= Len(piece) /\ np = Len(piece) /\ a = at
      /\ n = Seen(cur) /\ nb = Len(Bytes(script[cur]))
  BY <1>2, <1>3
<1> QED
  BY <1>1, <1>5, <1>6, <1>7

\* Nothing has come, and a piece is only put away or read on.
LEMMA WireKept ==
  ASSUME WireInv, UNCHANGED <<script, wire>>,
         \A c \in Socks : sock'[c].st = "none" => sock[c].st = "none",
         \/ UNCHANGED <<cur, piece>> /\ at' \in 1 .. Len(piece) + 1
         \/ cur' = NoSock /\ piece' = <<>> /\ at' = 1
  PROVE  WireInv'
<1>1. ASSUME NEW c \in Socks PROVE WireOf(c)' /\ Came(c)' = Came(c)
  BY DEF WireInv, WireOf, Came
<1>2. CASE UNCHANGED <<cur, piece>> /\ at' \in 1 .. Len(piece) + 1
  <2>1. ASSUME cur # NoSock PROVE PieceOf(cur)'
    BY <1>2, <2>1 DEF WireInv, PieceOf, Came
  <2> QED
    BY <1>1, <1>2, <2>1 DEF WireInv
<1>3. CASE cur' = NoSock /\ piece' = <<>> /\ at' = 1
  BY <1>1, <1>3 DEF WireInv
<1> QED
  BY <1>2, <1>3

\* The connection is gone, and with it what had not come.
LEMMA WireGone ==
  ASSUME FrameTypes, WireInv, NEW c \in Socks, cur = NoSock, UNCHANGED <<script, cur, piece, at>>,
         wire' = [wire EXCEPT ![c] = <<>>], sock'[c].st # "none",
         \A d \in Socks \ {c} : sock'[d] = sock[d]
  PROVE  WireInv'
<1>1. ASSUME NEW d \in Socks PROVE WireOf(d)'
  <2>1. CASE d = c
    <3>1. wire'[d] = <<>>
      BY <2>1 DEF FrameTypes
    <3>2. Came(d)' = Len(Bytes(script[d])) - 0
      BY <3>1 DEF Came
    <3>3. Came(d)' \in Nat
      BY <3>2, Counting
    <3> QED
      BY <2>1, <3>1, <3>3 DEF WireOf
  <2>2. CASE d # c
    <3>1. wire'[d] = wire[d] /\ sock'[d] = sock[d]
      BY <2>2 DEF FrameTypes
    <3> QED
      BY <3>1, ZenonT(40) DEF WireInv, WireOf, Came
  <2> QED
    BY <2>1, <2>2
<1> QED
  BY <1>1 DEF WireInv

LEMMA WireStep ==
  ASSUME FrameTypes, WireInv, NEW c \in Socks, Receive(c)
  PROVE  WireInv' /\ Seen(c)' = Seen(c) /\ wire' \in [Socks -> Seq(WireBytes)] /\ piece' \in Seq(WireBytes)
         /\ \A d \in Socks \ {c} : wire'[d] = wire[d]
<1>1. /\ cur = NoSock /\ sock[c].st = "open" /\ wire[c] # <<>> /\ cur' = c /\ at' = 1
      /\ UNCHANGED <<script, sock>>
  BY DEF Receive
<1>2. PICK w \in Seq(WireBytes) : w = wire[c] /\ w # <<>>
  BY <1>1 DEF FrameTypes
<1>3. PICK nw \in Nat : nw = Len(w) /\ nw # 0
  BY <1>2
<1>4. PICK len \in 1 .. nw :
         /\ piece' = SubSeq(w, 1, len)
         /\ wire' = [wire EXCEPT ![c] = SubSeq(w, len + 1, nw)]
  <2>1. PICK n \in Cuts :
           LET l == Min({n, Len(wire[c])})
           IN /\ piece' = SubSeq(wire[c], 1, l)
              /\ wire' = [wire EXCEPT ![c] = SubSeq(@, l + 1, Len(@))]
    BY DEF Receive
  <2>2. n \in Nat \ {0}
    BY <2>1, SocketsAssumption
  <2>3. PICK len : len = Min({n, nw})
    OBVIOUS
  <2>4. len \in 1 .. nw
    BY <1>3, <2>2, <2>3, MinOfTwo
  <2> QED
    BY <1>2, <1>3, <2>1, <2>3, <2>4
<1>5. PICK p \in Seq(WireBytes) : p = piece' /\ Len(p) = len /\ \A i \in 1 .. len : p[i] = w[i]
  BY <1>3, <1>4, SubSeqProperties, SMTT(30)
<1>6. PICK r \in Seq(WireBytes) :
         r = SubSeq(w, len + 1, nw) /\ Len(r) = nw - len /\ \A i \in 1 .. nw - len : r[i] = w[len + i]
  <2>1. w \in Seq(WireBytes) /\ len + 1 \in 1 .. Len(w) + 1 /\ nw \in len .. Len(w)
    BY <1>3, <1>4
  <2>2. PICK r : r = SubSeq(w, len + 1, nw)
    OBVIOUS
  <2>3. r \in Seq(WireBytes)
    BY <1>3, <1>4, <2>2, SubSeqProperties
  <2>4. Len(r) = nw - len
    BY <1>3, <1>4, <2>2, SubSeqProperties
  <2>5. \A i \in 1 .. nw - len : r[i] = w[len + i]
    BY <1>3, <1>4, <2>2, SubSeqProperties
  <2> QED
    BY <2>2, <2>3, <2>4, <2>5
<1>7. /\ wire' \in [Socks -> Seq(WireBytes)] /\ wire'[c] = r
      /\ \A d \in Socks \ {c} : wire'[d] = wire[d]
  BY <1>4, <1>6 DEF FrameTypes
<1>8. PICK m \in Nat, nb \in Nat :
         /\ m = Came(c) /\ nb = Len(Bytes(script[c])) /\ m + nw = nb /\ Seen(c) = m
         /\ \A i \in 1 .. nw : w[i] = Bytes(script[c])[m + i]
  <2>1. cur # c
    BY <1>1, SocketsAssumption
  <2> QED
    BY <1>2, <1>3, <2>1, Counting, ZenonT(40) DEF WireInv, WireOf
<1>9. Came(c)' = m + len
  <2>1. Came(c)' = nb - (nw - len)
    BY <1>1, <1>6, <1>7, <1>8 DEF Came
  <2>2. nw \in Nat /\ len \in 0 .. nw /\ m \in Nat
    BY <1>3, <1>4, <1>8
  <2>3. (m + nw) - (nw - len) = m + len
    BY <2>2, RestOf
  <2> QED
    BY <1>8, <2>1, <2>3, Zenon
<1>10. WireOf(c)'
  <2>1. ASSUME NEW i \in 1 .. nw - len PROVE r[i] = Bytes(script[c])[m + len + i]
    <3>1. len + i \in 1 .. nw /\ m + (len + i) = m + len + i
      BY <1>3
    <3> QED
      BY <1>6, <1>8, <3>1
  <2>2. Len(wire'[c]) = nw - len
    BY <1>6, <1>7
  <2> QED
    BY <1>1, <1>3, <1>7, <1>9, <2>1, <2>2 DEF WireOf
<1>11. ASSUME NEW d \in Socks, d # c PROVE WireOf(d)'
  BY <1>1, <1>7, <1>11, ZenonT(40) DEF WireInv, WireOf, Came
<1>12. PieceOf(c)'
  <2>1. Len(piece') = len /\ len <= m + len /\ (m + len) - len = m
    BY <1>5
  <2>2. \A i \in 1 .. len : piece'[i] = Bytes(script'[c])[(m + len) - len + i]
    <3>1. ASSUME NEW i \in 1 .. len PROVE piece'[i] = Bytes(script'[c])[(m + len) - len + i]
      <4>1. i \in 1 .. nw
        BY <1>3, <1>4
      <4>2. p[i] = w[i] /\ w[i] = Bytes(script[c])[m + i]
        BY <1>5, <1>8, <4>1
      <4>3. script' = script /\ p = piece'
        BY <1>1, <1>5
      <4> QED
        BY <2>1, <4>2, <4>3
    <3> QED
      BY <3>1
  <2> QED
    BY <1>9, <2>1, <2>2 DEF PieceOf
<1>13. at' \in 1 .. Len(piece') + 1
  BY <1>1, <1>5
<1>14. Seen(c)' = m
  <2>1. Seen(c)' = (m + len) - (len - 1 + 1)
    BY <1>1, <1>5, <1>9 DEF Seen
  <2> QED
    BY <2>1
<1>15. WireInv'
  BY <1>1, <1>10, <1>11, <1>12, <1>13 DEF WireInv
<1> QED
  BY <1>5, <1>7, <1>8, <1>14, <1>15

\* What a turn finds in the piece is the next byte of the frames.
LEMMA Turning ==
  ASSUME FrameTypes, WireInv, WsInv, Reading, NEW k \in Nat, NEW o \in Nat, Following(cur, k, o)
  PROVE  \/ HeadGoesOn(sock[cur], Now, script[cur], Seen(cur), k, o)
         \/ \E d \in Nat : Paying(sock[cur], Now, script[cur], k, o, d)
<1>1. /\ cur \in Socks /\ IsSock(sock[cur])
  BY TurnSock
<1>2. PICK n \in Nat : n = Seen(cur)
  BY <1>1, Counting
<1>3. n < Len(Bytes(script[cur])) /\ piece[at] = Bytes(script[cur])[n + 1]
  <2>1. /\ at \in Nat /\ at <= Len(piece) /\ n < Len(Bytes(script[cur]))
        /\ \A i \in Nat : at + i <= Len(piece) => piece[at + i] = Bytes(script[cur])[n + 1 + i]
    BY <1>2, Looking
  <2>2. 0 \in Nat /\ at + 0 = at /\ n + 1 + 0 = n + 1
    BY <2>1
  <2>3. at + 0 <= Len(piece)
    BY <2>1, <2>2
  <2>4. piece[at + 0] = Bytes(script[cur])[n + 1 + 0]
    BY <2>1, <2>2, <2>3
  <2> QED
    BY <2>1, <2>2, <2>4
<1>4. SeenTo(sock[cur], script[cur], n, k, o)
  BY <1>2 DEF Following
<1>5. GoodFrames(script[cur])
  BY <1>1, ScriptOf
<1>6. Now = HeadByte(sock[cur], Bytes(script[cur])[n + 1])
  BY <1>3 DEF Now
<1>7. PICK frames, s, t : frames = script[cur] /\ s = sock[cur] /\ t = Now
  OBVIOUS
<1>8. HeadGoesOn(s, t, frames, n, k, o) \/ \E d \in Nat : Paying(s, t, frames, k, o, d)
  BY <1>1, <1>3, <1>4, <1>5, <1>6, <1>7, Turn
<1> QED
  BY <1>2, <1>7, <1>8

LEMMA RoomLeft ==
  ASSUME NEW np \in Nat, NEW a \in Nat, a >= 1, a <= np, NEW z \in {0, 1}, NEW st \in Nat, st = a + z
  PROVE  /\ np - st + 1 \in Nat /\ st - a = z
         /\ \A m \in Nat : m <= np - st + 1 => st + m \in 1 .. np + 1
  OBVIOUS

\* Where the payload begins in the piece, and how much there is of it.
LEMMA Measured ==
  ASSUME FrameTypes, WireInv, WsInv, Reading, NEW k \in Nat, NEW o \in Nat, Following(cur, k, o),
         NEW d \in Nat, Paying(sock[cur], Now, script[cur], k, o, d)
  PROVE  /\ Sl \in Nat /\ Now.len \in Nat /\ Sl <= Now.len /\ Now.len + d = script[cur][k + 1].len
         /\ Start \in Nat /\ Start + Sl \in 1 .. Len(piece) + 1
         /\ Start - at = IF sock[cur].status # ST_PAYLOAD THEN 1 ELSE 0
         /\ Start = at + IF sock[cur].status # ST_PAYLOAD THEN 1 ELSE 0
         /\ k \in 0 .. Len(script[cur]) - 1
<1>1. cur \in Socks /\ GoodFrames(script[cur])
  BY TurnSock, ScriptOf
<1>2. PICK a \in Nat, np \in Nat : a = at /\ np = Len(piece) /\ a >= 1 /\ a <= np
  BY Looking
<1>3. k \in 0 .. Len(script[cur]) - 1
  <2>1. SeenTo(sock[cur], script[cur], Seen(cur), k, o)
    BY DEF Following
  <2>2. Seen(cur) \in Nat /\ Seen(cur) < Len(Bytes(script[cur]))
    BY <1>1, Counting, Looking
  <2> QED
    BY <1>1, <2>1, <2>2, Position
<1>4. PICK hl \in Nat, len \in Nat, comes \in Nat :
         /\ hl = HeadLen(script[cur][k + 1]) /\ len = script[cur][k + 1].len
         /\ comes = script[cur][k + 1].comes /\ comes <= len
  BY <1>1, <1>3, FrameLen
<1>5. d <= comes /\ Now.len = len - ((hl + d) - hl)
  BY <1>4 DEF Paying, PayloadState
<1>6. PICK l \in Nat : l = Now.len /\ l + d = len
  BY <1>4, <1>5
<1>7. PICK z \in {0, 1} : z = IF sock[cur].status # ST_PAYLOAD THEN 1 ELSE 0
  OBVIOUS
<1>8. PICK st \in Nat : st = Start /\ st = a + z
  <2>1. Start = a + z
    BY <1>2, <1>7 DEF Start
  <2>2. a + z \in Nat
    BY <1>7
  <2> QED
    BY <2>1, <2>2
<1>9. PICK q \in Nat : q = np - st + 1
  BY <1>2, <1>7, <1>8, RoomLeft
<1>10. PICK m \in Nat : m = Sl /\ m <= l /\ m <= q
  <2>1. Sl = Min({q, l})
    BY <1>2, <1>6, <1>8, <1>9 DEF Sl
  <2> QED
    BY <1>6, <1>9, <2>1, MinOfTwo
<1>11. st + m \in 1 .. np + 1 /\ st - a = z
  BY <1>2, <1>7, <1>8, <1>9, <1>10, RoomLeft
<1>12. /\ Sl \in Nat /\ Now.len \in Nat /\ Sl <= Now.len /\ Now.len + d = script[cur][k + 1].len
  BY <1>4, <1>6, <1>10
<1>13. /\ Start \in Nat /\ Start + Sl \in 1 .. Len(piece) + 1
       /\ Start - at = z /\ Start = at + z
  BY <1>2, <1>8, <1>10, <1>11
<1> QED
  BY <1>3, <1>7, <1>12, <1>13

\* A turn with payload is behind it afterwards.
LEMMA Moving ==
  ASSUME FrameTypes, WireInv, WsInv, Reading, NEW k \in Nat, NEW o \in Nat, Following(cur, k, o),
         NEW d \in Nat, Paying(sock[cur], Now, script[cur], k, o, d), ~Ends(script[cur][k + 1])
  PROVE  /\ d + Sl <= script[cur][k + 1].comes
         /\ \A u : AfterOf(Now, Sl, u) =>
              SeenTo(u, script[cur], Seen(cur) + (Start - at) + Sl,
                     NextFrame(script[cur], k, d, Sl), NextByte(script[cur], k, d, Sl))
<1>1. cur \in Socks /\ GoodFrames(script[cur])
  BY TurnSock, ScriptOf
<1>2. PICK frames : frames = script[cur]
  OBVIOUS
<1>3. PICK n \in Nat : n = Seen(cur) /\ n < Len(Bytes(frames)) /\ SeenTo(sock[cur], frames, n, k, o)
  BY <1>1, <1>2, Counting, Looking DEF Following
<1>4. PICK m \in Nat, st \in Nat, l \in Nat, len \in Nat :
         /\ m = Sl /\ st = Start /\ l = Now.len /\ m <= l /\ len = frames[k + 1].len /\ l + d = len
         /\ st - at = IF sock[cur].status # ST_PAYLOAD THEN 1 ELSE 0
         /\ st + m \in 1 .. Len(piece) + 1 /\ k \in 0 .. Len(frames) - 1
  <2>1. /\ Sl \in Nat /\ Now.len \in Nat /\ Sl <= Now.len /\ Now.len + d = script[cur][k + 1].len
        /\ Start \in Nat /\ Start + Sl \in 1 .. Len(piece) + 1
        /\ Start - at = IF sock[cur].status # ST_PAYLOAD THEN 1 ELSE 0
        /\ k \in 0 .. Len(script[cur]) - 1
    BY Measured
  <2>2. script[cur][k + 1].len \in Nat
    BY <2>1, SMTT(30)
  <2> QED
    BY <1>2, <2>1, <2>2
<1>5. PICK q \in Nat : q = Len(Upto(Wires(frames), k)) /\ n = q + o
  <2>1. GoodFrames(frames)
    BY <1>1, <1>2
  <2> QED
    BY <1>3, <2>1, Position, SMTT(30)
<1>6. PICK hl \in Nat : hl = HeadLen(frames[k + 1])
  BY <1>1, <1>2, <1>4, FrameLen
<1>7. hl + d = o + (st - at)
  BY <1>2, <1>4, <1>6 DEF Paying
<1>8. n + (st - at) + m = q + (hl + (d + m))
  <2>1. PICK z \in {0, 1} : z = st - at
    BY <1>4
  <2>2. hl + d = o + z
    BY <1>7, <2>1
  <2>3. z \in Nat /\ m \in Nat /\ q \in Nat /\ hl \in Nat
    <3>1. z \in Nat
      BY <2>1
    <3>2. m \in Nat
      BY <1>4, Zenon
    <3>3. q \in Nat /\ hl \in Nat
      BY <1>5, <1>6, Zenon
    <3> QED
      BY <3>1, <3>2, <3>3, Zenon
  <2>4. (q + o) + z + m = q + (hl + (d + m))
    BY <2>2, <2>3, SameSum
  <2> QED
    BY <1>5, <2>1, <2>4
<1>9. n + (st - at) + m <= Len(Bytes(frames))
  <2>1. PICK a \in Nat, np \in Nat, nb \in Nat :
           a = at /\ np = Len(piece) /\ nb = Len(Bytes(frames)) /\ n + (np - a + 1) <= nb
    BY <1>1, <1>2, <1>3, Looking, Counting
  <2>2. st + m <= np + 1 /\ st \in Nat /\ m \in Nat
    BY <1>4, <2>1
  <2>3. n + (st - a) + m <= nb
    BY <1>3, <2>1, <2>2, SMTT(30)
  <2> QED
    BY <2>1, <2>3
<1>10. d + m <= frames[k + 1].comes
  <2>1. d + m <= frames[k + 1].len
    BY <1>4, SMTT(30)
  <2>2. q + (hl + (d + m)) <= Len(Bytes(frames))
    BY <1>8, <1>9
  <2> QED
    BY <1>1, <1>2, <1>4, <1>5, <1>6, <2>1, <2>2, PayloadFits
<1>11. ASSUME NEW u, AfterOf(Now, m, u)
       PROVE  SeenTo(u, frames, n + (st - at) + m, NextFrame(frames, k, d, m), NextByte(frames, k, d, m))
  <2>1. PICK s, t : s = sock[cur] /\ t = Now
    OBVIOUS
  <2>2. SeenTo(u, frames, q + (hl + (d + m)), NextFrame(frames, k, d, m), NextByte(frames, k, d, m))
    <3>1. /\ Paying(s, t, frames, k, o, d) /\ ~Ends(frames[k + 1]) /\ AfterOf(t, m, u)
          /\ SeenTo(s, frames, n, k, o)
      BY <1>2, <1>3, <1>11, <2>1
    <3>2. GoodFrames(frames)
      BY <1>1, <1>2
    <3> QED
      BY <1>3, <1>5, <1>6, <1>10, <3>1, <3>2, BodyTurn
  <2> QED
    BY <1>8, <2>2
<1> QED
  BY <1>2, <1>3, <1>4, <1>10, <1>11

\* The payload in a turn, without its mask.
LEMMA PayloadIs ==
  ASSUME FrameTypes, WireInv, WsInv, Reading, NEW k \in Nat, NEW o \in Nat, Following(cur, k, o),
         NEW d \in Nat, Paying(sock[cur], Now, script[cur], k, o, d),
         script[cur][k + 1].masked, d + Sl <= script[cur][k + 1].comes
  PROVE  Payload = [j \in 1 .. Sl |-> Plain(k + 1, d + j)]
<1>1. cur \in Socks /\ GoodFrames(script[cur])
  BY TurnSock, ScriptOf
<1>2. PICK frames : frames = script[cur]
  OBVIOUS
<1>3. PICK n \in Nat, a \in Nat, np \in Nat :
         /\ n = Seen(cur) /\ n < Len(Bytes(frames)) /\ SeenTo(sock[cur], frames, n, k, o)
         /\ a = at /\ np = Len(piece) /\ a >= 1 /\ a <= np
         /\ \A i \in Nat : a + i <= np => piece[a + i] = Bytes(frames)[n + 1 + i]
  <2>1. PICK n \in Nat : n = Seen(cur)
    BY <1>1, Counting
  <2>2. SeenTo(sock[cur], frames, n, k, o)
    BY <1>2, <2>1 DEF Following
  <2>3. /\ at \in Nat /\ at >= 1 /\ Len(piece) \in Nat /\ at <= Len(piece)
        /\ n < Len(Bytes(frames))
        /\ \A i \in Nat : at + i <= Len(piece) => piece[at + i] = Bytes(frames)[n + 1 + i]
    BY <1>2, <2>1, Looking
  <2> QED
    BY <2>1, <2>2, <2>3
<1>4. PICK m \in Nat, st \in Nat :
         /\ m = Sl /\ st = Start
         /\ st = a + IF sock[cur].status # ST_PAYLOAD THEN 1 ELSE 0
         /\ st + m \in 1 .. np + 1 /\ k \in 0 .. Len(frames) - 1
  BY <1>2, <1>3, Measured
<1>5. Ahead(frames, n, k, o)
  BY <1>1, <1>2, <1>3, Position
<1>6. PICK f \in FrameSet, hl \in Nat, comes \in Nat :
         /\ f = frames[k + 1] /\ hl = HeadLen(f) /\ comes = f.comes /\ k + 1 \in Nat
         /\ Len(Encoded(f, k + 1)) = hl + comes
  BY <1>1, <1>2, <1>4, FrameLen
<1>7. PICK z \in {0, 1} : st = a + z /\ hl + d = o + z
  BY <1>2, <1>4, <1>6 DEF Paying
<1>8. PICK bytes : bytes = SubSeq(piece, st, st + m - 1)
  OBVIOUS
<1>9. bytes = [j \in 1 .. m |-> piece[st + j - 1]]
  <2>1. st \in Nat /\ m \in Nat
    BY <1>4, Zenon
  <2>2. SubSeq(piece, st, st + m - 1) = [j \in 1 .. m |-> piece[st + j - 1]]
    BY <2>1, SliceOf
  <2> QED
    BY <1>8, <2>2, Zenon
<1>10. ASSUME NEW j \in 1 .. m PROVE bytes[j] = Encoded(f, k + 1)[hl + (d + j)]
  <2>1. PICK i \in Nat : i = z + j - 1
    <3>1. z + j - 1 \in Nat
      BY <1>7
    <3> QED
      BY <3>1
  <2>2. bytes[j] = piece[a + i] /\ a + i <= np
    <3>1. st + j - 1 = a + i /\ a + i <= np
      BY <1>3, <1>4, <1>7, <2>1, SMTT(30)
    <3> QED
      BY <1>9, <3>1
  <2>3. piece[a + i] = Bytes(frames)[n + 1 + i]
    BY <1>3, <2>1, <2>2
  <2>4. o + i < hl + comes /\ o + 1 + i = hl + (d + j)
    <3>1. d + m <= comes
      BY <1>2, <1>4, <1>6
    <3>2. PICK dj \in Nat : dj = d + j /\ dj <= comes
      BY <1>6, <3>1
    <3>3. o + z = hl + d /\ i = z + j - 1 /\ z \in {0, 1} /\ j \in Nat /\ hl \in Nat
      BY <1>6, <1>7, <2>1
    <3>4. o + i = (hl + dj) - 1 /\ o + 1 + i = hl + dj
      BY <1>7, <2>1, <3>2, <3>3, ByteSum
    <3>5. (hl + dj) - 1 < hl + comes
      BY <1>6, <3>2, SMTT(30)
    <3> QED
      BY <3>2, <3>4, <3>5
  <2>5. Bytes(frames)[n + 1 + i] = Encoded(f, k + 1)[o + 1 + i]
    BY <1>5, <1>6, <2>1, <2>4 DEF Ahead
  <2> QED
    BY <2>2, <2>3, <2>4, <2>5
<1>11. DOMAIN bytes = 1 .. m
  BY <1>9
<1>12. PayloadState(Now, f, k + 1, hl + d)
  BY <1>2, <1>6 DEF Paying
<1>13. PICK s : s = Now
  OBVIOUS
<1>14. UnmaskedIs(s, bytes, k + 1, d, m)
  <2>1. f.masked /\ d + m <= f.comes
    BY <1>2, <1>4, <1>6
  <2>2. BytesOf(bytes, f, k + 1, d, m)
    BY <1>6, <1>10, <1>11 DEF BytesOf
  <2>3. PayloadState(s, f, k + 1, HeadLen(f) + d)
    BY <1>6, <1>12, <1>13
  <2>4. PICK k1 \in Nat : k1 = k + 1
    BY <1>6
  <2>5. f \in FrameSet /\ f.masked /\ k1 \in Nat /\ d \in Nat /\ m \in Nat /\ d + m <= f.comes
    BY <1>4, <1>6, <2>1, <2>4
  <2>6. PayloadState(s, f, k1, HeadLen(f) + d) /\ BytesOf(bytes, f, k1, d, m)
    BY <2>2, <2>3, <2>4
  <2>7. UnmaskedIs(s, bytes, k1, d, m)
    BY <2>5, <2>6, Unmasking
  <2> QED
    BY <2>4, <2>7
<1>15. Payload = Unmasked(s, bytes)
  BY <1>4, <1>8, <1>13 DEF Payload
<1> QED
  BY <1>4, <1>14, <1>15 DEF UnmaskedIs

LEMMA SeenKept ==
  ASSUME NEW c \in Socks, script' = script, wire'[c] = wire[c], cur = c <=> cur' = c,
         cur = c => UNCHANGED <<piece, at>>
  PROVE  Seen(c)' = Seen(c) /\ Came(c)' = Came(c)
<1>1. Came(c)' = Came(c)
  BY DEF Came
<1>2. CASE cur = c
  <2>1. piece' = piece /\ at' = at /\ cur' = c
    BY <1>2
  <2> QED
    BY <1>1, <1>2, <2>1 DEF Seen
<1>3. CASE cur # c
  <2>1. cur' # c
    BY <1>3
  <2> QED
    BY <1>1, <1>3, <2>1 DEF Seen
<1> QED
  BY <1>2, <1>3

\* What frames that are sent leave of the pongs before them.
LEMMA OutKept ==
  ASSUME OutTypes, NEW c \in Socks, Sends(c), ~spoilt'[c], WholeBut(Out(c), LeftOf(sock[c])),
         LeftOf(sock[c]) \in Nat, NEW m \in Nat, m = LeftOf(sock[c]) \/ ~InPong(sock[c])
  PROVE  /\ Pongs(said'[c] \o buf'[c]) = Pongs(Out(c))
         /\ WholeBut(said'[c] \o buf'[c], m)
<1>1. FramesAdded(c)
  BY DEF Sends
<1>2. PICK items : /\ AreFrames(items) /\ said'[c] \o buf'[c] = Out(c) \o items
                   /\ items = <<>> \/ ~InPong(sock[c])
  BY <1>1 DEF FramesAdded
<1>3. Out(c) \in Seq(SentItems)
  BY DEF Out, OutTypes
<1>4. PICK n \in Nat : n = LeftOf(sock[c])
  OBVIOUS
<1>5. n = 0 \/ (items = <<>> /\ m = n)
  BY <1>2, <1>4 DEF LeftOf
<1>6. PICK a \in Seq(SentItems) : a = Out(c)
  BY <1>3
<1>7. WholeBut(a, n)
  BY <1>4, <1>6
<1>8. WholeBut(a \o items, m)
  BY <1>2, <1>5, <1>7, WholeAdded
<1> QED
  BY <1>1, <1>2, <1>6, <1>8, AddedPongs

\* What has been heard and sent so far, whatever the socket is doing.
LEMMA FollowedSo ==
  ASSUME FrameTypes, NEW c \in Socks, SockFrames(c)
  PROVE  Followed(c)
<1>1. CASE sock[c].st = "open"
  <2>1. PICK k \in Nat, o \in Nat : Following(c, k, o)
    BY <1>1 DEF SockFrames
  <2>2. GoodFrames(script[c])
    BY ScriptOf
  <2>3. IsPrefix(heard[c], ToHear(script[c]))
    BY <2>1, <2>2, HeardBegins DEF Following
  <2>4. ~spoilt[c] => IsPrefix(Pongs(Out(c)), ToEcho(script[c]))
    BY <2>1, <2>2, EchoedBegins DEF Following
  <2> QED
    BY <2>3, <2>4 DEF Followed
<1>2. CASE sock[c].st # "open"
  BY <1>2 DEF SockFrames
<1> QED
  BY <1>1, <1>2

\* A socket that a step does not touch...
LEMMA FollowKept ==
  ASSUME FrameTypes, LenInv, NEW c \in Socks, Sends(c), SockFrames(c), script' = script,
         heard'[c] = heard[c], sock'[c].st = sock[c].st, SameParser(sock[c], sock'[c]),
         Seen(c)' = Seen(c)
  PROVE  SockFrames(c)'
<1>1. OutTypes /\ LeftOf(sock[c]) \in Nat /\ (~spoilt'[c] => ~spoilt[c])
  <2>1. ~spoilt'[c] => ~spoilt[c]
    BY Zenon DEF Sends
  <2>2. OutTypes
    BY DEF FrameTypes
  <2>3. LeftOf(sock[c]) \in Nat
    <3>1. sock[c].len \in Nat
      BY DEF LenInv
    <3>2. CASE InPong(sock[c])
      BY <3>1, <3>2 DEF LeftOf
    <3>3. CASE ~InPong(sock[c])
      BY <3>3 DEF LeftOf
    <3> QED
      BY <3>2, <3>3
  <2> QED
    BY <2>1, <2>2, <2>3
<1>2. LeftOf(sock'[c]) = LeftOf(sock[c])
  BY DEF LeftOf, InPong, SameParser
<1>3. ~spoilt'[c] => /\ Pongs(said'[c] \o buf'[c]) = Pongs(Out(c))
                     /\ WholeBut(said'[c] \o buf'[c], LeftOf(sock'[c]))
  BY <1>1, <1>2, OutKept DEF SockFrames
<1>4. Out(c)' = said'[c] \o buf'[c]
  BY DEF Out
<1>5. CASE sock[c].st = "open"
  <2>1. PICK k \in Nat, o \in Nat : Following(c, k, o)
    BY <1>5 DEF SockFrames
  <2>2. SeenTo(sock'[c], script[c], Seen(c), k, o)
    BY <2>1, SeenSame DEF Following
  <2>3. Following(c, k, o)'
    BY <1>1, <1>3, <1>4, <2>1, <2>2 DEF Following
  <2> QED
    BY <1>3, <1>4, <1>5, <2>3 DEF SockFrames
<1>6. CASE sock[c].st # "open"
  <2>1. Followed(c) /\ (sock[c].st = "none" => heard[c] = <<>> /\ (~spoilt[c] => Pongs(Out(c)) = <<>>))
    BY <1>6 DEF SockFrames
  <2>2. Followed(c)'
    BY <1>1, <1>3, <1>4, <2>1 DEF Followed
  <2> QED
    BY <1>1, <1>3, <1>4, <1>6, <2>1, <2>2 DEF SockFrames
<1> QED
  BY <1>5, <1>6

\* ...and one that it ends.
LEMMA FollowEnds ==
  ASSUME FrameTypes, LenInv, NEW c \in Socks, Sends(c), SockFrames(c), script' = script,
         heard'[c] = heard[c], sock'[c].st \notin {"open", "none"},
         SameParser(sock[c], sock'[c]) \/ (~InPong(sock[c]) /\ ~InPong(sock'[c]))
  PROVE  SockFrames(c)'
<1>1. OutTypes /\ LeftOf(sock[c]) \in Nat /\ (~spoilt'[c] => ~spoilt[c])
  <2>1. ~spoilt'[c] => ~spoilt[c]
    BY Zenon DEF Sends
  <2>2. OutTypes
    BY DEF FrameTypes
  <2>3. LeftOf(sock[c]) \in Nat
    <3>1. sock[c].len \in Nat
      BY DEF LenInv
    <3>2. CASE InPong(sock[c])
      BY <3>1, <3>2 DEF LeftOf
    <3>3. CASE ~InPong(sock[c])
      BY <3>3 DEF LeftOf
    <3> QED
      BY <3>2, <3>3
  <2> QED
    BY <2>1, <2>2, <2>3
<1>2. LeftOf(sock'[c]) = LeftOf(sock[c])
  BY DEF LeftOf, InPong, SameParser
<1>3. ~spoilt'[c] => /\ Pongs(said'[c] \o buf'[c]) = Pongs(Out(c))
                     /\ WholeBut(said'[c] \o buf'[c], LeftOf(sock'[c]))
  BY <1>1, <1>2, OutKept DEF SockFrames
<1>4. Out(c)' = said'[c] \o buf'[c]
  BY DEF Out
<1>5. Followed(c)
  BY FollowedSo
<1>6. Followed(c)'
  BY <1>1, <1>3, <1>4, <1>5 DEF Followed
<1> QED
  BY <1>3, <1>4, <1>6 DEF SockFrames

\* What is sent outside of a turn.
LEMMA CallOuts ==
  ASSUME FrameTypes, LenInv, NEW c \in Socks,
         Upgrade(c) \/ NoUpgrade(c) \/ Closed(c) \/ Sent(c) \/ Disconnect(c)
           \/ Receive(c) \/ ReceiveNull(c)
  PROVE  Outs
<1>1. OutTypes
  BY DEF FrameTypes
<1>2. CASE Upgrade(c)
  <2>1. ~InPong(sock[c])
    BY <1>2 DEF Upgrade, LenInv, InPong, ST_FLAGS, ST_PAYLOAD
  <2>2. AreFrames(<<Frame("101")>>)
    BY OneFrame
  <2>3. CASE Flush(c, <<Frame("101")>>) /\ UNCHANGED spoilt
    <3>1. spoilt' \in [Socks -> BOOLEAN] /\ \A d \in Socks : ~spoilt'[d] => ~spoilt[d]
      BY <1>1, <2>3 DEF OutTypes
    <3> QED
      BY <1>1, <2>1, <2>2, <2>3, <3>1, FlushOuts
  <2>4. CASE Broadcast(ToSet(llStart), c, <<Frame("101")>>)
    BY <1>1, <2>1, <2>2, <2>4, BroadcastOuts
  <2> QED
    BY <1>2, <2>3, <2>4 DEF Upgrade
<1>3. CASE Closed(c)
  <2>1. CASE UNCHANGED outVars
    BY <1>1, <2>1, SilentOuts DEF outVars
  <2>2. CASE Broadcast(ToSet(llStart) \ {c}, c, <<>>)
    BY <1>1, <2>2, NoFrame, BroadcastOuts
  <2> QED
    BY <1>3, <2>1, <2>2 DEF Closed
<1>4. CASE Sent(c)
  <2>1. CASE UNCHANGED <<buf, said, spoilt>>
    BY <1>1, <2>1, SilentOuts
  <2>2. CASE Broadcast(ToSet(llStart), c, <<>>)
    BY <1>1, <2>2, NoFrame, BroadcastOuts
  <2>3. CASE /\ Flush(c, <<Frame("close")>>)
             /\ spoilt' = [spoilt EXCEPT ![c] = @ \/ InPong(sock[c])]
    <3>1. AreFrames(<<Frame("close")>>)
      BY OneFrame
    <3>2. InPong(sock[c]) \in BOOLEAN
      BY DEF InPong
    <3>3. spoilt \in [Socks -> BOOLEAN]
      BY <1>1 DEF OutTypes
    <3>4. /\ spoilt' \in [Socks -> BOOLEAN] /\ \A d \in Socks : ~spoilt'[d] => ~spoilt[d]
          /\ InPong(sock[c]) => spoilt'[c]
      BY <2>3, <3>2, <3>3
    <3> QED
      BY <1>1, <2>3, <3>1, <3>4, FlushOuts
  <2> QED
    BY <1>4, <2>1, <2>2, <2>3 DEF Sent
<1>5. CASE NoUpgrade(c) \/ Disconnect(c) \/ Receive(c) \/ ReceiveNull(c)
  <2>1. UNCHANGED outVars
    BY <1>5 DEF NoUpgrade, Disconnect, Receive, ReceiveNull
  <2> QED
    BY <1>1, <2>1, SilentOuts DEF outVars
<1> QED
  BY <1>2, <1>3, <1>4, <1>5

\* No pong is begun when anything but a ping that may be answered is read.
LEMMA TurnPlain ==
  ASSUME FrameTypes, WireInv, WsInv, Reading, SockFrames(cur), Now.status = ST_PAYLOAD,
         Now.op # "ping" \/ Now.len > 125
  PROVE  ~InPong(sock[cur])
<1> SUFFICES ASSUME InPong(sock[cur]) PROVE FALSE
  OBVIOUS
<1>1. cur \in Socks /\ sock[cur].st = "open" /\ GoodFrames(script[cur])
  BY TurnSock, ScriptOf
<1>2. PICK k \in Nat, o \in Nat : Following(cur, k, o)
  BY <1>1 DEF SockFrames
<1>3. PICK d \in Nat : Paying(sock[cur], Now, script[cur], k, o, d)
  BY <1>2, Turning DEF HeadGoesOn
<1>4. sock[cur].status = ST_PAYLOAD /\ sock[cur].op = "ping"
  BY DEF InPong
<1>5. InBody(script[cur], k, o) /\ Now = sock[cur] /\ ~Ends(script[cur][k + 1])
  BY <1>3, <1>4 DEF Paying
<1>6. PICK frame : frame = script[cur][k + 1]
  OBVIOUS
<1>7. Now.op = frame.op
  BY <1>3, <1>6 DEF Paying, PayloadState
<1>8. Now.len \in Nat /\ Now.len + d = frame.len
  BY <1>2, <1>3, <1>6, Measured
<1>9. frame.op = "ping" /\ ~(frame.len > 125)
  BY <1>4, <1>5, <1>6, <1>7 DEF Ends
<1>10. Now.len > 125
  BY <1>4, <1>5
<1> QED
  BY <1>8, <1>9, <1>10

\* What is sent in a turn or at the end of a piece, but for a pong.
LEMMA DoneOuts ==
  ASSUME OutTypes, NEW items, AreFrames(items), Done(items), cur \in Socks,
         items = <<>> \/ ~InPong(sock[cur])
  PROVE  Outs
<1>1. CASE Flush(cur, items) /\ UNCHANGED spoilt
  <2>1. spoilt' \in [Socks -> BOOLEAN] /\ \A d \in Socks : ~spoilt'[d] => ~spoilt[d]
    BY <1>1 DEF OutTypes
  <2> QED
    BY <1>1, <2>1, FlushOuts
<1>2. CASE Broadcast(ToSet(llStart), cur, items)
  BY <1>2, BroadcastOuts
<1> QED
  BY <1>1, <1>2 DEF Done

LEMMA PieceOuts ==
  ASSUME FrameTypes, WireInv, WsInv, \A c \in Socks : SockFrames(c),
         Header \/ LongPing \/ Data \/ Unmasked1002 \/ CloseFrame \/ Ignored \/ PieceEnds
  PROVE  Outs
<1>1. OutTypes
  BY DEF FrameTypes
<1>2. AreFrames(<<Frame("close")>>) /\ AreFrames(<<Frame("answer")>>) /\ AreFrames(<<>>)
  BY OneFrame, NoFrame
<1>3. CASE Header \/ Ignored
  <2>1. UNCHANGED outVars
    BY <1>3 DEF Header, Ignored
  <2> QED
    BY <1>1, <2>1, SilentOuts DEF outVars
<1>4. CASE LongPing \/ Unmasked1002 \/ CloseFrame
  <2>1. /\ Reading /\ Now.status = ST_PAYLOAD /\ (Now.op # "ping" \/ Now.len > 125)
        /\ \E items : AreFrames(items) /\ Done(items)
    BY <1>2, <1>4 DEF LongPing, Unmasked1002, CloseFrame, InPayload, DataOps
  <2>2. cur \in Socks
    BY <2>1, TurnSock
  <2>3. ~InPong(sock[cur])
    BY <2>1, <2>2, TurnPlain
  <2> QED
    BY <1>1, <2>1, <2>2, <2>3, DoneOuts
<1>5. CASE Data
  <2>1. Reading /\ Now.status = ST_PAYLOAD /\ Now.op # "ping"
    BY <1>5 DEF Data, InPayload, DataOps
  <2>2. cur \in Socks
    BY <2>1, TurnSock
  <2>3. ~InPong(sock[cur])
    BY <2>1, <2>2, TurnPlain
  <2>4. CASE UNCHANGED outVars
    BY <1>1, <2>4, SilentOuts DEF outVars
  <2>5. CASE UNCHANGED spoilt /\ (Flush(cur, <<Frame("answer")>>) \/ Flush(cur, <<Frame("close")>>))
    <3>1. spoilt' \in [Socks -> BOOLEAN] /\ \A d \in Socks : ~spoilt'[d] => ~spoilt[d]
      BY <1>1, <2>5 DEF OutTypes
    <3> QED
      BY <1>1, <1>2, <2>2, <2>3, <2>5, <3>1, FlushOuts
  <2>6. CASE Broadcast(ToSet(llStart), cur, <<>>)
    BY <1>1, <1>2, <2>2, <2>6, BroadcastOuts
  <2> QED
    BY <1>5, <2>4, <2>5, <2>6 DEF Data
<1>6. CASE PieceEnds
  <2>1. cur \in Socks /\ Flush(cur, <<>>) /\ UNCHANGED spoilt
    BY <1>6 DEF PieceEnds, WsInv, ListInv
  <2>2. spoilt' \in [Socks -> BOOLEAN] /\ \A d \in Socks : ~spoilt'[d] => ~spoilt[d]
    BY <1>1, <2>1 DEF OutTypes
  <2> QED
    BY <1>1, <1>2, <2>1, <2>2, FlushOuts
<1> QED
  BY <1>3, <1>4, <1>5, <1>6

\* A socket that is new has seen nothing.
LEMMA NothingSeen ==
  ASSUME NEW frames \in Seq(FrameSet), NEW s, s.status = ST_FLAGS
  PROVE  SeenTo(s, frames, 0, 0, 0) /\ HeardTo(<<>>, frames, 0, 0) /\ EchoedTo(<<>>, frames, 0, 0)
<1>1. Wires(frames) \in Seq(Seq(WireBytes)) /\ Len(Upto(Wires(frames), 0)) = 0
  <2>1. Wires(frames) \in Seq(Seq(WireBytes))
    BY WiresTyped
  <2>2. Upto(Wires(frames), 0) = <<>>
    BY <2>1, UptoStep
  <2> QED
    BY <2>1, <2>2
<1>2. Upto(Hears(frames), 0) = <<>> /\ Upto(Echoes(frames), 0) = <<>>
  <2>1. Hears(frames) \in Seq(Seq(Octets)) /\ Echoes(frames) \in Seq(Seq(SentItems))
    BY HearsTyped
  <2>2. Upto(Hears(frames), 0) = <<>>
    BY <2>1, UptoStep
  <2>3. Upto(Echoes(frames), 0) = <<>>
    BY <2>1, UptoStep
  <2> QED
    BY <2>2, <2>3
<1>3. ~InBody(frames, 0, 0)
  BY DEF InBody
<1>4. SeenTo(s, frames, 0, 0, 0)
  <2>1. 0 \in 0 .. Len(frames) /\ 1 .. 0 = {} /\ 0 = 0 + 0 /\ ~(0 > 0)
    OBVIOUS
  <2> QED
    BY <1>1, <1>3, <2>1 DEF SeenTo
<1>5. <<>> \o <<>> = <<>>
  OBVIOUS
<1> QED
  BY <1>2, <1>3, <1>4, <1>5 DEF HeardTo, EchoedTo, HeardYet, EchoedYet

LEMMA FollowStarts ==
  ASSUME FrameTypes, WireInv, LenInv, WsInv, NEW c \in Socks, SockFrames(c), Upgrade(c), Sends(c)
  PROVE  SockFrames(c)'
<1>1. /\ cur # c /\ cur' # c /\ sock[c].st = "none" /\ UNCHANGED <<script, wire, heard>>
  BY SocketsAssumption DEF Upgrade
<1>2. sock'[c] = NewSock
  BY DEF Upgrade, WsInv, SockInv
<1>3. NewSock.st = "open" /\ NewSock.status = ST_FLAGS /\ NewSock.op # "ping"
  BY DEF NewSock
<1>4. Came(c) = 0
  BY <1>1 DEF WireInv, WireOf
<1>5. Seen(c)' = 0
  <2>1. Seen(c)' = Seen(c)
    BY <1>1, SeenKept
  <2>2. Seen(c) = Came(c)
    BY <1>1, Counting
  <2> QED
    BY <1>4, <2>1, <2>2
<1>6. OutTypes /\ (~spoilt'[c] => ~spoilt[c])
  <2>1. ~spoilt'[c] => ~spoilt[c]
    BY Zenon DEF Sends
  <2> QED
    BY <2>1 DEF FrameTypes
<1>7. heard[c] = <<>> /\ (~spoilt[c] => Pongs(Out(c)) = <<>>)
  BY <1>1 DEF SockFrames
<1>8. ~InPong(sock[c]) /\ LeftOf(sock[c]) = 0 /\ LeftOf(NewSock) = 0
  BY <1>1, <1>3 DEF LenInv, LeftOf, InPong, ST_FLAGS, ST_PAYLOAD
<1>9. ~spoilt'[c] => /\ Pongs(said'[c] \o buf'[c]) = Pongs(Out(c))
                     /\ WholeBut(said'[c] \o buf'[c], 0)
  BY <1>6, <1>8, OutKept DEF SockFrames
<1>10. Out(c)' = said'[c] \o buf'[c]
  BY DEF Out
<1>11. /\ SeenTo(NewSock, script[c], 0, 0, 0) /\ HeardTo(<<>>, script[c], 0, 0)
       /\ EchoedTo(<<>>, script[c], 0, 0)
  BY <1>3, ScriptOf, NothingSeen
<1>12. Following(c, 0, 0)'
  BY <1>1, <1>2, <1>5, <1>6, <1>7, <1>9, <1>10, <1>11 DEF Following
<1>13. 0 \in Nat
  OBVIOUS
<1> QED
  BY <1>2, <1>3, <1>8, <1>9, <1>10, <1>12, <1>13 DEF SockFrames

\* Outside of a turn only the connection that is called moves.
LEMMA OthersFollow ==
  ASSUME FrameTypes, LenInv, \A d \in Socks : SockFrames(d), NEW c \in Socks,
         cur \in {c, NoSock}, cur' \in {c, NoSock}, UNCHANGED script,
         NEW d \in Socks \ {c}, Sends(d), sock'[d] = sock[d], wire'[d] = wire[d], heard'[d] = heard[d]
  PROVE  SockFrames(d)'
<1>1. cur # d /\ cur' # d
  BY SocketsAssumption
<1>2. Seen(d)' = Seen(d)
  BY <1>1, SeenKept
<1>3. SameParser(sock[d], sock'[d])
  BY DEF SameParser
<1> QED
  BY <1>2, <1>3, FollowKept

LEMMA StateOnly ==
  ASSUME NEW s, NEW t, \A f \in SockFields \ {"st", "closedHere"} : t[f] = s[f]
  PROVE  SameParser(s, t)
<1>1. /\ s.status = t.status /\ s.fin = t.fin /\ s.op = t.op /\ s.maskCtr = t.maskCtr
      /\ s.frameCont = t.frameCont /\ s.masked = t.masked /\ s.len7 = t.len7 /\ s.len = t.len
      /\ s.mask = t.mask
  BY DEF SockFields
<1>2. s.frameCont <=> t.frameCont
  BY <1>1, Zenon
<1> QED
  BY <1>1, <1>2, Zenon DEF SameParser

LEMMA TypesKept ==
  ASSUME FrameTypes, Outs, script' = script, heard' = heard,
         wire' \in [Socks -> Seq(WireBytes)], piece' \in Seq(WireBytes)
  PROVE  FrameTypes'
<1>1. OutTypes'
  BY DEF Outs
<1> QED
  BY <1>1 DEF FrameTypes

LEMMA LenKept ==
  ASSUME LenInv, NEW c \in Socks, \A d \in Socks \ {c} : sock'[d] = sock[d],
         sock'[c].len \in Nat, sock'[c].maskCtr \in 0 .. 3, sock'[c].st # "none"
  PROVE  LenInv'
  BY DEF LenInv

\* A step outside of a turn that keeps what comes.
LEMMA CallFrames ==
  ASSUME FramesInv, WsInv, NEW c \in Socks,
         Upgrade(c) \/ NoUpgrade(c) \/ Closed(c) \/ Sent(c) \/ Disconnect(c)
           \/ Receive(c) \/ ReceiveNull(c)
  PROVE  FramesInv'
<1>1. FrameTypes /\ WireInv /\ LenInv /\ SockInv /\ \A d \in Socks : SockFrames(d)
  BY DEF FramesInv, WsInv
<1>2. Outs /\ \A d \in Socks : Sends(d)
  <2>1. Outs
    BY <1>1, CallOuts
  <2> QED
    BY <2>1 DEF Outs
<1>3. /\ sock[c].len \in Nat /\ sock[c].maskCtr \in 0 .. 3 /\ at \in 1 .. Len(piece) + 1
      /\ wire \in [Socks -> Seq(WireBytes)] /\ piece \in Seq(WireBytes) /\ script' = script
  BY <1>1 DEF LenInv, WireInv, FrameTypes, Upgrade, NoUpgrade, Closed, Sent, Disconnect, Receive, ReceiveNull
<1>4. cur = NoSock /\ heard' = heard
  BY DEF Upgrade, NoUpgrade, Closed, Sent, Disconnect, Receive, ReceiveNull
<1>5. ASSUME cur' \in {c, NoSock}, \A d \in Socks \ {c} : sock'[d] = sock[d] /\ wire'[d] = wire[d]
      PROVE  \A d \in Socks \ {c} : SockFrames(d)'
  BY <1>1, <1>2, <1>3, <1>4, <1>5, OthersFollow
<1>6. CASE Upgrade(c)
  <2>1. /\ sock'[c] = NewSock /\ \A d \in Socks \ {c} : sock'[d] = sock[d]
    BY <1>1, <1>6 DEF Upgrade, SockInv
  <2>2. NewSock.len = 0 /\ NewSock.maskCtr = 0 /\ NewSock.st = "open"
    BY DEF NewSock
  <2>3. UNCHANGED <<wire, cur, piece, at>>
    BY <1>6 DEF Upgrade
  <2>4. WireInv'
    BY <1>1, <1>3, <2>1, <2>2, <2>3, WireKept
  <2>5. SockFrames(c)'
    BY <1>1, <1>2, <1>6, FollowStarts DEF WsInv
  <2>6. LenInv'
    BY <1>1, <2>1, <2>2, LenKept
  <2>7. FrameTypes'
    BY <1>1, <1>2, <1>3, <1>4, <2>3, TypesKept
  <2>8. \A d \in Socks \ {c} : SockFrames(d)'
    BY <1>4, <1>5, <2>1, <2>3
  <2> QED
    BY <2>4, <2>5, <2>6, <2>7, <2>8 DEF FramesInv
<1>7. CASE NoUpgrade(c) \/ ReceiveNull(c)
  <2>1. PICK v \in {"refused", "crashed"} : sock' = [sock EXCEPT ![c].st = v]
    BY <1>7 DEF NoUpgrade, ReceiveNull
  <2>2. UNCHANGED <<wire, cur, piece, at>>
    BY <1>7 DEF NoUpgrade, ReceiveNull
  <2>3. /\ sock'[c].st = v /\ \A d \in Socks \ {c} : sock'[d] = sock[d]
        /\ \A f \in SockFields \ {"st"} : sock'[c][f] = sock[c][f]
    BY <1>1, <2>1, SockTo DEF SockStates
  <2>4. WireInv'
    BY <1>1, <1>3, <2>1, <2>2, <2>3, WireKept
  <2>5. SameParser(sock[c], sock'[c])
    BY <2>3, StateOnly
  <2>6. SockFrames(c)'
    BY <1>1, <1>2, <1>3, <1>4, <2>1, <2>3, <2>5, FollowEnds
  <2>7. LenInv'
    BY <1>1, <1>3, <2>1, <2>3, LenKept DEF SockFields
  <2>8. FrameTypes'
    BY <1>1, <1>2, <1>3, <1>4, <2>2, TypesKept
  <2>9. \A d \in Socks \ {c} : SockFrames(d)'
    BY <1>4, <1>5, <2>2, <2>3
  <2> QED
    BY <2>4, <2>6, <2>7, <2>8, <2>9 DEF FramesInv
<1>8. CASE Closed(c) \/ Disconnect(c)
  <2>1. /\ sock' = [sock EXCEPT ![c].st = "closed"] /\ wire' = [wire EXCEPT ![c] = <<>>]
        /\ UNCHANGED <<cur, piece, at>>
    BY <1>8 DEF Closed, Disconnect
  <2>2. /\ sock'[c].st = "closed" /\ \A d \in Socks \ {c} : sock'[d] = sock[d]
        /\ \A f \in SockFields \ {"st"} : sock'[c][f] = sock[c][f]
    BY <1>1, <2>1, SockTo DEF SockStates
  <2>3. WireInv'
    BY <1>1, <1>3, <1>4, <2>1, <2>2, WireGone
  <2>4. SameParser(sock[c], sock'[c])
    BY <2>2, StateOnly
  <2>5. SockFrames(c)'
    BY <1>1, <1>2, <1>3, <1>4, <2>2, <2>4, FollowEnds
  <2>6. LenInv'
    BY <1>1, <1>3, <2>2, LenKept DEF SockFields
  <2>7. FrameTypes'
    <3>1. <<>> \in Seq(WireBytes)
      OBVIOUS
    <3>2. wire' \in [Socks -> Seq(WireBytes)]
      BY <1>3, <2>1, <3>1
    <3> QED
      BY <1>1, <1>2, <1>3, <1>4, <2>1, <3>2, TypesKept
  <2>8. \A d \in Socks \ {c} : wire'[d] = wire[d]
    BY <1>3, <2>1
  <2>9. \A d \in Socks \ {c} : SockFrames(d)'
    BY <1>4, <1>5, <2>1, <2>2, <2>8
  <2> QED
    BY <2>3, <2>5, <2>6, <2>7, <2>9 DEF FramesInv
<1>9. CASE Sent(c)
  <2>1. UNCHANGED <<wire, cur, piece, at>> /\ sock[c].st = "open"
    BY <1>9 DEF Sent
  <2>2. /\ IsSock(sock[c]) /\ \A d \in Socks \ {c} : sock'[d] = sock[d]
        /\ sock'[c] = sock[c] \/ sock'[c] = [sock[c] EXCEPT !.closedHere = TRUE]
    <3>1. sock' = sock \/ sock' = [sock EXCEPT ![c].closedHere = TRUE]
      BY <1>9 DEF Sent
    <3> QED
      BY <1>1, <3>1 DEF SockInv
  <2>3. \A f \in SockFields \ {"closedHere"} : sock'[c][f] = sock[c][f]
    <3>1. "closedHere" \in SockFields \ {"mask"}
      BY DEF SockFields
    <3> QED
      BY <2>2, <3>1, FieldSet
  <2>4. sock'[c].st = "open" /\ sock'[c].len \in Nat /\ sock'[c].maskCtr \in 0 .. 3
    BY <1>3, <2>1, <2>3 DEF SockFields
  <2>5. WireInv'
    BY <1>1, <1>3, <2>1, <2>2, <2>4, WireKept
  <2>6. SameParser(sock[c], sock'[c])
    BY <2>3, StateOnly
  <2>7. SockFrames(c)'
    <3>1. Seen(c)' = Seen(c)
      BY <1>3, <2>1, SeenKept
    <3> QED
      BY <1>1, <1>2, <1>3, <1>4, <2>1, <2>4, <2>6, <3>1, FollowKept
  <2>8. LenInv'
    BY <1>1, <2>2, <2>4, LenKept
  <2>9. FrameTypes'
    BY <1>1, <1>2, <1>3, <1>4, <2>1, TypesKept
  <2>10. \A d \in Socks \ {c} : SockFrames(d)'
    BY <1>4, <1>5, <2>1, <2>2
  <2> QED
    BY <2>5, <2>7, <2>8, <2>9, <2>10 DEF FramesInv
<1>10. CASE Receive(c)
  <2>1. UNCHANGED sock /\ cur' = c
    BY <1>10 DEF Receive
  <2>2. WireInv' /\ Seen(c)' = Seen(c) /\ wire' \in [Socks -> Seq(WireBytes)] /\ piece' \in Seq(WireBytes)
    BY <1>1, <1>10, WireStep
  <2>3. \A d \in Socks \ {c} : sock'[d] = sock[d] /\ wire'[d] = wire[d]
    BY <1>1, <1>10, <2>1, WireStep
  <2>4. SockFrames(c)'
    <3>1. SameParser(sock[c], sock'[c]) /\ sock'[c].st = sock[c].st
      BY <2>1 DEF SameParser
    <3> QED
      BY <1>1, <1>2, <1>3, <1>4, <2>2, <3>1, FollowKept
  <2>5. LenInv'
    BY <1>1, <2>1 DEF LenInv
  <2>6. FrameTypes'
    BY <1>1, <1>2, <1>3, <1>4, <2>2, TypesKept
  <2>7. \A d \in Socks \ {c} : SockFrames(d)'
    BY <1>5, <2>1, <2>3
  <2> QED
    BY <2>2, <2>4, <2>5, <2>6, <2>7 DEF FramesInv
<1> QED
  BY <1>6, <1>7, <1>8, <1>9, <1>10

\* What m bytes behind the first d of a payload add to what is heard and sent.
HeardIn(frame, k, d, m) ==
  IF frame.op \notin DataOps THEN <<>>
  ELSE [j \in 1 .. m |-> Plain(k, d + j)]
BytesIn(k, d, m) == [j \in 1 .. m |-> Byte(Plain(k, d + j))]
EchoIn(frame, k, d, m, begun) ==
  IF frame.op # "ping" THEN <<>>
  ELSE (IF begun THEN <<>> ELSE <<Pong(frame.len)>>) \o BytesIn(k, d, m)

LEMMA InTyped ==
  ASSUME NEW frame \in FrameSet, NEW k \in Nat, NEW d \in Nat, NEW m \in Nat
  PROVE  /\ HeardIn(frame, k, d, m) \in Seq(Octets)
         /\ BytesIn(k, d, m) \in Seq(SentItems) /\ Len(BytesIn(k, d, m)) = m
         /\ \A j \in 1 .. m : BytesIn(k, d, m)[j].kind = "byte"
         /\ \A begun : EchoIn(frame, k, d, m, begun) \in Seq(SentItems)
         /\ <<Pong(frame.len)>> \in Seq(SentItems)
<1>1. \A j \in 1 .. m : Plain(k, d + j) \in Octets
  BY OctetsOf
<1>2. HeardIn(frame, k, d, m) \in Seq(Octets)
  <2> DEFINE H(j) == Plain(k, d + j)
  <2>1. \A j \in 1 .. m : H(j) \in Octets
    BY <1>1
  <2>2. HeardIn(frame, k, d, m) = IF frame.op \notin DataOps THEN <<>> ELSE [j \in 1 .. m |-> H(j)]
    BY DEF HeardIn
  <2> HIDE DEF H
  <2> QED
    BY <2>1, <2>2
<1>3. ASSUME NEW j \in 1 .. m
      PROVE  Byte(Plain(k, d + j)) \in SentItems /\ Byte(Plain(k, d + j)).kind = "byte"
  BY <1>1 DEF Byte, SentItems
<1>4. /\ BytesIn(k, d, m) \in Seq(SentItems) /\ Len(BytesIn(k, d, m)) = m
      /\ \A j \in 1 .. m : BytesIn(k, d, m)[j].kind = "byte"
  <2> DEFINE H(j) == Byte(Plain(k, d + j))
  <2>1. \A j \in 1 .. m : H(j) \in SentItems /\ H(j).kind = "byte"
    BY <1>3
  <2>2. BytesIn(k, d, m) = [j \in 1 .. m |-> H(j)]
    BY DEF BytesIn
  <2> HIDE DEF H
  <2> QED
    BY <2>1, <2>2
<1>5. <<Pong(frame.len)>> \in Seq(SentItems)
  <2>1. PICK p : p = Pong(frame.len)
    OBVIOUS
  <2>2. frame.len \in Nat /\ {} \in Octets
    BY DEF FrameSet, Octets
  <2>3. p \in SentItems
    BY <2>1, <2>2 DEF Pong, SentItems
  <2> QED
    BY <2>1, <2>3
<1>6. ASSUME NEW begun PROVE EchoIn(frame, k, d, m, begun) \in Seq(SentItems)
  <2>1. PICK p \in Seq(SentItems) : p = IF begun THEN <<>> ELSE <<Pong(frame.len)>>
    <3>1. <<>> \in Seq(SentItems)
      OBVIOUS
    <3> QED
      BY <1>5, <3>1, Zenon
  <2>2. PICK b \in Seq(SentItems) : b = BytesIn(k, d, m)
    BY <1>4
  <2>3. p \o b \in Seq(SentItems) /\ <<>> \in Seq(SentItems)
    BY ConcatProperties
  <2> QED
    BY <2>1, <2>2, <2>3 DEF EchoIn
<1> QED
  BY <1>2, <1>4, <1>5, <1>6

\* What was heard or sent of a payload before a turn.
LEMMA PaidYet ==
  ASSUME NEW frames, GoodFrames(frames), NEW k \in 0 .. Len(frames) - 1, NEW o \in Nat, NEW d \in Nat,
         NEW s, NEW t, Paying(s, t, frames, k, o, d)
  PROVE  /\ HeardYet(frames, k, o) = HeardPart(frames[k + 1], k + 1, d)
         /\ EchoedYet(frames, k, o) = IF InBody(frames, k, o) THEN EchoPart(frames[k + 1], k + 1, d) ELSE <<>>
         /\ ~InBody(frames, k, o) => d = 0
         /\ InBody(frames, k, o) <=> t.frameCont
<1>1. PICK hl \in Nat : hl = HeadLen(frames[k + 1])
  BY FrameLen
<1>2. CASE InBody(frames, k, o)
  <2>1. o = hl + d /\ t.frameCont
    BY <1>1, <1>2 DEF Paying
  <2>2. o - hl = d
    BY <2>1
  <2> QED
    BY <1>1, <1>2, <2>1, <2>2 DEF HeardYet, EchoedYet
<1>3. CASE ~InBody(frames, k, o)
  <2>1. d = 0 /\ ~t.frameCont
    BY <1>3 DEF Paying
  <2>2. 1 .. 0 = {}
    OBVIOUS
  <2>3. HeardPart(frames[k + 1], k + 1, 0) = <<>>
    BY <2>2 DEF HeardPart
  <2> QED
    BY <1>3, <2>1, <2>3 DEF HeardYet, EchoedYet
<1> QED
  BY <1>2, <1>3

LEMMA HeardNext ==
  ASSUME NEW frames, GoodFrames(frames), NEW k \in 0 .. Len(frames) - 1, NEW o \in Nat, NEW d \in Nat,
         NEW s, NEW t, Paying(s, t, frames, k, o, d), NEW m \in Nat, d + m <= frames[k + 1].comes,
         NEW h, HeardTo(h, frames, k, o)
  PROVE  HeardTo(h \o HeardIn(frames[k + 1], k + 1, d, m), frames,
                 NextFrame(frames, k, d, m), NextByte(frames, k, d, m))
<1>1. PICK f \in FrameSet, k1 \in Nat : f = frames[k + 1] /\ k1 = k + 1
  BY FrameLen
<1>2. frames \in Seq(FrameSet) /\ frames[k + 1].comes <= frames[k + 1].len
  BY FrameLen
<1>3. PICK yet \in Seq(Octets) : yet = HeardPart(f, k1, d) /\ yet = HeardYet(frames, k, o)
  BY <1>1, PaidYet, PartsTyped
<1>4. PICK more \in Seq(Octets) : more = HeardIn(f, k1, d, m)
  BY InTyped
<1>5. yet \o more = HeardPart(f, k1, d + m)
  <2>1. CASE f.op \in DataOps
    <3>1. HeardPart(f, k1, d) \o HeardIn(f, k1, d, m) = HeardPart(f, k1, d + m)
      BY <2>1, MoreHeard, ZenonT(40) DEF HeardIn
    <3> QED
      BY <1>3, <1>4, <3>1
  <2>2. CASE f.op \notin DataOps
    <3>1. yet = <<>> /\ more = <<>> /\ HeardPart(f, k1, d + m) = <<>>
      BY <1>3, <1>4, <2>2 DEF HeardPart, HeardIn
    <3>2. <<>> \o <<>> = <<>>
      OBVIOUS
    <3> QED
      BY <3>1, <3>2
  <2> QED
    BY <2>1, <2>2
<1>6. Continues(HeardYet(frames, k, o), more, HeardPart(frames[k + 1], k + 1, d + m))
  BY <1>1, <1>3, <1>5 DEF Continues
<1>7. HeardYet(frames, k, o) \in Seq(Octets)
  BY <1>3
<1>8. HeardTo(h \o more, frames, NextFrame(frames, k, d, m), NextByte(frames, k, d, m))
  BY <1>2, <1>6, <1>7, HeardMore
<1> QED
  BY <1>1, <1>4, <1>8

LEMMA EchoedNext ==
  ASSUME NEW frames, GoodFrames(frames), NEW k \in 0 .. Len(frames) - 1, NEW o \in Nat, NEW d \in Nat,
         NEW s, NEW t, Paying(s, t, frames, k, o, d), NEW m \in Nat, d + m <= frames[k + 1].comes,
         NEW h, EchoedTo(h, frames, k, o)
  PROVE  EchoedTo(h \o EchoIn(frames[k + 1], k + 1, d, m, t.frameCont), frames,
                  NextFrame(frames, k, d, m), NextByte(frames, k, d, m))
<1>1. PICK f \in FrameSet, k1 \in Nat : f = frames[k + 1] /\ k1 = k + 1
  BY FrameLen
<1>2. frames \in Seq(FrameSet) /\ frames[k + 1].comes <= frames[k + 1].len
  BY FrameLen
<1>3. PICK yet \in Seq(SentItems) :
         yet = EchoedYet(frames, k, o) /\ yet = IF t.frameCont THEN EchoPart(f, k1, d) ELSE <<>>
  <2>1. EchoedYet(frames, k, o) = IF InBody(frames, k, o) THEN EchoPart(f, k1, d) ELSE <<>>
    BY <1>1, PaidYet
  <2>2. EchoPart(f, k1, d) \in Seq(SentItems) /\ <<>> \in Seq(SentItems)
    BY PartsTyped
  <2>3. InBody(frames, k, o) <=> t.frameCont
    BY PaidYet
  <2> QED
    BY <2>1, <2>2, <2>3
<1>4. PICK more \in Seq(SentItems) : more = EchoIn(f, k1, d, m, t.frameCont)
  BY InTyped
<1>5. PICK b \in Seq(SentItems) : b = BytesIn(k1, d, m)
  BY InTyped
<1>6. yet \o more = EchoPart(f, k1, d + m)
  <2>1. CASE f.op = "ping" /\ t.frameCont
    <3>1. more = <<>> \o b /\ yet = EchoPart(f, k1, d)
      BY <1>3, <1>4, <1>5, <2>1 DEF EchoIn
    <3>2. <<>> \o b = b
      BY ConcatEmptySeq
    <3>3. EchoPart(f, k1, d) \o b = EchoPart(f, k1, d + m)
      BY <1>5, <2>1, MoreSent, ZenonT(40) DEF BytesIn
    <3> QED
      BY <3>1, <3>2, <3>3
  <2>2. CASE f.op = "ping" /\ ~t.frameCont
    <3>1. d = 0 /\ yet = <<>> /\ more = <<Pong(f.len)>> \o b
      BY <1>3, <1>4, <1>5, <2>2, PaidYet DEF EchoIn
    <3>2. <<>> \o more = more
      BY ConcatEmptySeq
    <3>3. b = [j \in 1 .. m |-> Byte(Plain(k1, j))]
      <4>1. \A j \in 1 .. m : 0 + j = j
        OBVIOUS
      <4> QED
        BY <1>5, <3>1, <4>1 DEF BytesIn
    <3>4. EchoPart(f, k1, m) = <<Pong(f.len)>> \o b
      BY <2>2, <3>3 DEF EchoPart
    <3>5. d + m = m
      BY <3>1
    <3> QED
      BY <3>1, <3>2, <3>4, <3>5
  <2>3. CASE f.op # "ping"
    <3>1. yet = <<>> /\ more = <<>> /\ EchoPart(f, k1, d + m) = <<>>
      BY <1>3, <1>4, <2>3 DEF EchoPart, EchoIn
    <3>2. <<>> \o <<>> = <<>>
      OBVIOUS
    <3> QED
      BY <3>1, <3>2
  <2> QED
    BY <2>1, <2>2, <2>3
<1>7. Continues(EchoedYet(frames, k, o), more, EchoPart(frames[k + 1], k + 1, d + m))
  BY <1>1, <1>3, <1>6 DEF Continues
<1>8. EchoedYet(frames, k, o) \in Seq(SentItems)
  BY <1>3
<1>9. EchoedTo(h \o more, frames, NextFrame(frames, k, d, m), NextByte(frames, k, d, m))
  BY <1>2, <1>7, <1>8, EchoedMore
<1> QED
  BY <1>1, <1>4, <1>9

LEMMA SumOn ==
  ASSUME NEW m \in Nat, NEW np \in Nat, NEW a \in Nat, NEW i \in Nat, NEW b, b = a + i
  PROVE  m - (np - b + 1) = (m - (np - a + 1)) + i
  OBVIOUS

LEMMA SeenOn ==
  ASSUME FrameTypes, WireInv, cur \in Socks, UNCHANGED <<script, wire, cur, piece>>,
         NEW i \in Nat, at' = at + i
  PROVE  Seen(cur)' = Seen(cur) + i
<1>1. Came(cur)' = Came(cur) /\ Came(cur) \in Nat /\ Len(piece) \in Nat /\ at \in Nat
  <2>1. Came(cur) \in Nat
    BY Counting
  <2>2. Len(piece) \in Nat
    BY DEF FrameTypes
  <2>3. at \in Nat
    BY <2>2 DEF WireInv
  <2> QED
    BY <2>1, <2>2, <2>3 DEF Came
<1>2. PICK m \in Nat, np \in Nat, a \in Nat : m = Came(cur) /\ np = Len(piece) /\ a = at
  BY <1>1
<1>3. Seen(cur) = m - (np - a + 1) /\ Seen(cur)' = m - (np - at' + 1)
  BY <1>1, <1>2 DEF Seen
<1>4. at' = a + i
  BY <1>2
<1>5. m - (np - at' + 1) = (m - (np - a + 1)) + i
  BY <1>4, SumOn
<1> QED
  BY <1>3, <1>5

\* What a turn with payload makes of the socket.
LEMMA TurnAfter ==
  ASSUME WsInv, Reading, NEW s, s = Now \/ s = [Now EXCEPT !.closedHere = TRUE], Consumed(s),
         UNCHANGED <<llStart, cur>>
  PROVE  /\ sock'[cur].st = "open" /\ AfterOf(Now, Sl, sock'[cur])
         /\ \A d \in Socks \ {cur} : sock'[d] = sock[d]
<1>1. IsSock(Now) /\ Now.st = "open" /\ Now.status \in ST_FLAGS .. ST_PAYLOAD
  BY TurnSock
<1>2. IsSock(s) /\ \A f \in SockFields \ {"closedHere"} : s[f] = Now[f]
  <2>1. "closedHere" \in SockFields \ {"mask"}
    BY DEF SockFields
  <2> QED
    BY <1>1, <2>1, FieldSet
<1>3. /\ s.st = "open" /\ s.status = Now.status /\ s.len = Now.len /\ s.maskCtr = Now.maskCtr
      /\ s.fin = Now.fin /\ s.op = Now.op /\ s.masked = Now.masked /\ s.mask = Now.mask
  BY <1>1, <1>2 DEF SockFields
<1>4. sock'[cur] = After(s) /\ \A d \in Socks \ {cur} : sock'[d] = sock[d]
  BY <1>1, <1>2, <1>3, ConsumedStep
<1>5. PICK u : u = After(s)
  OBVIOUS
<1>6. /\ \A f \in SockFields \ {"maskCtr", "len", "status", "frameCont"} : u[f] = s[f]
      /\ u.maskCtr = (s.maskCtr + Sl) % 4 /\ u.len = s.len - Sl
      /\ u.status = IF s.len = Sl THEN ST_FLAGS ELSE s.status
      /\ s.len # Sl => u.frameCont
  BY <1>2, <1>5, AfterShape
<1>7. u.st = "open" /\ u.fin = Now.fin /\ u.op = Now.op /\ u.masked = Now.masked /\ u.mask = Now.mask
  BY <1>3, <1>6 DEF SockFields
<1>8. AfterOf(Now, Sl, u)
  BY <1>3, <1>6, <1>7 DEF AfterOf
<1> QED
  BY <1>4, <1>5, <1>7, <1>8

\* A turn with payload of a frame that does not end the socket.
Moves(k, o, d) ==
  /\ Following(cur, k, o) /\ Paying(sock[cur], Now, script[cur], k, o, d)
  /\ ~Ends(script[cur][k + 1]) /\ k \in 0 .. Len(script[cur]) - 1
  /\ d + Sl <= script[cur][k + 1].comes /\ Sl \in Nat /\ Sl <= Now.len /\ Now.len \in Nat
  /\ Now.len + d = script[cur][k + 1].len
  /\ Now.op = script[cur][k + 1].op /\ Now.fin = script[cur][k + 1].fin
  /\ SeenTo(sock'[cur], script[cur], Seen(cur)',
            NextFrame(script[cur], k, d, Sl), NextByte(script[cur], k, d, Sl))

GoesOn ==
  \/ Now.op = "ping" /\ Now.len <= 125
  \/ Now.op \in DataOps /\ Now.masked
  \/ Now.op \in {"pong", "unknown"}

LEMMA NotTheEnd ==
  ASSUME NEW frame \in FrameSet, NEW t, t.op = frame.op, t.masked = frame.masked, t.len = frame.len,
         \/ t.op = "ping" /\ t.len <= 125
         \/ t.op \in DataOps /\ t.masked
         \/ t.op \in {"pong", "unknown"}
  PROVE  ~Ends(frame)
<1>1. frame.len \in Nat
  BY DEF FrameSet
<1>2. frame.op # "close"
  BY DEF DataOps
<1>3. frame.op = "ping" => ~(frame.len > 125)
  BY <1>1 DEF DataOps
<1>4. frame.op \in DataOps => frame.masked
  BY DEF DataOps
<1> QED
  BY <1>2, <1>3, <1>4 DEF Ends

LEMMA BodyMoves ==
  ASSUME FrameTypes, WireInv, WsInv, Reading, SockFrames(cur), Now.status = ST_PAYLOAD, GoesOn,
         NEW s, s = Now \/ s = [Now EXCEPT !.closedHere = TRUE], Consumed(s),
         ReadKeeps, UNCHANGED llStart
  PROVE  \E k, o, d \in Nat : Moves(k, o, d)
<1>1. cur \in Socks /\ sock[cur].st = "open" /\ GoodFrames(script[cur])
  BY TurnSock, ScriptOf
<1>2. PICK k \in Nat, o \in Nat : Following(cur, k, o)
  BY <1>1 DEF SockFrames
<1>3. PICK d \in Nat : Paying(sock[cur], Now, script[cur], k, o, d)
  BY <1>2, Turning DEF HeadGoesOn
<1>4. /\ Sl \in Nat /\ Now.len \in Nat /\ Sl <= Now.len /\ Now.len + d = script[cur][k + 1].len
      /\ Start \in Nat /\ k \in 0 .. Len(script[cur]) - 1
      /\ Start - at = IF sock[cur].status # ST_PAYLOAD THEN 1 ELSE 0
      /\ Start = at + IF sock[cur].status # ST_PAYLOAD THEN 1 ELSE 0
  BY <1>2, <1>3, Measured
<1>5. PICK frame \in FrameSet : frame = script[cur][k + 1]
  BY <1>1, <1>4, FrameLen
<1>6. Now.op = frame.op /\ Now.fin = frame.fin /\ Now.masked = frame.masked
  BY <1>3, <1>5 DEF Paying, PayloadState
<1>7. ~Ends(frame)
  <2>1. CASE InBody(script[cur], k, o)
    BY <1>3, <1>5, <2>1 DEF Paying
  <2>2. CASE ~InBody(script[cur], k, o)
    <3>1. d = 0
      BY <1>3, <2>2 DEF Paying
    <3>2. Now.len = frame.len
      BY <1>4, <1>5, <3>1
    <3> QED
      BY <1>6, <3>2, NotTheEnd DEF GoesOn
  <2> QED
    BY <2>1, <2>2
<1>8. /\ d + Sl <= frame.comes
      /\ \A u : AfterOf(Now, Sl, u) =>
           SeenTo(u, script[cur], Seen(cur) + (Start - at) + Sl,
                  NextFrame(script[cur], k, d, Sl), NextByte(script[cur], k, d, Sl))
  BY <1>2, <1>3, <1>5, <1>7, Moving
<1>9. AfterOf(Now, Sl, sock'[cur])
  BY TurnAfter DEF ReadKeeps
<1>10. Seen(cur)' = Seen(cur) + (Start - at) + Sl
  <2>1. PICK z \in {0, 1} : z = Start - at /\ Start = at + z
    BY <1>4
  <2>2. PICK m \in Nat : m = Sl
    BY <1>4
  <2>3. at' = Start + m
    BY <2>2 DEF Consumed
  <2>4. PICK a \in Nat : a = at
    BY <1>1, Looking
  <2>5. at' = a + (z + m) /\ z + m \in Nat
    BY <2>1, <2>3, <2>4
  <2>6. Seen(cur)' = Seen(cur) + (z + m)
    BY <1>1, <2>4, <2>5, SeenOn DEF ReadKeeps
  <2>7. PICK n \in Nat : n = Seen(cur)
    BY <1>1, Counting
  <2>8. n + (z + m) = n + z + m
    OBVIOUS
  <2> QED
    BY <2>1, <2>2, <2>6, <2>7, <2>8
<1>11. SeenTo(sock'[cur], script[cur], Seen(cur)',
              NextFrame(script[cur], k, d, Sl), NextByte(script[cur], k, d, Sl))
  BY <1>8, <1>9, <1>10
<1>12. Moves(k, o, d)
  BY <1>2, <1>3, <1>4, <1>5, <1>6, <1>7, <1>8, <1>11 DEF Moves
<1> QED
  BY <1>12

\* What a turn with payload adds.
Adds(k, d) ==
  /\ heard'[cur] = heard[cur] \o HeardIn(script[cur][k + 1], k + 1, d, Sl)
  /\ ~spoilt'[cur] =>
       /\ ~spoilt[cur]
       /\ Pongs(said'[cur] \o buf'[cur])
            = Pongs(Out(cur)) \o EchoIn(script[cur][k + 1], k + 1, d, Sl, Now.frameCont)
       /\ WholeBut(said'[cur] \o buf'[cur], LeftOf(sock'[cur]))

LEMMA MovesFollow ==
  ASSUME FrameTypes, cur \in Socks, script' = script, cur' = cur, sock'[cur].st = "open",
         NEW k \in Nat, NEW o \in Nat, NEW d \in Nat, Moves(k, o, d), Adds(k, d)
  PROVE  SockFrames(cur)'
<1>1. PICK frames : frames = script[cur] /\ GoodFrames(frames)
  BY ScriptOf
<1>2. PICK m \in Nat : m = Sl
  BY DEF Moves
<1>3. k \in 0 .. Len(frames) - 1 /\ d + m <= frames[k + 1].comes
  BY <1>1, <1>2 DEF Moves
<1>4. Paying(sock[cur], Now, frames, k, o, d)
  BY <1>1 DEF Moves
<1>5. PICK k1, o1 : k1 = NextFrame(frames, k, d, m) /\ o1 = NextByte(frames, k, d, m)
  OBVIOUS
<1>6. k1 \in Nat /\ o1 \in Nat
  <2>1. frames \in Seq(FrameSet)
    BY <1>1, <1>3, FrameLen
  <2> QED
    BY <1>3, <1>5, <2>1, NextAt
<1>7. SeenTo(sock'[cur], frames, Seen(cur)', k1, o1)
  BY <1>1, <1>2, <1>5 DEF Moves
<1>8. HeardTo(heard'[cur], frames, k1, o1)
  <2>1. HeardTo(heard[cur], frames, k, o)
    BY <1>1 DEF Moves, Following
  <2>2. HeardTo(heard[cur] \o HeardIn(frames[k + 1], k + 1, d, m), frames, k1, o1)
    BY <1>1, <1>3, <1>4, <1>5, <2>1, HeardNext
  <2> QED
    BY <1>1, <1>2, <2>2 DEF Adds
<1>9. ~spoilt'[cur] => EchoedTo(Pongs(said'[cur] \o buf'[cur]), frames, k1, o1)
  <2> SUFFICES ASSUME ~spoilt'[cur] PROVE EchoedTo(Pongs(said'[cur] \o buf'[cur]), frames, k1, o1)
    OBVIOUS
  <2>1. EchoedTo(Pongs(Out(cur)), frames, k, o)
    BY <1>1 DEF Moves, Following, Adds
  <2>2. EchoedTo(Pongs(Out(cur)) \o EchoIn(frames[k + 1], k + 1, d, m, Now.frameCont), frames, k1, o1)
    BY <1>1, <1>3, <1>4, <1>5, <2>1, EchoedNext
  <2> QED
    BY <1>1, <1>2, <2>2 DEF Adds
<1>10. Out(cur)' = said'[cur] \o buf'[cur]
  BY DEF Out
<1>11. Following(cur, k1, o1)'
  BY <1>1, <1>7, <1>8, <1>9, <1>10 DEF Following
<1>12. ~spoilt'[cur] => WholeBut(said'[cur] \o buf'[cur], LeftOf(sock'[cur]))
  BY DEF Adds
<1> QED
  BY <1>6, <1>10, <1>11, <1>12 DEF SockFrames

\* In a turn with payload the other connections stay as they are.
LEMMA TurnTypes ==
  ASSUME FrameTypes, OutTypes', script' = script, wire' = wire, piece' = piece,
         heard' \in [Socks -> Seq(Octets)]
  PROVE  FrameTypes'
  BY DEF FrameTypes

LEMMA TurnWire ==
  ASSUME WireInv, WsInv, FrameTypes, Reading, NEW k \in Nat, NEW o \in Nat, NEW d \in Nat, Moves(k, o, d),
         ReadKeeps, at' = Start + Sl, \A c \in Socks : sock'[c].st = "none" => sock[c].st = "none"
  PROVE  WireInv'
<1>1. Start + Sl \in 1 .. Len(piece) + 1
  BY Measured DEF Moves
<1> QED
  BY <1>1, WireKept DEF ReadKeeps

LEMMA TurnLens ==
  ASSUME FrameTypes, WsInv, LenInv, Reading, NEW k \in Nat, NEW o \in Nat, NEW d \in Nat, Moves(k, o, d),
         AfterOf(Now, Sl, sock'[cur]), sock'[cur].st = "open",
         \A c \in Socks \ {cur} : sock'[c] = sock[c]
  PROVE  LenInv'
<1>1. PICK m \in Nat, l \in Nat : m = Sl /\ l = Now.len /\ m <= l
  BY DEF Moves
<1>2. sock'[cur].len = l - m
  BY <1>1 DEF AfterOf
<1>3. sock'[cur].maskCtr \in 0 .. 3
  <2>1. PICK hl, q : hl = HeadLen(script[cur][k + 1]) /\ q = (hl + d) - hl
    OBVIOUS
  <2>2. PICK a \in Nat : a = Now.maskCtr
    <3>1. HeadLen(script[cur][k + 1]) \in Nat
      <4>1. GoodFrames(script[cur]) /\ k \in 0 .. Len(script[cur]) - 1
        BY TurnSock, ScriptOf DEF Moves
      <4> QED
        BY <4>1, FrameLen
    <3>2. (hl + d) - hl = d
      BY <2>1, <3>1
    <3>3. Now.maskCtr = d % 4
      BY <2>1, <3>2 DEF Moves, Paying, PayloadState
    <3>4. d % 4 \in Nat
      BY AddMod
    <3> QED
      BY <3>3, <3>4
  <2>3. (a + m) % 4 \in 0 .. 3
    BY AddMod
  <2> QED
    BY <1>1, <2>2, <2>3 DEF AfterOf
<1>4. cur \in Socks /\ sock'[cur].len \in Nat /\ sock'[cur].st # "none"
  BY <1>1, <1>2, TurnSock
<1> QED
  BY <1>3, <1>4, LenKept

\* What is not a ping adds nothing to the pongs.
LEMMA NoEcho ==
  ASSUME FrameTypes, LenInv, cur \in Socks, SockFrames(cur), Outs, NEW k \in Nat, NEW o \in Nat,
         NEW d \in Nat, Moves(k, o, d), Now.op # "ping", ~InPong(sock[cur]), ~InPong(sock'[cur]),
         heard'[cur] = heard[cur] \o HeardIn(script[cur][k + 1], k + 1, d, Sl)
  PROVE  Adds(k, d)
<1>1. OutTypes /\ Sends(cur)
  BY DEF FrameTypes, Outs
<1>2. LeftOf(sock[cur]) = 0 /\ LeftOf(sock'[cur]) = 0
  BY DEF LeftOf
<1>3. ~spoilt'[cur] => ~spoilt[cur]
  BY <1>1, Zenon DEF Sends
<1>4. ~spoilt'[cur] => /\ Pongs(said'[cur] \o buf'[cur]) = Pongs(Out(cur))
                       /\ WholeBut(said'[cur] \o buf'[cur], 0)
  BY <1>1, <1>2, <1>3, OutKept DEF SockFrames
<1>5. EchoIn(script[cur][k + 1], k + 1, d, Sl, Now.frameCont) = <<>>
  BY DEF Moves, EchoIn
<1>6. Pongs(Out(cur)) \o <<>> = Pongs(Out(cur))
  <2>1. Out(cur) \in Seq(SentItems)
    BY <1>1, SentEmpty DEF OutTypes, Out
  <2>2. Pongs(Out(cur)) \in Seq(SentItems)
    BY <2>1, PongsTyped
  <2> QED
    BY <2>2, ConcatEmptySeq
<1> QED
  BY <1>2, <1>3, <1>4, <1>5, <1>6 DEF Adds

LEMMA HeardType ==
  ASSUME FrameTypes, cur \in Socks, NEW more \in Seq(Octets),
         heard' = [heard EXCEPT ![cur] = @ \o more]
  PROVE  /\ heard' \in [Socks -> Seq(Octets)] /\ heard'[cur] = heard[cur] \o more
         /\ \A d \in Socks \ {cur} : heard'[d] = heard[d]
<1>1. PICK h \in Seq(Octets) : h = heard[cur]
  BY DEF FrameTypes
<1>2. h \o more \in Seq(Octets)
  BY ConcatProperties
<1>3. heard \in [Socks -> Seq(Octets)]
  BY DEF FrameTypes
<1> QED
  BY <1>1, <1>2, <1>3

LEMMA NoneHeard ==
  ASSUME FrameTypes, cur \in Socks PROVE heard[cur] \o <<>> = heard[cur]
<1>1. heard[cur] \in Seq(Octets)
  BY DEF FrameTypes
<1> QED
  BY <1>1, ConcatEmptySeq

\* The frames that come, where nothing but the socket that is read moves on.
LEMMA TurnFrames ==
  ASSUME FramesInv, WsInv, Reading, Now.status = ST_PAYLOAD, GoesOn,
         NEW s, s = Now \/ s = [Now EXCEPT !.closedHere = TRUE], Consumed(s),
         ReadKeeps, UNCHANGED llStart, NEW k \in Nat, NEW o \in Nat, NEW d \in Nat, Moves(k, o, d),
         Adds(k, d), OutTypes', heard' \in [Socks -> Seq(Octets)],
         \A c \in Socks \ {cur} : heard'[c] = heard[c] /\ Sends(c)
  PROVE  FramesInv'
<1>1. FrameTypes /\ WireInv /\ LenInv /\ \A c \in Socks : SockFrames(c)
  BY DEF FramesInv
<1>2. cur \in Socks /\ sock[cur].st = "open"
  BY TurnSock
<1>3. /\ sock'[cur].st = "open" /\ AfterOf(Now, Sl, sock'[cur])
      /\ \A c \in Socks \ {cur} : sock'[c] = sock[c]
  BY TurnAfter DEF ReadKeeps
<1>4. FrameTypes'
  BY <1>1, TurnTypes DEF ReadKeeps
<1>5. WireInv'
  <2>1. \A c \in Socks : sock'[c].st = "none" => sock[c].st = "none"
    BY <1>2, <1>3
  <2>2. at' = Start + Sl
    BY DEF Consumed
  <2> QED
    BY <1>1, <2>1, <2>2, TurnWire
<1>6. LenInv'
  BY <1>1, <1>3, TurnLens
<1>7. SockFrames(cur)'
  BY <1>1, <1>2, <1>3, MovesFollow DEF ReadKeeps
<1>8. \A c \in Socks \ {cur} : SockFrames(c)'
  <2> SUFFICES ASSUME NEW c \in Socks \ {cur} PROVE SockFrames(c)'
    OBVIOUS
  <2>1. cur' = cur /\ script' = script /\ wire'[c] = wire[c]
    BY DEF ReadKeeps
  <2> QED
    BY <1>1, <1>2, <1>3, <2>1, OthersFollow
<1>9. cur' = cur
  BY DEF ReadKeeps
<1>10. \A c \in Socks : SockFrames(c)'
  <2> SUFFICES ASSUME NEW c \in Socks PROVE SockFrames(c)'
    OBVIOUS
  <2>1. CASE c = cur
    <3>1. SockFrames(cur)'
      BY <1>7
    <3> QED
      BY <1>9, <2>1, <3>1
  <2>2. CASE c # cur
    BY <1>8, <2>2
  <2> QED
    BY <2>1, <2>2
<1> QED
  BY <1>4, <1>5, <1>6, <1>10 DEF FramesInv

LEMMA OutsSend ==
  ASSUME Outs PROVE OutTypes' /\ \A c \in Socks : Sends(c)
  BY DEF Outs

\* The payload of a masked frame.
LEMMA MovesPayload ==
  ASSUME FrameTypes, WireInv, WsInv, Reading, NEW k \in Nat, NEW o \in Nat, NEW d \in Nat, Moves(k, o, d),
         script[cur][k + 1].masked
  PROVE  Payload = [j \in 1 .. Sl |-> Plain(k + 1, d + j)]
  BY PayloadIs DEF Moves

\* Payload of data is heard.
LEMMA DataFrames ==
  ASSUME FramesInv, WsInv, Data
  PROVE  FramesInv'
<1>1. FrameTypes /\ WireInv /\ LenInv /\ \A c \in Socks : SockFrames(c)
  BY DEF FramesInv
<1>2. /\ Reading /\ Now.status = ST_PAYLOAD /\ Now.op \in DataOps /\ Now.masked
      /\ ReadKeeps /\ UNCHANGED llStart
  BY DEF Data, InPayload
<1>3. cur \in Socks /\ GoodFrames(script[cur])
  BY <1>1, <1>2, TurnSock, ScriptOf
<1>4. PICK s \in {Now, [Now EXCEPT !.closedHere = TRUE]} : Consumed(s)
  BY DEF Data
<1>5. PICK k \in Nat, o \in Nat, d \in Nat : Moves(k, o, d)
  BY <1>1, <1>2, <1>3, <1>4, BodyMoves DEF GoesOn
<1>6. PICK f \in FrameSet, k1 \in Nat : f = script[cur][k + 1] /\ k1 = k + 1
  BY <1>3, <1>5, FrameLen DEF Moves
<1>7. Now.op = f.op /\ Now.fin = f.fin /\ f.masked
  <2>1. Now.op = f.op /\ Now.fin = f.fin /\ ~Ends(f)
    BY <1>5, <1>6 DEF Moves
  <2> QED
    BY <1>2, <2>1 DEF Ends
<1>8. PICK m \in Nat : m = Sl
  BY <1>5 DEF Moves
<1>9. Payload = [j \in 1 .. m |-> Plain(k1, d + j)]
  BY <1>1, <1>2, <1>5, <1>6, <1>7, <1>8, MovesPayload
<1>10. PICK more : more = Payload
  OBVIOUS
<1>11. more = HeardIn(f, k1, d, m)
  BY <1>2, <1>7, <1>9, <1>10 DEF HeardIn
<1>12. more \in Seq(Octets)
  BY <1>11, InTyped
<1>13. heard' = [heard EXCEPT ![cur] = @ \o more]
  BY <1>8, <1>10 DEF Data
<1>14. /\ heard' \in [Socks -> Seq(Octets)] /\ heard'[cur] = heard[cur] \o more
       /\ \A c \in Socks \ {cur} : heard'[c] = heard[c]
  BY <1>1, <1>3, <1>12, <1>13, HeardType
<1>15. Outs
  BY <1>1, PieceOuts
<1>16. ~InPong(sock[cur]) /\ ~InPong(sock'[cur])
  <2>1. Now.op # "ping"
    BY <1>2 DEF DataOps
  <2>2. AfterOf(Now, Sl, sock'[cur])
    BY <1>2, <1>4, TurnAfter DEF ReadKeeps
  <2>3. ~InPong(sock[cur])
    BY <1>1, <1>2, <1>3, <2>1, TurnPlain
  <2> QED
    BY <2>1, <2>2, <2>3 DEF AfterOf, InPong
<1>17. heard'[cur] = heard[cur] \o HeardIn(script[cur][k + 1], k + 1, d, Sl)
  BY <1>6, <1>8, <1>11, <1>14
<1>18. Adds(k, d)
  <2>1. Now.op # "ping"
    BY <1>2 DEF DataOps
  <2> QED
    BY <1>1, <1>3, <1>5, <1>15, <1>16, <1>17, <2>1, NoEcho
<1>19. OutTypes' /\ \A c \in Socks \ {cur} : heard'[c] = heard[c] /\ Sends(c)
  BY <1>14, <1>15, OutsSend
<1>20. GoesOn
  BY <1>2 DEF GoesOn
<1> QED
  BY <1>2, <1>4, <1>5, <1>14, <1>18, <1>19, <1>20, TurnFrames

\* What is ignored is not.
LEMMA IgnoredFrames ==
  ASSUME FramesInv, WsInv, Ignored
  PROVE  FramesInv'
<1>1. FrameTypes /\ WireInv /\ LenInv /\ \A c \in Socks : SockFrames(c)
  BY DEF FramesInv
<1>2. /\ Reading /\ Now.status = ST_PAYLOAD /\ Now.op \in {"pong", "unknown"}
      /\ ReadKeeps /\ UNCHANGED llStart /\ Consumed(Now) /\ heard' = heard
  BY DEF Ignored, InPayload
<1>3. cur \in Socks
  BY <1>2, TurnSock
<1>4. GoesOn
  BY <1>2 DEF GoesOn
<1>5. PICK k \in Nat, o \in Nat, d \in Nat : Moves(k, o, d)
  BY <1>1, <1>2, <1>3, <1>4, BodyMoves
<1>6. HeardIn(script[cur][k + 1], k + 1, d, Sl) = <<>>
  BY <1>2, <1>5 DEF Moves, HeardIn, DataOps
<1>7. heard'[cur] = heard[cur] \o HeardIn(script[cur][k + 1], k + 1, d, Sl)
  BY <1>1, <1>2, <1>3, <1>6, NoneHeard
<1>8. Outs
  BY <1>1, PieceOuts
<1>9. ~InPong(sock[cur]) /\ ~InPong(sock'[cur])
  <2>1. AfterOf(Now, Sl, sock'[cur])
    BY <1>2, TurnAfter DEF ReadKeeps
  <2>2. ~InPong(sock[cur])
    BY <1>1, <1>2, <1>3, TurnPlain
  <2> QED
    BY <1>2, <2>1, <2>2 DEF AfterOf, InPong
<1>10. Adds(k, d)
  BY <1>1, <1>2, <1>3, <1>5, <1>7, <1>8, <1>9, NoEcho
<1>11. OutTypes' /\ \A c \in Socks \ {cur} : heard'[c] = heard[c] /\ Sends(c)
  BY <1>2, <1>8, OutsSend
<1>12. heard' \in [Socks -> Seq(Octets)]
  BY <1>1, <1>2 DEF FrameTypes
<1> QED
  BY <1>2, <1>4, <1>5, <1>10, <1>11, <1>12, TurnFrames

\* A pong's head and bytes are no frames.
LEMMA EchoKinds ==
  ASSUME NEW frame \in FrameSet, NEW k \in Nat, NEW d \in Nat, NEW m \in Nat, NEW begun
  PROVE  Pongs(EchoIn(frame, k, d, m, begun)) = EchoIn(frame, k, d, m, begun)
<1>1. PICK p \in Seq(SentItems) : p = IF begun THEN <<>> ELSE <<Pong(frame.len)>>
  <2>1. <<>> \in Seq(SentItems) /\ <<Pong(frame.len)>> \in Seq(SentItems)
    BY InTyped
  <2> QED
    BY <2>1, Zenon
<1>2. PICK b \in Seq(SentItems) :
         b = BytesIn(k, d, m) /\ Len(b) = m /\ \A j \in 1 .. m : b[j].kind = "byte"
  BY InTyped, ZenonT(40)
<1>3. \A i \in 1 .. Len(p) : p[i].kind = "pong"
  BY <1>1 DEF Pong
<1>4. PICK items \in Seq(SentItems) : items = p \o b
  BY ConcatProperties
<1>5. \A i \in 1 .. Len(items) : items[i].kind # "frame"
  <2>1. /\ Len(items) = Len(p) + Len(b) /\ \A i \in 1 .. Len(p) : items[i] = p[i]
        /\ \A j \in 1 .. Len(b) : items[Len(p) + j] = b[j]
    BY <1>4
  <2>2. PICK np \in Nat, nb \in Nat : np = Len(p) /\ nb = Len(b)
    OBVIOUS
  <2>3. ASSUME NEW i \in 1 .. np + nb PROVE items[i].kind # "frame"
    <3>1. CASE i <= np
      BY <1>3, <2>1, <2>2, <3>1
    <3>2. CASE i > np
      <4>1. PICK j \in 1 .. nb : i = np + j
        <5>1. i - np \in 1 .. nb /\ i = np + (i - np)
          BY <3>2
        <5> QED
          BY <5>1
      <4> QED
        BY <1>2, <2>1, <2>2, <4>1
    <3> QED
      BY <3>1, <3>2
  <2> QED
    BY <2>1, <2>2, <2>3
<1>6. Pongs(items) = items
  BY <1>4, <1>5, OnlyPongs
<1>7. Pongs(<<>>) = <<>>
  <2>1. <<>> \in Seq(SentItems) /\ 1 .. Len(<<>>) = {}
    OBVIOUS
  <2> QED
    BY <2>1, NoPongs
<1>8. CASE frame.op = "ping"
  BY <1>1, <1>2, <1>4, <1>6, <1>8 DEF EchoIn
<1>9. CASE frame.op # "ping"
  BY <1>7, <1>9 DEF EchoIn
<1> QED
  BY <1>8, <1>9

\* Of a pong of len bytes n are left to send, and r when m bytes more are sent.
LeftBefore(begun, n, m, r, len) == (begun => r + m = n) /\ (~begun => n = 0 /\ r + m = len)

\* Behind whole pongs the head of one and bytes of it, or in a pong bytes of it.
LEMMA WholePing ==
  ASSUME NEW frame \in FrameSet, frame.op = "ping", NEW k \in Nat, NEW d \in Nat, NEW m \in Nat,
         NEW begun, NEW n \in Nat, NEW r \in Nat, LeftBefore(begun, n, m, r, frame.len),
         NEW a \in Seq(SentItems), WholeBut(a, n)
  PROVE  WholeBut(a \o EchoIn(frame, k, d, m, begun), r)
<1>1. PICK b \in Seq(SentItems) :
         b = BytesIn(k, d, m) /\ Len(b) = m /\ \A j \in 1 .. m : b[j].kind = "byte"
  <2>1. /\ BytesIn(k, d, m) \in Seq(SentItems) /\ Len(BytesIn(k, d, m)) = m
        /\ \A j \in 1 .. m : BytesIn(k, d, m)[j].kind = "byte"
    BY InTyped, ZenonT(40)
  <2> QED
    BY <2>1
<1>2. CASE begun
  <2>1. EchoIn(frame, k, d, m, begun) = b
    <3>1. EchoIn(frame, k, d, m, begun) = <<>> \o b
      BY <1>1, <1>2 DEF EchoIn
    <3>2. <<>> \o b = b
      BY ConcatEmptySeq
    <3> QED
      BY <3>1, <3>2
  <2>2. r + Len(b) = n
    BY <1>1, <1>2 DEF LeftBefore
  <2>3. WholeBut(a \o b, r)
    BY <1>1, <2>2, WholeBytes
  <2> QED
    BY <2>1, <2>3
<1>3. CASE ~begun
  <2>1. PICK p \in Seq(SentItems) : p = <<Pong(frame.len)>>
    BY InTyped
  <2>2. EchoIn(frame, k, d, m, begun) = p \o b
    BY <1>1, <1>3, <2>1 DEF EchoIn
  <2>3. WholeBut(a, 0) /\ r + m = frame.len /\ frame.len \in Nat
    BY <1>3 DEF LeftBefore, FrameSet
  <2>4. WholeBut(a \o p, frame.len) /\ a \o p \in Seq(SentItems)
    BY <2>1, <2>3, WholePong
  <2>5. PICK q \in Seq(SentItems) : q = a \o p
    BY <2>4
  <2>6. r + Len(b) = frame.len
    BY <1>1, <2>3
  <2>7. WholeBut(q \o b, r)
    BY <1>1, <2>3, <2>4, <2>5, <2>6, WholeBytes
  <2>8. (a \o p) \o b = a \o (p \o b)
    BY SentJoined, ZenonT(40)
  <2> QED
    BY <2>2, <2>5, <2>7, <2>8
<1> QED
  BY <1>2, <1>3

\* What is left of a pong before a turn with a ping, and behind it.
LEMMA PingLeft ==
  ASSUME NEW frames, NEW k, NEW o, NEW d, NEW s, NEW t, Paying(s, t, frames, k, o, d), t.op = "ping",
         t.len \in Nat, NEW m \in Nat, m <= t.len, NEW u, AfterOf(t, m, u)
  PROVE  /\ t.frameCont => LeftOf(s) = t.len
         /\ ~t.frameCont => LeftOf(s) = 0 /\ d = 0
         /\ LeftOf(u) = t.len - m
<1>1. t.status = ST_PAYLOAD
  BY DEF Paying, PayloadState
<1>4. /\ t.frameCont => LeftOf(s) = t.len
      /\ ~t.frameCont => LeftOf(s) = 0 /\ d = 0
  <2>1. CASE InBody(frames, k, o)
    <3>1. s.status = ST_PAYLOAD /\ t = s /\ t.frameCont
      BY <2>1 DEF Paying
    <3>2. InPong(s)
      BY <3>1 DEF InPong
    <3> QED
      BY <3>1, <3>2 DEF LeftOf
  <2>2. CASE ~InBody(frames, k, o)
    <3>1. s.status # ST_PAYLOAD /\ ~t.frameCont /\ d = 0
      BY <2>2 DEF Paying
    <3>2. ~InPong(s)
      BY <3>1 DEF InPong
    <3> QED
      BY <3>1, <3>2 DEF LeftOf
  <2> QED
    BY <2>1, <2>2
<1>5. LeftOf(u) = t.len - m
  <2>1. u.op = "ping" /\ u.len = t.len - m /\ u.status = IF t.len = m THEN ST_FLAGS ELSE ST_PAYLOAD
    BY <1>1 DEF AfterOf
  <2>2. CASE t.len = m
    <3>1. ~InPong(u)
      BY <2>1, <2>2 DEF InPong, ST_FLAGS, ST_PAYLOAD
    <3> QED
      BY <2>2, <3>1 DEF LeftOf
  <2>3. CASE t.len # m
    <3>1. u.frameCont
      BY <2>3 DEF AfterOf
    <3>2. InPong(u)
      BY <2>1, <2>3, <3>1 DEF InPong
    <3> QED
      BY <2>1, <3>2 DEF LeftOf
  <2> QED
    BY <2>2, <2>3
<1> QED
  BY <1>4, <1>5

\* What is sent behind what was sent.
LEMMA PutMore ==
  ASSUME OutTypes, cur \in Socks, NEW items \in Seq(SentItems), Put(cur, items), UNCHANGED <<said, spoilt>>
  PROVE  /\ OutTypes' /\ said'[cur] \o buf'[cur] = Out(cur) \o items
         /\ \A c \in Socks \ {cur} : Sends(c)
<1>1. PICK a \in Seq(SentItems), b \in Seq(SentItems) : a = said[cur] /\ b = buf[cur]
  BY DEF OutTypes
<1>2. buf \in [Socks -> Seq(SentItems)] /\ buf' = [buf EXCEPT ![cur] = b \o items]
  BY <1>1 DEF OutTypes, Put
<1>3. b \o items \in Seq(SentItems)
  BY ConcatProperties
<1>4. /\ buf' \in [Socks -> Seq(SentItems)] /\ buf'[cur] = b \o items
      /\ \A c \in Socks \ {cur} : buf'[c] = buf[c]
  BY <1>2, <1>3
<1>5. (a \o b) \o items = a \o (b \o items)
  BY SentJoined, SMTT(30)
<1>6. said'[cur] \o buf'[cur] = Out(cur) \o items
  BY <1>1, <1>4, <1>5 DEF Out
<1>7. ASSUME NEW c \in Socks \ {cur} PROVE Sends(c)
  <2>1. said'[c] = said[c] /\ buf'[c] = buf[c] /\ spoilt' = spoilt
    BY <1>4
  <2>2. Out(c) \in Seq(SentItems)
    BY SentEmpty DEF OutTypes, Out
  <2>3. Out(c) \o <<>> = Out(c)
    BY <2>2, ConcatEmptySeq
  <2>4. said'[c] \o buf'[c] = Out(c) \o <<>>
    BY <2>1, <2>3 DEF Out
  <2>5. FramesAdded(c)
    BY <2>4, NoFrame DEF FramesAdded
  <2> QED
    BY <2>1, <2>5 DEF Sends
<1> QED
  BY <1>4, <1>6, <1>7 DEF OutTypes

\* A ping gets its pong.
LEMMA PingFrames ==
  ASSUME FramesInv, WsInv, Ping
  PROVE  FramesInv'
<1>1. FrameTypes /\ OutTypes /\ WireInv /\ LenInv /\ \A c \in Socks : SockFrames(c)
  BY DEF FramesInv, FrameTypes
<1>2. /\ Reading /\ Now.status = ST_PAYLOAD /\ Now.op = "ping" /\ Now.len <= 125
      /\ ReadKeeps /\ UNCHANGED llStart /\ Consumed(Now) /\ UNCHANGED <<heard, said, spoilt>>
  BY DEF Ping, InPayload
<1>3. cur \in Socks /\ GoodFrames(script[cur])
  BY <1>1, <1>2, TurnSock, ScriptOf
<1>4. GoesOn
  BY <1>2 DEF GoesOn
<1>5. PICK k \in Nat, o \in Nat, d \in Nat : Moves(k, o, d)
  BY <1>1, <1>2, <1>3, <1>4, BodyMoves
<1>6. PICK f \in FrameSet, k1 \in Nat :
         f = script[cur][k + 1] /\ k1 = k + 1 /\ (f.op = "ping" => f.masked)
  BY <1>3, <1>5, FrameLen DEF Moves
<1>7. Now.op = f.op /\ f.masked
  BY <1>2, <1>5, <1>6 DEF Moves
<1>8. PICK m \in Nat, l \in Nat : m = Sl /\ l = Now.len /\ m <= l /\ l + d = f.len
  BY <1>5, <1>6 DEF Moves
<1>9. Payload = [j \in 1 .. m |-> Plain(k1, d + j)]
  BY <1>1, <1>2, <1>5, <1>6, <1>7, <1>8, MovesPayload
<1>10. AfterOf(Now, m, sock'[cur])
  BY <1>2, <1>8, TurnAfter DEF ReadKeeps
<1>11. /\ Now.frameCont => LeftOf(sock[cur]) = l
       /\ ~Now.frameCont => LeftOf(sock[cur]) = 0 /\ d = 0
       /\ LeftOf(sock'[cur]) = l - m
  <2>1. Paying(sock[cur], Now, script[cur], k, o, d)
    BY <1>5 DEF Moves
  <2> QED
    BY <1>2, <1>8, <1>10, <2>1, PingLeft
<1>12. PICK items \in Seq(SentItems) : items = EchoIn(f, k1, d, m, Now.frameCont)
  BY InTyped
<1>13. Put(cur, items)
  <2>1. [j \in 1 .. m |-> Byte(Payload[j])] = BytesIn(k1, d, m)
    BY <1>9 DEF BytesIn
  <2>2. ~Now.frameCont => Now.len = f.len
    BY <1>8, <1>11
  <2>3. (IF Now.frameCont THEN <<>> ELSE <<Pong(Now.len)>>) = IF Now.frameCont THEN <<>> ELSE <<Pong(f.len)>>
    BY <2>2, Zenon
  <2>4. items = (IF Now.frameCont THEN <<>> ELSE <<Pong(Now.len)>>) \o [j \in 1 .. m |-> Byte(Payload[j])]
    BY <1>2, <1>7, <1>12, <2>1, <2>3 DEF EchoIn
  <2> QED
    BY <1>8, <2>4 DEF Ping
<1>14. /\ OutTypes' /\ said'[cur] \o buf'[cur] = Out(cur) \o items
       /\ \A c \in Socks \ {cur} : Sends(c)
  BY <1>1, <1>2, <1>3, <1>13, PutMore
<1>15. PICK a \in Seq(SentItems) : a = Out(cur)
  BY <1>1, <1>3, SentEmpty DEF OutTypes, Out
<1>16. Pongs(said'[cur] \o buf'[cur]) = Pongs(Out(cur)) \o items
  <2>1. Pongs(a \o items) = Pongs(a) \o Pongs(items)
    BY PongsJoined
  <2>2. Pongs(items) = items
    BY <1>12, EchoKinds
  <2> QED
    BY <1>14, <1>15, <2>1, <2>2
<1>17. ASSUME ~spoilt[cur] PROVE WholeBut(said'[cur] \o buf'[cur], LeftOf(sock'[cur]))
  <2>1. PICK r \in Nat : r = l - m /\ r + m = l
    <3>1. l - m \in Nat /\ (l - m) + m = l
      BY <1>8
    <3> QED
      BY <3>1
  <2>2. PICK n \in Nat : n = LeftOf(sock[cur])
    <3>1. CASE Now.frameCont
      BY <1>11, <3>1
    <3>2. CASE ~Now.frameCont
      BY <1>11, <3>2
    <3> QED
      BY <3>1, <3>2
  <2>3. LeftBefore(Now.frameCont, n, m, r, f.len)
    <3>1. Now.frameCont => r + m = n
      BY <1>11, <2>1, <2>2
    <3>2. ~Now.frameCont => n = 0 /\ r + m = f.len
      <4>1. d = 0 => l = f.len
        BY <1>8
      <4> QED
        BY <1>11, <2>1, <2>2, <4>1
    <3> QED
      BY <3>1, <3>2, Zenon DEF LeftBefore
  <2>4. WholeBut(a, n)
    BY <1>1, <1>3, <1>15, <1>17, <2>2 DEF SockFrames
  <2>5. f.op = "ping"
    BY <1>2, <1>7
  <2>6. WholeBut(a \o EchoIn(f, k1, d, m, Now.frameCont), r)
    BY <2>3, <2>4, <2>5, WholePing
  <2> QED
    BY <1>11, <1>12, <1>14, <1>15, <2>1, <2>6
<1>18. heard'[cur] = heard[cur] \o HeardIn(script[cur][k + 1], k + 1, d, Sl)
  <2>1. HeardIn(script[cur][k + 1], k + 1, d, Sl) = <<>>
    BY <1>2, <1>6, <1>7 DEF HeardIn, DataOps
  <2> QED
    BY <1>1, <1>2, <1>3, <2>1, NoneHeard
<1>19. Adds(k, d)
  <2>1. items = EchoIn(script[cur][k + 1], k + 1, d, Sl, Now.frameCont)
    BY <1>6, <1>8, <1>12
  <2>2. spoilt' = spoilt
    BY <1>2
  <2> QED
    BY <1>16, <1>17, <1>18, <2>1, <2>2 DEF Adds
<1>20. heard' \in [Socks -> Seq(Octets)] /\ \A c \in Socks \ {cur} : heard'[c] = heard[c] /\ Sends(c)
  BY <1>1, <1>2, <1>14 DEF FrameTypes
<1> QED
  BY <1>2, <1>4, <1>5, <1>14, <1>19, <1>20, TurnFrames

LEMMA HeaderFrames ==
  ASSUME FramesInv, WsInv, Header
  PROVE  FramesInv'
<1>1. FrameTypes /\ OutTypes /\ WireInv /\ LenInv /\ \A c \in Socks : SockFrames(c)
  BY DEF FramesInv, FrameTypes
<1>2. /\ Reading /\ Now.status # ST_PAYLOAD /\ at' = at + 1 /\ heard' = heard
      /\ UNCHANGED <<script, wire, cur, piece>>
  BY DEF Header, ReadKeeps
<1>3. PICK c \in Socks : /\ c = cur /\ GoodFrames(script[c]) /\ sock[c].st = "open" /\ IsSock(sock[c])
                         /\ Now.st = "open"
  BY <1>1, <1>2, TurnSock, ScriptOf
<1>4. sock'[c] = Now /\ \A d \in Socks \ {c} : sock'[d] = sock[d]
  BY <1>3, HeaderStep
<1>5. PICK k \in Nat, o \in Nat : Following(c, k, o)
  BY <1>1, <1>3 DEF SockFrames
<1>6. HeadGoesOn(sock[c], Now, script[c], Seen(c), k, o)
  <2>1. \A d : ~Paying(sock[c], Now, script[c], k, o, d)
    BY <1>2 DEF Paying, PayloadState
  <2> QED
    BY <1>1, <1>2, <1>3, <1>5, <2>1, Turning
<1>7. Outs
  BY <1>1, PieceOuts
<1>8. OutTypes' /\ Sends(c) /\ (~spoilt'[c] => ~spoilt[c])
  <2>1. OutTypes' /\ Sends(c)
    BY <1>7, OutsSend
  <2>2. ~spoilt'[c] => ~spoilt[c]
    BY <2>1, Zenon DEF Sends
  <2> QED
    BY <2>1, <2>2
<1>9. LeftOf(sock[c]) = 0 /\ LeftOf(sock'[c]) = 0
  BY <1>2, <1>4, <1>6 DEF HeadGoesOn, LeftOf, InPong
<1>10. ~spoilt'[c] => /\ Pongs(said'[c] \o buf'[c]) = Pongs(Out(c))
                      /\ WholeBut(said'[c] \o buf'[c], 0)
  BY <1>1, <1>8, <1>9, OutKept DEF SockFrames
<1>11. Out(c)' = said'[c] \o buf'[c]
  BY DEF Out
<1>12. SeenTo(Now, script[c], Seen(c)', k, o + 1)
  <2>1. Seen(cur)' = Seen(cur) + 1
    BY <1>1, <1>2, <1>3, SeenOn
  <2>2. Seen(c)' = Seen(c) + 1
    BY <1>2, <1>3, <2>1
  <2> QED
    BY <1>6, <2>2 DEF HeadGoesOn
<1>13. HeardTo(heard[c], script[c], k, o + 1)
  BY <1>5, <1>6 DEF Following, HeadGoesOn, HeardTo, HeardYet
<1>14. ~spoilt'[c] => EchoedTo(Pongs(Out(c)), script[c], k, o + 1)
  BY <1>5, <1>6, <1>8 DEF Following, HeadGoesOn, EchoedTo, EchoedYet
<1>15. Following(c, k, o + 1)'
  BY <1>2, <1>4, <1>10, <1>11, <1>12, <1>13, <1>14 DEF Following
<1>16. SockFrames(c)'
  <2>1. o + 1 \in Nat
    OBVIOUS
  <2> QED
    BY <1>3, <1>4, <1>9, <1>10, <1>11, <1>15, <2>1 DEF SockFrames
<1>17. \A d \in Socks \ {c} : SockFrames(d)'
  <2> SUFFICES ASSUME NEW d \in Socks \ {c} PROVE SockFrames(d)'
    OBVIOUS
  <2>1. Sends(d)
    BY <1>7, OutsSend
  <2> QED
    BY <1>1, <1>2, <1>3, <1>4, <2>1, OthersFollow
<1>18. LenInv'
  <2>1. PICK f \in FrameSet : f = script[c][k + 1] /\ f.len \in Nat
    <3>1. PICK n \in Nat : n = Seen(c) /\ n < Len(Bytes(script[c]))
      BY <1>1, <1>2, <1>3, Counting, Looking
    <3>2. k \in 0 .. Len(script[c]) - 1
      BY <1>3, <1>5, <3>1, Position DEF Following
    <3> QED
      BY <1>3, <3>2, FrameLen
  <2>2. HeadState(Now, f, k + 1, o + 1)
    BY <1>6, <2>1 DEF HeadGoesOn, SeenTo
  <2>3. Now.maskCtr = 0
    BY <2>2 DEF HeadState
  <2>4. CASE o = 0
    <3>1. sock[c].status = ST_FLAGS
      BY <1>5, <2>4 DEF Following, SeenTo
    <3>2. PICK t : t = Now
      OBVIOUS
    <3>3. t.len = sock[c].len
      BY <1>3, <3>1, <3>2, KindByte DEF Now
    <3> QED
      BY <1>1, <1>3, <1>4, <2>3, <3>2, <3>3, LenKept DEF LenInv
  <2>5. CASE o # 0
    <3>1. PICK ext \in Nat : ext = ExtLen(f)
      BY <2>1 DEF ExtLen, FrameSet
    <3>2. o + 1 >= 2 /\ (o + 1 < 2 + ext \/ o + 1 >= 2 + ext) /\ f.len \div 256 \in Nat
      BY <2>1, <2>5
    <3>3. Now.len \in {f.len, f.len \div 256, 0}
      BY <2>2, <3>1, <3>2 DEF HeadState
    <3>4. Now.len \in Nat
      BY <2>1, <3>2, <3>3
    <3>5. 0 \in 0 .. 3
      OBVIOUS
    <3> QED
      BY <1>1, <1>3, <1>4, <2>3, <3>4, <3>5, LenKept
  <2> QED
    BY <2>4, <2>5
<1>19. WireInv'
  <2>1. at' \in 1 .. Len(piece) + 1
    <3>1. at \in Nat /\ at >= 1 /\ Len(piece) \in Nat /\ at <= Len(piece)
      BY <1>1, <1>2, Looking
    <3> QED
      BY <1>2, <3>1
  <2>2. \A d \in Socks : sock'[d].st = "none" => sock[d].st = "none"
    BY <1>3, <1>4
  <2> QED
    BY <1>1, <1>2, <2>1, <2>2, WireKept
<1>20. FrameTypes'
  BY <1>1, <1>2, <1>7, TypesKept DEF FrameTypes
<1> QED
  BY <1>16, <1>17, <1>18, <1>19, <1>20 DEF FramesInv

LEMMA DoneFrames ==
  ASSUME FramesInv, WsInv, LongPing \/ Unmasked1002 \/ CloseFrame
  PROVE  FramesInv'
<1>1. FrameTypes /\ WireInv /\ LenInv /\ \A c \in Socks : SockFrames(c)
  BY DEF FramesInv
<1>2. PICK items : Reading /\ Now.status = ST_PAYLOAD /\ (Now.op # "ping" \/ Now.len > 125) /\ Done(items)
  BY DEF LongPing, Unmasked1002, CloseFrame, InPayload, DataOps
<1>3. PICK c \in Socks : c = cur /\ sock[c].st = "open"
  BY <1>2, TurnSock
<1>4. UNCHANGED <<script, wire, heard>> /\ cur' = NoSock /\ piece' = <<>> /\ at' = 1
  BY <1>2 DEF Done
<1>5. /\ sock'[c].st = "ending" /\ sock'[c].status = ST_FLAGS /\ sock'[c].len = 0
      /\ sock'[c].maskCtr = 0 /\ \A d \in Socks \ {c} : sock'[d] = sock[d]
  BY <1>2, <1>3, DoneStep
<1>6. Outs
  BY <1>1, PieceOuts
<1>7. \A d \in Socks : Sends(d)
  BY <1>6, OutsSend
<1>8. SockFrames(c)'
  <2>1. ~InPong(sock[c])
    BY <1>1, <1>2, <1>3, TurnPlain
  <2>2. ~InPong(sock'[c])
    BY <1>5 DEF InPong, ST_FLAGS, ST_PAYLOAD
  <2>3. sock'[c].st \notin {"open", "none"}
    BY <1>5
  <2> QED
    BY <1>1, <1>4, <1>7, <2>1, <2>2, <2>3, FollowEnds
<1>9. \A d \in Socks \ {c} : SockFrames(d)'
  <2> SUFFICES ASSUME NEW d \in Socks \ {c} PROVE SockFrames(d)'
    OBVIOUS
  <2> QED
    BY <1>1, <1>3, <1>4, <1>5, <1>7, OthersFollow
<1>10. LenInv'
  BY <1>1, <1>5, LenKept
<1>11. WireInv'
  <2>1. \A d \in Socks : sock'[d].st = "none" => sock[d].st = "none"
    BY <1>5
  <2> QED
    BY <1>1, <1>4, <2>1, WireKept
<1>12. FrameTypes'
  <2>1. <<>> \in Seq(WireBytes)
    OBVIOUS
  <2> QED
    BY <1>1, <1>4, <1>6, <2>1, TypesKept DEF FrameTypes
<1> QED
  BY <1>8, <1>9, <1>10, <1>11, <1>12 DEF FramesInv

LEMMA PieceEndsFrames ==
  ASSUME FramesInv, WsInv, PieceEnds
  PROVE  FramesInv'
<1>1. FrameTypes /\ WireInv /\ LenInv /\ \A c \in Socks : SockFrames(c)
  BY DEF FramesInv
<1>2. /\ cur # NoSock /\ at > Len(piece) /\ UNCHANGED <<script, wire, sock, heard>>
      /\ cur' = NoSock /\ piece' = <<>> /\ at' = 1
  BY DEF PieceEnds
<1>3. PICK c \in Socks : c = cur
  BY <1>2 DEF WsInv, ListInv
<1>4. Outs
  BY <1>1, PieceOuts
<1>5. \A d \in Socks : Sends(d)
  BY <1>4, OutsSend
<1>6. SockFrames(c)'
  <2>1. Seen(c)' = Seen(c)
    <3>1. cur' # c
      BY <1>2, SocketsAssumption
    <3>2. Came(c)' = Came(c)
      BY <1>2 DEF Came
    <3>3. Seen(c)' = Came(c) - 0
      BY <3>1, <3>2 DEF Seen
    <3>4. PICK m \in Nat, n \in Nat : m = Came(c) /\ n = Seen(c) /\ n + (Len(piece) - at + 1) = m
      BY <1>1, <1>3, Counting
    <3>5. PICK np \in Nat, a \in Nat : np = Len(piece) /\ a = at /\ a = np + 1
      <4>1. Len(piece) \in Nat
        BY <1>1 DEF FrameTypes
      <4>2. at \in 1 .. Len(piece) + 1
        BY <1>1 DEF WireInv
      <4> QED
        BY <1>2, <4>1, <4>2
    <3>6. n = m
      <4>1. n + (np - a + 1) = m
        BY <3>4, <3>5
      <4> QED
        BY <3>5, <4>1
    <3> QED
      BY <3>3, <3>4, <3>6
  <2>2. SameParser(sock[c], sock'[c]) /\ sock'[c].st = sock[c].st /\ heard'[c] = heard[c]
    BY <1>2 DEF SameParser
  <2> QED
    BY <1>1, <1>2, <1>5, <2>1, <2>2, FollowKept
<1>7. \A d \in Socks \ {c} : SockFrames(d)'
  <2> SUFFICES ASSUME NEW d \in Socks \ {c} PROVE SockFrames(d)'
    OBVIOUS
  <2>1. sock'[d] = sock[d] /\ wire'[d] = wire[d] /\ heard'[d] = heard[d]
    BY <1>2
  <2> QED
    BY <1>1, <1>2, <1>3, <1>5, <2>1, OthersFollow
<1>8. LenInv'
  BY <1>1, <1>2 DEF LenInv
<1>9. WireInv'
  BY <1>1, <1>2, WireKept
<1>10. FrameTypes'
  <2>1. <<>> \in Seq(WireBytes)
    OBVIOUS
  <2> QED
    BY <1>1, <1>2, <1>4, <2>1, TypesKept DEF FrameTypes
<1> QED
  BY <1>6, <1>7, <1>8, <1>9, <1>10 DEF FramesInv

\* Nothing is the beginning of all.
LEMMA NothingBegins ==
  ASSUME NEW frames \in Seq(FrameSet)
  PROVE  IsPrefix(<<>>, ToHear(frames)) /\ IsPrefix(<<>>, ToEcho(frames))
<1>1. PICK K \in 0 .. Len(frames) :
         ToHear(frames) = Upto(Hears(frames), K) /\ ToEcho(frames) = Upto(Echoes(frames), K)
  BY CountedTo
<1>2. ToHear(frames) \in Seq(Octets)
  <2>1. Hears(frames) \in Seq(Seq(Octets)) /\ Len(Hears(frames)) = Len(frames)
    BY HearsTyped
  <2>2. K \in 0 .. Len(Hears(frames))
    BY <1>1, <2>1
  <2> QED
    BY <1>1, <2>1, <2>2, UptoStep
<1>3. ToEcho(frames) \in Seq(SentItems)
  <2>1. Echoes(frames) \in Seq(Seq(SentItems)) /\ Len(Echoes(frames)) = Len(frames)
    BY HearsTyped
  <2>2. K \in 0 .. Len(Echoes(frames))
    BY <1>1, <2>1
  <2> QED
    BY <1>1, <2>1, <2>2, UptoStep
<1>4. PICK u \in Seq(Octets) : u = ToHear(frames) /\ <<>> \o u = u
  BY <1>2, ConcatEmptySeq
<1>5. PICK w \in Seq(SentItems) : w = ToEcho(frames) /\ <<>> \o w = w
  BY <1>3, ConcatEmptySeq
<1>6. IsPrefix(<<>>, u)
  <2>1. <<>> \in Seq(Octets)
    OBVIOUS
  <2>2. IsPrefix(<<>>, <<>> \o u)
    BY <2>1, Begins
  <2> QED
    BY <1>4, <2>2
<1>7. IsPrefix(<<>>, w)
  <2>1. <<>> \in Seq(SentItems)
    OBVIOUS
  <2>2. IsPrefix(<<>>, <<>> \o w)
    BY <2>1, Begins
  <2> QED
    BY <1>5, <2>2
<1> QED
  BY <1>4, <1>5, <1>6, <1>7

LEMMA FramesStart ==
  ASSUME NEW scripts, scripts \subseteq Scripts \cup {NoScript}, WsInit(scripts)
  PROVE  FramesInv
<1>1. /\ script \in Scripts \cup {NoScript} /\ wire = [c \in Socks |-> Bytes(script[c])]
      /\ sock = [c \in Socks |-> [NewSock EXCEPT !.st = "none"]]
      /\ cur = NoSock /\ piece = <<>> /\ at = 1
      /\ buf = [c \in Socks |-> <<>>] /\ said = [c \in Socks |-> <<>>] /\ heard = [c \in Socks |-> <<>>]
      /\ spoilt = [c \in Socks |-> FALSE]
  BY DEF WsInit
<1>2. \A c \in Socks : GoodFrames(script[c]) /\ Bytes(script[c]) \in Seq(WireBytes)
  <2>1. \A c \in Socks : GoodFrames(script[c])
    BY <1>1, ScriptsGood
  <2>2. \A c \in Socks : script[c] \in Seq(FrameSet)
    BY <2>1 DEF GoodFrames
  <2> QED
    BY <2>1, <2>2, BytesTyped
<1>3. OutTypes
  <2>1. <<>> \in Seq(SentItems)
    OBVIOUS
  <2> QED
    BY <1>1, <2>1 DEF OutTypes
<1>4. FrameTypes
  <2>1. <<>> \in Seq(Octets) /\ <<>> \in Seq(WireBytes)
    OBVIOUS
  <2>2. wire \in [Socks -> Seq(WireBytes)]
    BY <1>1, <1>2
  <2>3. heard \in [Socks -> Seq(Octets)]
    BY <1>1, <2>1
  <2> QED
    BY <1>1, <1>3, <2>1, <2>2, <2>3 DEF FrameTypes
<1>5. PICK t : t = [NewSock EXCEPT !.st = "none"]
  OBVIOUS
<1>6. t.st = "none" /\ t.status = ST_FLAGS /\ t.len = 0 /\ t.maskCtr = 0
  <2>1. NewSock.status = ST_FLAGS /\ NewSock.len = 0 /\ NewSock.maskCtr = 0
    BY DEF NewSock
  <2>2. t.st = "none" /\ \A f \in SockFields \ {"st"} : t[f] = NewSock[f]
    BY <1>5, FreshSock, FieldSet DEF SockFields
  <2> QED
    BY <2>1, <2>2 DEF SockFields
<1>7. \A c \in Socks : sock[c] = t
  BY <1>1, <1>5
<1>8. LenInv
  BY <1>6, <1>7 DEF LenInv
<1>9. ASSUME NEW c \in Socks PROVE WireOf(c)
  <2>1. PICK w \in Seq(WireBytes) : w = wire[c] /\ w = Bytes(script[c])
    BY <1>1, <1>2
  <2>2. Came(c) = 0
    <3>1. PICK n \in Nat : n = Len(w)
      OBVIOUS
    <3>2. n - n = 0
      OBVIOUS
    <3> QED
      BY <2>1, <3>1, <3>2 DEF Came
  <2>3. \A i \in 1 .. Len(w) : 0 + i = i
    OBVIOUS
  <2>4. 0 \in Nat /\ \A i \in 1 .. Len(w) : w[i] = Bytes(script[c])[0 + i]
    BY <2>1, <2>3
  <2> QED
    BY <2>1, <2>2, <2>4 DEF WireOf
<1>10. WireInv
  <2>1. 1 \in 1 .. Len(<<>>) + 1
    OBVIOUS
  <2> QED
    BY <1>1, <1>9, <2>1 DEF WireInv
<1>11. ASSUME NEW c \in Socks PROVE SockFrames(c)
  <2>1. said[c] \o buf[c] = <<>>
    <3>1. <<>> \o <<>> = <<>>
      OBVIOUS
    <3> QED
      BY <1>1, <3>1
  <2>2. Out(c) = <<>> /\ heard[c] = <<>>
    BY <1>1, <2>1 DEF Out
  <2>3. Pongs(<<>>) = <<>>
    <3>1. <<>> \in Seq(SentItems) /\ 1 .. Len(<<>>) = {}
      OBVIOUS
    <3> QED
      BY <3>1, NoPongs
  <2>4. IsPrefix(<<>>, ToHear(script[c])) /\ IsPrefix(<<>>, ToEcho(script[c]))
    BY <1>2, NothingBegins DEF GoodFrames
  <2>5. WholeBut(<<>>, LeftOf(sock[c]))
    <3>1. DOMAIN <<>> = {}
      OBVIOUS
    <3> QED
      BY <3>1 DEF WholeBut
  <2>6. Followed(c)
    BY <2>2, <2>3, <2>4 DEF Followed
  <2>7. sock[c].st = "none"
    BY <1>6, <1>7
  <2> QED
    BY <2>2, <2>3, <2>5, <2>6, <2>7 DEF SockFrames
<1> QED
  BY <1>4, <1>8, <1>10, <1>11 DEF FramesInv

LEMMA FramesKept == ASSUME FramesInv, UNCHANGED wsVars PROVE FramesInv'
<1>1. /\ UNCHANGED <<script, wire, sock, cur, piece, at, buf, said, spoilt, heard>>
  BY DEF wsVars, outVars
<1>2. FrameTypes' /\ WireInv' /\ LenInv'
  BY <1>1 DEF FramesInv, FrameTypes, OutTypes, WireInv, WireOf, PieceOf, Came, LenInv
<1>3. \A c \in Socks : SockFrames(c)'
  <2> SUFFICES ASSUME NEW c \in Socks PROVE SockFrames(c)'
    OBVIOUS
  <2>1. SockFrames(c)
    BY DEF FramesInv
  <2>2. Seen(c)' = Seen(c)
    BY <1>1 DEF Seen, Came
  <2>3. Out(c)' = Out(c)
    BY <1>1 DEF Out
  <2> QED
    BY <1>1, <2>1, <2>2, <2>3 DEF SockFrames, Following, Followed
<1> QED
  BY <1>2, <1>3 DEF FramesInv

LEMMA FramesStep == ASSUME FramesInv, WsInv, [WsNext]_wsVars PROVE FramesInv'
<1>1. CASE UNCHANGED wsVars
  BY <1>1, FramesKept
<1>2. CASE WsNext
  BY <1>2, CallFrames, HeaderFrames, PingFrames, DoneFrames, DataFrames, IgnoredFrames,
     PieceEndsFrames DEF WsNext
<1> QED
  BY <1>1, <1>2

\* However the bytes of the frames are cut into pieces: what a socket has seen of
\* them is a number of frames and a part of the next one, its parser is where
\* that part ends, the application has heard their payload, and the client has
\* got the pongs (cgiwebsocket.c:170-275).
THEOREM FramesInductive == Spec => []FramesInv
<1>1. Init => FramesInv
  <2>1. {NoScript} \subseteq Scripts \cup {NoScript} /\ Scripts \subseteq Scripts \cup {NoScript}
    OBVIOUS
  <2> QED
    BY <2>1, FramesStart DEF Init
<1>2. WsInv /\ FramesInv /\ [Next]_vars => FramesInv'
  <2> SUFFICES ASSUME WsInv, FramesInv, [Next]_vars PROVE FramesInv'
    OBVIOUS
  <2>1. [WsNext]_wsVars
    BY DEF Next, vars
  <2> QED
    BY <2>1, FramesStep
<1> QED
  BY <1>1, <1>2, WsInductive, PTL DEF Spec

LEMMA FramesHeard ==
  ASSUME WsInv, FramesInv, NEW c \in Socks
  PROVE  LET allRead == sock[c].st = "open" /\ cur # c /\ wire[c] = <<>>
         IN /\ IsPrefix(heard[c], ToHear(script[c]))
            /\ allRead => heard[c] = ToHear(script[c])
            /\ ~spoilt[c] =>
                 /\ IsPrefix(Pongs(said[c] \o buf[c]), ToEcho(script[c])) /\ Whole(said[c] \o buf[c])
                 /\ allRead => Pongs(said[c] \o buf[c]) = ToEcho(script[c])
<1> DEFINE allRead == sock[c].st = "open" /\ cur # c /\ wire[c] = <<>>
<1>1. FrameTypes /\ WireInv /\ SockFrames(c)
  BY DEF FramesInv
<1>2. Followed(c) /\ GoodFrames(script[c])
  BY <1>1, FollowedSo, ScriptOf
<1>3. PICK items \in Seq(SentItems) : items = Out(c) /\ items = said[c] \o buf[c]
  BY <1>1, SentEmpty DEF FrameTypes, OutTypes, Out
<1>4. IsPrefix(heard[c], ToHear(script[c]))
  BY <1>2 DEF Followed
<1>5. ~spoilt[c] => IsPrefix(Pongs(items), ToEcho(script[c])) /\ Whole(items)
  <2>1. ~spoilt[c] => Whole(items)
    BY <1>1, <1>3, WholeIs DEF SockFrames
  <2>2. ~spoilt[c] => IsPrefix(Pongs(items), ToEcho(script[c]))
    BY <1>2, <1>3 DEF Followed
  <2> QED
    BY <2>1, <2>2
<1>6. ASSUME allRead
      PROVE  heard[c] = ToHear(script[c]) /\ (~spoilt[c] => Pongs(items) = ToEcho(script[c]))
  <2>1. PICK k \in Nat, o \in Nat : Following(c, k, o)
    BY <1>1, <1>6 DEF SockFrames
  <2>2. Seen(c) = Len(Bytes(script[c]))
    <3>1. PICK m \in Nat, n \in Nat : m = Came(c) /\ n = Len(Bytes(script[c])) /\ m + Len(wire[c]) = n
      BY <1>1, Counting
    <3>2. Len(wire[c]) = 0
      BY <1>6
    <3>3. m = n
      BY <3>1, <3>2
    <3> QED
      BY <1>1, <1>6, <3>1, <3>3, Counting
  <2>3. SeenTo(sock[c], script[c], Len(Bytes(script[c])), k, o)
    BY <2>1, <2>2 DEF Following
  <2>4. heard[c] = ToHear(script[c])
    BY <1>2, <2>1, <2>3, AllHeard DEF Following
  <2>5. ~spoilt[c] => Pongs(items) = ToEcho(script[c])
    BY <1>2, <1>3, <2>1, <2>3, AllEchoed DEF Following
  <2> QED
    BY <2>4, <2>5
<1> QED
  BY <1>3, <1>4, <1>5, <1>6

\* However the bytes of the frames are cut into pieces, the application hears
\* the payload of the data frames, unmasked, once and in order; and every ping gets its
\* pong, in whole, unless the application sent to the socket meanwhile
\* (cgiwebsocket.c:170-275).
THEOREM FramesHeardInOrder == Spec => []FramesArrive
<1>1. WsInv /\ FramesInv => FramesArrive
  BY FramesHeard DEF FramesArrive
<1> QED
  BY <1>1, WsInductive, FramesInductive, PTL

\* What the handlers and the sockets keep has its type: the parser's state is one
\* that its code knows, the length that is left is no less than nothing.
THEOREM TypeCorrect == Spec => []TypeOK
<1>1. LossInv /\ WsInv /\ FramesInv => TypeOK
  <2> SUFFICES ASSUME LossInv, WsInv, FramesInv PROVE TypeOK
    OBVIOUS
  <2>1. handler = "none" \/ TplTypeOK
    BY FilesTyped DEF LossInv
  <2>2. WsTypeOK
    BY DEF WsInv, SockInv, ListInv, ListIsOpen, FramesInv, LenInv, WsTypeOK
  <2> QED
    BY <2>1, <2>2 DEF TypeOK
<1> QED
  BY <1>1, ExpansionInductive, WsInductive, FramesInductive, PTL
=============================================================================
