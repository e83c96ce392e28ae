------------------------ MODULE StreamBuffersProofs ------------------------
(***************************************************************************)
(* Proofs about StreamBuffers, for any resources, uploads, downloads,      *)
(* evictions and restarts: the objects never offer more than the file has, *)
(* the file is what one upload wrote unless two raced for it, and uploads  *)
(* and downloads implement StreamStore.                                    *)
(***************************************************************************)
EXTENDS StreamBuffers, FiniteSetTheorems, TLAPS

Object == [id : Ids, parts : Nat, readable : Nat, activity : {"never", "recent", "old"}]

\* The places of u's parts in a file with content f.
PartsIn(f, u) == {i \in 1 .. Len(f) : f[i][1] = u}

\* Of upload u, f has n parts, the first n.
Has(f, u, n) ==
  /\ Cardinality(PartsIn(f, u)) = n
  /\ \A k \in 1 .. n : \E i \in 1 .. Len(f) : f[i] = <<u, k>>

\* How far u is: the count of its object is behind by the part just written.
Stored(u) ==
  LET f == file[Target[u]]
      r == obj[upObj[u]].readable
  IN /\ up[u] \in {"none", "refused", "probed"} => Has(f, u, 0) /\ upObj[u] = NoObject
     /\ up[u] = "created" => Has(f, u, 0) /\ r = 0
     /\ up[u] = "receiving" => Has(f, u, r) /\ r < Parts
     /\ up[u] = "written" => Has(f, u, r + 1) /\ r < Parts /\ r < Len(f)
     /\ up[u] \in {"complete", "done"} => Has(f, u, Parts)

\* No two uploads share an object.
Progress ==
  /\ \A u, v \in Uploads : upObj[u] # NoObject /\ upObj[u] = upObj[v] => u = v
  /\ \A u \in Uploads : Stored(u)

\* The file is there from fopen on; what has no file has no parts and no object.
OnDisk ==
  /\ \A u \in Uploads :
       up[u] \in {"created", "receiving", "written", "complete", "done"} => Target[u] \in files
  /\ \A id \in Ids \ files : file[id] = <<>> /\ buffers[id] = NoObject
  /\ \A u \in requests : up[u] = "done"

Working(u) == up[u] \in {"probed", "created", "receiving", "written", "complete"}

\* Unless two uploads raced, the one at work is alone and has written all of the
\* file, part for part.
Alone ==
  /\ \A u, v \in Uploads :
       Target[u] = Target[v] /\ Target[u] \notin raced /\ Working(u) /\ Working(v) => u = v
  /\ \A u \in Uploads : up[u] = "probed" /\ Target[u] \notin raced => Target[u] \notin files
  /\ \A u \in Uploads : Target[u] \notin raced /\ up[u] # "probed" /\ Working(u) =>
       /\ \A i \in 1 .. Len(file[Target[u]]) : file[Target[u]][i][1] = u
       /\ LET n == Len(file[Target[u]])
              r == obj[upObj[u]].readable
          IN /\ up[u] = "created" => n = 0
             /\ up[u] = "receiving" => n = r
             /\ up[u] = "written" => n = r + 1
             /\ up[u] = "complete" => n = Parts
  /\ \A id \in Ids \ raced : \A i \in 1 .. Len(file[id]) : file[id][i][2] = i

\* Unless its file was exposed, an upload at work is the one in the table, and a
\* file nobody works on is whole.
Listed ==
  \A id \in files : id \notin raced \cup exposed =>
    /\ \A u \in Uploads : Target[u] = id /\ up[u] = "created" => buffers[id] = NoObject
    /\ \A u \in Uploads : Target[u] = id /\ Running(u) => buffers[id] = upObj[u]
    /\ \/ \E u \in Uploads : Target[u] = id /\ (up[u] = "created" \/ Running(u))
       \/ Len(file[id]) = Parts

\* The objects of such a file have the length of the whole.
Lengths ==
  /\ \A o \in 1 .. Len(obj) : obj[o].id \notin raced \cup exposed => obj[o].parts = Parts
  /\ \A d \in Downloads :
       down[d] = "done" /\ Target[d] \notin raced \cup exposed => Len(got[d]) = Parts

\* A download has the beginning of its file.
Prefixes ==
  \A d \in Downloads :
    /\ Len(got[d]) <= Len(file[Target[d]])
    /\ \A i \in 1 .. Len(got[d]) : got[d][i] = file[Target[d]][i]

\* The inductive invariant.
Inv ==
  TypeOK /\ Backed /\ Progress /\ OnDisk /\ Alone /\ OneWriter /\ Listed /\ Lengths /\ Prefixes

-----------------------------------------------------------------------------
LEMMA AppendFacts ==
  ASSUME NEW S, NEW f \in Seq(S), NEW e \in S
  PROVE  /\ Append(f, e) \in Seq(S) /\ Len(Append(f, e)) = Len(f) + 1
         /\ Len(f) \in Nat
         /\ \A i \in 1 .. Len(f) : Append(f, e)[i] = f[i]
         /\ Append(f, e)[Len(f) + 1] = e
OBVIOUS

\* Assigning an entry of m_buffers' objects.
LEMMA UpdateFacts ==
  ASSUME NEW S, NEW f \in Seq(S), NEW o \in 1 .. Len(f), NEW e \in S
  PROVE  /\ [f EXCEPT ![o] = e] \in Seq(S) /\ Len([f EXCEPT ![o] = e]) = Len(f)
         /\ [f EXCEPT ![o] = e][o] = e
         /\ \A i \in 1 .. Len(f) : i # o => [f EXCEPT ![o] = e][i] = f[i]
OBVIOUS

\* Assigning m_bytesReadable and m_lastActivity.
LEMMA ObjectUpdate ==
  ASSUME NEW y \in Object, NEW k \in Nat, NEW a \in {"never", "recent", "old"}
  PROVE  LET x == [y EXCEPT !.readable = k, !.activity = a]
             z == [y EXCEPT !.activity = a]
         IN /\ x \in Object /\ x.id = y.id /\ x.parts = y.parts /\ x.readable = k
            /\ z \in Object /\ z.id = y.id /\ z.parts = y.parts /\ z.readable = y.readable
<1>. DEFINE x == [y EXCEPT !.readable = k, !.activity = a]
            z == [y EXCEPT !.activity = a]
<1>1. x \in Object
  BY DEF Object
<1>2. x.id = y.id /\ x.parts = y.parts /\ x.readable = k
  BY DEF Object
<1>3. z \in Object
  BY DEF Object
<1>4. z.id = y.id /\ z.parts = y.parts /\ z.readable = y.readable
  BY DEF Object
<1>. QED
  BY <1>1, <1>2, <1>3, <1>4

\* A part of u joins the parts of u, and nobody else's.
LEMMA HasAppend ==
  ASSUME NEW f \in Seq(Items), NEW u \in Uploads, NEW v \in Uploads, NEW m \in 1 .. Parts
  PROVE  /\ \A n \in Nat : u # v /\ Has(f, u, n) => Has(Append(f, <<v, m>>), u, n)
         /\ Has(f, v, m - 1) => Has(Append(f, <<v, m>>), v, m)
<1>. DEFINE g == Append(f, <<v, m>>)
<1>1. <<v, m>> \in Items
  BY DEF Items
<1>2. /\ g \in Seq(Items) /\ Len(g) = Len(f) + 1 /\ Len(f) \in Nat
      /\ \A i \in 1 .. Len(f) : g[i] = f[i]
      /\ g[Len(f) + 1] = <<v, m>>
  BY <1>1, AppendFacts
<1>. HIDE DEF g
<1>3. ASSUME NEW n \in Nat, u # v, Has(f, u, n) PROVE Has(g, u, n)
  <2>1. PartsIn(g, u) = PartsIn(f, u)
    <3>1. \A i \in 1 .. Len(g) : i \in 1 .. Len(f) \/ g[i][1] = v
      BY <1>2
    <3>2. \A i \in 1 .. Len(f) : i \in 1 .. Len(g) /\ g[i] = f[i]
      BY <1>2
    <3>. QED
      BY <1>3, <3>1, <3>2 DEF PartsIn
  <2>2. ASSUME NEW k \in 1 .. n PROVE \E i \in 1 .. Len(g) : g[i] = <<u, k>>
    <3>1. PICK i \in 1 .. Len(f) : f[i] = <<u, k>>
      BY <1>3 DEF Has
    <3>. QED
      BY <1>2, <3>1
  <2>. QED
    BY <1>3, <2>1, <2>2 DEF Has
<1>4. ASSUME Has(f, v, m - 1) PROVE Has(g, v, m)
  <2>1. PartsIn(g, v) = PartsIn(f, v) \cup {Len(f) + 1} /\ Len(f) + 1 \notin PartsIn(f, v)
    <3>1. \A i \in 1 .. Len(g) : i \in 1 .. Len(f) \/ i = Len(f) + 1
      BY <1>2
    <3>2. \A i \in 1 .. Len(f) : i \in 1 .. Len(g) /\ g[i] = f[i]
      BY <1>2
    <3>3. Len(f) + 1 \in 1 .. Len(g) /\ g[Len(f) + 1][1] = v /\ Len(f) + 1 \notin 1 .. Len(f)
      BY <1>2
    <3>. QED
      BY <3>1, <3>2, <3>3 DEF PartsIn
  <2>2. IsFiniteSet(PartsIn(f, v))
    <3>1. IsFiniteSet(1 .. Len(f))
      BY <1>2, FS_Interval
    <3>2. PartsIn(f, v) \subseteq 1 .. Len(f)
      BY DEF PartsIn
    <3>. QED
      BY <3>1, <3>2, FS_Subset
  <2>3. Cardinality(PartsIn(g, v)) = m
    <3>1. Cardinality(PartsIn(f, v)) = m - 1
      BY <1>4 DEF Has
    <3>2. Cardinality(PartsIn(f, v) \cup {Len(f) + 1}) = Cardinality(PartsIn(f, v)) + 1
      BY <2>1, <2>2, FS_AddElement
    <3>. QED
      BY <2>1, <3>1, <3>2
  <2>4. ASSUME NEW k \in 1 .. m PROVE \E i \in 1 .. Len(g) : g[i] = <<v, k>>
    <3>1. CASE k = m
      BY <1>2, <3>1
    <3>2. CASE k \in 1 .. (m - 1)
      <4>1. PICK i \in 1 .. Len(f) : f[i] = <<v, k>>
        BY <1>4, <3>2 DEF Has
      <4>. QED
        BY <1>2, <4>1
    <3>. QED
      BY <3>1, <3>2
  <2>. QED
    BY <2>3, <2>4 DEF Has
<1>5. g = Append(f, <<v, m>>)
  BY DEF g
<1>. QED
  BY <1>3, <1>4, <1>5

LEMMA HasNone == \A u \in Uploads : Has(<<>>, u, 0)
<1>1. \A u \in Uploads : PartsIn(<<>>, u) = {}
  BY DEF PartsIn
<1>2. \A u \in Uploads : Cardinality(PartsIn(<<>>, u)) = 0
  BY <1>1, FS_EmptySet
<1>3. \A k \in 1 .. 0 : FALSE
  OBVIOUS
<1>. QED
  BY <1>2, <1>3 DEF Has

\* What TypeOK says of single objects and files.
LEMMA TypeFacts ==
  ASSUME TypeOK
  PROVE  /\ obj \in Seq(Object) /\ Len(obj) \in Nat
         /\ \A o \in 1 .. Len(obj) : obj[o] \in Object
         /\ \A u \in Uploads \cup Downloads : Target[u] \in Ids
         /\ \A i \in Ids : /\ file[i] \in Seq(Items) /\ Len(file[i]) \in Nat
                           /\ \A k \in 1 .. Len(file[i]) : file[i][k] \in Items
         /\ \A i \in Ids : buffers[i] # NoObject =>
                             buffers[i] \in 1 .. Len(obj) /\ obj[buffers[i]].id = i
         /\ \A u \in Uploads : upObj[u] # NoObject => upObj[u] \in 1 .. Len(obj)
         /\ \A u \in Uploads : up[u] \in {"created", "receiving", "written", "complete"} =>
                             upObj[u] # NoObject /\ obj[upObj[u]].id = Target[u]
         /\ \A d \in Downloads : downObj[d] # NoObject =>
                             downObj[d] \in 1 .. Len(obj) /\ obj[downObj[d]].id = Target[d]
<1>1. obj \in Seq(Object) /\ Len(obj) \in Nat
  BY DEF TypeOK, Object
<1>2. \A o \in 1 .. Len(obj) : obj[o] \in Object
  BY <1>1
<1>3. \A u \in Uploads \cup Downloads : Target[u] \in Ids
  BY StreamAssumption
<1>4. \A i \in Ids : /\ file[i] \in Seq(Items) /\ Len(file[i]) \in Nat
                    /\ \A k \in 1 .. Len(file[i]) : file[i][k] \in Items
  <2>1. \A i \in Ids : file[i] \in Seq(Items)
    BY DEF TypeOK
  <2>. QED
    BY <2>1
<1>5. /\ \A i \in Ids : buffers[i] # NoObject =>
                        buffers[i] \in 1 .. Len(obj) /\ obj[buffers[i]].id = i
      /\ \A u \in Uploads : upObj[u] # NoObject => upObj[u] \in 1 .. Len(obj)
      /\ \A d \in Downloads : downObj[d] # NoObject =>
                        downObj[d] \in 1 .. Len(obj) /\ obj[downObj[d]].id = Target[d]
  <2>1. /\ \A i \in Ids : buffers[i] \in 0 .. Len(obj)
        /\ \A u \in Uploads : upObj[u] \in 0 .. Len(obj)
        /\ \A d \in Downloads : downObj[d] \in 0 .. Len(obj)
        /\ \A i \in Ids : buffers[i] # NoObject => obj[buffers[i]].id = i
        /\ \A d \in Downloads : downObj[d] # NoObject => obj[downObj[d]].id = Target[d]
    BY DEF TypeOK
  <2>2. \A k \in 0 .. Len(obj) : k # NoObject => k \in 1 .. Len(obj)
    BY <1>1 DEF NoObject
  <2>. QED
    BY <2>1, <2>2
<1>6. \A u \in Uploads : up[u] \in {"created", "receiving", "written", "complete"} =>
        upObj[u] # NoObject /\ obj[upObj[u]].id = Target[u]
  BY DEF TypeOK
<1>. QED
  BY <1>1, <1>2, <1>3, <1>4, <1>5, <1>6

\* The first fopen: whoever comes while another has probed is noted.
LEMMA ProbeStep ==
  ASSUME Inv, NEW u \in Uploads, Probe(u)
  PROVE  Inv'
<1>. USE StreamAssumption
<1>. DEFINE id == Target[u]
<1>1. /\ up[u] = "none" /\ id \in Ids
      /\ up' = [up EXCEPT ![u] = IF id \in files THEN "refused" ELSE "probed"]
      /\ raced \subseteq raced' /\ raced' \subseteq raced \cup {id}
      /\ id \notin files /\ (\E v \in Uploads \ {u} : Target[v] = id /\ up[v] = "probed")
           => id \in raced'
      /\ UNCHANGED <<files, file, buffers, obj, upObj, down, downObj, got, requests,
                     evictions, restarts, exposed>>
  BY DEF Probe, Step
<1>2. /\ up'[u] \in {"refused", "probed"} /\ (up'[u] = "probed" <=> id \notin files)
      /\ \A v \in Uploads \ {u} : up'[v] = up[v]
      /\ up' \in [Uploads -> {"none", "refused", "probed", "created", "receiving",
                              "written", "complete", "done", "cut"}]
  BY <1>1 DEF Inv, TypeOK
<1>3. TypeOK'
  <2>1. \A v \in Uploads : up'[v] \in {"created", "receiving", "written", "complete"} =>
          upObj[v] # NoObject /\ obj[upObj[v]].id = Target[v]
    BY <1>2 DEF Inv, TypeOK
  <2>2. raced' \subseteq Ids
    BY <1>1 DEF Inv, TypeOK
  <2>. QED
    BY <1>1, <1>2, <2>1, <2>2 DEF Inv, TypeOK, NoObject
<1>4. Backed' /\ OneWriter' /\ Prefixes'
  BY <1>1 DEF Inv, Backed, OneWriter, Prefixes
<1>5. Progress'
  BY <1>1, <1>2 DEF Inv, Progress, Stored, NoObject
<1>6. OnDisk'
  BY <1>1, <1>2 DEF Inv, OnDisk, NoObject
<1>7. Alone'
  BY <1>1, <1>2 DEF Inv, Alone, OnDisk, Working
<1>8. Listed' /\ Lengths'
  BY <1>1, <1>2 DEF Inv, Listed, Lengths, Running, NoObject
<1>. QED
  BY <1>3, <1>4, <1>5, <1>6, <1>7, <1>8 DEF Inv

\* The second fopen: the upload gets an object of its own.
LEMMA CreateFileStep ==
  ASSUME Inv, NEW u \in Uploads, CreateFile(u)
  PROVE  Inv'
<1>. USE StreamAssumption
<1>. DEFINE id == Target[u]
            n == Len(obj) + 1
            x == Created(id)
<1>1. /\ up[u] = "probed" /\ id \in Ids /\ files' = files \cup {id} /\ obj' = Append(obj, x)
      /\ upObj' = [upObj EXCEPT ![u] = n] /\ up' = [up EXCEPT ![u] = "created"]
      /\ UNCHANGED <<file, buffers, down, downObj, got, requests, evictions, restarts, raced,
                     exposed>>
  BY DEF CreateFile, Step
<1>2. /\ up'[u] = "created" /\ \A v \in Uploads \ {u} : up'[v] = up[v]
      /\ upObj'[u] = n /\ \A v \in Uploads \ {u} : upObj'[v] = upObj[v]
      /\ up' \in [Uploads -> {"none", "refused", "probed", "created", "receiving",
                              "written", "complete", "done", "cut"}]
  BY <1>1 DEF Inv, TypeOK
<1>3. /\ x \in Object /\ x.id = id /\ x.parts = Parts /\ x.readable = 0
  BY <1>1 DEF Created, Object
<1>4. /\ obj' \in Seq(Object) /\ Len(obj') = n /\ Len(obj) \in Nat
      /\ \A o \in 1 .. Len(obj) : obj'[o] = obj[o]
      /\ obj'[n] = x
  BY <1>1, <1>3, AppendFacts DEF Inv, TypeOK, Object
<1>5. TypeOK
  BY DEF Inv
<1>. HIDE DEF x, n
<1>6. n = Len(obj) + 1 /\ n \notin 1 .. Len(obj) /\ n # NoObject
  BY <1>4 DEF n, NoObject
<1>7. TypeOK'
  <2>1. \A v \in Uploads : up'[v] \in {"created", "receiving", "written", "complete"} =>
          upObj'[v] # NoObject /\ obj'[upObj'[v]].id = Target[v]
    BY <1>2, <1>3, <1>4, <1>5, <1>6, TypeFacts, SMTT(30)
  <2>2. /\ \A i \in Ids : buffers[i] # NoObject => obj'[buffers[i]].id = i
        /\ \A d \in Downloads : downObj[d] # NoObject => obj'[downObj[d]].id = Target[d]
    BY <1>4, <1>5, TypeFacts
  <2>3. /\ buffers \in [Ids -> 0 .. Len(obj')] /\ downObj \in [Downloads -> 0 .. Len(obj')]
        /\ upObj' \in [Uploads -> 0 .. Len(obj')]
    BY <1>1, <1>2, <1>4, <1>6 DEF Inv, TypeOK
  <2>4. files' \subseteq Ids
    BY <1>1 DEF Inv, TypeOK
  <2>. QED
    BY <1>1, <1>2, <1>4, <2>1, <2>2, <2>3, <2>4 DEF Inv, TypeOK, Object
<1>8. Backed'
  <2>1. Len(file[id]) \in Nat
    BY <1>1 DEF Inv, TypeOK
  <2>. QED
    BY <1>1, <1>3, <1>4, <1>6, <2>1 DEF Inv, Backed
<1>9. Progress'
  <2>1. \A v \in Uploads : upObj'[v] # NoObject /\ upObj'[v] = n => v = u
    BY <1>2, <1>5, <1>6, TypeFacts
  <2>2. \A v \in Uploads \ {u} : up[v] \in {"created", "receiving", "written", "complete"}
          => obj'[upObj'[v]] = obj[upObj[v]]
    BY <1>2, <1>4, <1>5, TypeFacts
  <2>3. \A v, w \in Uploads : upObj'[v] # NoObject /\ upObj'[v] = upObj'[w] => v = w
    BY <1>2, <2>1 DEF Inv, Progress
  <2>4. Stored(u)'
    BY <1>1, <1>2, <1>3, <1>4 DEF Inv, Progress, Stored
  <2>5. ASSUME NEW v \in Uploads \ {u} PROVE Stored(v)'
    BY <1>1, <1>2, <2>2 DEF Inv, Progress, Stored
  <2>. QED
    BY <2>3, <2>4, <2>5 DEF Progress
<1>10. OnDisk'
  BY <1>1, <1>2 DEF Inv, OnDisk
<1>11. Alone'
  <2>1. id \notin raced => file[id] = <<>> /\ \A v \in Uploads : Target[v] = id /\ Working(v) => v = u
    BY <1>1 DEF Inv, Alone, OnDisk, Working
  <2>2. \A v \in Uploads : Working(v)' <=> Working(v)
    BY <1>1, <1>2 DEF Working
  <2>3. \A v \in Uploads \ {u} : up[v] \in {"created", "receiving", "written", "complete"}
          => obj'[upObj'[v]] = obj[upObj[v]]
    BY <1>2, <1>4, <1>5, TypeFacts
  <2>4. \A v \in Uploads : up'[v] = "probed" /\ Target[v] \notin raced => Target[v] \notin files'
    BY <1>1, <1>2, <2>1 DEF Inv, Alone, Working
  <2>5. \A v \in Uploads : Target[v] \notin raced /\ up'[v] # "probed" /\ Working(v) =>
       /\ \A i \in 1 .. Len(file[Target[v]]) : file[Target[v]][i][1] = v
       /\ LET k == Len(file[Target[v]])
              r == obj'[upObj'[v]].readable
          IN /\ up'[v] = "created" => k = 0
             /\ up'[v] = "receiving" => k = r
             /\ up'[v] = "written" => k = r + 1
             /\ up'[v] = "complete" => k = Parts
    BY <1>2, <2>1, <2>3 DEF Inv, Alone
  <2>. QED
    BY <1>1, <2>2, <2>4, <2>5 DEF Inv, Alone
<1>12. OneWriter' /\ Prefixes'
  BY <1>1 DEF Inv, OneWriter, Prefixes
<1>13. Listed'
  <2>1. id \notin raced => /\ id \notin files /\ buffers[id] = NoObject
                           /\ \A v \in Uploads : Target[v] = id /\ Working(v) => v = u
    BY <1>1 DEF Inv, Alone, OnDisk, Working
  <2>2. ASSUME NEW i \in files', i \notin raced \cup exposed, i # id
        PROVE  /\ \A v \in Uploads : Target[v] = i /\ up'[v] = "created" => buffers[i] = NoObject
               /\ \A v \in Uploads : Target[v] = i /\ Running(v)' => buffers[i] = upObj'[v]
               /\ \/ \E v \in Uploads : Target[v] = i /\ (up'[v] = "created" \/ Running(v)')
                  \/ Len(file[i]) = Parts
    BY <1>1, <1>2, <2>2 DEF Inv, Listed, Running
  <2>3. ASSUME id \notin raced \cup exposed
        PROVE  /\ \A v \in Uploads : Target[v] = id /\ up'[v] = "created" => buffers[id] = NoObject
               /\ \A v \in Uploads : Target[v] = id /\ Running(v)' => buffers[id] = upObj'[v]
               /\ \E v \in Uploads : Target[v] = id /\ up'[v] = "created"
    BY <1>2, <2>1, <2>3 DEF Running, Working
  <2>. QED
    BY <1>1, <2>2, <2>3 DEF Listed
<1>14. Lengths'
  BY <1>1, <1>3, <1>4, <1>6 DEF Inv, Lengths
<1>. QED
  BY <1>7, <1>8, <1>9, <1>10, <1>11, <1>12, <1>13, <1>14 DEF Inv

\* m_buffers gets the upload's object unless a download was quicker.
LEMMA AddStreamBufferStep ==
  ASSUME Inv, NEW u \in Uploads, AddStreamBuffer(u)
  PROVE  Inv'
<1>. USE StreamAssumption
<1>. DEFINE id == Target[u]
<1>1. /\ up[u] = "created" /\ id \in Ids
      /\ buffers' = [buffers EXCEPT ![id] = IF buffers[id] = NoObject THEN upObj[u] ELSE buffers[id]]
      /\ up' = [up EXCEPT ![u] = "receiving"]
      /\ UNCHANGED <<files, file, obj, upObj, down, downObj, got, requests, evictions, restarts,
                     raced, exposed>>
  BY DEF AddStreamBuffer, Step
<1>2. /\ up'[u] = "receiving" /\ \A v \in Uploads \ {u} : up'[v] = up[v]
      /\ up' \in [Uploads -> {"none", "refused", "probed", "created", "receiving",
                              "written", "complete", "done", "cut"}]
      /\ \A i \in Ids \ {id} : buffers'[i] = buffers[i]
      /\ buffers'[id] = IF buffers[id] = NoObject THEN upObj[u] ELSE buffers[id]
      /\ buffers' \in [Ids -> 0 .. Len(obj)]
  BY <1>1 DEF Inv, TypeOK
<1>3. TypeOK
  BY DEF Inv
<1>4. upObj[u] # NoObject /\ obj[upObj[u]].id = id /\ id \in files
  BY <1>1, <1>3, TypeFacts DEF Inv, OnDisk
<1>5. TypeOK'
  <2>1. \A v \in Uploads : up'[v] \in {"created", "receiving", "written", "complete"} =>
          upObj[v] # NoObject /\ obj[upObj[v]].id = Target[v]
    BY <1>2, <1>3, <1>4, TypeFacts
  <2>2. ASSUME NEW i \in Ids, buffers'[i] # NoObject PROVE obj[buffers'[i]].id = i
    <3>1. CASE buffers'[i] = buffers[i]
      BY <1>3, <2>2, <3>1, TypeFacts
    <3>2. CASE i = id /\ buffers'[i] = upObj[u]
      BY <1>4, <3>2
    <3>. QED
      BY <1>2, <3>1, <3>2
  <2>. QED
    BY <1>1, <1>2, <2>1, <2>2 DEF Inv, TypeOK
<1>6. Backed' /\ OneWriter' /\ Prefixes' /\ Lengths'
  BY <1>1 DEF Inv, Backed, OneWriter, Prefixes, Lengths
<1>7. Progress'
  <2>1. Stored(u)'
    BY <1>1, <1>2 DEF Inv, Progress, Stored
  <2>2. ASSUME NEW v \in Uploads \ {u} PROVE Stored(v)'
    BY <1>1, <1>2 DEF Inv, Progress, Stored
  <2>. QED
    BY <1>1, <2>1, <2>2 DEF Inv, Progress
<1>8. OnDisk'
  BY <1>1, <1>2, <1>4 DEF Inv, OnDisk
<1>9. Alone'
  <2>1. obj[upObj[u]].readable = 0
    BY <1>1 DEF Inv, Progress, Stored
  <2>. QED
    BY <1>1, <1>2, <2>1 DEF Inv, Alone, Working
<1>10. Listed'
  <2>1. ASSUME NEW i \in files, i \notin raced \cup exposed, i # id
        PROVE  /\ \A v \in Uploads : Target[v] = i /\ up'[v] = "created" => buffers'[i] = NoObject
               /\ \A v \in Uploads : Target[v] = i /\ Running(v)' => buffers'[i] = upObj[v]
               /\ \/ \E v \in Uploads : Target[v] = i /\ (up'[v] = "created" \/ Running(v)')
                  \/ Len(file[i]) = Parts
    <3>1. i \in Ids
      BY DEF Inv, TypeOK
    <3>. QED
      BY <1>1, <1>2, <2>1, <3>1 DEF Inv, Listed, Running
  <2>2. ASSUME id \notin raced \cup exposed
        PROVE  /\ \A v \in Uploads : Target[v] = id /\ up'[v] = "created" => buffers'[id] = NoObject
               /\ \A v \in Uploads : Target[v] = id /\ Running(v)' => buffers'[id] = upObj[v]
               /\ \E v \in Uploads : Target[v] = id /\ Running(v)'
    <3>1. buffers[id] = NoObject
      BY <1>1, <1>4, <2>2 DEF Inv, Listed
    <3>2. \A v \in Uploads \ {u} : Target[v] = id => ~ Working(v)
      BY <1>1, <2>2 DEF Inv, Alone, Working
    <3>. QED
      BY <1>1, <1>2, <3>1, <3>2 DEF Running, Working
  <2>. QED
    BY <1>1, <2>1, <2>2 DEF Listed
<1>. QED
  BY <1>5, <1>6, <1>7, <1>8, <1>9, <1>10 DEF Inv

\* A part goes to the end of the file.
LEMMA WritePartStep ==
  ASSUME Inv, NEW u \in Uploads, WritePart(u)
  PROVE  Inv'
<1>. USE StreamAssumption
<1>. DEFINE id == Target[u]
            r == obj[upObj[u]].readable
            f == Append(file[id], <<u, r + 1>>)
<1>1. /\ up[u] = "receiving" /\ id \in Ids
      /\ file' = [file EXCEPT ![id] = f]
      /\ up' = [up EXCEPT ![u] = "written"]
      /\ UNCHANGED <<files, buffers, obj, upObj, down, downObj, got, requests, evictions,
                     restarts, raced, exposed>>
  BY DEF WritePart, Step
<1>2. TypeOK
  BY DEF Inv
<1>3. /\ up'[u] = "written" /\ \A v \in Uploads \ {u} : up'[v] = up[v]
      /\ up' \in [Uploads -> {"none", "refused", "probed", "created", "receiving",
                              "written", "complete", "done", "cut"}]
      /\ file'[id] = f /\ \A i \in Ids \ {id} : file'[i] = file[i]
  BY <1>1 DEF Inv, TypeOK
<1>4. upObj[u] \in 1 .. Len(obj) /\ obj[upObj[u]] \in Object /\ obj[upObj[u]].id = id
  BY <1>1, <1>2, TypeFacts
<1>5. /\ r \in Nat /\ r < Parts /\ r <= Len(file[id]) /\ Has(file[id], u, r)
      /\ r + 1 \in 1 .. Parts
  <2>1. r \in Nat
    BY <1>4 DEF Object
  <2>2. r < Parts /\ Has(file[id], u, r)
    BY <1>1 DEF Inv, Progress, Stored
  <2>3. r <= Len(file[id])
    BY <1>4 DEF Inv, Backed
  <2>. QED
    BY <2>1, <2>2, <2>3
<1>6. /\ f \in Seq(Items) /\ Len(f) = Len(file[id]) + 1 /\ Len(file[id]) \in Nat
      /\ \A i \in 1 .. Len(file[id]) : f[i] = file[id][i]
      /\ f[Len(file[id]) + 1] = <<u, r + 1>>
  <2>1. <<u, r + 1>> \in Items
    BY <1>5 DEF Items
  <2>. QED
    BY <1>1, <1>2, <2>1, TypeFacts, AppendFacts
<1>7. /\ Has(f, u, r + 1)
      /\ \A v \in Uploads \ {u} : \A n \in Nat : Has(file[id], v, n) => Has(f, v, n)
  <2>1. file[id] \in Seq(Items)
    BY <1>1, <1>2, TypeFacts
  <2>2. (r + 1) - 1 = r
    BY <1>5
  <2>. QED
    BY <1>5, <2>1, <2>2, HasAppend
<1>8. /\ f[Len(f)] = <<u, r + 1>> /\ \A i \in 1 .. Len(f) : i = Len(f) \/ i \in 1 .. Len(file[id])
      /\ Len(f) \in Nat
  BY <1>6
<1>. HIDE DEF f, r
<1>9. TypeOK'
  <2>1. \A v \in Uploads : up'[v] \in {"created", "receiving", "written", "complete"} =>
          upObj[v] # NoObject /\ obj[upObj[v]].id = Target[v]
    BY <1>1, <1>2, <1>3, TypeFacts
  <2>2. file' \in [Ids -> Seq(Items)]
    BY <1>1, <1>6 DEF Inv, TypeOK
  <2>. QED
    BY <1>1, <1>3, <2>1, <2>2 DEF Inv, TypeOK
<1>10. Backed'
  <2>1. \A i \in Ids : Len(file[i]) \in Nat /\ Len(file[i]) <= Len(file'[i])
    BY <1>2, <1>3, <1>6, TypeFacts
  <2>2. \A o \in 1 .. Len(obj) : obj[o].id \in Ids /\ obj[o].readable \in Nat
    BY <1>2, TypeFacts DEF Object
  <2>3. \A i \in Ids : Len(file'[i]) \in Nat
    BY <1>2, <1>3, <1>8, TypeFacts
  <2>. QED
    BY <1>1, <2>1, <2>2, <2>3 DEF Inv, Backed
<1>11. Progress'
  <2>1. Stored(u)'
    <3>1. r < Len(f)
      BY <1>5, <1>6
    <3>. QED
      BY <1>1, <1>3, <1>5, <1>7, <3>1 DEF Stored, r
  <2>2. ASSUME NEW v \in Uploads \ {u} PROVE Stored(v)'
    <3>1. CASE Target[v] # id
      <4>1. file'[Target[v]] = file[Target[v]]
        BY <1>2, <1>3, <3>1, TypeFacts
      <4>. QED
        BY <1>1, <1>3, <4>1 DEF Inv, Progress, Stored
    <3>2. CASE Target[v] = id
      <4>. DEFINE q == obj[upObj[v]].readable
      <4>1. up[v] \in {"created", "receiving", "written", "complete"} => q \in Nat
        BY <1>2, TypeFacts DEF Object
      <4>2. Stored(v)
        BY DEF Inv, Progress
      <4>3. /\ up[v] \in {"none", "refused", "probed"} => Has(f, v, 0) /\ upObj[v] = NoObject
            /\ up[v] = "created" => Has(f, v, 0) /\ q = 0
            /\ up[v] = "receiving" => Has(f, v, q) /\ q < Parts
            /\ up[v] = "written" => Has(f, v, q + 1) /\ q < Parts /\ q < Len(file[id])
            /\ up[v] \in {"complete", "done"} => Has(f, v, Parts)
        BY <1>7, <3>2, <4>1, <4>2 DEF Stored
      <4>4. up[v] = "written" => q < Len(f)
        BY <1>6, <4>1, <4>3
      <4>5. up'[v] = up[v] /\ upObj'[v] = upObj[v] /\ obj' = obj /\ file'[Target[v]] = f
        BY <1>1, <1>3, <3>2
      <4>. QED
        BY <4>3, <4>4, <4>5 DEF Stored
    <3>. QED
      BY <3>1, <3>2
  <2>. QED
    BY <1>1, <2>1, <2>2 DEF Inv, Progress
<1>12. OnDisk'
  <2>1. id \in files
    BY <1>1 DEF Inv, OnDisk
  <2>. QED
    BY <1>1, <1>3, <2>1 DEF Inv, OnDisk
<1>13. ASSUME id \notin raced
       PROVE  /\ Len(file[id]) = r
              /\ \A i \in 1 .. Len(f) : f[i][1] = u /\ f[i][2] = i
              /\ \A v \in Uploads \ {u} : Target[v] = id => ~ Working(v)
  <2>1. /\ Len(file[id]) = r /\ \A i \in 1 .. Len(file[id]) : file[id][i][1] = u
        /\ \A i \in 1 .. Len(file[id]) : file[id][i][2] = i
        /\ \A v \in Uploads \ {u} : Target[v] = id => ~ Working(v)
    BY <1>1, <1>13 DEF Inv, Alone, Working, r
  <2>2. f[Len(f)][1] = u /\ f[Len(f)][2] = Len(f)
    BY <1>6, <1>8, <2>1
  <2>. QED
    BY <1>6, <1>8, <2>1, <2>2
<1>14. Alone'
  <2>1. \A v \in Uploads : Working(v)' <=> Working(v)
    BY <1>1, <1>3 DEF Working
  <2>2. ASSUME NEW v \in Uploads, Target[v] \notin raced, up'[v] # "probed", Working(v)
        PROVE  /\ \A i \in 1 .. Len(file'[Target[v]]) : file'[Target[v]][i][1] = v
               /\ LET n == Len(file'[Target[v]])
                      q == obj[upObj[v]].readable
                  IN /\ up'[v] = "created" => n = 0
                     /\ up'[v] = "receiving" => n = q
                     /\ up'[v] = "written" => n = q + 1
                     /\ up'[v] = "complete" => n = Parts
    <3>1. CASE v = u
      BY <1>3, <1>6, <1>13, <2>2, <3>1 DEF r
    <3>2. CASE v # u
      <4>1. file'[Target[v]] = file[Target[v]]
        BY <1>2, <1>3, <1>13, <2>2, <3>2, TypeFacts
      <4>. QED
        BY <1>3, <2>2, <3>2, <4>1 DEF Inv, Alone
    <3>. QED
      BY <3>1, <3>2
  <2>3. \A i \in Ids \ raced : \A k \in 1 .. Len(file'[i]) : file'[i][k][2] = k
    BY <1>3, <1>13 DEF Inv, Alone
  <2>4. \A v \in Uploads : up'[v] = "probed" /\ Target[v] \notin raced => Target[v] \notin files
    BY <1>3 DEF Inv, Alone
  <2>. QED
    BY <1>1, <2>1, <2>2, <2>3, <2>4 DEF Inv, Alone
<1>15. OneWriter'
  BY <1>1, <1>3, <1>13 DEF Inv, OneWriter
<1>16. Listed'
  <2>1. \A v \in Uploads : /\ up'[v] = "created" <=> up[v] = "created"
                           /\ Running(v)' <=> Running(v)
    BY <1>1, <1>3 DEF Running
  <2>2. Running(u)
    BY <1>1 DEF Running
  <2>3. \A i \in files : i \in Ids /\ (i # id => file'[i] = file[i])
    BY <1>3 DEF Inv, TypeOK
  <2>. QED
    BY <1>1, <2>1, <2>2, <2>3 DEF Inv, Listed
<1>17. Lengths'
  BY <1>1 DEF Inv, Lengths
<1>18. Prefixes'
  <2>1. \A d \in Downloads : Target[d] \in Ids /\ Len(got[d]) \in Nat
    BY DEF Inv, TypeOK
  <2>2. \A i \in Ids : /\ Len(file[i]) \in Nat /\ Len(file[i]) <= Len(file'[i])
                       /\ Len(file'[i]) \in Nat
                       /\ \A k \in 1 .. Len(file[i]) : file'[i][k] = file[i][k]
    BY <1>2, <1>3, <1>6, <1>8, TypeFacts, SMTT(30)
  <2>. QED
    BY <1>1, <2>1, <2>2 DEF Inv, Prefixes
<1>. QED
  BY <1>9, <1>10, <1>11, <1>12, <1>14, <1>15, <1>16, <1>17, <1>18 DEF Inv

\* The part becomes readable; the last one completes the upload.
LEMMA MakeReadableStep ==
  ASSUME Inv, NEW u \in Uploads, MakeReadable(u)
  PROVE  Inv'
<1>. USE StreamAssumption
<1>. DEFINE id == Target[u]
            o == upObj[u]
            r == obj[o].readable
            x == [obj[o] EXCEPT !.readable = r + 1, !.activity = "recent"]
<1>1. /\ up[u] = "written" /\ id \in Ids
      /\ obj' = [obj EXCEPT ![o] = x]
      /\ up' = [up EXCEPT ![u] = IF r + 1 = Parts THEN "complete" ELSE "receiving"]
      /\ UNCHANGED <<files, file, buffers, upObj, down, downObj, got, requests, evictions,
                     restarts, raced, exposed>>
  BY DEF MakeReadable, Step
<1>2. TypeOK
  BY DEF Inv
<1>3. o \in 1 .. Len(obj) /\ obj[o] \in Object /\ obj[o].id = id /\ o # NoObject
  BY <1>1, <1>2, TypeFacts
<1>4. /\ x \in Object /\ x.id = id /\ x.parts = obj[o].parts /\ x.readable = r + 1
      /\ r \in Nat
  <2>1. r \in Nat /\ r + 1 \in Nat
    BY <1>3 DEF Object
  <2>. QED
    BY <1>3, <2>1, ObjectUpdate
<1>5. /\ obj' \in Seq(Object) /\ Len(obj') = Len(obj) /\ obj'[o] = x
      /\ \A p \in 1 .. Len(obj) : p # o => obj'[p] = obj[p]
  <2>. HIDE DEF x
  <2>1. obj \in Seq(Object)
    BY <1>2, TypeFacts
  <2>. QED
    BY <1>1, <1>3, <1>4, <2>1, UpdateFacts
<1>6. r < Parts /\ r < Len(file[id]) /\ Has(file[id], u, r + 1) /\ Len(file[id]) \in Nat
  BY <1>1, <1>2, TypeFacts DEF Inv, Progress, Stored
<1>7. /\ up'[u] \in {"receiving", "complete"} /\ \A v \in Uploads \ {u} : up'[v] = up[v]
      /\ up'[u] = "complete" <=> r + 1 = Parts
      /\ up' \in [Uploads -> {"none", "refused", "probed", "created", "receiving",
                              "written", "complete", "done", "cut"}]
  BY <1>1 DEF Inv, TypeOK
<1>8. /\ \A v \in Uploads \ {u} : upObj[v] # NoObject => obj'[upObj[v]] = obj[upObj[v]]
      /\ \A p \in 1 .. Len(obj) : obj'[p].id = obj[p].id /\ obj'[p].parts = obj[p].parts
  <2>1. \A v \in Uploads \ {u} : upObj[v] # NoObject => upObj[v] \in 1 .. Len(obj) /\ upObj[v] # o
    BY <1>2, <1>3, TypeFacts DEF Inv, Progress
  <2>. QED
    BY <1>3, <1>4, <1>5, <2>1
<1>. HIDE DEF x, r, o
<1>9. TypeOK'
  <2>1. \A v \in Uploads : up'[v] \in {"created", "receiving", "written", "complete"} =>
          upObj[v] # NoObject /\ obj'[upObj[v]].id = Target[v]
    BY <1>2, <1>3, <1>4, <1>5, <1>7, <1>8, TypeFacts DEF o
  <2>2. /\ \A i \in Ids : buffers[i] # NoObject => obj'[buffers[i]].id = i
        /\ \A d \in Downloads : downObj[d] # NoObject => obj'[downObj[d]].id = Target[d]
    BY <1>2, <1>8, TypeFacts
  <2>3. /\ buffers \in [Ids -> 0 .. Len(obj')] /\ downObj \in [Downloads -> 0 .. Len(obj')]
        /\ upObj \in [Uploads -> 0 .. Len(obj')]
    BY <1>5 DEF Inv, TypeOK
  <2>4. obj' \in Seq([id : Ids, parts : Nat, readable : Nat,
                       activity : {"never", "recent", "old"}])
    BY <1>5 DEF Object
  <2>5. UNCHANGED <<files, file, buffers, upObj, down, downObj, got, requests, evictions,
                    restarts, raced, exposed>>
    BY <1>1
  <2>. QED
    BY <1>7, <2>1, <2>2, <2>3, <2>4, <2>5 DEF Inv, TypeOK
<1>10. Backed'
  BY <1>1, <1>3, <1>4, <1>5, <1>6 DEF Inv, Backed
<1>11. Progress'
  <2>1. Stored(u)'
    BY <1>1, <1>4, <1>5, <1>6, <1>7 DEF Stored, o
  <2>2. ASSUME NEW v \in Uploads \ {u} PROVE Stored(v)'
    <3>1. up[v] \in {"created", "receiving", "written", "complete"} =>
            obj'[upObj[v]] = obj[upObj[v]]
      BY <1>2, <1>8, TypeFacts
    <3>. QED
      BY <1>1, <1>7, <3>1 DEF Inv, Progress, Stored
  <2>. QED
    BY <1>1, <2>1, <2>2 DEF Inv, Progress
<1>12. OnDisk'
  BY <1>1, <1>7 DEF Inv, OnDisk
<1>13. id \notin raced => Len(file[id]) = r + 1
  BY <1>1 DEF Inv, Alone, Working, r, o
<1>14. Alone'
  <2>1. \A v \in Uploads : Working(v)' <=> Working(v)
    BY <1>1, <1>7 DEF Working
  <2>2. ASSUME NEW v \in Uploads, Target[v] \notin raced, up'[v] # "probed", Working(v)
        PROVE  /\ \A i \in 1 .. Len(file[Target[v]]) : file[Target[v]][i][1] = v
               /\ LET n == Len(file[Target[v]])
                      q == obj'[upObj[v]].readable
                  IN /\ up'[v] = "created" => n = 0
                     /\ up'[v] = "receiving" => n = q
                     /\ up'[v] = "written" => n = q + 1
                     /\ up'[v] = "complete" => n = Parts
    <3>1. CASE v = u
      BY <1>1, <1>4, <1>5, <1>7, <1>13, <2>2, <3>1 DEF Inv, Alone, o
    <3>2. CASE v # u
      <4>1. obj'[upObj[v]] = obj[upObj[v]] \/ up'[v] = "complete"
        BY <1>2, <1>7, <1>8, <2>2, <3>2, TypeFacts DEF Working
      <4>. QED
        BY <1>7, <2>2, <3>2, <4>1 DEF Inv, Alone
    <3>. QED
      BY <3>1, <3>2
  <2>3. \A v \in Uploads : up'[v] = "probed" /\ Target[v] \notin raced => Target[v] \notin files
    BY <1>7 DEF Inv, Alone
  <2>. QED
    BY <1>1, <2>1, <2>2, <2>3 DEF Inv, Alone
<1>15. OneWriter' /\ Prefixes'
  BY <1>1 DEF Inv, OneWriter, Prefixes
<1>16. Listed'
  <2>1. \A v \in Uploads : up'[v] = "created" <=> up[v] = "created"
    BY <1>1, <1>7
  <2>2. \A v \in Uploads : Running(v)' => Running(v)
    BY <1>1, <1>7 DEF Running
  <2>3. \A v \in Uploads : Running(v) => Running(v)' \/ (v = u /\ r + 1 = Parts)
    BY <1>1, <1>7 DEF Running
  <2>. QED
    BY <1>1, <1>13, <2>1, <2>2, <2>3 DEF Inv, Listed
<1>17. Lengths'
  BY <1>1, <1>5, <1>8 DEF Inv, Lengths
<1>. QED
  BY <1>9, <1>10, <1>11, <1>12, <1>14, <1>15, <1>16, <1>17 DEF Inv

\* The request for the uploader, or an exception of the database.
LEMMA StreamReceivedStep ==
  ASSUME Inv, NEW u \in Uploads, StreamReceived(u)
  PROVE  Inv'
<1>. USE StreamAssumption
<1>1. /\ up[u] = "complete" /\ requests' \in {requests, requests \cup {u}}
      /\ up' = [up EXCEPT ![u] = "done"]
      /\ UNCHANGED <<files, file, buffers, obj, upObj, down, downObj, got, evictions, restarts,
                     raced, exposed>>
  BY DEF StreamReceived, Step
<1>2. /\ up'[u] = "done" /\ \A v \in Uploads \ {u} : up'[v] = up[v]
      /\ up' \in [Uploads -> {"none", "refused", "probed", "created", "receiving",
                              "written", "complete", "done", "cut"}]
  BY <1>1 DEF Inv, TypeOK
<1>3. TypeOK'
  <2>1. \A v \in Uploads : up'[v] \in {"created", "receiving", "written", "complete"} =>
          upObj[v] # NoObject /\ obj[upObj[v]].id = Target[v]
    BY <1>2 DEF Inv, TypeOK
  <2>. QED
    BY <1>1, <1>2, <2>1 DEF Inv, TypeOK
<1>4. Backed' /\ OneWriter' /\ Prefixes' /\ Lengths'
  BY <1>1 DEF Inv, Backed, OneWriter, Prefixes, Lengths
<1>5. Progress'
  BY <1>1, <1>2 DEF Inv, Progress, Stored
<1>6. OnDisk'
  BY <1>1, <1>2 DEF Inv, OnDisk
<1>7. Alone'
  BY <1>1, <1>2 DEF Inv, Alone, Working
<1>8. Listed'
  BY <1>1, <1>2 DEF Inv, Listed, Running
<1>. QED
  BY <1>3, <1>4, <1>5, <1>6, <1>7, <1>8 DEF Inv

\* The uploader leaves; its unfinished file is exposed.
LEMMA InterruptStep ==
  ASSUME Inv, NEW u \in Uploads, Interrupt(u)
  PROVE  Inv'
<1>. USE StreamAssumption
<1>1. /\ up[u] = "receiving" /\ exposed' = exposed \cup {Target[u]} /\ Target[u] \in Ids
      /\ up' = [up EXCEPT ![u] = "cut"]
      /\ UNCHANGED <<files, file, buffers, obj, upObj, down, downObj, got, requests, evictions,
                     restarts, raced>>
  BY DEF Interrupt, Step
<1>2. /\ up'[u] = "cut" /\ \A v \in Uploads \ {u} : up'[v] = up[v]
      /\ up' \in [Uploads -> {"none", "refused", "probed", "created", "receiving",
                              "written", "complete", "done", "cut"}]
  BY <1>1 DEF Inv, TypeOK
<1>3. TypeOK'
  <2>1. \A v \in Uploads : up'[v] \in {"created", "receiving", "written", "complete"} =>
          upObj[v] # NoObject /\ obj[upObj[v]].id = Target[v]
    BY <1>2 DEF Inv, TypeOK
  <2>. QED
    BY <1>1, <1>2, <2>1 DEF Inv, TypeOK
<1>4. Backed' /\ OneWriter' /\ Prefixes' /\ Lengths'
  BY <1>1 DEF Inv, Backed, OneWriter, Prefixes, Lengths
<1>5. Progress'
  BY <1>1, <1>2 DEF Inv, Progress, Stored
<1>6. OnDisk'
  BY <1>1, <1>2 DEF Inv, OnDisk
<1>7. Alone'
  BY <1>1, <1>2 DEF Inv, Alone, Working
<1>8. Listed'
  BY <1>1, <1>2 DEF Inv, Listed, Running
<1>. QED
  BY <1>3, <1>4, <1>5, <1>6, <1>7, <1>8 DEF Inv

Opened(d) == Found(d) > Len(obj)

\* A file is opened again only if neither the sender nor the table has an object.
LEMMA FoundFacts ==
  ASSUME TypeOK, NEW d \in Downloads
  PROVE  /\ Opened(d) => /\ Found(d) = Len(obj) + 1 /\ Target[d] \in files
                         /\ buffers[Target[d]] = NoObject
         /\ ~ Opened(d) /\ Found(d) # NoObject =>
              Found(d) \in 1 .. Len(obj) /\ obj[Found(d)].id = Target[d]
<1>1. /\ downObj[d] # NoObject =>
           downObj[d] \in 1 .. Len(obj) /\ obj[downObj[d]].id = Target[d]
      /\ buffers[Target[d]] # NoObject =>
           buffers[Target[d]] \in 1 .. Len(obj) /\ obj[buffers[Target[d]]].id = Target[d]
      /\ Len(obj) \in Nat
  BY TypeFacts
<1>. QED
  BY <1>1 DEF Found, Opened, NoObject

\* The objects after getBuffer.
LEMMA ObjectsFacts ==
  ASSUME TypeOK, NEW d \in Downloads
  PROVE  LET objects == ObjectsAfter(d)
         IN /\ objects \in Seq(Object) /\ Len(objects) \in Nat /\ Len(obj) \in Nat
            /\ ~ Opened(d) => objects = obj
            /\ Opened(d) => /\ Len(objects) = Len(obj) + 1
                            /\ objects[Len(obj) + 1].id = Target[d]
                            /\ objects[Len(obj) + 1].parts = Len(file[Target[d]])
                            /\ objects[Len(obj) + 1].readable = Len(file[Target[d]])
            /\ \A p \in 1 .. Len(obj) : objects[p] = obj[p] /\ p \in 1 .. Len(objects)
            /\ \A p \in 1 .. Len(objects) : p \in 1 .. Len(obj) \/ (Opened(d) /\ p = Len(obj) + 1)
            /\ Found(d) # NoObject =>
                 Found(d) \in 1 .. Len(objects) /\ objects[Found(d)].id = Target[d]
<1>. DEFINE x == Loaded(Target[d])
<1>1. Target[d] \in Ids /\ Len(file[Target[d]]) \in Nat /\ obj \in Seq(Object) /\ Len(obj) \in Nat
  BY TypeFacts
<1>2. /\ x \in Object /\ x.id = Target[d] /\ x.parts = Len(file[Target[d]])
      /\ x.readable = Len(file[Target[d]])
  BY <1>1 DEF Loaded, Object
<1>3. ObjectsAfter(d) = IF Opened(d) THEN Append(obj, x) ELSE obj
  BY DEF ObjectsAfter, Opened
<1>. HIDE DEF x
<1>4. CASE Opened(d)
  <2>1. ObjectsAfter(d) = Append(obj, x) /\ Found(d) = Len(obj) + 1
    BY <1>3, <1>4, FoundFacts
  <2>2. /\ ObjectsAfter(d) \in Seq(Object) /\ Len(ObjectsAfter(d)) = Len(obj) + 1
        /\ \A p \in 1 .. Len(obj) : ObjectsAfter(d)[p] = obj[p]
        /\ ObjectsAfter(d)[Len(obj) + 1] = x
    BY <1>1, <1>2, <2>1, AppendFacts
  <2>. QED
    BY <1>1, <1>2, <1>4, <2>1, <2>2
<1>5. CASE ~ Opened(d)
  BY <1>1, <1>3, <1>5, FoundFacts
<1>. QED
  BY <1>4, <1>5

\* getBuffer as part of a step that does not touch files and uploads: if the file
\* it opens is not exposed by that, the file is whole.
LEMMA GetBufferStep ==
  ASSUME Inv, NEW d \in Downloads, GetBuffer(d),
         obj' \in Seq(Object), Len(obj') = Len(ObjectsAfter(d)),
         \A p \in 1 .. Len(obj') : /\ obj'[p].id = ObjectsAfter(d)[p].id
                                   /\ obj'[p].parts = ObjectsAfter(d)[p].parts
                                   /\ obj'[p].readable = ObjectsAfter(d)[p].readable,
         down' \in [Downloads -> {"none", "sending", "done", "cut"}],
         got' \in [Downloads -> Seq(Items)],
         UNCHANGED <<files, file, up, upObj, requests, evictions, restarts, raced>>
  PROVE  /\ TypeOK' /\ Backed' /\ Progress' /\ OnDisk' /\ Alone' /\ OneWriter' /\ Listed'
         /\ \A p \in 1 .. Len(obj') : obj'[p].id \notin raced \cup exposed' => obj'[p].parts = Parts
         /\ exposed \subseteq exposed'
<1>. USE StreamAssumption
<1>. DEFINE id == Target[d]
            objects == ObjectsAfter(d)
<1>1. TypeOK
  BY DEF Inv
<1>2. /\ downObj' = [downObj EXCEPT ![d] = Found(d)]
      /\ buffers' = IF Opened(d) THEN [buffers EXCEPT ![id] = Found(d)] ELSE buffers
      /\ exposed' = IF Opened(d) /\ Unlisted(id) THEN exposed \cup {id} ELSE exposed
      /\ id \in Ids
  BY DEF GetBuffer, Opened
<1>3. /\ objects \in Seq(Object) /\ Len(objects) \in Nat /\ Len(obj) \in Nat
      /\ ~ Opened(d) => objects = obj
      /\ Opened(d) => /\ Len(objects) = Len(obj) + 1
                      /\ objects[Len(obj) + 1].id = id
                      /\ objects[Len(obj) + 1].parts = Len(file[id])
                      /\ objects[Len(obj) + 1].readable = Len(file[id])
      /\ \A p \in 1 .. Len(obj) : objects[p] = obj[p] /\ p \in 1 .. Len(objects)
      /\ \A p \in 1 .. Len(objects) : p \in 1 .. Len(obj) \/ (Opened(d) /\ p = Len(obj) + 1)
      /\ Found(d) # NoObject => Found(d) \in 1 .. Len(objects) /\ objects[Found(d)].id = id
  BY <1>1, ObjectsFacts
<1>4. Opened(d) => Found(d) = Len(obj) + 1 /\ id \in files /\ buffers[id] = NoObject
  BY <1>1, FoundFacts
<1>. HIDE DEF objects
<1>5. /\ Len(obj') = Len(objects)
      /\ \A p \in 1 .. Len(objects) : /\ obj'[p].id = objects[p].id
                                      /\ obj'[p].parts = objects[p].parts
                                      /\ obj'[p].readable = objects[p].readable
  BY DEF objects
<1>6. \A p \in 1 .. Len(obj) : /\ obj'[p].id = obj[p].id /\ obj'[p].parts = obj[p].parts
                               /\ obj'[p].readable = obj[p].readable
  BY <1>3, <1>5
<1>7. exposed \subseteq exposed' /\ exposed' \subseteq Ids
  BY <1>2 DEF Inv, TypeOK
<1>8. /\ \A i \in Ids : buffers'[i] = buffers[i] \/ (i = id /\ Opened(d) /\ buffers'[i] = Found(d))
      /\ buffers' \in [Ids -> 0 .. Len(obj')]
      /\ downObj' \in [Downloads -> 0 .. Len(obj')]
      /\ upObj \in [Uploads -> 0 .. Len(obj')]
      /\ \A e \in Downloads : downObj'[e] = downObj[e] \/ (e = d /\ downObj'[e] = Found(d))
  <2>1. Found(d) \in 0 .. Len(obj') /\ Len(obj) <= Len(obj') /\ Len(obj') \in Nat
    BY <1>3, <1>5 DEF NoObject
  <2>2. /\ buffers \in [Ids -> 0 .. Len(obj)] /\ downObj \in [Downloads -> 0 .. Len(obj)]
        /\ upObj \in [Uploads -> 0 .. Len(obj)]
    BY <1>1 DEF TypeOK
  <2>3. 0 .. Len(obj) \subseteq 0 .. Len(obj')
    BY <1>3, <2>1
  <2>4. /\ buffers \in [Ids -> 0 .. Len(obj')] /\ downObj \in [Downloads -> 0 .. Len(obj')]
        /\ upObj \in [Uploads -> 0 .. Len(obj')]
    BY <2>2, <2>3
  <2>. QED
    BY <1>2, <2>1, <2>4
<1>9. TypeOK'
  <2>1. \A u \in Uploads : up[u] \in {"created", "receiving", "written", "complete"} =>
          upObj[u] # NoObject /\ obj'[upObj[u]].id = Target[u]
    BY <1>1, <1>6, TypeFacts
  <2>2. ASSUME NEW i \in Ids, buffers'[i] # NoObject PROVE obj'[buffers'[i]].id = i
    <3>1. CASE buffers'[i] = buffers[i]
      <4>1. buffers[i] \in 1 .. Len(obj) /\ obj[buffers[i]].id = i
        BY <1>1, <2>2, <3>1, TypeFacts
      <4>. QED
        BY <1>6, <3>1, <4>1
    <3>2. CASE i = id /\ buffers'[i] = Found(d)
      BY <1>3, <1>5, <2>2, <3>2
    <3>. QED
      BY <1>8, <3>1, <3>2
  <2>3. ASSUME NEW e \in Downloads, downObj'[e] # NoObject PROVE obj'[downObj'[e]].id = Target[e]
    <3>1. CASE downObj'[e] = downObj[e]
      BY <1>1, <1>6, <2>3, <3>1, TypeFacts, ZenonT(40)
    <3>2. CASE e = d /\ downObj'[e] = Found(d)
      BY <1>3, <1>5, <2>3, <3>2
    <3>. QED
      BY <1>8, <3>1, <3>2
  <2>4. obj' \in Seq([id : Ids, parts : Nat, readable : Nat,
                      activity : {"never", "recent", "old"}])
    BY DEF Object
  <2>. QED
    BY <1>1, <1>7, <1>8, <2>1, <2>2, <2>3, <2>4 DEF TypeOK
<1>10. Backed'
  <2>1. ASSUME NEW p \in 1 .. Len(obj') PROVE obj'[p].readable <= Len(file[obj'[p].id])
    <3>1. CASE p \in 1 .. Len(obj)
      BY <1>6, <3>1 DEF Inv, Backed
    <3>2. CASE Opened(d) /\ p = Len(obj) + 1
      <4>1. obj'[p].readable = Len(file[id]) /\ obj'[p].id = id /\ Len(file[id]) \in Nat
        BY <1>1, <1>2, <1>3, <1>5, <3>2, TypeFacts
      <4>. QED
        BY <4>1
    <3>. QED
      BY <1>3, <1>5, <3>1, <3>2
  <2>. QED
    BY <2>1 DEF Backed
<1>11. Progress'
  <2>1. \A u \in Uploads : up[u] \in {"created", "receiving", "written", "complete"} =>
          obj'[upObj[u]].readable = obj[upObj[u]].readable
    BY <1>1, <1>6, TypeFacts
  <2>2. ASSUME NEW u \in Uploads PROVE Stored(u)'
    BY <2>1 DEF Inv, Progress, Stored
  <2>. QED
    BY <2>2 DEF Inv, Progress
<1>12. OnDisk'
  BY <1>4, <1>8 DEF Inv, OnDisk
<1>13. Alone'
  <2>1. \A u \in Uploads : up[u] \in {"created", "receiving", "written", "complete"} =>
          obj'[upObj[u]].readable = obj[upObj[u]].readable
    BY <1>1, <1>6, TypeFacts
  <2>. QED
    BY <2>1 DEF Inv, Alone, Working
<1>14. OneWriter'
  <2>1. file' = file /\ raced' = raced /\ OneWriter
    BY DEF Inv
  <2>. QED
    BY ONLY <2>1 DEF OneWriter
<1>15. ASSUME Opened(d), id \notin raced \cup exposed'
       PROVE  /\ Len(file[id]) = Parts
              /\ \A u \in Uploads : Target[u] = id => up[u] # "created" /\ ~ Running(u)
  <2>1. id \in files /\ buffers[id] = NoObject /\ ~ Unlisted(id) /\ id \notin raced \cup exposed
    BY <1>2, <1>4, <1>15
  <2>2. \A u \in Uploads : Target[u] = id => up[u] # "created"
    BY <2>1 DEF Unlisted
  <2>3. \A u \in Uploads : Target[u] = id => ~ Running(u)
    BY <1>1, <2>1, TypeFacts DEF Inv, Listed, Running
  <2>. QED
    BY <2>1, <2>2, <2>3 DEF Inv, Listed
<1>16. Listed'
  <2>1. SUFFICES ASSUME NEW i \in files, i \notin raced \cup exposed'
                 PROVE  /\ \A u \in Uploads : Target[u] = i /\ up[u] = "created" => buffers'[i] = NoObject
                        /\ \A u \in Uploads : Target[u] = i /\ Running(u) => buffers'[i] = upObj[u]
                        /\ \/ \E u \in Uploads : Target[u] = i /\ (up[u] = "created" \/ Running(u))
                           \/ Len(file[i]) = Parts
    BY DEF Listed, Running
  <2>2. i \in Ids /\ i \notin raced \cup exposed
    BY <1>1, <1>7, <2>1 DEF TypeOK
  <2>3. CASE buffers'[i] = buffers[i]
    BY <2>2, <2>3 DEF Inv, Listed
  <2>4. CASE i = id /\ Opened(d)
    BY <1>15, <2>1, <2>4
  <2>. QED
    BY <1>8, <2>2, <2>3, <2>4
<1>17. ASSUME NEW p \in 1 .. Len(obj'), obj'[p].id \notin raced \cup exposed'
       PROVE  obj'[p].parts = Parts
  <2>1. CASE p \in 1 .. Len(obj)
    BY <1>6, <1>7, <1>17, <2>1 DEF Inv, Lengths
  <2>2. CASE Opened(d) /\ p = Len(obj) + 1
    BY <1>3, <1>5, <1>15, <1>17, <2>2
  <2>. QED
    BY <1>3, <1>5, <2>1, <2>2
<1>. QED
  BY <1>7, <1>9, <1>10, <1>11, <1>12, <1>13, <1>14, <1>16, <1>17

LEMMA CreateSenderStep ==
  ASSUME Inv, NEW d \in Downloads, CreateSender(d)
  PROVE  Inv'
<1>1. /\ down[d] = "none" /\ down' = [down EXCEPT ![d] = "sending"] /\ GetBuffer(d)
      /\ obj' = ObjectsAfter(d)
      /\ UNCHANGED <<files, file, up, upObj, got, requests, evictions, restarts, raced>>
  BY DEF CreateSender
<1>2. TypeOK
  BY DEF Inv
<1>3. obj' \in Seq(Object)
  BY <1>1, <1>2, ObjectsFacts
<1>4. /\ down' \in [Downloads -> {"none", "sending", "done", "cut"}]
      /\ got' \in [Downloads -> Seq(Items)]
      /\ down'[d] = "sending" /\ \A e \in Downloads \ {d} : down'[e] = down[e]
  BY <1>1, <1>2 DEF TypeOK
<1>5. /\ TypeOK' /\ Backed' /\ Progress' /\ OnDisk' /\ Alone' /\ OneWriter' /\ Listed'
      /\ \A p \in 1 .. Len(obj') : obj'[p].id \notin raced \cup exposed' => obj'[p].parts = Parts
      /\ exposed \subseteq exposed'
  BY <1>1, <1>3, <1>4, GetBufferStep
<1>6. Lengths'
  <2>1. \A e \in Downloads :
          down'[e] = "done" /\ Target[e] \notin raced \cup exposed' => Len(got[e]) = Parts
    BY <1>4, <1>5 DEF Inv, Lengths
  <2>. QED
    BY <1>1, <1>5, <2>1 DEF Lengths
<1>7. Prefixes'
  BY <1>1 DEF Inv, Prefixes
<1>. QED
  BY <1>5, <1>6, <1>7 DEF Inv

\* What a step of a sender does to the download: nothing, or the next part.
Taken(d) ==
  LET k == Len(got[d]) + 1
      f == file[Target[d]]
  IN got'[d] = got[d] \/ (k <= Len(f) /\ got'[d] = Append(got[d], f[k]))

LEMMA PreparePacketStep ==
  ASSUME Inv, NEW d \in Downloads, PreparePacket(d)
  PROVE  Inv' /\ Taken(d) /\ (\A e \in Downloads \ {d} : got'[e] = got[e]) /\ file' = file
<1>. USE StreamAssumption
<1>. DEFINE id == Target[d]
            o == Found(d)
            objects == ObjectsAfter(d)
            k == Len(got[d]) + 1
            wanted == k <= objects[o].readable
            there == k <= Len(file[id])
            g == IF wanted /\ there THEN Append(got[d], file[id][k]) ELSE got[d]
            x == [objects[o] EXCEPT !.activity = "recent"]
<1>1. /\ down[d] = "sending" /\ o # NoObject /\ GetBuffer(d)
      /\ obj' = IF wanted /\ ~there THEN objects ELSE [objects EXCEPT ![o] = x]
      /\ got' = [got EXCEPT ![d] = g]
      /\ down' = [down EXCEPT ![d] = IF Len(got'[d]) = objects[o].parts THEN "done" ELSE down[d]]
      /\ UNCHANGED <<files, file, up, upObj, requests, evictions, restarts, raced>>
  BY DEF PreparePacket
<1>2. TypeOK
  BY DEF Inv
<1>3. objects \in Seq(Object) /\ o \in 1 .. Len(objects) /\ objects[o].id = id
  BY <1>1, <1>2, ObjectsFacts
<1>4. /\ x \in Object /\ x.id = objects[o].id /\ x.parts = objects[o].parts
      /\ x.readable = objects[o].readable
  <2>1. objects[o] \in Object
    BY <1>3
  <2>. HIDE DEF objects, o
  <2>. QED
    BY <2>1, ObjectUpdate
<1>5. /\ obj' \in Seq(Object) /\ Len(obj') = Len(objects)
      /\ \A p \in 1 .. Len(obj') : /\ obj'[p].id = objects[p].id
                                   /\ obj'[p].parts = objects[p].parts
                                   /\ obj'[p].readable = objects[p].readable
  <2>. HIDE DEF objects, o, x, wanted, there
  <2>1. /\ [objects EXCEPT ![o] = x] \in Seq(Object)
        /\ Len([objects EXCEPT ![o] = x]) = Len(objects)
        /\ [objects EXCEPT ![o] = x][o] = x
        /\ \A i \in 1 .. Len(objects) : i # o => [objects EXCEPT ![o] = x][i] = objects[i]
    BY <1>3, <1>4, UpdateFacts
  <2>. QED
    BY <1>1, <1>3, <1>4, <2>1
<1>6. /\ got[d] \in Seq(Items) /\ file[id] \in Seq(Items) /\ Len(got[d]) \in Nat
      /\ Len(file[id]) \in Nat /\ id \in Ids
      /\ Len(got[d]) <= Len(file[id])
      /\ \A i \in 1 .. Len(got[d]) : got[d][i] = file[id][i]
  <2>1. got[d] \in Seq(Items)
    BY <1>2 DEF TypeOK
  <2>. QED
    BY <1>2, <2>1, TypeFacts DEF Inv, Prefixes
<1>. HIDE DEF objects, o, x, wanted
<1>7. /\ g \in Seq(Items) /\ Len(g) \in Nat /\ Len(g) <= Len(file[id])
      /\ \A i \in 1 .. Len(g) : g[i] = file[id][i]
      /\ g = got[d] \/ (k <= Len(file[id]) /\ g = Append(got[d], file[id][k]))
  <2>1. CASE g = got[d]
    BY <1>6, <2>1
  <2>2. CASE there /\ g = Append(got[d], file[id][k])
    <3>1. file[id][k] \in Items
      BY <1>6, <2>2
    <3>2. /\ g \in Seq(Items) /\ Len(g) = Len(got[d]) + 1
          /\ \A i \in 1 .. Len(got[d]) : g[i] = got[d][i]
          /\ g[Len(got[d]) + 1] = file[id][k]
      BY <1>6, <2>2, <3>1, AppendFacts
    <3>. HIDE DEF g
    <3>. QED
      BY <1>6, <2>2, <3>2
  <2>. QED
    BY <2>1, <2>2
<1>. HIDE DEF g
<1>8. /\ got'[d] = g /\ \A e \in Downloads \ {d} : got'[e] = got[e]
      /\ got' \in [Downloads -> Seq(Items)]
      /\ down'[d] = (IF Len(g) = objects[o].parts THEN "done" ELSE "sending")
      /\ \A e \in Downloads \ {d} : down'[e] = down[e]
      /\ down' \in [Downloads -> {"none", "sending", "done", "cut"}]
  BY <1>1, <1>2, <1>7 DEF TypeOK
<1>9. /\ TypeOK' /\ Backed' /\ Progress' /\ OnDisk' /\ Alone' /\ OneWriter' /\ Listed'
      /\ \A p \in 1 .. Len(obj') : obj'[p].id \notin raced \cup exposed' => obj'[p].parts = Parts
      /\ exposed \subseteq exposed'
  BY <1>1, <1>5, <1>8, GetBufferStep DEF objects
<1>10. Lengths'
  <2>1. ASSUME NEW e \in Downloads, down'[e] = "done", Target[e] \notin raced \cup exposed'
        PROVE  Len(got'[e]) = Parts
    <3>1. CASE e = d
      BY <1>3, <1>5, <1>8, <1>9, <2>1, <3>1
    <3>2. CASE e # d
      BY <1>8, <1>9, <2>1, <3>2 DEF Inv, Lengths
    <3>. QED
      BY <3>1, <3>2
  <2>. QED
    BY <1>1, <1>9, <2>1 DEF Lengths
<1>11. Prefixes'
  BY <1>1, <1>7, <1>8, SMTT(30) DEF Inv, Prefixes
<1>12. Taken(d)
  BY <1>7, <1>8 DEF Taken
<1>. QED
  BY <1>1, <1>8, <1>9, <1>10, <1>11, <1>12 DEF Inv

LEMMA GrowOldStep ==
  ASSUME Inv, NEW id \in Ids, GrowOld(id)
  PROVE  Inv'
<1>. DEFINE o == buffers[id]
            x == [obj[o] EXCEPT !.activity = "old"]
<1>1. /\ o # NoObject /\ obj' = [obj EXCEPT ![o] = x]
      /\ UNCHANGED <<files, file, buffers, up, upObj, down, downObj, got, requests, evictions,
                     restarts, raced, exposed>>
  BY DEF GrowOld
<1>2. TypeOK
  BY DEF Inv
<1>3. obj \in Seq(Object) /\ o \in 1 .. Len(obj) /\ obj[o] \in Object
  BY <1>1, <1>2, TypeFacts
<1>4. /\ x \in Object /\ x.id = obj[o].id /\ x.parts = obj[o].parts
      /\ x.readable = obj[o].readable
  BY <1>3, ObjectUpdate
<1>. HIDE DEF x, o
<1>5. /\ obj' \in Seq(Object) /\ Len(obj') = Len(obj)
      /\ \A p \in 1 .. Len(obj) : /\ obj'[p].id = obj[p].id /\ obj'[p].parts = obj[p].parts
                                  /\ obj'[p].readable = obj[p].readable
  <2>1. /\ [obj EXCEPT ![o] = x] \in Seq(Object) /\ Len([obj EXCEPT ![o] = x]) = Len(obj)
        /\ [obj EXCEPT ![o] = x][o] = x
        /\ \A i \in 1 .. Len(obj) : i # o => [obj EXCEPT ![o] = x][i] = obj[i]
    BY <1>3, <1>4, UpdateFacts
  <2>. QED
    BY <1>1, <1>4, <2>1
<1>6. TypeOK'
  <2>1. \A u \in Uploads : up[u] \in {"created", "receiving", "written", "complete"} =>
          upObj[u] # NoObject /\ obj'[upObj[u]].id = Target[u]
    BY <1>2, <1>5, TypeFacts
  <2>2. /\ \A i \in Ids : buffers[i] # NoObject => obj'[buffers[i]].id = i
        /\ \A d \in Downloads : downObj[d] # NoObject => obj'[downObj[d]].id = Target[d]
    BY <1>2, <1>5, TypeFacts
  <2>3. obj' \in Seq([id : Ids, parts : Nat, readable : Nat,
                      activity : {"never", "recent", "old"}])
    BY <1>5 DEF Object
  <2>. QED
    BY <1>1, <1>2, <1>5, <2>1, <2>2, <2>3 DEF TypeOK
<1>7. Backed' /\ Lengths'
  BY <1>1, <1>5 DEF Inv, Backed, Lengths
<1>8. \A u \in Uploads : up[u] \in {"created", "receiving", "written", "complete"} =>
        obj'[upObj[u]].readable = obj[upObj[u]].readable
  BY <1>2, <1>5, TypeFacts
<1>9. Progress'
  <2>1. ASSUME NEW u \in Uploads PROVE Stored(u)'
    BY <1>1, <1>8 DEF Inv, Progress, Stored
  <2>. QED
    BY <1>1, <2>1 DEF Inv, Progress
<1>10. OnDisk' /\ OneWriter' /\ Prefixes' /\ Listed'
  BY <1>1 DEF Inv, OnDisk, OneWriter, Prefixes, Listed, Running
<1>11. Alone'
  BY <1>1, <1>8 DEF Inv, Alone, Working
<1>. QED
  BY <1>6, <1>7, <1>9, <1>10, <1>11 DEF Inv

\* The timer: an upload whose object leaves the table is exposed.
LEMMA EvictStaleStep ==
  ASSUME Inv, EvictStale
  PROVE  Inv'
<1>. USE StreamAssumption
<1>. DEFINE stale == {id \in Ids : buffers[id] # NoObject /\ obj[buffers[id]].activity # "recent"}
<1>1. /\ evictions < MaxEvictions /\ evictions' = evictions + 1
      /\ buffers' = [id \in Ids |-> IF id \in stale THEN NoObject ELSE buffers[id]]
      /\ exposed' = exposed \cup
                      {id \in stale : \E u \in Uploads : Running(u) /\ upObj[u] = buffers[id]}
      /\ UNCHANGED <<files, file, obj, up, upObj, down, downObj, got, requests, restarts, raced>>
  BY DEF EvictStale
<1>2. stale \subseteq Ids
  OBVIOUS
<1>. HIDE DEF stale
<1>3. /\ exposed \subseteq exposed' /\ exposed' \subseteq Ids
      /\ \A id \in Ids : buffers'[id] = buffers[id] \/ (id \in stale /\ buffers'[id] = NoObject)
      /\ \A id \in stale : \A u \in Uploads : Running(u) /\ upObj[u] = buffers[id] => id \in exposed'
  BY <1>1, <1>2 DEF Inv, TypeOK
<1>4. TypeOK'
  <2>1. evictions' \in 0 .. MaxEvictions
    BY <1>1 DEF Inv, TypeOK
  <2>2. /\ buffers' \in [Ids -> 0 .. Len(obj)]
        /\ \A id \in Ids : buffers'[id] # NoObject => obj[buffers'[id]].id = id
    <3>1. 0 \in 0 .. Len(obj)
      BY DEF Inv, TypeOK
    <3>. QED
      BY <1>1, <3>1 DEF Inv, TypeOK, NoObject
  <2>. QED
    BY <1>1, <1>3, <2>1, <2>2 DEF Inv, TypeOK
<1>5. Backed' /\ Progress' /\ OneWriter' /\ Prefixes'
  <2>1. Backed' /\ OneWriter' /\ Prefixes'
    BY <1>1 DEF Inv, Backed, OneWriter, Prefixes
  <2>2. Progress'
    BY <1>1 DEF Inv, Progress, Stored
  <2>. QED
    BY <2>1, <2>2
<1>6. OnDisk'
  BY <1>1, <1>3 DEF Inv, OnDisk
<1>7. Alone'
  BY <1>1 DEF Inv, Alone, Working
<1>8. Listed'
  <2>1. SUFFICES ASSUME NEW i \in files, i \notin raced \cup exposed'
                 PROVE  /\ \A u \in Uploads : Target[u] = i /\ up[u] = "created" => buffers'[i] = NoObject
                        /\ \A u \in Uploads : Target[u] = i /\ Running(u) => buffers'[i] = upObj[u]
                        /\ \/ \E u \in Uploads : Target[u] = i /\ (up[u] = "created" \/ Running(u))
                           \/ Len(file[i]) = Parts
    BY <1>1 DEF Listed, Running
  <2>2. i \in Ids /\ i \notin raced \cup exposed
    BY <1>3, <2>1 DEF Inv, TypeOK
  <2>. QED
    BY <1>3, <2>1, <2>2 DEF Inv, Listed
<1>9. Lengths'
  BY <1>1, <1>3 DEF Inv, Lengths
<1>. QED
  BY <1>4, <1>5, <1>6, <1>7, <1>8, <1>9 DEF Inv

\* A restart forgets the objects and exposes the files it cuts short.
LEMMA RestartStep ==
  ASSUME Inv, Restart
  PROVE  Inv'
<1>. USE StreamAssumption
<1>. DEFINE broken == {u \in Uploads : up[u] \in {"created", "receiving", "written"}}
            ended == {u \in Uploads : up[u] \in {"probed", "complete"}} \cup broken
<1>1. /\ restarts < MaxRestarts /\ restarts' = restarts + 1
      /\ buffers' = [id \in Ids |-> NoObject] /\ obj' = <<>>
      /\ up' = [u \in Uploads |-> IF u \in ended THEN "cut" ELSE up[u]]
      /\ upObj' = [u \in Uploads |-> NoObject]
      /\ down' = [d \in Downloads |-> IF down[d] = "sending" THEN "cut" ELSE down[d]]
      /\ downObj' = [d \in Downloads |-> NoObject]
      /\ exposed' = exposed \cup {Target[u] : u \in broken}
      /\ UNCHANGED <<files, file, got, requests, evictions, raced>>
  BY DEF Restart
<1>2. /\ \A u \in Uploads : upObj'[u] = NoObject /\ up'[u] \in {"none", "refused", "done", "cut"}
      /\ \A u \in Uploads : up'[u] = up[u] \/ up'[u] = "cut"
      /\ \A u \in Uploads : up[u] = "done" => up'[u] = "done"
  BY <1>1 DEF Inv, TypeOK
<1>3. /\ exposed \subseteq exposed' /\ exposed' \subseteq Ids
      /\ \A u \in Uploads : up[u] = "created" \/ Running(u) => Target[u] \in exposed'
  BY <1>1 DEF Inv, TypeOK, Running
<1>4. /\ \A d \in Downloads : downObj'[d] = NoObject
      /\ \A d \in Downloads : down'[d] = "done" => down[d] = "done"
      /\ \A i \in Ids : buffers'[i] = NoObject
      /\ Len(obj') = 0
  BY <1>1
<1>5. TypeOK'
  <2>1. restarts' \in 0 .. MaxRestarts
    BY <1>1 DEF Inv, TypeOK
  <2>2. obj' \in Seq([id : Ids, parts : Nat, readable : Nat,
                      activity : {"never", "recent", "old"}])
    BY <1>1
  <2>3. /\ buffers' \in [Ids -> 0 .. Len(obj')] /\ upObj' \in [Uploads -> 0 .. Len(obj')]
        /\ downObj' \in [Downloads -> 0 .. Len(obj')]
    BY <1>1, <1>4 DEF NoObject
  <2>4. /\ up' \in [Uploads -> {"none", "refused", "probed", "created", "receiving",
                                "written", "complete", "done", "cut"}]
        /\ down' \in [Downloads -> {"none", "sending", "done", "cut"}]
    BY <1>1 DEF Inv, TypeOK
  <2>. QED
    BY <1>1, <1>2, <1>3, <1>4, <2>1, <2>2, <2>3, <2>4 DEF Inv, TypeOK
<1>6. Backed' /\ OneWriter' /\ Prefixes'
  <2>1. Backed'
    BY <1>4 DEF Backed
  <2>2. OneWriter' /\ Prefixes'
    BY <1>1 DEF Inv, OneWriter, Prefixes
  <2>. QED
    BY <2>1, <2>2
<1>7. Progress'
  <2>1. ASSUME NEW u \in Uploads PROVE Stored(u)'
    BY <1>1, <1>2 DEF Inv, Progress, Stored
  <2>. QED
    BY <1>2, <2>1 DEF Progress
<1>8. OnDisk'
  <2>1. requests \subseteq Uploads
    BY DEF Inv, TypeOK
  <2>. QED
    BY <1>1, <1>2, <1>4, <2>1 DEF Inv, OnDisk
<1>9. Alone'
  <2>1. \A u \in Uploads : ~ Working(u)' /\ up'[u] # "probed"
    BY <1>2 DEF Working
  <2>. QED
    BY <1>1, <2>1 DEF Inv, Alone
<1>10. Listed'
  BY <1>1, <1>2, <1>3 DEF Inv, Listed, Running
<1>11. Lengths'
  BY <1>1, <1>3, <1>4 DEF Inv, Lengths
<1>. QED
  BY <1>5, <1>6, <1>7, <1>8, <1>9, <1>10, <1>11 DEF Inv

LEMMA StreamInit == Init => Inv
<1>. USE StreamAssumption
<1>1. SUFFICES ASSUME Init PROVE Inv
  OBVIOUS
<1>2. /\ files = {} /\ file = [id \in Ids |-> <<>>] /\ buffers = [id \in Ids |-> NoObject]
      /\ obj = <<>> /\ up = [u \in Uploads |-> "none"] /\ upObj = [u \in Uploads |-> NoObject]
      /\ down = [d \in Downloads |-> "none"] /\ downObj = [d \in Downloads |-> NoObject]
      /\ got = [d \in Downloads |-> <<>>] /\ requests = {} /\ evictions = 0 /\ restarts = 0
      /\ raced = {} /\ exposed = {}
  BY <1>1 DEF Init
<1>3. /\ Len(obj) = 0 /\ \A id \in Ids : file[id] = <<>> /\ Len(file[id]) = 0
      /\ \A d \in Downloads : Target[d] \in Ids /\ Len(got[d]) = 0
  BY <1>2
<1>4. TypeOK
  <2>1. obj \in Seq([id : Ids, parts : Nat, readable : Nat,
                     activity : {"never", "recent", "old"}])
    BY <1>2
  <2>2. file \in [Ids -> Seq(Items)] /\ got \in [Downloads -> Seq(Items)]
    BY <1>2
  <2>. QED
    BY <1>2, <1>3, <2>1, <2>2 DEF TypeOK, NoObject
<1>5. Backed /\ OneWriter
  BY <1>3 DEF Backed, OneWriter
<1>6. Progress
  <2>1. ASSUME NEW u \in Uploads PROVE Stored(u)
    BY <1>2, <1>3, HasNone DEF Stored
  <2>. QED
    BY <1>2, <2>1 DEF Progress
<1>7. OnDisk
  BY <1>2, <1>3 DEF OnDisk
<1>8. Alone /\ Listed
  BY <1>2, <1>3 DEF Alone, Listed, Working, Running
<1>9. Lengths /\ Prefixes
  BY <1>2, <1>3 DEF Lengths, Prefixes
<1>. QED
  BY <1>4, <1>5, <1>6, <1>7, <1>8, <1>9 DEF Inv

LEMMA StreamStutter == Inv /\ UNCHANGED vars => Inv'
<1>1. SUFFICES ASSUME Inv, UNCHANGED vars PROVE Inv'
  OBVIOUS
<1>2. UNCHANGED <<files, file, buffers, obj, up, upObj, down, downObj, got, requests,
                  evictions, restarts, raced, exposed>>
  BY <1>1 DEF vars
<1>3. TypeOK'
  BY <1>1, <1>2 DEF Inv, TypeOK
<1>4. Progress'
  BY <1>1, <1>2 DEF Inv, Progress, Stored
<1>5. Backed' /\ OnDisk' /\ Alone' /\ OneWriter'
  BY <1>1, <1>2 DEF Inv, Backed, OnDisk, Alone, OneWriter, Working
<1>6. Listed' /\ Lengths' /\ Prefixes'
  BY <1>1, <1>2 DEF Inv, Listed, Lengths, Prefixes, Running
<1>. QED
  BY <1>1, <1>3, <1>4, <1>5, <1>6 DEF Inv

LEMMA StreamNext == Inv /\ [Next]_vars => Inv'
<1>. SUFFICES ASSUME Inv, [Next]_vars PROVE Inv'
  OBVIOUS
<1>1. CASE UNCHANGED vars
  BY <1>1, StreamStutter
<1>2. ASSUME NEW u \in Uploads, Probe(u) \/ WritePart(u) \/ Interrupt(u) \/ UploadStep(u)
      PROVE  Inv'
  BY <1>2, ProbeStep, WritePartStep, InterruptStep, CreateFileStep, AddStreamBufferStep,
     MakeReadableStep, StreamReceivedStep DEF UploadStep
<1>3. ASSUME NEW d \in Downloads, CreateSender(d) \/ PreparePacket(d) PROVE Inv'
  BY <1>3, CreateSenderStep, PreparePacketStep
<1>4. ASSUME NEW id \in Ids, GrowOld(id) PROVE Inv'
  BY <1>4, GrowOldStep
<1>5. CASE EvictStale \/ Restart
  BY <1>5, EvictStaleStep, RestartStep
<1>. QED
  BY <1>1, <1>2, <1>3, <1>4, <1>5 DEF Next

LEMMA StreamInvariant == Spec => []Inv
BY StreamInit, StreamNext, PTL DEF Spec

-----------------------------------------------------------------------------
\* Files, objects, the table m_buffers and the senders always have their types,
\* and every object the table or a sender leads to exists and is of its id.
THEOREM StreamTypeCorrect == Spec => []TypeOK
<1>1. Inv => TypeOK
  BY DEF Inv
<1>. QED
  BY StreamInvariant, <1>1, PTL

\* StreamBuffer::write raises m_bytesReadable only after FileBuffer::write has
\* flushed the part, and open() takes the length the file has: no object offers
\* what is not in its file.
THEOREM StreamBacked == Spec => []Backed
<1>1. Inv => Backed
  BY DEF Inv
<1>. QED
  BY StreamInvariant, <1>1, PTL

\* FileBuffer::init refuses an existing file, so that all parts of a file are of
\* one upload unless two of them probed it together.
THEOREM StreamOneWriter == Spec => []OneWriter
<1>1. Inv => OneWriter
  BY DEF Inv
<1>. QED
  BY StreamInvariant, <1>1, PTL

\* The Dispatch request the receiver's callback stores is about a file that has
\* every part, whatever evictions and restarts came before and after.
THEOREM StreamNotifiedIsStored == Spec => []NotifiedIsStored
<1>1. Inv => NotifiedIsStored
  <2>. SUFFICES ASSUME Inv, NEW u \in requests, NEW k \in 1 .. Parts
                PROVE  \E i \in 1 .. Len(file[Target[u]]) : file[Target[u]][i] = <<u, k>>
    BY DEF NotifiedIsStored
  <2>1. u \in Uploads /\ up[u] = "done"
    BY DEF Inv, TypeOK, OnDisk
  <2>2. Has(file[Target[u]], u, Parts)
    BY <2>1 DEF Inv, Progress, Stored
  <2>. QED
    BY <2>2 DEF Has
<1>. QED
  BY StreamInvariant, <1>1, PTL

\* A download that StreamBufferSender takes for complete has the whole resource,
\* in order, unless two uploads raced for the file or it was or could be opened
\* while its upload was unfinished and not in m_buffers.
THEOREM StreamWholeDownloads == Spec => []WholeDownloads
<1>1. Inv => WholeDownloads
  <2>. SUFFICES ASSUME Inv, NEW d \in Downloads, down[d] = "done",
                       Target[d] \notin raced \cup exposed
                PROVE  \E u \in Uploads : got[d] = Whole(u)
    BY DEF WholeDownloads
  <2>. DEFINE f == file[Target[d]]
  <2>1. /\ Len(got[d]) = Parts /\ Parts \in Nat /\ Parts >= 1 /\ Target[d] \in Ids
        /\ got[d] \in Seq(Items) /\ f \in Seq(Items) /\ Len(f) \in Nat /\ Parts <= Len(f)
        /\ \A i \in 1 .. Parts : got[d][i] = f[i]
    BY StreamAssumption, TypeFacts DEF Inv, TypeOK, Lengths, Prefixes
  <2>2. PICK u \in Uploads : u = f[1][1]
    <3>1. f[1] \in Items
      BY <2>1
    <3>. QED
      BY <3>1 DEF Items
  <2>3. ASSUME NEW i \in 1 .. Parts PROVE got[d][i] = <<u, i>>
    <3>1. i \in 1 .. Len(f) /\ 1 \in 1 .. Len(f)
      BY <2>1
    <3>2. f[i] \in Items /\ f[i][1] = f[1][1] /\ f[i][2] = i
      BY <2>1, <3>1 DEF Inv, OneWriter, Alone
    <3>3. f[i] = <<f[i][1], f[i][2]>>
      BY <3>2 DEF Items
    <3>. QED
      BY <2>1, <2>2, <3>2, <3>3
  <2>4. got[d] = [i \in 1 .. Parts |-> got[d][i]]
    BY <2>1
  <2>. QED
    BY <2>2, <2>3, <2>4 DEF Whole
<1>. QED
  BY StreamInvariant, <1>1, PTL

\* StreamBuffers implements StreamStore: FileBuffer::write appends the next part
\* of its upload, preparePacket hands out the next part of the file, and nothing
\* else, evictions and restarts included, touches what is stored or was sent.
THEOREM StreamImplementsStore == Spec => Streams
<1>1. Init => Store!Init
  BY DEF Init, Store!Init
<1>2. Inv /\ [Next]_vars => [Store!Next]_<<file, got>>
  <2>. SUFFICES ASSUME Inv, [Next]_vars PROVE Store!Next \/ UNCHANGED <<file, got>>
    OBVIOUS
  <2>1. ASSUME NEW u \in Uploads, WritePart(u) PROVE Store!Store(u)
    <3>. DEFINE r == obj[upObj[u]].readable
    <3>1. /\ up[u] = "receiving" /\ got' = got
          /\ file' = [file EXCEPT ![Target[u]] = Append(file[Target[u]], <<u, r + 1>>)]
      BY <2>1 DEF WritePart
    <3>2. Has(file[Target[u]], u, r) /\ r < Parts
      BY <3>1 DEF Inv, Progress, Stored
    <3>3. Store!Cardinality(Store!PartsOf(u)) = r
      <4>1. Store!PartsOf(u) = PartsIn(file[Target[u]], u)
        BY DEF PartsIn, Store!PartsOf
      <4>2. Store!Cardinality(PartsIn(file[Target[u]], u)) = Cardinality(PartsIn(file[Target[u]], u))
        BY DEF Cardinality, Store!Cardinality
      <4>. QED
        BY <3>2, <4>1, <4>2 DEF Has
    <3>4. r \in Nat /\ Parts \in Nat
      BY <3>1, TypeFacts, StreamAssumption DEF Inv, Object
    <3>. HIDE DEF r
    <3>5. r + 1 <= Parts
      BY <3>2, <3>4
    <3>. DEFINE k == Store!Cardinality(Store!PartsOf(u)) + 1
    <3>6. k = r + 1
      BY <3>3
    <3>7. /\ k <= Parts /\ got' = got
          /\ file' = [file EXCEPT ![Target[u]] = Append(file[Target[u]], <<u, k>>)]
      BY <3>1, <3>5, <3>6
    <3>. QED
      BY <3>7 DEF Store!Store
  <2>2. ASSUME NEW d \in Downloads, PreparePacket(d)
        PROVE  Store!Hand(d) \/ UNCHANGED <<file, got>>
    <3>1. /\ Taken(d) /\ file' = file /\ \A e \in Downloads \ {d} : got'[e] = got[e]
          /\ got \in [Downloads -> Seq(Items)] /\ got' \in [Downloads -> Seq(Items)]
      BY <2>2, PreparePacketStep DEF Inv, TypeOK
    <3>2. got' = [got EXCEPT ![d] = got'[d]]
      BY <3>1
    <3>. QED
      BY <3>1, <3>2 DEF Taken, Store!Hand
  <2>3. ASSUME NEW u \in Uploads, Probe(u) \/ Interrupt(u) \/ UploadStep(u)
        PROVE  UNCHANGED <<file, got>>
    BY <2>3 DEF Probe, Interrupt, UploadStep, CreateFile, AddStreamBuffer, MakeReadable,
                StreamReceived
  <2>4. ASSUME NEW d \in Downloads, CreateSender(d) PROVE UNCHANGED <<file, got>>
    BY <2>4 DEF CreateSender
  <2>5. CASE EvictStale \/ Restart \/ (\E id \in Ids : GrowOld(id)) \/ UNCHANGED vars
    BY <2>5 DEF EvictStale, Restart, GrowOld, vars
  <2>. QED
    BY <2>1, <2>2, <2>3, <2>4, <2>5 DEF Next, Store!Next
<1>. QED
  BY <1>1, <1>2, StreamInvariant, PTL DEF Spec, Streams, Store!Spec
=============================================================================
